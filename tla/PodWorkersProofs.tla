-------------------------- MODULE PodWorkersProofs --------------------------
(***************************************************************************)
(* Theorems about PodWorkers, for every set of pods, every stream of       *)
(* UpdatePod requests and every outcome of the sync functions.             *)
(***************************************************************************)
EXTENDS PodWorkers, TLAPS, SequenceTheorems, WellFoundedInduction

(***************************************************************************)
(* Lemmas about the operators                                              *)
(***************************************************************************)

\* The position allowStaticPodStart looks for is a position of the line, or 0.
LEMMA NextInLineInRange ==
  ASSUME NEW n \in Names, waitingStatic \in [Names -> Seq(UIDs)]
  PROVE  NextInLine(n) \in 0..Len(waitingStatic[n])
<1> DEFINE I == {i \in 1..Len(waitingStatic[n]) : StillWaiting(waitingStatic[n][i])}
<1>1. Len(waitingStatic[n]) \in Nat
  BY LenProperties
<1>2. ASSUME I # {} PROVE Min(I) \in I
  <2> DEFINE R == OpToRel(<, Nat)
  <2>1. I \subseteq Nat
    BY <1>1
  <2>2. IsWellFoundedOn(R, Nat)
    BY NatLessThanWellFounded
  <2>3. \A a \in Nat, b \in Nat : a < b => <<a, b>> \in R
    BY DEF OpToRel
  <2> HIDE DEF R, I
  <2>4. PICK x \in I : \A y \in I : <<y, x>> \notin R
    BY <1>2, <2>1, <2>2, WFMin
  <2>5. \A y \in I : x <= y
    <3>1. ASSUME NEW y \in I PROVE x \in Nat /\ y \in Nat /\ ~(y < x)
      BY <2>1, <2>3, <2>4
    <3>2. QED
      BY <3>1
  <2>6. QED
    BY <2>5 DEF Min
<1>3. NextInLine(n) = IF I # {} THEN Min(I) ELSE 0
  BY DEF NextInLine, SelectInSeq
<1>4. QED
  BY <1>1, <1>2, <1>3

\* Dropping the front of the line leaves a line.
LEMMA StaticLineIsLine ==
  ASSUME NEW u \in UIDs, waitingStatic \in [Names -> Seq(UIDs)]
  PROVE  StaticLineAfter(u) \in [Names -> Seq(UIDs)]
<1> DEFINE n == FullNameOf[u]
           i == NextInLine(n)
           m == IF MayStartStatic(u) THEN i + 1 ELSE i
<1>1. n \in Names
  BY PodWorkersAssumption
<1>2. i \in 0..Len(waitingStatic[n]) /\ Len(waitingStatic[n]) \in Nat
  BY <1>1, NextInLineInRange, LenProperties
<1>3. ASSUME i # 0
      PROVE  SubSeq(waitingStatic[n], m, Len(waitingStatic[n])) \in Seq(UIDs)
  <2>1. \A k \in m..Len(waitingStatic[n]) : waitingStatic[n][k] \in UIDs
    BY <1>1, <1>2, <1>3, ElementOfSeq
  <2>2. QED
    BY <1>2, <2>1, SubSeqProperties
<1>4. QED
  BY <1>1, <1>3 DEF StaticLineAfter

\* The grace period is decided once it has been computed: it is never below one.
LEMMA EffectiveGraceIsPositive ==
  ASSUME NEW current \in Grace, NEW deletion \in Grace, NEW override \in Grace,
         NEW spec \in Grace
  PROVE  /\ EffectiveGrace(current, deletion, override, spec) \in Grace
         /\ EffectiveGrace(current, deletion, override, spec) >= 1
BY DEF EffectiveGrace, Lowered, Grace, Unset

LEMMA StatusForType ==
  ASSUME NEW u \in UIDs, NEW r \in Requests[u], NEW cacheTerminal \in BOOLEAN,
         podSyncStatuses \in [UIDs -> PodSyncStatus]
  PROVE  StatusFor(u, r, cacheTerminal) \in PodSyncStatus
<1>1. 0 \in Grace
  BY DEF Grace
<1>2. QED
  BY <1>1 DEF StatusFor, PodSyncStatus, Unknown

LEMMA RequestedType ==
  ASSUME NEW s \in PodSyncStatus, NEW r \in Request
  PROVE  Requested(s, r) \in PodSyncStatus
<1>1. \A d, e \in BOOLEAN :
         [s EXCEPT !.terminating = TRUE, !.deleted = d, !.evicted = e]
           \in PodSyncStatus
  BY DEF PodSyncStatus
<1>2. s.deleted \in BOOLEAN /\ s.evicted \in BOOLEAN
  BY DEF PodSyncStatus
<1>3. QED
  BY <1>1, <1>2 DEF Requested

LEMMA CloseType ==
  ASSUME NEW chs,
         completedCh \in [CompletedChs -> {"unused", "open", "closed", "panic"}]
  PROVE  Close(chs) \in [CompletedChs -> {"unused", "open", "closed", "panic"}]
BY DEF Close

\* Overwriting one value of a function keeps its type.
LEMMA ExceptType ==
  ASSUME NEW S, NEW T, NEW f \in [S -> T], NEW x, NEW v \in T
  PROVE  [f EXCEPT ![x] = v] \in [S -> T]
OBVIOUS

\* The records the steps leave in podSyncStatuses and in worker, field by field.
LEMMA TerminatedType ==
  ASSUME NEW s \in PodSyncStatus
  PROVE  [s EXCEPT !.terminated = TRUE] \in PodSyncStatus
BY DEF PodSyncStatus

LEMMA StoppedType ==
  ASSUME NEW s \in PodSyncStatus
  PROVE  Stopped(s) \in PodSyncStatus
<1>1. {} \in SUBSET CompletedChs
  OBVIOUS
<1>2. QED
  BY <1>1 DEF PodSyncStatus, Stopped

LEMMA TerminatingType ==
  ASSUME NEW s \in PodSyncStatus
  PROVE  [s EXCEPT !.terminating = TRUE, !.startedTerminating = TRUE]
           \in PodSyncStatus
BY DEF PodSyncStatus

LEMMA NoWorkerType == \A pc \in Pcs : [NoWorker EXCEPT !.pc = pc] \in Worker
BY DEF NoWorker, Worker

LEMMA WorkerMoveType ==
  ASSUME NEW w \in Worker, NEW pc \in Pcs, NEW work \in Work
  PROVE  [w EXCEPT !.update = work, !.pc = pc] \in Worker
BY DEF Worker

LEMMA WorkerStartType ==
  ASSUME NEW w \in Worker, NEW pc \in Pcs
  PROVE  [w EXCEPT !.started = TRUE, !.pc = pc] \in Worker
BY DEF Worker

\* Every kind of work a worker can be handed is work.
LEMMA WorkTypeIsType ==
  ASSUME NEW s
  PROVE  WorkType(s) \in {"sync", "terminating", "terminated"}
BY DEF WorkType

(***************************************************************************)
(* Type correctness                                                        *)
(***************************************************************************)

LEMMA InitType == Init => TypeOK
<1>1. Unknown \in PodSyncStatus
  BY DEF Unknown, PodSyncStatus, Grace
<1>2. NoChan \in Channel
  BY EmptySeq DEF NoChan, Channel
<1>3. <<>> \in Seq(UIDs)
  BY EmptySeq
<1>4. NoWorker \in Worker
  BY DEF NoWorker, Worker, Pcs
<1>5. SUFFICES ASSUME Init PROVE TypeOK
  OBVIOUS
<1>6. /\ podSyncStatuses \in [UIDs -> PodSyncStatus]
      /\ podUpdates \in [UIDs -> Channel]
      /\ worker \in [UIDs -> Worker]
      /\ waitingStatic \in [Names -> Seq(UIDs)]
  BY <1>1, <1>2, <1>3, <1>4, <1>5 DEF Init
<1>7. QED
  BY <1>5, <1>6 DEF Init, TypeOK

LEMMA UpdatePodType ==
  ASSUME TypeOK, NEW u \in UIDs, NEW r \in Requests[u],
         NEW cacheTerminal \in BOOLEAN, UpdatePod(u, r, cacheTerminal)
  PROVE  TypeOK'
<1> DEFINE s == StatusFor(u, r, cacheTerminal)
<1>1. r \in Request /\ SpecGrace[u] \in Grace /\ FullNameOf[u] \in Names
  BY PodWorkersAssumption
<1>2. s \in PodSyncStatus
  BY StatusForType DEF TypeOK
<1>3. /\ version' \in [UIDs -> Nat]
      /\ podsSynced' \in BOOLEAN
      /\ startedStatic' \in [Names -> UIDs \union {NoUID}]
      /\ workQueue' \subseteq UIDs
  BY DEF UpdatePod, TypeOK
<1>4. CASE IgnoreUpdate(u, r, s)
  <2>1. podSyncStatuses' \in [UIDs -> PodSyncStatus]
    <3>1. [s EXCEPT !.restartRequested = TRUE] \in PodSyncStatus
      BY <1>2 DEF PodSyncStatus
    <3> HIDE DEF s
    <3>2. QED
      BY <1>2, <1>4, <3>1 DEF IgnoreUpdate, TypeOK
  <2>2. completedCh' \in [CompletedChs -> {"unused", "open", "closed", "panic"}]
    BY <1>1, <1>4 DEF IgnoreUpdate, TypeOK, Request
  <2>3. QED
    BY <1>3, <1>4, <2>1, <2>2 DEF IgnoreUpdate, TypeOK
<1>5. CASE AcceptUpdate(u, r, s)
  <2> DEFINE q == Requested(s, r)
             type == WorkType(q)
             g == IF type # "terminating" THEN q.grace
                  ELSE EffectiveGrace(q.grace, r.deletion, r.override, SpecGrace[u])
             work == [type |-> type, runtime |-> r.runtime,
                      version |-> version'[u],
                      grace |-> IF type = "terminating" THEN g ELSE 0]
             chs == IF r.ch = NoCh THEN {} ELSE {r.ch}
  <2>1. q \in PodSyncStatus
    BY <1>1, <1>2, RequestedType
  <2>2. type \in {"sync", "terminating", "terminated"}
    BY WorkTypeIsType
  <2> HIDE DEF s, q, type
  <2>3. g \in Grace
    <3>1. q.grace \in Grace /\ r.deletion \in Grace /\ r.override \in Grace
      BY <1>1, <2>1 DEF PodSyncStatus, Request
    <3>2. QED
      BY <1>1, <3>1, EffectiveGraceIsPositive
  <2> HIDE DEF g
  <2>4. work \in Work
    <3>1. version'[u] \in Nat /\ r.runtime \in BOOLEAN /\ 0 \in Grace
      BY <1>1, <1>3 DEF Request, Grace
    <3>2. QED
      BY <2>2, <2>3, <3>1 DEF Work
  <2> HIDE DEF work
  <2>5. chs \subseteq CompletedChs
    BY <1>1 DEF Request
  <2> HIDE DEF chs
  <2>6. podSyncStatuses' \in [UIDs -> PodSyncStatus]
    <3>1. PICK t \in {"none", "live", "canceled"}, N \in SUBSET CompletedChs :
            podSyncStatuses' = [podSyncStatuses EXCEPT ![u] =
              [q EXCEPT !.working = TRUE, !.grace = g, !.notify = N, !.ctx = t]]
      BY <1>5, <2>1, <2>5
      DEF AcceptUpdate, IsWorking, PodSyncStatus, q, g, type, chs
    <3>2. [q EXCEPT !.working = TRUE, !.grace = g, !.notify = N, !.ctx = t]
            \in PodSyncStatus
      BY <2>1, <2>3 DEF PodSyncStatus
    <3>3. QED
      BY <3>1, <3>2 DEF TypeOK
  <2>7. completedCh' \in [CompletedChs -> {"unused", "open", "closed", "panic"}]
    <3>1. completedCh' = Close(chs)
            \/ completedCh' = [c \in CompletedChs |->
                                 IF c \in chs THEN "open" ELSE completedCh[c]]
      BY <1>5 DEF AcceptUpdate, IsWorking, chs
    <3>2. Close(chs) \in [CompletedChs -> {"unused", "open", "closed", "panic"}]
      BY CloseType DEF TypeOK
    <3>3. QED
      BY <3>1, <3>2 DEF TypeOK
  <2>8. /\ lastUndelivered' \in [UIDs -> Work \union {NoWork}]
        /\ podUpdates' \in [UIDs -> Channel]
    <3>1. \/ /\ lastUndelivered' = [lastUndelivered EXCEPT ![u] = work]
             /\ UNCHANGED podUpdates
          \/ /\ podUpdates' = [podUpdates EXCEPT ![u] =
                  [open |-> TRUE, buf |-> Append(podUpdates[u].buf, work)]]
             /\ UNCHANGED lastUndelivered
      BY <1>5 DEF AcceptUpdate, IsWorking, work, g, type, q
    <3>2. [open |-> TRUE, buf |-> Append(podUpdates[u].buf, work)]
            \in Channel
      BY <2>4, AppendProperties DEF TypeOK, Channel
    <3>3. /\ podUpdates \in [UIDs -> Channel]
          /\ lastUndelivered \in [UIDs -> Work \union {NoWork}]
      BY DEF TypeOK
    <3>4. /\ [lastUndelivered EXCEPT ![u] = work]
               \in [UIDs -> Work \union {NoWork}]
          /\ [podUpdates EXCEPT ![u] =
                 [open |-> TRUE, buf |-> Append(podUpdates[u].buf, work)]]
               \in [UIDs -> Channel]
      BY <2>4, <3>2, <3>3, ExceptType
    <3>5. QED
      BY <3>1, <3>3, <3>4
  <2>9. /\ worker' = worker
           \/ worker' = [worker EXCEPT ![u] = [NoWorker EXCEPT !.pc = "receive"]]
        /\ cache' = cache
           \/ cache' = [cache EXCEPT ![u] = IF @ = "old" THEN "new" ELSE @]
        /\ waitingStatic' = waitingStatic
           \/ waitingStatic' = [waitingStatic EXCEPT ![FullNameOf[u]] = Append(@, u)]
    BY <1>5 DEF AcceptUpdate, IsWorking
  <2>10. waitingStatic' \in [Names -> Seq(UIDs)]
    <3>1. Append(waitingStatic[FullNameOf[u]], u) \in Seq(UIDs)
      BY <1>1, AppendProperties DEF TypeOK
    <3>2. waitingStatic \in [Names -> Seq(UIDs)]
      BY DEF TypeOK
    <3>3. [waitingStatic EXCEPT
             ![FullNameOf[u]] = Append(waitingStatic[FullNameOf[u]], u)]
            \in [Names -> Seq(UIDs)]
      BY <3>1, <3>2, ExceptType
    <3>4. QED
      BY <2>9, <3>2, <3>3
  <2>11. QED
    <3>1. [NoWorker EXCEPT !.pc = "receive"] \in Worker
      BY NoWorkerType DEF Pcs
    <3>2. worker' \in [UIDs -> Worker]
      <4>1. worker \in [UIDs -> Worker]
        BY DEF TypeOK
      <4>2. [worker EXCEPT ![u] = [NoWorker EXCEPT !.pc = "receive"]]
              \in [UIDs -> Worker]
        BY <3>1, <4>1, ExceptType
      <4>3. QED
        BY <2>9, <4>1, <4>2
    <3>3. cache' \in [UIDs -> {"absent", "old", "new"}]
      BY <2>9 DEF TypeOK
    <3>4. QED
      BY <1>3, <2>6, <2>7, <2>8, <2>10, <3>2, <3>3 DEF TypeOK
<1>6. QED
  BY <1>4, <1>5 DEF UpdatePod

LEMMA GotoType ==
  ASSUME NEW u \in UIDs, NEW pc \in Pcs, worker \in [UIDs -> Worker], Goto(u, pc)
  PROVE  worker' \in [UIDs -> Worker]
<1>1. [worker[u] EXCEPT !.pc = pc] \in Worker
  BY DEF Worker
<1>2. worker' = [worker EXCEPT ![u] = [worker[u] EXCEPT !.pc = pc]]
  BY DEF Goto
<1>3. QED
  BY <1>1, <1>2

LEMMA GotoMoves ==
  ASSUME NEW u \in UIDs, NEW pc, worker \in [UIDs -> Worker], Goto(u, pc)
  PROVE  /\ worker'[u].pc = pc
         /\ worker'[u].started = worker[u].started
         /\ worker'[u].update = worker[u].update
BY DEF Goto, Worker

LEMMA IdleType ==
  ASSUME NEW s \in PodSyncStatus
  PROVE  [s EXCEPT !.working = FALSE] \in PodSyncStatus
BY DEF PodSyncStatus

LEMMA BeginType ==
  ASSUME NEW w
  PROVE  Begin(w) \in {"context", "await"}
BY DEF Begin

LEMMA CleanUpType ==
  ASSUME NEW S, TypeOK, CleanUp(S)
  PROVE  /\ podUpdates' \in [UIDs -> Channel]
         /\ lastUndelivered' \in [UIDs -> Work \union {NoWork}]
         /\ startedStatic' \in [Names -> UIDs \union {NoUID}]
<1>1. NoChan \in Channel
  BY EmptySeq DEF NoChan, Channel
<1>2. QED
  BY <1>1 DEF CleanUp, TypeOK

LEMMA FinishType ==
  ASSUME TypeOK, NEW u \in UIDs, NEW s \in PodSyncStatus, Finish(u, s)
  PROVE  TypeOK'
<1>1. NoWorker \in Worker
  BY DEF NoWorker, Worker, Pcs
<1>2. [s EXCEPT !.finished = TRUE, !.working = FALSE] \in PodSyncStatus
  BY DEF PodSyncStatus
<1>3. /\ podSyncStatuses' \in [UIDs -> PodSyncStatus]
      /\ worker' \in [UIDs -> Worker]
  BY <1>1, <1>2 DEF Finish, TypeOK
<1>4. QED
  BY <1>3, CleanUpType DEF Finish, TypeOK

LEMMA ReceiveType ==
  ASSUME TypeOK, NEW u \in UIDs, Receive(u)
  PROVE  TypeOK'
<1> DEFINE c == podUpdates[u]
           w == Head(c.buf)
           pc == IF worker[u].started THEN Begin(w) ELSE "insert"
<1>1. c \in Channel /\ c.buf \in Seq(Work) /\ c.buf # <<>>
  BY DEF Receive, TypeOK, Channel
<1>2. w \in Work /\ Tail(c.buf) \in Seq(Work)
  BY <1>1, HeadTailProperties
<1> HIDE DEF w
<1>3. [c EXCEPT !.buf = Tail(c.buf)] \in Channel
  BY <1>1, <1>2 DEF Channel
<1>4. [worker[u] EXCEPT !.update = w, !.pc = pc] \in Worker
  <2>1. pc \in Pcs
    BY BeginType DEF Pcs
  <2>2. worker[u] \in Worker
    BY DEF TypeOK
  <2> HIDE DEF pc
  <2>3. QED
    BY <1>2, <2>1, <2>2, WorkerMoveType
<1>5. /\ podUpdates' \in [UIDs -> Channel]
      /\ worker' \in [UIDs -> Worker]
  BY <1>3, <1>4 DEF Receive, TypeOK, w
<1>6. QED
  BY <1>5 DEF Receive, TypeOK

LEMMA AllowPodStartType ==
  ASSUME TypeOK, NEW u \in UIDs, AllowPodStart(u)
  PROVE  TypeOK'
<1>1. /\ StaticLineAfter(u) \in [Names -> Seq(UIDs)]
      /\ FullNameOf[u] \in Names
  BY StaticLineIsLine, PodWorkersAssumption DEF TypeOK
<1>2. [worker[u] EXCEPT !.started = TRUE, !.pc = Begin(worker[u].update)]
        \in Worker
  <2>1. worker[u] \in Worker
    BY DEF TypeOK
  <2>2. Begin(worker[u].update) \in Pcs
    BY BeginType DEF Pcs
  <2>3. QED
    BY <2>1, <2>2, WorkerStartType
<1>3. worker' \in [UIDs -> Worker]
  <2>1. CASE worker' = [worker EXCEPT ![u] = [worker[u] EXCEPT
               !.started = TRUE, !.pc = Begin(worker[u].update)]]
    BY <1>2, <2>1 DEF TypeOK
  <2>2. CASE Goto(u, "unstarted") \/ Goto(u, "receive")
    BY <2>2, GotoType DEF TypeOK, Pcs
  <2>3. QED
    BY <2>1, <2>2 DEF AllowPodStart, Idle, Requeue
<1>4. podSyncStatuses' \in [UIDs -> PodSyncStatus]
  <2>1. [podSyncStatuses[u] EXCEPT !.working = FALSE] \in PodSyncStatus
    BY IdleType DEF TypeOK
  <2>2. \/ UNCHANGED podSyncStatuses
        \/ podSyncStatuses' = [podSyncStatuses EXCEPT ![u].working = FALSE]
    BY DEF AllowPodStart, Idle, Requeue
  <2>3. QED
    BY <2>1, <2>2 DEF TypeOK
<1>5. /\ startedStatic' \in [Names -> UIDs \union {NoUID}]
      /\ waitingStatic' \in [Names -> Seq(UIDs)]
      /\ workQueue' \subseteq UIDs
  <2>1. startedStatic' \in {startedStatic, [startedStatic EXCEPT ![FullNameOf[u]] = u]}
    BY DEF AllowPodStart
  <2>2. waitingStatic' \in {waitingStatic, StaticLineAfter(u)}
    BY DEF AllowPodStart
  <2>3. workQueue' \in {workQueue, workQueue \union {u}}
    BY DEF AllowPodStart, Requeue
  <2>4. startedStatic' \in [Names -> UIDs \union {NoUID}]
    BY <1>1, <2>1 DEF TypeOK
  <2>5. waitingStatic' \in [Names -> Seq(UIDs)]
    BY <1>1, <2>2 DEF TypeOK
  <2>6. workQueue' \subseteq UIDs
    BY <2>3 DEF TypeOK
  <2>7. QED
    BY <2>4, <2>5, <2>6
<1>6. QED
  BY <1>3, <1>4, <1>5 DEF AllowPodStart, Idle, Requeue, TypeOK

\* The steps between two lock sections that only move the worker on.
LEMMA LoopStepType ==
  ASSUME TypeOK, NEW u \in UIDs,
         \/ \E found \in BOOLEAN : InsertPodCache(u, found)
         \/ AwaitStatus(u)
         \/ \E result \in Returns(worker[u].update) : SyncReturns(u, result)
  PROVE  TypeOK'
<1>1. PICK pc \in Pcs : Goto(u, pc)
  BY DEF InsertPodCache, AwaitStatus, SyncReturns, After, Pcs
<1>2. worker' \in [UIDs -> Worker]
  BY <1>1, GotoType DEF TypeOK
<1>3. cache' \in [UIDs -> {"absent", "old", "new"}]
  BY DEF TypeOK, InsertPodCache, AwaitStatus, SyncReturns
<1>4. QED
  BY <1>2, <1>3 DEF TypeOK, InsertPodCache, AwaitStatus, SyncReturns

LEMMA ContextType ==
  ASSUME NEW s \in PodSyncStatus
  PROVE  /\ [s EXCEPT !.ctx = "live"] \in PodSyncStatus
         /\ [s EXCEPT !.startedTerminating = IF s.terminating THEN TRUE ELSE @]
              \in PodSyncStatus
<1>1. [s EXCEPT !.ctx = "live"] \in PodSyncStatus
  BY DEF PodSyncStatus
<1>2. [s EXCEPT !.startedTerminating = IF s.terminating THEN TRUE ELSE @]
        \in PodSyncStatus
  BY DEF PodSyncStatus
<1>3. QED
  BY <1>1, <1>2

LEMMA StatusStepType ==
  ASSUME TypeOK, NEW u \in UIDs, ContextForWorker(u) \/ AcknowledgeTerminating(u)
  PROVE  TypeOK'
<1>1. PICK pc \in Pcs : Goto(u, pc)
  BY DEF ContextForWorker, AcknowledgeTerminating, InContext, Acknowledged, Pcs
<1>2. worker' \in [UIDs -> Worker]
  BY <1>1, GotoType DEF TypeOK
<1>3. /\ [podSyncStatuses[u] EXCEPT !.ctx = "live"] \in PodSyncStatus
      /\ [podSyncStatuses[u] EXCEPT !.startedTerminating =
            IF podSyncStatuses[u].terminating THEN TRUE ELSE @] \in PodSyncStatus
  BY ContextType DEF TypeOK
<1>4. podSyncStatuses' \in [UIDs -> PodSyncStatus]
  BY <1>3 DEF TypeOK, ContextForWorker, AcknowledgeTerminating, InContext, Acknowledged
<1>5. QED
  BY <1>2, <1>4 DEF TypeOK, ContextForWorker, AcknowledgeTerminating, InContext, Acknowledged

LEMMA NextPhaseType ==
  ASSUME TypeOK, NEW u \in UIDs, NEW type \in {"terminating", "terminated"},
         NextPhase(u, type)
  PROVE  lastUndelivered' \in [UIDs -> Work \union {NoWork}]
<1>1. worker[u].update.version \in Nat
  <2>1. worker[u].update \in Work \union {NoWork}
    BY DEF TypeOK, Worker
  <2>2. QED
    BY <2>1 DEF Work, NoWork
<1>2. [type |-> type, runtime |-> FALSE, version |-> worker[u].update.version,
       grace |-> 0] \in Work
  BY <1>1 DEF Work, Grace
<1>3. QED
  BY <1>2 DEF NextPhase, TypeOK

LEMMA CompletePhaseType ==
  ASSUME TypeOK, NEW u \in UIDs, CompleteSync(u) \/ CompleteTerminating(u)
  PROVE  TypeOK'
<1>1. Goto(u, "next") /\ "next" \in Pcs
  BY DEF CompleteSync, CompleteTerminating, Pcs
<1>2. worker' \in [UIDs -> Worker]
  BY <1>1, GotoType DEF TypeOK
<1>3. PICK type \in {"terminating", "terminated"} : NextPhase(u, type)
  BY DEF CompleteSync, CompleteTerminating
<1>4. lastUndelivered' \in [UIDs -> Work \union {NoWork}]
  BY <1>3, NextPhaseType
<1>5. /\ [podSyncStatuses[u] EXCEPT !.terminating = TRUE,
                                    !.startedTerminating = TRUE] \in PodSyncStatus
      /\ Stopped(podSyncStatuses[u]) \in PodSyncStatus
  BY TerminatingType, StoppedType DEF TypeOK
<1>6. podSyncStatuses' \in [UIDs -> PodSyncStatus]
  <2>1. CASE CompleteSync(u)
    BY <1>5, <2>1 DEF TypeOK, CompleteSync
  <2>2. CASE CompleteTerminating(u)
    BY <1>5, <2>2 DEF TypeOK, CompleteTerminating
  <2>3. QED
    BY <2>1, <2>2
<1>7. completedCh' \in [CompletedChs -> {"unused", "open", "closed", "panic"}]
  <2>1. CASE CompleteSync(u)
    BY <2>1 DEF TypeOK, CompleteSync
  <2>2. CASE CompleteTerminating(u)
    <3>1. completedCh' = Close(podSyncStatuses[u].notify)
      BY <2>2 DEF CompleteTerminating
    <3>2. QED
      BY <3>1, CloseType DEF TypeOK
  <2>3. QED
    BY <2>1, <2>2
<1>8. UNCHANGED <<podsSynced, podUpdates, startedStatic, waitingStatic,
                  workQueue, cache, version>>
  BY DEF CompleteSync, CompleteTerminating
<1>9. QED
  BY <1>2, <1>4, <1>6, <1>7, <1>8 DEF TypeOK

LEMMA CompleteWorkType ==
  ASSUME TypeOK, NEW u \in UIDs, CompleteWork(u)
  PROVE  TypeOK'
<1> DEFINE w == lastUndelivered[u]
<1>1. worker' \in [UIDs -> Worker]
  BY GotoType DEF CompleteWork, Idle, Requeue, Delivered, TypeOK, Pcs
<1>2. CASE w # NoWork
  <2>1. w \in Work
    BY <1>2 DEF TypeOK
  <2>2. [podUpdates[u] EXCEPT !.buf = Append(podUpdates[u].buf, w)] \in Channel
    <3>1. podUpdates[u].buf \in Seq(Work)
      BY DEF TypeOK, Channel
    <3>2. Append(podUpdates[u].buf, w) \in Seq(Work)
      BY <2>1, <3>1, AppendProperties
    <3>3. podUpdates[u] \in Channel
      BY DEF TypeOK
    <3> HIDE DEF w
    <3>4. QED
      BY <3>2, <3>3 DEF Channel
  <2>3. podUpdates' \in [UIDs -> Channel]
    BY <1>2, <2>2 DEF CompleteWork, Idle, Requeue, Delivered, TypeOK
  <2>4. lastUndelivered' \in [UIDs -> Work \union {NoWork}]
    BY <1>2 DEF CompleteWork, Idle, Requeue, Delivered, TypeOK
  <2>5. workQueue' \subseteq UIDs /\ UNCHANGED podSyncStatuses
    BY <1>2 DEF CompleteWork, Idle, Requeue, Delivered, TypeOK
  <2>6. QED
    BY <1>1, <2>3, <2>4, <2>5 DEF CompleteWork, Idle, Requeue, Delivered, TypeOK
<1>3. CASE w = NoWork
  <2>1. [podSyncStatuses[u] EXCEPT !.working = FALSE] \in PodSyncStatus
    BY IdleType DEF TypeOK
  <2>2. podSyncStatuses' \in [UIDs -> PodSyncStatus]
    BY <1>3, <2>1 DEF CompleteWork, Idle, Requeue, Delivered, TypeOK
  <2>3. QED
    BY <1>1, <1>3, <2>2 DEF CompleteWork, Idle, Requeue, Delivered, TypeOK
<1>4. QED
  BY <1>2, <1>3

LEMMA SyncKnownPodsType ==
  ASSUME TypeOK, NEW desired \in SUBSET UIDs, SyncKnownPods(desired)
  PROVE  TypeOK'
<1>1. Unknown \in PodSyncStatus
  BY DEF Unknown, PodSyncStatus, Grace
<1>2. PICK gone \in SUBSET UIDs :
        /\ podSyncStatuses' =
             [u \in UIDs |-> IF u \in gone THEN Unknown ELSE podSyncStatuses[u]]
        /\ CleanUp(gone)
  BY DEF SyncKnownPods, Forgettable
<1>3. podSyncStatuses' \in [UIDs -> PodSyncStatus]
  BY <1>1, <1>2 DEF TypeOK
<1>4. QED
  BY <1>2, <1>3, CleanUpType DEF SyncKnownPods, Forgettable, TypeOK

LEMMA WorkerStepType ==
  ASSUME TypeOK, NEW u \in UIDs, WorkerStep(u)
  PROVE  TypeOK'
<1>1. /\ podSyncStatuses[u] \in PodSyncStatus
      /\ [podSyncStatuses[u] EXCEPT !.terminated = TRUE] \in PodSyncStatus
  BY TerminatedType DEF TypeOK
<1>2. CASE \/ CompleteTerminatingRuntimePod(u) \/ CompleteUnstartedTerminated(u)
           \/ CompleteTerminated(u)
  BY <1>1, <1>2, FinishType
  DEF CompleteTerminatingRuntimePod, CompleteUnstartedTerminated,
      CompleteTerminated
<1>3. QED
  BY <1>2, ReceiveType, AllowPodStartType, LoopStepType, StatusStepType,
     CompletePhaseType, CompleteWorkType DEF WorkerStep

\* Every variable keeps its type: in particular the worker is always at one of
\* the points of managePodLoop the model distinguishes, and what it is handed is
\* work of one of the three kinds.
THEOREM TypeCorrect == Spec => []TypeOK
<1>1. TypeOK /\ [Next]_vars => TypeOK'
  <2>1. SUFFICES ASSUME TypeOK, [Next]_vars PROVE TypeOK'
    OBVIOUS
  <2>2. ASSUME NEW u \in UIDs, NEW r \in Requests[u],
               NEW cacheTerminal \in BOOLEAN, UpdatePod(u, r, cacheTerminal)
        PROVE  TypeOK'
    BY <2>1, <2>2, UpdatePodType
  <2>3. ASSUME NEW u \in UIDs, WorkerStep(u) PROVE TypeOK'
    BY <2>1, <2>3, WorkerStepType
  <2>4. ASSUME NEW u \in UIDs, CacheRefresh(u) PROVE TypeOK'
    <3>1. cache' \in [UIDs -> {"absent", "old", "new"}]
      BY <2>1, <2>4 DEF CacheRefresh, TypeOK
    <3>2. QED
      BY <2>1, <2>4, <3>1 DEF CacheRefresh, TypeOK
  <2>5. ASSUME NEW desired \in SUBSET UIDs, SyncKnownPods(desired) PROVE TypeOK'
    BY <2>1, <2>5, SyncKnownPodsType
  <2>6. CASE UNCHANGED vars
    BY <2>1, <2>6 DEF vars, TypeOK
  <2>7. QED
    BY <2>1, <2>2, <2>3, <2>4, <2>5, <2>6 DEF Next
<1>2. QED
  BY InitType, <1>1, PTL DEF Spec

(***************************************************************************)
(* The channel and the goroutine of a UID                                  *)
(*                                                                         *)
(* None of SendsNeverBlock, WorkingIsBusy and OneWorkerPerChannel is       *)
(* inductive: a send is safe because status.working mirrors where the      *)
(* worker stands, and that holds because work only waits in the channel of *)
(* a worker that is at its receive.                                        *)
(***************************************************************************)
WorkerInv(u) ==
  /\ podUpdates[u].open <=> worker[u].pc # "none"
  /\ worker[u].pc # "none" =>
       podSyncStatuses[u].known /\ ~podSyncStatuses[u].finished
  /\ worker[u].pc = "none" => lastUndelivered[u] = NoWork
  /\ podUpdates[u].buf # <<>> =>
       worker[u].pc = "receive" /\ Len(podUpdates[u].buf) = 1
  /\ podSyncStatuses[u].working <=>
       /\ worker[u].pc # "none"
       /\ worker[u].pc = "receive" => podUpdates[u].buf # <<>>

WorkersInv == \A u \in UIDs : WorkerInv(u)

LEMMA WorkersInvInit == Init => WorkersInv
BY DEF Init, WorkersInv, WorkerInv, NoChan, NoWorker, Unknown

\* Nothing another UID's worker depends on changes.
Untouched(v) ==
  /\ podUpdates'[v] = podUpdates[v]
  /\ podSyncStatuses'[v] = podSyncStatuses[v]
  /\ worker'[v] = worker[v]
  /\ lastUndelivered'[v] = lastUndelivered[v]

LEMMA UntouchedInv ==
  ASSUME NEW v, WorkerInv(v), Untouched(v)
  PROVE  WorkerInv(v)'
BY DEF WorkerInv, Untouched

LEMMA WorkerStepTouchesOne ==
  ASSUME TypeOK, NEW u \in UIDs, WorkerStep(u), NEW v \in UIDs, v # u
  PROVE  Untouched(v)
<1>1. CASE Receive(u)
  BY <1>1 DEF Receive, Untouched, TypeOK
<1>2. CASE \E found \in BOOLEAN : InsertPodCache(u, found)
  BY <1>2 DEF InsertPodCache, Goto, Untouched, TypeOK
<1>3. CASE AllowPodStart(u)
  BY <1>3 DEF AllowPodStart, Idle, Requeue, Goto, Untouched, TypeOK
<1>4. CASE AwaitStatus(u)
  BY <1>4 DEF AwaitStatus, Goto, Untouched, TypeOK
<1>5. CASE ContextForWorker(u)
  BY <1>5 DEF ContextForWorker, InContext, Goto, Untouched, TypeOK
<1>6. CASE AcknowledgeTerminating(u)
  BY <1>6 DEF AcknowledgeTerminating, Acknowledged, Goto, Untouched, TypeOK
<1>7. CASE \E result \in Returns(worker[u].update) : SyncReturns(u, result)
  BY <1>7 DEF SyncReturns, Goto, Untouched, TypeOK
<1>8. CASE CompleteSync(u)
  BY <1>8 DEF CompleteSync, NextPhase, Goto, Untouched, TypeOK
<1>9. CASE CompleteTerminating(u)
  BY <1>9 DEF CompleteTerminating, NextPhase, Goto, Untouched, TypeOK
<1>10. CASE \/ CompleteTerminatingRuntimePod(u) \/ CompleteUnstartedTerminated(u)
            \/ CompleteTerminated(u)
  BY <1>10 DEF CompleteTerminatingRuntimePod, CompleteUnstartedTerminated,
               CompleteTerminated, Finish, CleanUp, Untouched, TypeOK
<1>11. CASE CompleteWork(u)
  BY <1>11 DEF CompleteWork, Idle, Requeue, Delivered, Goto, Untouched, TypeOK
<1>12. QED
  BY <1>1, <1>2, <1>3, <1>4, <1>5, <1>6, <1>7, <1>8, <1>9, <1>10, <1>11
  DEF WorkerStep

LEMMA UpdatePodTouchesOne ==
  ASSUME TypeOK, NEW u \in UIDs, NEW r, NEW cacheTerminal,
         UpdatePod(u, r, cacheTerminal), NEW v \in UIDs, v # u
  PROVE  Untouched(v)
<1> DEFINE s == StatusFor(u, r, cacheTerminal)
<1>1. CASE IgnoreUpdate(u, r, s)
  BY <1>1 DEF IgnoreUpdate, Untouched, TypeOK
<1>2. CASE AcceptUpdate(u, r, s)
  <2> HIDE DEF s
  <2>1. UNCHANGED worker \/ worker' = [worker EXCEPT ![u] = [NoWorker EXCEPT !.pc = "receive"]]
    BY <1>2 DEF AcceptUpdate
  <2>2. podUpdates'[v] = podUpdates[v] /\ podSyncStatuses'[v] = podSyncStatuses[v]
    BY <1>2 DEF AcceptUpdate, TypeOK
  <2>3. lastUndelivered'[v] = lastUndelivered[v]
    BY <1>2 DEF AcceptUpdate, TypeOK
  <2>4. QED
    BY <2>1, <2>2, <2>3 DEF Untouched, TypeOK
<1>3. QED
  BY <1>1, <1>2 DEF UpdatePod

\* What the status an update works on has in common with the one it found.
LEMMA StatusForKeeps ==
  ASSUME NEW u \in UIDs, NEW r, NEW cacheTerminal
  PROVE  LET s == StatusFor(u, r, cacheTerminal)
         IN  /\ s.known
             /\ podSyncStatuses[u].known => s = podSyncStatuses[u]
             /\ ~podSyncStatuses[u].known => ~s.working
BY DEF StatusFor, Unknown

LEMMA RequestedKeeps ==
  ASSUME NEW s \in PodSyncStatus, NEW r
  PROVE  LET q == Requested(s, r)
         IN  /\ q.known = s.known /\ q.working = s.working
             /\ q.finished = s.finished /\ q.terminated = s.terminated
             /\ q.startedTerminating = s.startedTerminating
             /\ s.terminating => q.terminating
BY DEF Requested, PodSyncStatus

LEMMA UpdatePodInv ==
  ASSUME TypeOK, NEW u \in UIDs, NEW r \in Requests[u],
         NEW cacheTerminal \in BOOLEAN, UpdatePod(u, r, cacheTerminal),
         WorkerInv(u)
  PROVE  WorkerInv(u)'
<1> DEFINE s == StatusFor(u, r, cacheTerminal)
           q == Requested(s, r)
<1>1. s \in PodSyncStatus /\ r \in Request
  BY StatusForType, PodWorkersAssumption DEF TypeOK
<1>2. /\ s.known /\ s.working = podSyncStatuses[u].working
      /\ worker[u].pc # "none" => s = podSyncStatuses[u]
  <2>1. podSyncStatuses[u].working \in BOOLEAN /\ s.working \in BOOLEAN
    BY <1>1 DEF TypeOK, PodSyncStatus
  <2>2. ~podSyncStatuses[u].known =>
          worker[u].pc = "none" /\ ~podSyncStatuses[u].working
    BY DEF WorkerInv
  <2>3. QED
    BY <2>1, <2>2, StatusForKeeps DEF WorkerInv
<1>3. q.known /\ q.working = s.working /\ q.finished = s.finished
  BY <1>1, <1>2, RequestedKeeps
<1> HIDE DEF s, q
<1>4. CASE IgnoreUpdate(u, r, s)
  <2>1. /\ podSyncStatuses'[u].known = s.known
        /\ podSyncStatuses'[u].working = s.working
        /\ podSyncStatuses'[u].finished = s.finished
    BY <1>1, <1>4 DEF IgnoreUpdate, TypeOK, PodSyncStatus
  <2>2. UNCHANGED <<podUpdates, worker, lastUndelivered>>
    BY <1>4 DEF IgnoreUpdate
  <2>3. QED
    BY <1>2, <2>1, <2>2 DEF WorkerInv
<1>5. CASE AcceptUpdate(u, r, s)
  <2>1. /\ podSyncStatuses'[u].known /\ podSyncStatuses'[u].working
        /\ ~podSyncStatuses'[u].finished
    <3>1. podSyncStatuses'[u].known = q.known /\ podSyncStatuses'[u].working
          /\ podSyncStatuses'[u].finished = q.finished
      BY <1>5 DEF AcceptUpdate, IsWorking, TypeOK, q
    <3>2. QED
      BY <1>3, <1>5, <3>1 DEF AcceptUpdate, IsWorking
  <2>2. CASE s.working
    <3>1. /\ UNCHANGED <<podUpdates, worker>>
          /\ podUpdates[u].open
      BY <1>2, <1>3, <1>5, <2>2 DEF AcceptUpdate, IsWorking, WorkerInv, q
    <3>2. QED
      BY <1>2, <2>1, <2>2, <3>1 DEF WorkerInv
  <2>3. CASE ~s.working
    <3>1. PICK w : podUpdates' = [podUpdates EXCEPT ![u] =
                      [open |-> TRUE, buf |-> Append(podUpdates[u].buf, w)]]
                   /\ UNCHANGED lastUndelivered
      BY <1>3, <1>5, <2>3 DEF AcceptUpdate, IsWorking, q
    <3>2. podUpdates[u].buf = <<>>
      BY <1>2, <2>3 DEF WorkerInv
    <3>3. podUpdates'[u].open /\ podUpdates'[u].buf = <<w>>
      BY <3>1, <3>2 DEF TypeOK
    <3>4. worker'[u].pc = "receive"
      <4>1. CASE podUpdates[u].open
        BY <1>2, <1>5, <2>3, <4>1 DEF AcceptUpdate, IsWorking, WorkerInv
      <4>2. CASE ~podUpdates[u].open
        BY <1>5, <4>2 DEF AcceptUpdate, IsWorking, TypeOK, NoWorker
      <4>3. QED
        BY <4>1, <4>2
    <3>5. QED
      BY <2>1, <3>3, <3>4 DEF WorkerInv
  <2>4. QED
    BY <2>2, <2>3
<1>6. QED
  BY <1>4, <1>5 DEF UpdatePod, s

\* A worker that takes work leaves its channel empty and is busy until it
\* finishes, is put off, or asks for more.
LEMMA WorkerStepInv ==
  ASSUME TypeOK, NEW u \in UIDs, WorkerStep(u), WorkerInv(u)
  PROVE  WorkerInv(u)'
<1>1. CASE Receive(u)
  <2>1. /\ podUpdates[u] \in Channel
        /\ podUpdates[u].buf \in Seq(Work) /\ Len(podUpdates[u].buf) = 1
    BY <1>1 DEF Receive, WorkerInv, TypeOK, Channel
  <2>2. Tail(podUpdates[u].buf) = <<>>
    <3>1. podUpdates[u].buf # <<>>
      BY <1>1 DEF Receive
    <3>2. /\ Tail(podUpdates[u].buf) \in Seq(Work)
          /\ Len(Tail(podUpdates[u].buf)) = 0
      BY <2>1, <3>1, HeadTailProperties
    <3>3. \A seq \in Seq(Work) : Len(seq) = 0 => seq = <<>>
      BY EmptySeq
    <3>4. QED
      BY <3>2, <3>3
  <2>3. /\ podUpdates'[u].buf = <<>> /\ podUpdates'[u].open = podUpdates[u].open
        /\ worker'[u].pc \in {"context", "await", "insert"}
        /\ UNCHANGED <<podSyncStatuses, lastUndelivered>>
    BY <1>1, <2>1, <2>2 DEF Receive, Begin, TypeOK, Channel, Worker
  <2>4. QED
    BY <1>1, <2>1, <2>3 DEF Receive, WorkerInv
<1>2. CASE \/ \E found \in BOOLEAN : InsertPodCache(u, found)
           \/ AwaitStatus(u)
           \/ \E result \in Returns(worker[u].update) : SyncReturns(u, result)
  <2>1. /\ worker[u].pc \in {"insert", "await", "sync"}
        /\ worker'[u].pc \notin {"none", "receive"}
        /\ UNCHANGED <<podUpdates, podSyncStatuses, lastUndelivered>>
    BY <1>2 DEF InsertPodCache, AwaitStatus, SyncReturns, After, Goto, At,
                TypeOK, Worker
  <2>2. QED
    BY <2>1 DEF WorkerInv
<1>3. CASE ContextForWorker(u) \/ AcknowledgeTerminating(u)
  <2>1. /\ worker[u].pc \in {"context", "ack"}
        /\ worker'[u].pc \notin {"none", "receive"}
        /\ UNCHANGED <<podUpdates, lastUndelivered>>
    <3>1. PICK pc \in {"ack", "sync"} : Goto(u, pc)
      BY <1>3 DEF ContextForWorker, AcknowledgeTerminating, InContext, Acknowledged
    <3>2. worker'[u].pc = pc
      BY <3>1, GotoMoves DEF TypeOK
    <3>3. QED
      BY <1>3, <3>2 DEF ContextForWorker, AcknowledgeTerminating, InContext, Acknowledged, At
  <2>2. /\ podSyncStatuses'[u].known = podSyncStatuses[u].known
        /\ podSyncStatuses'[u].working = podSyncStatuses[u].working
        /\ podSyncStatuses'[u].finished = podSyncStatuses[u].finished
    <3>1. CASE ContextForWorker(u)
      BY <3>1 DEF ContextForWorker, InContext, TypeOK, PodSyncStatus
    <3>2. CASE AcknowledgeTerminating(u)
      BY <3>2 DEF AcknowledgeTerminating, Acknowledged, TypeOK, PodSyncStatus
    <3>3. QED
      BY <1>3, <3>1, <3>2
  <2>3. QED
    BY <2>1, <2>2 DEF WorkerInv
<1>4. CASE AllowPodStart(u)
  <2>1. /\ worker[u].pc = "allow"
        /\ UNCHANGED <<podUpdates, lastUndelivered>>
    BY <1>4 DEF AllowPodStart, Idle, Requeue, At
  <2>2. CASE /\ worker'[u].pc \in {"unstarted", "context", "await"}
             /\ UNCHANGED podSyncStatuses
    BY <2>1, <2>2 DEF WorkerInv
  <2>3. CASE /\ worker'[u].pc = "receive"
             /\ podSyncStatuses' = [podSyncStatuses EXCEPT ![u].working = FALSE]
    BY <2>1, <2>3 DEF WorkerInv, TypeOK, PodSyncStatus
  <2>4. QED
    <3>1. \/ worker' = [worker EXCEPT ![u] = [worker[u] EXCEPT
                !.started = TRUE, !.pc = Begin(worker[u].update)]]
             /\ UNCHANGED podSyncStatuses
          \/ Goto(u, "unstarted") /\ UNCHANGED podSyncStatuses
          \/ /\ Goto(u, "receive")
             /\ podSyncStatuses' = [podSyncStatuses EXCEPT ![u].working = FALSE]
      BY <1>4 DEF AllowPodStart, Idle, Requeue
    <3>2. CASE worker' = [worker EXCEPT ![u] = [worker[u] EXCEPT
                 !.started = TRUE, !.pc = Begin(worker[u].update)]]
               /\ UNCHANGED podSyncStatuses
      BY <2>2, <3>2, BeginType DEF TypeOK, Worker
    <3>3. CASE Goto(u, "unstarted") /\ UNCHANGED podSyncStatuses
      BY <2>2, <3>3, GotoMoves DEF TypeOK
    <3>4. CASE /\ Goto(u, "receive")
               /\ podSyncStatuses' = [podSyncStatuses EXCEPT ![u].working = FALSE]
      BY <2>3, <3>4, GotoMoves DEF TypeOK
    <3>5. QED
      BY <3>1, <3>2, <3>3, <3>4
<1>5. CASE CompleteSync(u) \/ CompleteTerminating(u)
  <2>1. /\ worker[u].pc \in {"natural", "stopped"}
        /\ worker'[u].pc = "next"
        /\ UNCHANGED podUpdates
    BY <1>5 DEF CompleteSync, CompleteTerminating, Goto, At, TypeOK, Worker
  <2>2. /\ podSyncStatuses'[u].known = podSyncStatuses[u].known
        /\ podSyncStatuses'[u].working = podSyncStatuses[u].working
        /\ podSyncStatuses'[u].finished = podSyncStatuses[u].finished
    <3>1. CASE CompleteSync(u)
      BY <3>1 DEF CompleteSync, TypeOK, PodSyncStatus
    <3>2. CASE CompleteTerminating(u)
      BY <3>2 DEF CompleteTerminating, Stopped, TypeOK, PodSyncStatus
    <3>3. QED
      BY <1>5, <3>1, <3>2
  <2>3. QED
    BY <2>1, <2>2 DEF WorkerInv
<1>6. CASE \/ CompleteTerminatingRuntimePod(u) \/ CompleteUnstartedTerminated(u)
           \/ CompleteTerminated(u)
  <2>1. /\ worker'[u] = NoWorker
        /\ podUpdates'[u] = NoChan
        /\ lastUndelivered'[u] = NoWork
    BY <1>6 DEF CompleteTerminatingRuntimePod, CompleteUnstartedTerminated,
                CompleteTerminated, Finish, CleanUp, TypeOK
  <2>2. PICK s : /\ podSyncStatuses' = [podSyncStatuses EXCEPT
                         ![u] = [s EXCEPT !.finished = TRUE, !.working = FALSE]]
                 /\ s \in PodSyncStatus
    <3>1. /\ podSyncStatuses[u] \in PodSyncStatus
          /\ [podSyncStatuses[u] EXCEPT !.terminated = TRUE] \in PodSyncStatus
      BY TerminatedType DEF TypeOK
    <3>2. QED
      BY <1>6, <3>1 DEF CompleteTerminatingRuntimePod,
                 CompleteUnstartedTerminated, CompleteTerminated, Finish
  <2>3. ~podSyncStatuses'[u].working
    BY <2>2 DEF TypeOK, PodSyncStatus
  <2>4. QED
    BY <2>1, <2>3 DEF WorkerInv, NoWorker, NoChan
<1>7. CASE CompleteWork(u)
  <2> DEFINE w == lastUndelivered[u]
  <2>1. /\ worker[u].pc \in {"next", "canceled"}
        /\ worker'[u].pc = "receive"
    BY <1>7 DEF CompleteWork, Idle, Requeue, Delivered, Goto, TypeOK, Worker
  <2>2. podUpdates[u].buf = <<>> /\ podUpdates[u].open
    BY <2>1 DEF WorkerInv
  <2>3. CASE w # NoWork
    <3>1. podUpdates'[u].open /\ podUpdates'[u].buf = <<w>>
      <4>1. podUpdates' = [podUpdates EXCEPT ![u] =
              [podUpdates[u] EXCEPT !.buf = Append(podUpdates[u].buf, w)]]
        BY <1>7, <2>3 DEF CompleteWork, Idle, Requeue, Delivered
      <4>2. podUpdates[u] \in Channel /\ Append(podUpdates[u].buf, w) = <<w>>
        BY <2>2 DEF TypeOK
      <4>3. QED
        BY <2>2, <4>1, <4>2 DEF TypeOK, Channel
    <3>2. UNCHANGED podSyncStatuses
      BY <1>7, <2>3 DEF CompleteWork, Idle, Requeue, Delivered
    <3>3. QED
      BY <2>1, <3>1, <3>2 DEF WorkerInv
  <2>4. CASE w = NoWork
    <3>1. podSyncStatuses' = [podSyncStatuses EXCEPT ![u].working = FALSE]
          /\ UNCHANGED <<podUpdates, lastUndelivered>>
      BY <1>7, <2>4 DEF CompleteWork, Idle, Requeue, Delivered
    <3>2. QED
      BY <2>1, <2>2, <3>1 DEF WorkerInv, TypeOK, PodSyncStatus
  <2>5. QED
    BY <2>3, <2>4
<1>8. QED
  BY <1>1, <1>2, <1>3, <1>4, <1>5, <1>6, <1>7 DEF WorkerStep

\* Only finished pods are forgotten, and they have no worker any more.
LEMMA SyncKnownPodsInv ==
  ASSUME TypeOK, NEW desired \in SUBSET UIDs, SyncKnownPods(desired),
         NEW u \in UIDs, WorkerInv(u)
  PROVE  WorkerInv(u)'
<1>1. PICK gone \in SUBSET UIDs :
        /\ \A v \in gone : podSyncStatuses[v].finished
        /\ podSyncStatuses' =
             [v \in UIDs |-> IF v \in gone THEN Unknown ELSE podSyncStatuses[v]]
        /\ CleanUp(gone)
        /\ UNCHANGED worker
  BY DEF SyncKnownPods, Forgettable
<1>2. CASE u \in gone
  <2>1. /\ podSyncStatuses'[u] = Unknown /\ podUpdates'[u] = NoChan
        /\ lastUndelivered'[u] = NoWork /\ worker'[u].pc = "none"
    BY <1>1, <1>2 DEF CleanUp, WorkerInv
  <2>2. QED
    BY <2>1 DEF WorkerInv, Unknown, NoChan
<1>3. CASE u \notin gone
  BY <1>1, <1>3, UntouchedInv DEF CleanUp, Untouched
<1>4. QED
  BY <1>2, <1>3

LEMMA WorkersInvInductive == TypeOK /\ WorkersInv /\ [Next]_vars => WorkersInv'
<1>1. SUFFICES ASSUME TypeOK, WorkersInv, [Next]_vars, NEW v \in UIDs
               PROVE  WorkerInv(v)'
  BY DEF WorkersInv
<1>2. WorkerInv(v)
  BY <1>1 DEF WorkersInv
<1>3. ASSUME NEW u \in UIDs, NEW r \in Requests[u], NEW cacheTerminal \in BOOLEAN,
             UpdatePod(u, r, cacheTerminal)
      PROVE  WorkerInv(v)'
  BY <1>1, <1>2, <1>3, UpdatePodInv, UpdatePodTouchesOne, UntouchedInv
<1>4. ASSUME NEW u \in UIDs, WorkerStep(u) PROVE WorkerInv(v)'
  BY <1>1, <1>2, <1>4, WorkerStepInv, WorkerStepTouchesOne, UntouchedInv
<1>5. ASSUME NEW u \in UIDs, CacheRefresh(u) PROVE WorkerInv(v)'
  BY <1>2, <1>5 DEF CacheRefresh, WorkerInv
<1>6. ASSUME NEW desired \in SUBSET UIDs, SyncKnownPods(desired)
      PROVE  WorkerInv(v)'
  BY <1>1, <1>2, <1>6, SyncKnownPodsInv
<1>7. CASE UNCHANGED vars
  BY <1>2, <1>7 DEF vars, WorkerInv
<1>8. QED
  BY <1>1, <1>3, <1>4, <1>5, <1>6, <1>7 DEF Next

THEOREM WorkersInvariant == Spec => []WorkersInv
BY WorkersInvInit, WorkersInvInductive, TypeCorrect, PTL DEF Spec

\* A send on a pod's channel under podLock never waits and never meets a missing
\* channel, so that UpdatePod and completeWorkQueueNext cannot stop the kubelet.
THEOREM SendsNeverBlockHolds == Spec => []SendsNeverBlock
<1>1. TypeOK /\ WorkersInv => SendsNeverBlock
  <2>1. SUFFICES ASSUME TypeOK, WorkersInv, NEW u \in UIDs
                 PROVE  /\ Len(podUpdates[u].buf) <= 1
                        /\ worker[u].pc \in {"next", "canceled"} =>
                             /\ podUpdates[u].open /\ podUpdates[u].buf = <<>>
                             /\ podSyncStatuses[u].known
    BY DEF SendsNeverBlock
  <2>2. podUpdates[u].buf = <<>> \/ Len(podUpdates[u].buf) = 1
    BY <2>1 DEF WorkersInv, WorkerInv
  <2>3. Len(podUpdates[u].buf) <= 1
    <3>1. Len(<<>>) = 0
      BY EmptySeq
    <3>2. CASE podUpdates[u].buf = <<>>
      <4>1. Len(podUpdates[u].buf) = 0
        BY <3>1, <3>2, Zenon
      <4>2. QED
        BY <4>1
    <3>3. CASE Len(podUpdates[u].buf) = 1
      BY <3>3
    <3>4. QED
      BY <2>2, <3>2, <3>3
  <2>4. QED
    BY <2>1, <2>3 DEF WorkersInv, WorkerInv
<1>2. QED
  BY <1>1, TypeCorrect, WorkersInvariant, PTL

\* status.working is TRUE exactly for a worker that has work.
THEOREM WorkingIsBusyHolds == Spec => []WorkingIsBusy
<1>1. WorkersInv => WorkingIsBusy
  BY DEF WorkersInv, WorkerInv, WorkingIsBusy, At
<1>2. QED
  BY <1>1, WorkersInvariant, PTL

\* A UID has one worker while it has a channel, and none once it is finished.
THEOREM OneWorkerPerChannelHolds == Spec => []OneWorkerPerChannel
<1>1. WorkersInv => OneWorkerPerChannel
  BY DEF WorkersInv, WorkerInv, OneWorkerPerChannel, At
<1>2. QED
  BY <1>1, WorkersInvariant, PTL

(***************************************************************************)
(* The channels that wait for a pod to stop                                *)
(*                                                                         *)
(* A step either leaves the channels alone and shortens lists at most, or  *)
(* it is UpdatePod with one channel nobody has seen, or completeTerminating*)
(* which closes exactly the channels of the list it empties.               *)
(***************************************************************************)
LEMMA ListsShrink ==
  ASSUME NotifyListOpen, UNCHANGED completedCh,
         \A u \in UIDs : podSyncStatuses'[u].notify \subseteq podSyncStatuses[u].notify
  PROVE  NotifyListOpen'
BY DEF NotifyListOpen

\* What a step of a worker does to lists and channels, completeTerminating apart.
LEMMA WorkerStepShrinks ==
  ASSUME TypeOK, NEW u \in UIDs, WorkerStep(u), ~CompleteTerminating(u)
  PROVE  /\ UNCHANGED completedCh
         /\ podSyncStatuses'[u].notify = podSyncStatuses[u].notify
<1> DEFINE Kept == /\ UNCHANGED completedCh
                   /\ podSyncStatuses'[u].notify = podSyncStatuses[u].notify
<1>1. CASE \/ Receive(u) \/ \E found \in BOOLEAN : InsertPodCache(u, found)
           \/ AwaitStatus(u) \/ \E result \in Returns(worker[u].update) : SyncReturns(u, result)
  BY <1>1 DEF Receive, InsertPodCache, AwaitStatus, SyncReturns
<1>2. CASE AllowPodStart(u)
  BY <1>2 DEF AllowPodStart, Idle, TypeOK, PodSyncStatus
<1>3. CASE ContextForWorker(u)
  BY <1>3 DEF ContextForWorker, InContext, TypeOK, PodSyncStatus
<1>4. CASE AcknowledgeTerminating(u)
  BY <1>4 DEF AcknowledgeTerminating, Acknowledged, TypeOK, PodSyncStatus
<1>5. CASE CompleteSync(u)
  BY <1>5 DEF CompleteSync, TypeOK, PodSyncStatus
<1>6. CASE \/ CompleteTerminatingRuntimePod(u) \/ CompleteUnstartedTerminated(u)
           \/ CompleteTerminated(u)
  <2> DEFINE s == podSyncStatuses[u]
  <2>1. Finish(u, s) \/ Finish(u, [s EXCEPT !.terminated = TRUE])
    BY <1>6 DEF CompleteTerminatingRuntimePod, CompleteUnstartedTerminated,
                CompleteTerminated
  <2>2. s \in PodSyncStatus
    BY DEF TypeOK
  <2>3. [s EXCEPT !.terminated = TRUE].notify = s.notify
    BY <2>2 DEF PodSyncStatus
  <2> HIDE DEF s
  <2>4. ASSUME NEW t \in PodSyncStatus, Finish(u, t)
        PROVE  /\ UNCHANGED completedCh
               /\ podSyncStatuses'[u].notify = t.notify
    BY <2>4 DEF Finish, TypeOK, PodSyncStatus
  <2>5. QED
    BY <2>1, <2>2, <2>3, <2>4, TerminatedType DEF s
<1>7. CASE CompleteWork(u)
  BY <1>7 DEF CompleteWork, Idle, TypeOK, PodSyncStatus
<1>8. QED
  BY <1>1, <1>2, <1>3, <1>4, <1>5, <1>6, <1>7 DEF WorkerStep

\* completeTerminating empties its pod's list and closes what was on it, once.
LEMMA CompleteTerminatingCloses ==
  ASSUME TypeOK, NotifyListOpen, NEW u \in UIDs, CompleteTerminating(u)
  PROVE  NotifyListOpen'
<1>1. /\ podSyncStatuses'[u].notify = {}
      /\ \A v \in UIDs \ {u} : podSyncStatuses'[v] = podSyncStatuses[v]
  BY DEF CompleteTerminating, Stopped, TypeOK, PodSyncStatus
<1>2. \A c \in CompletedChs :
        completedCh'[c] = IF c \in podSyncStatuses[u].notify THEN "closed"
                          ELSE completedCh[c]
  BY DEF CompleteTerminating, Close, NotifyListOpen
<1>3. \A v \in UIDs : podSyncStatuses[v].notify \subseteq CompletedChs
  BY DEF TypeOK, PodSyncStatus
<1>4. QED
  BY <1>1, <1>2, <1>3 DEF NotifyListOpen

\* The channel of a request is new: nobody waits with it yet.
LEMMA UpdatePodOpens ==
  ASSUME TypeOK, NotifyListOpen, NEW u \in UIDs, NEW r \in Requests[u],
         NEW cacheTerminal \in BOOLEAN, UpdatePod(u, r, cacheTerminal)
  PROVE  NotifyListOpen'
<1> DEFINE s == StatusFor(u, r, cacheTerminal)
           q == Requested(s, r)
           chs == IF r.ch = NoCh THEN {} ELSE {r.ch}
<1>1. s \in PodSyncStatus /\ r \in Request
  BY StatusForType, PodWorkersAssumption DEF TypeOK
<1>2. q \in PodSyncStatus
  BY <1>1, RequestedType
<1>3. s.notify \subseteq podSyncStatuses[u].notify
  BY DEF StatusFor, Unknown
<1>4. q.notify = s.notify
  BY <1>1 DEF Requested, PodSyncStatus
<1>5. /\ chs \subseteq CompletedChs
      /\ \A c \in chs : completedCh[c] = "unused"
  BY <1>1 DEF Request, UpdatePod
<1>6. \A v \in UIDs \ {u} : podSyncStatuses'[v] = podSyncStatuses[v]
  BY UpdatePodTouchesOne DEF Untouched
<1>7. \A v \in UIDs : podSyncStatuses[v].notify \subseteq CompletedChs
  BY DEF TypeOK, PodSyncStatus
<1>8. /\ podSyncStatuses'[u].notify \subseteq podSyncStatuses[u].notify \union chs
      /\ \A c \in CompletedChs \ chs : completedCh'[c] = completedCh[c]
      /\ \/ /\ podSyncStatuses'[u].notify \subseteq podSyncStatuses[u].notify
            /\ \A c \in chs : completedCh'[c] \in {"open", "closed"}
         \/ \A c \in chs : completedCh'[c] = "open"
  <2> HIDE DEF s, q
  <2>1. CASE IgnoreUpdate(u, r, s)
    <3>1. podSyncStatuses'[u].notify = s.notify
      BY <1>1, <2>1 DEF IgnoreUpdate, TypeOK, PodSyncStatus
    <3>2. \A c \in CompletedChs :
            completedCh'[c] = IF c \in chs THEN "open" ELSE completedCh[c]
      BY <2>1, <1>5 DEF IgnoreUpdate, TypeOK
    <3>3. QED
      BY <1>3, <1>5, <3>1, <3>2
  <2>2. CASE AcceptUpdate(u, r, s)
    <3> DEFINE type == WorkType(q)
    <3>1. podSyncStatuses'[u].notify = IF type = "terminating" THEN q.notify \union chs
                                       ELSE q.notify
      BY <1>2, <2>2 DEF AcceptUpdate, TypeOK, PodSyncStatus, q
    <3>2. completedCh' = IF type # "terminating" THEN Close(chs)
                         ELSE [c \in CompletedChs |->
                                 IF c \in chs THEN "open" ELSE completedCh[c]]
      BY <2>2 DEF AcceptUpdate, q
    <3>3. \A c \in CompletedChs :
            completedCh'[c] = IF c \notin chs THEN completedCh[c]
                              ELSE IF type # "terminating" THEN "closed" ELSE "open"
      BY <1>5, <3>2 DEF Close
    <3> HIDE DEF type
    <3>4. QED
      BY <1>3, <1>4, <1>5, <3>1, <3>3
  <2>3. QED
    BY <2>1, <2>2 DEF UpdatePod, s
<1> HIDE DEF s, q, chs
<1>9. QED
  BY <1>5, <1>6, <1>7, <1>8 DEF NotifyListOpen

LEMMA NotifyListInductive ==
  TypeOK /\ NotifyListOpen /\ [Next]_vars => NotifyListOpen'
<1>1. SUFFICES ASSUME TypeOK, NotifyListOpen, [Next]_vars PROVE NotifyListOpen'
  OBVIOUS
<1>2. ASSUME NEW u \in UIDs, NEW r \in Requests[u], NEW cacheTerminal \in BOOLEAN,
             UpdatePod(u, r, cacheTerminal)
      PROVE  NotifyListOpen'
  BY <1>1, <1>2, UpdatePodOpens
<1>3. ASSUME NEW u \in UIDs, WorkerStep(u) PROVE NotifyListOpen'
  <2>1. CASE CompleteTerminating(u)
    BY <1>1, <2>1, CompleteTerminatingCloses
  <2>2. CASE ~CompleteTerminating(u)
    <3>1. \A v \in UIDs : podSyncStatuses'[v].notify = podSyncStatuses[v].notify
      BY <1>1, <1>3, <2>2, WorkerStepShrinks, WorkerStepTouchesOne DEF Untouched
    <3>2. UNCHANGED completedCh
      BY <1>1, <1>3, <2>2, WorkerStepShrinks
    <3>3. QED
      BY <1>1, <3>1, <3>2, ListsShrink
  <2>3. QED
    BY <2>1, <2>2
<1>4. ASSUME NEW u \in UIDs, CacheRefresh(u) PROVE NotifyListOpen'
  BY <1>1, <1>4, ListsShrink DEF CacheRefresh
<1>5. ASSUME NEW desired \in SUBSET UIDs, SyncKnownPods(desired)
      PROVE  NotifyListOpen'
  <2>1. /\ UNCHANGED completedCh
        /\ \A v \in UIDs : podSyncStatuses'[v] \in {Unknown, podSyncStatuses[v]}
    BY <1>5 DEF SyncKnownPods
  <2>2. QED
    BY <1>1, <2>1, ListsShrink DEF Unknown
<1>6. CASE UNCHANGED vars
  BY <1>1, <1>6, ListsShrink DEF vars
<1>7. QED
  BY <1>1, <1>2, <1>3, <1>4, <1>5, <1>6 DEF Next

\* No channel of KillPodOptions is closed twice, and one that waits for a pod to
\* stop is open and on that pod's list only, for any number of requests.
THEOREM NotifyListOpenHolds == Spec => []NotifyListOpen
<1>1. Init => NotifyListOpen
  BY DEF Init, NotifyListOpen, Unknown
<1>2. QED
  BY <1>1, NotifyListInductive, TypeCorrect, PTL DEF Spec

\* The channels of podWorkers are used soundly by all who share them: the four
\* parts together.
THEOREM ChannelsAreSoundHolds == Spec => []ChannelsAreSound
<1>1. SendsNeverBlock /\ WorkingIsBusy /\ OneWorkerPerChannel /\ NotifyListOpen
        => ChannelsAreSound
  BY DEF ChannelsAreSound
<1>2. QED
  BY <1>1, SendsNeverBlockHolds, WorkingIsBusyHolds, OneWorkerPerChannelHolds,
     NotifyListOpenHolds, PTL

(***************************************************************************)
(* The sync that was cancelled                                             *)
(*                                                                         *)
(* CanceledHasSuccessor is strengthened to the steps before a sync function*)
(* returns: a worker that holds a cancelled context has its next work.     *)
(***************************************************************************)
CancelInv(u) ==
  \/ worker[u].pc = "canceled"
  \/ worker[u].pc \in {"ack", "sync"} /\ podSyncStatuses[u].ctx = "canceled"
  => lastUndelivered[u] # NoWork

CancelsInv == \A u \in UIDs : CancelInv(u)

\* UpdatePod cancels only a worker it leaves work for.
LEMMA UpdatePodLeavesWork ==
  ASSUME TypeOK, NEW u \in UIDs, NEW r \in Requests[u],
         NEW cacheTerminal \in BOOLEAN, UpdatePod(u, r, cacheTerminal),
         WorkerInv(u), CancelInv(u)
  PROVE  CancelInv(u)'
<1> DEFINE s == StatusFor(u, r, cacheTerminal)
           q == Requested(s, r)
<1>1. s \in PodSyncStatus /\ r \in Request
  BY StatusForType, PodWorkersAssumption DEF TypeOK
<1>2. worker[u].pc # "none" => s = podSyncStatuses[u]
  BY StatusForKeeps DEF WorkerInv
<1>3. q.working = s.working
  BY <1>1, RequestedKeeps
<1> HIDE DEF s, q
<1>4. CASE IgnoreUpdate(u, r, s)
  <2>1. podSyncStatuses'[u].ctx = s.ctx
    BY <1>1, <1>4 DEF IgnoreUpdate, TypeOK, PodSyncStatus
  <2>2. UNCHANGED <<worker, lastUndelivered>>
    BY <1>4 DEF IgnoreUpdate
  <2>3. QED
    BY <1>2, <2>1, <2>2 DEF CancelInv
<1>5. CASE AcceptUpdate(u, r, s)
  <2>1. CASE s.working
    <3>1. PICK t \in {"sync", "terminating", "terminated"} :
            /\ lastUndelivered'[u].type = t
      BY <1>3, <1>5, <2>1, WorkTypeIsType DEF AcceptUpdate, IsWorking, TypeOK, q
    <3>2. QED
      BY <3>1 DEF CancelInv, NoWork
  <2>2. CASE ~s.working
    <3>1. worker[u].pc \in {"none", "receive"}
      BY <1>2, <2>2 DEF WorkerInv
    <3>2. worker'[u].pc = "receive" \/ worker'[u] = worker[u]
      BY <1>5 DEF AcceptUpdate, TypeOK, NoWorker
    <3>3. QED
      BY <3>1, <3>2 DEF CancelInv
  <2>3. QED
    BY <2>1, <2>2
<1>6. QED
  BY <1>4, <1>5 DEF UpdatePod, s

\* A worker enters a sync with a live context, and turns to its next work only
\* after it has come back from it.
LEMMA WorkerStepLeavesWork ==
  ASSUME TypeOK, NEW u \in UIDs, WorkerStep(u), CancelInv(u)
  PROVE  CancelInv(u)'
<1>1. CASE AcknowledgeTerminating(u)
  <2>1. /\ worker[u].pc = "ack" /\ UNCHANGED lastUndelivered
        /\ podSyncStatuses'[u].ctx = podSyncStatuses[u].ctx
    BY <1>1 DEF AcknowledgeTerminating, Acknowledged, At, TypeOK, PodSyncStatus
  <2>2. worker'[u].pc = "sync"
    BY <1>1, GotoMoves DEF AcknowledgeTerminating, TypeOK
  <2>3. QED
    BY <2>1, <2>2 DEF CancelInv
<1>2. ASSUME NEW result \in Returns(worker[u].update), SyncReturns(u, result)
      PROVE  CancelInv(u)'
  <2>1. /\ worker[u].pc = "sync" /\ UNCHANGED <<lastUndelivered, podSyncStatuses>>
        /\ result = "canceled" => podSyncStatuses[u].ctx = "canceled"
    BY <1>2 DEF SyncReturns, At
  <2>2. /\ worker'[u].pc \notin {"ack", "sync"}
        /\ worker'[u].pc = "canceled" => result = "canceled"
    BY <1>2 DEF SyncReturns, After, Goto, TypeOK, Worker
  <2>3. QED
    BY <2>1, <2>2 DEF CancelInv
<1>3. CASE ContextForWorker(u)
  <2>1. podSyncStatuses'[u].ctx = "live"
    BY <1>3 DEF ContextForWorker, InContext, TypeOK, PodSyncStatus
  <2>2. Goto(u, "ack") \/ Goto(u, "sync")
    BY <1>3 DEF ContextForWorker
  <2>3. worker'[u].pc \in {"ack", "sync"}
    BY <2>2, GotoMoves DEF TypeOK
  <2>4. QED
    BY <2>1, <2>3 DEF CancelInv
<1>4. ASSUME worker'[u].pc \notin {"ack", "sync", "canceled"} PROVE CancelInv(u)'
  BY <1>4 DEF CancelInv
<1>5. CASE \/ Receive(u) \/ \E found \in BOOLEAN : InsertPodCache(u, found)
           \/ AwaitStatus(u)
  <2>1. CASE Receive(u)
    <3>1. worker'[u].pc \in {"context", "await", "insert"}
      BY <2>1 DEF Receive, Begin, TypeOK, Worker
    <3>2. QED
      BY <1>4, <3>1
  <2>2. CASE (\E found \in BOOLEAN : InsertPodCache(u, found)) \/ AwaitStatus(u)
    <3>1. Goto(u, "allow") \/ Goto(u, "context")
      BY <2>2 DEF InsertPodCache, AwaitStatus
    <3>2. worker'[u].pc \in {"allow", "context"}
      BY <3>1, GotoMoves DEF TypeOK
    <3>3. QED
      BY <1>4, <3>2
  <2>3. QED
    BY <1>5, <2>1, <2>2
<1>6. CASE AllowPodStart(u)
  <2>1. \/ worker' = [worker EXCEPT ![u] = [worker[u] EXCEPT
                !.started = TRUE, !.pc = Begin(worker[u].update)]]
        \/ Goto(u, "unstarted") \/ Goto(u, "receive")
    BY <1>6 DEF AllowPodStart, Idle, Requeue
  <2>2. worker'[u].pc \notin {"ack", "sync", "canceled"}
    <3>1. CASE worker' = [worker EXCEPT ![u] = [worker[u] EXCEPT
                 !.started = TRUE, !.pc = Begin(worker[u].update)]]
      <4>1. worker'[u].pc = Begin(worker[u].update)
        BY <3>1 DEF TypeOK, Worker
      <4>2. QED
        BY <4>1 DEF Begin
    <3>2. ASSUME NEW pc \in {"unstarted", "receive"}, Goto(u, pc)
          PROVE  worker'[u].pc = pc
      BY <3>2, GotoMoves DEF TypeOK
    <3>3. QED
      BY <2>1, <3>1, <3>2
  <2>3. QED
    BY <1>4, <2>2
<1>7. CASE CompleteSync(u) \/ CompleteTerminating(u) \/ CompleteWork(u)
  <2>1. Goto(u, "next") \/ Goto(u, "receive")
    BY <1>7 DEF CompleteSync, CompleteTerminating, CompleteWork
  <2>2. worker'[u].pc \in {"next", "receive"}
    BY <2>1, GotoMoves DEF TypeOK
  <2>3. QED
    BY <1>4, <2>2
<1>8. CASE \/ CompleteTerminatingRuntimePod(u) \/ CompleteUnstartedTerminated(u)
           \/ CompleteTerminated(u)
  <2>1. worker'[u] = NoWorker
    BY <1>8 DEF CompleteTerminatingRuntimePod, CompleteUnstartedTerminated,
                CompleteTerminated, Finish, TypeOK
  <2>2. QED
    BY <1>4, <2>1 DEF NoWorker
<1>9. QED
  BY <1>1, <1>2, <1>3, <1>5, <1>6, <1>7, <1>8 DEF WorkerStep

LEMMA CancelsInvInductive ==
  TypeOK /\ WorkersInv /\ CancelsInv /\ [Next]_vars => CancelsInv'
<1>1. SUFFICES ASSUME TypeOK, WorkersInv, CancelsInv, [Next]_vars, NEW v \in UIDs
               PROVE  CancelInv(v)'
  BY DEF CancelsInv
<1>2. WorkerInv(v) /\ CancelInv(v)
  BY <1>1 DEF WorkersInv, CancelsInv
<1>3. Untouched(v) => CancelInv(v)'
  BY <1>2 DEF Untouched, CancelInv
<1>4. ASSUME NEW u \in UIDs, NEW r \in Requests[u], NEW cacheTerminal \in BOOLEAN,
             UpdatePod(u, r, cacheTerminal)
      PROVE  CancelInv(v)'
  BY <1>1, <1>2, <1>3, <1>4, UpdatePodLeavesWork, UpdatePodTouchesOne
<1>5. ASSUME NEW u \in UIDs, WorkerStep(u) PROVE CancelInv(v)'
  BY <1>1, <1>2, <1>3, <1>5, WorkerStepLeavesWork, WorkerStepTouchesOne
<1>6. ASSUME NEW u \in UIDs, CacheRefresh(u) PROVE CancelInv(v)'
  BY <1>3, <1>6 DEF CacheRefresh, Untouched
<1>7. ASSUME NEW desired \in SUBSET UIDs, SyncKnownPods(desired)
      PROVE  CancelInv(v)'
  <2>1. UNCHANGED worker /\ (Untouched(v) \/ podSyncStatuses[v].finished)
    BY <1>7 DEF SyncKnownPods, CleanUp, Forgettable, Untouched
  <2>2. podSyncStatuses[v].finished => worker[v].pc = "none"
    BY <1>2 DEF WorkerInv
  <2>3. QED
    BY <1>3, <2>1, <2>2 DEF CancelInv
<1>8. CASE UNCHANGED vars
  BY <1>3, <1>8 DEF vars, Untouched
<1>9. QED
  BY <1>1, <1>4, <1>5, <1>6, <1>7, <1>8 DEF Next

\* A sync that returned context.Canceled always finds the work that cancelled it,
\* for any number of pods, requests and results.
THEOREM CanceledHasSuccessorHolds == Spec => []CanceledHasSuccessor
<1>1. Init => CancelsInv
  BY DEF Init, CancelsInv, CancelInv, NoWorker
<1>2. CancelsInv => CanceledHasSuccessor
  BY DEF CancelsInv, CancelInv, CanceledHasSuccessor, At
<1>3. QED
  BY <1>1, <1>2, CancelsInvInductive, TypeCorrect, WorkersInvariant, PTL DEF Spec

(***************************************************************************)
(* Where a pod stands in its life                                          *)
(*                                                                         *)
(* QueriesAreTrue, StaticPodHoldsName and the contract of PodLifecycle all *)
(* rest on one thing: the work a worker holds, finds in its channel or has *)
(* left in lastUndelivered fits the pod's status.  What breaks it is work  *)
(* that was overtaken.  Only a static pod that was put off by              *)
(* allowPodStart can have some, and a pod that must stop before it was     *)
(* started never gets to it, unless it is torn down as a runtime pod.      *)
(***************************************************************************)

\* A static pod is not killed as a runtime pod: UpdatePodOptions with a RunningPod
\* are for pods whose configuration is not known.
KilledAsItself(u) == u \in StaticUIDs => \A r \in Requests[u] : ~r.runtime
NoStaticRuntimeKill == \A u \in UIDs : KilledAsItself(u)

InHand == {"insert", "allow", "unstarted", "await", "context", "ack", "sync",
           "natural", "stopped", "orphaned", "cleaned"}
Unbegun == {"none", "receive", "insert", "allow", "unstarted"}

WaitsForName(u) == u \in StaticUIDs /\ ~worker[u].started

\* The work was asked for in the phase of life the status s says.
Fits(u, w, s) ==
  /\ w \in Work
  /\ w.type # "sync" => s.terminating
  /\ w.type = "terminated" <=> s.terminated
  /\ w.type = "sync" => ~s.startedTerminating
  /\ u \in StaticUIDs => ~w.runtime

StatusInv(u) ==
  LET s == podSyncStatuses[u] IN
  /\ s.terminating => s.known
  /\ s.startedTerminating => s.terminating
  /\ s.terminated => s.terminating
  /\ s.terminated /\ ~s.finished => s.startedTerminating
  /\ s.finished => s.terminated
  /\ s.known /\ worker[u].pc = "none" => s.finished
  /\ s.startedTerminating /\ worker[u].pc # "none" => worker[u].started

PlaceInv(u) ==
  LET pc == worker[u].pc
      type == worker[u].update.type
      s == podSyncStatuses[u] IN
  /\ pc \notin Unbegun => worker[u].started
  /\ pc \in Unbegun \ {"receive"} => ~worker[u].started
  /\ pc = "unstarted" => s.terminating
  /\ pc = "ack" => type = "terminating"
  /\ pc = "natural" => type = "sync"
  /\ pc \in {"stopped", "orphaned"} => type = "terminating"
  /\ pc = "cleaned" => type = "terminated"
  /\ pc \in {"sync", "stopped", "orphaned"} /\ type = "terminating" =>
       s.startedTerminating

WorkInv(u) ==
  LET w == worker[u]
      buf == podUpdates[u].buf
      s == podSyncStatuses[u]
      next == lastUndelivered[u] IN
  /\ w.pc \in InHand => Fits(u, w.update, s)
  /\ buf # <<>> => Fits(u, Head(buf), s)
  /\ next # NoWork => Fits(u, next, s)
  /\ next.type = "sync" /\ ~WaitsForName(u) =>
       /\ w.pc \in InHand => w.update.type = "sync"
       /\ buf # <<>> => Head(buf).type = "sync"
  /\ w.pc = "receive" /\ buf = <<>> /\ next # NoWork => WaitsForName(u)

NameInv(u) ==
  u \in StaticUIDs /\ worker[u].started => startedStatic[FullNameOf[u]] = u

LifeInv(u) == StatusInv(u) /\ PlaceInv(u) /\ WorkInv(u) /\ NameInv(u)

\* Nothing of a status that says how far the pod is in its life changes.
SameLife(s, t) ==
  /\ t.known = s.known
  /\ t.terminating = s.terminating
  /\ t.startedTerminating = s.startedTerminating
  /\ t.terminated = s.terminated
  /\ t.finished = s.finished

LEMMA SameLifeFits ==
  ASSUME NEW u, NEW w, NEW s, NEW t, SameLife(s, t), Fits(u, w, s)
  PROVE  Fits(u, w, t)
BY DEF SameLife, Fits

\* A worker that only moves on keeps what it holds and what waits for it.
Moves(u, pc) ==
  /\ worker'[u].pc = pc
  /\ worker'[u].started = worker[u].started
  /\ worker'[u].update = worker[u].update
  /\ podUpdates'[u] = podUpdates[u]
  /\ lastUndelivered'[u] = lastUndelivered[u]
  /\ startedStatic' = startedStatic
  /\ SameLife(podSyncStatuses[u], podSyncStatuses'[u])

\* A move keeps the invariant if the place it leads to may be reached.
LEMMA MovesLife ==
  ASSUME NEW u, NEW pc, Moves(u, pc), LifeInv(u), worker[u].pc \in InHand,
         pc \in InHand \union {"next", "canceled"},
         pc \in Unbegun <=> worker[u].pc \in Unbegun,
         PlaceInv(u)'
  PROVE  LifeInv(u)'
<1> DEFINE s == podSyncStatuses[u]
           t == podSyncStatuses'[u]
<1>1. SameLife(s, t)
  BY DEF Moves
<1> HIDE DEF s, t
<1>2. \A w : Fits(u, w, s) => Fits(u, w, t)
  BY <1>1, SameLifeFits
<1>3. StatusInv(u)'
  BY <1>1 DEF LifeInv, StatusInv, SameLife, Moves, InHand, s, t
<1>4. WorkInv(u)'
  BY <1>2 DEF LifeInv, WorkInv, Moves, WaitsForName, InHand, s, t
<1>5. NameInv(u)'
  BY DEF LifeInv, NameInv, Moves
<1>6. QED
  BY <1>3, <1>4, <1>5 DEF LifeInv

LEMMA GotoWithin ==
  ASSUME TypeOK, NEW u \in UIDs, NEW pc, Goto(u, pc),
         UNCHANGED <<podUpdates, lastUndelivered, startedStatic>>,
         SameLife(podSyncStatuses[u], podSyncStatuses'[u])
  PROVE  Moves(u, pc)
BY GotoMoves DEF Moves, TypeOK

LEMMA SameLifeRefl == \A s : SameLife(s, s)
BY DEF SameLife

LEMMA InsertPodCacheLife ==
  ASSUME TypeOK, NEW u \in UIDs, NEW found \in BOOLEAN, InsertPodCache(u, found),
         LifeInv(u)
  PROVE  LifeInv(u)'
<1>1. worker[u].pc = "insert" /\ Moves(u, "allow")
  BY GotoWithin, SameLifeRefl DEF InsertPodCache, At
<1>2. PlaceInv(u)'
  BY <1>1 DEF LifeInv, PlaceInv, Moves, Unbegun
<1>3. QED
  BY <1>1, <1>2, MovesLife DEF InHand, Unbegun

LEMMA AwaitStatusLife ==
  ASSUME TypeOK, NEW u \in UIDs, AwaitStatus(u), LifeInv(u)
  PROVE  LifeInv(u)'
<1>1. worker[u].pc = "await" /\ Moves(u, "context")
  BY GotoWithin, SameLifeRefl DEF AwaitStatus, At
<1>2. PlaceInv(u)'
  BY <1>1 DEF LifeInv, PlaceInv, Moves, Unbegun
<1>3. QED
  BY <1>1, <1>2, MovesLife DEF InHand, Unbegun

LEMMA ContextForWorkerMoves ==
  ASSUME TypeOK, NEW u \in UIDs, ContextForWorker(u)
  PROVE  /\ worker[u].pc = "context"
         /\ Moves(u, IF worker[u].update.type = "terminating" THEN "ack" ELSE "sync")
<1>1. SameLife(podSyncStatuses[u], podSyncStatuses'[u])
  BY DEF ContextForWorker, InContext, SameLife, TypeOK, PodSyncStatus
<1>2. QED
  BY <1>1, GotoWithin DEF ContextForWorker, At

LEMMA ContextForWorkerLife ==
  ASSUME TypeOK, NEW u \in UIDs, ContextForWorker(u), LifeInv(u)
  PROVE  LifeInv(u)'
<1> DEFINE pc == IF worker[u].update.type = "terminating" THEN "ack" ELSE "sync"
<1>1. worker[u].pc = "context" /\ Moves(u, pc)
  BY ContextForWorkerMoves
<1>2. PlaceInv(u)'
  BY <1>1 DEF LifeInv, PlaceInv, Moves, Unbegun
<1>3. QED
  BY <1>1, <1>2, MovesLife DEF InHand, Unbegun

LEMMA SyncReturnsMoves ==
  ASSUME TypeOK, NEW u \in UIDs, NEW result, SyncReturns(u, result)
  PROVE  worker[u].pc = "sync" /\ Moves(u, After(worker[u].update, result))
BY GotoWithin, SameLifeRefl DEF SyncReturns, At

LEMMA SyncReturnsLife ==
  ASSUME TypeOK, NEW u \in UIDs, NEW result, SyncReturns(u, result), LifeInv(u)
  PROVE  LifeInv(u)'
<1> DEFINE w == worker[u].update
           pc == After(w, result)
<1>1. worker[u].pc = "sync" /\ Moves(u, pc)
  BY SyncReturnsMoves
<1>2. w \in Work
  BY <1>1 DEF LifeInv, WorkInv, Fits, InHand
<1>3. w.type \in {"sync", "terminating", "terminated"}
  BY <1>2 DEF Work
<1>4. /\ pc \in {"canceled", "next", "cleaned", "orphaned", "stopped", "natural"}
      /\ pc = "natural" => w.type = "sync"
      /\ pc \in {"stopped", "orphaned"} => w.type = "terminating"
      /\ pc = "cleaned" => w.type = "terminated"
  BY <1>3 DEF After
<1> HIDE DEF pc
<1>5. PlaceInv(u)'
  BY <1>1, <1>4 DEF LifeInv, PlaceInv, Moves, SameLife, Unbegun
<1>6. QED
  BY <1>1, <1>4, <1>5, MovesLife DEF InHand, Unbegun

\* Receive takes the one piece of work in the channel.
LEMMA ReceiveTakes ==
  ASSUME TypeOK, NEW u \in UIDs, Receive(u), WorkerInv(u)
  PROVE  LET w == Head(podUpdates[u].buf) IN
         /\ worker[u].pc = "receive" /\ podUpdates[u].buf # <<>>
         /\ podUpdates'[u].buf = <<>>
         /\ worker'[u].update = w
         /\ worker'[u].started = worker[u].started
         /\ worker'[u].pc = IF worker[u].started THEN Begin(w) ELSE "insert"
         /\ UNCHANGED <<podSyncStatuses, lastUndelivered, startedStatic, version>>
<1>1. /\ podUpdates[u] \in Channel
      /\ podUpdates[u].buf \in Seq(Work) /\ Len(podUpdates[u].buf) = 1
      /\ podUpdates[u].buf # <<>>
  BY DEF Receive, WorkerInv, TypeOK, Channel
<1>2. Tail(podUpdates[u].buf) = <<>>
  <2>1. /\ Tail(podUpdates[u].buf) \in Seq(Work)
        /\ Len(Tail(podUpdates[u].buf)) = 0
    BY <1>1, HeadTailProperties
  <2>2. \A seq \in Seq(Work) : Len(seq) = 0 => seq = <<>>
    BY EmptySeq
  <2>3. QED
    BY <2>1, <2>2
<1>3. podUpdates'[u].buf = <<>>
  BY <1>1, <1>2 DEF Receive, TypeOK, Channel
<1>4. /\ worker'[u].update = Head(podUpdates[u].buf)
      /\ worker'[u].started = worker[u].started
      /\ worker'[u].pc = IF worker[u].started THEN Begin(Head(podUpdates[u].buf))
                         ELSE "insert"
  BY DEF Receive, TypeOK, Worker
<1>5. QED
  BY <1>1, <1>3, <1>4 DEF Receive, At

LEMMA ReceiveLife ==
  ASSUME TypeOK, NEW u \in UIDs, Receive(u), WorkerInv(u), LifeInv(u)
  PROVE  LifeInv(u)'
<1> DEFINE w == Head(podUpdates[u].buf)
<1>1. /\ worker[u].pc = "receive" /\ podUpdates[u].buf # <<>>
      /\ podUpdates'[u].buf = <<>>
      /\ worker'[u].update = w
      /\ worker'[u].started = worker[u].started
      /\ worker'[u].pc = IF worker[u].started THEN Begin(w) ELSE "insert"
      /\ UNCHANGED <<podSyncStatuses, lastUndelivered, startedStatic>>
  BY ReceiveTakes
<1>2. worker'[u].pc \in {"await", "context", "insert"}
      /\ (worker'[u].pc = "insert" <=> ~worker[u].started)
  BY <1>1, BeginType
<1>3. StatusInv(u)' /\ NameInv(u)' /\ PlaceInv(u)'
  BY <1>1, <1>2 DEF LifeInv, StatusInv, NameInv, PlaceInv, Unbegun
<1>4. WorkInv(u)'
  BY <1>1, <1>2 DEF LifeInv, WorkInv, WaitsForName
<1>5. QED
  BY <1>3, <1>4 DEF LifeInv

\* allowPodStart has let the worker begin.
AllowedOn(u) ==
  /\ worker'[u].started /\ worker'[u].update = worker[u].update
  /\ worker'[u].pc = Begin(worker[u].update)

LEMMA AllowPodStartOutcome ==
  ASSUME TypeOK, NEW u \in UIDs, AllowPodStart(u)
  PROVE  /\ worker[u].pc = "allow"
         /\ UNCHANGED <<podUpdates, lastUndelivered, version>>
         /\ SameLife(podSyncStatuses[u], podSyncStatuses'[u])
         /\ \/ /\ ~IsStatic(u) /\ AllowedOn(u)
               /\ UNCHANGED startedStatic
            \/ /\ IsStatic(u) /\ podSyncStatuses[u].terminating
               /\ Moves(u, "unstarted")
            \/ /\ IsStatic(u) /\ ~podSyncStatuses[u].terminating
               /\ AllowedOn(u)
               /\ startedStatic[FullNameOf[u]] \in {NoUID, u}
               /\ startedStatic' = [startedStatic EXCEPT ![FullNameOf[u]] = u]
            \/ /\ IsStatic(u) /\ ~podSyncStatuses[u].terminating
               /\ Moves(u, "receive")
<1> DEFINE Started == worker' = [worker EXCEPT ![u] =
             [worker[u] EXCEPT !.started = TRUE, !.pc = Begin(worker[u].update)]]
<1>1. SameLife(podSyncStatuses[u], podSyncStatuses'[u])
  BY DEF AllowPodStart, Idle, SameLife, TypeOK, PodSyncStatus
<1>2. /\ worker[u].pc = "allow"
      /\ UNCHANGED <<podUpdates, lastUndelivered, version>>
  BY DEF AllowPodStart, At
<1>3. ASSUME Started PROVE AllowedOn(u)
  BY <1>3 DEF AllowedOn, TypeOK, Worker
<1>4. ASSUME NEW pc, Goto(u, pc), UNCHANGED startedStatic PROVE Moves(u, pc)
  BY <1>1, <1>2, <1>4, GotoWithin
<1>5. \/ ~IsStatic(u) /\ Started /\ UNCHANGED startedStatic
      \/ /\ IsStatic(u) /\ podSyncStatuses[u].terminating
         /\ Goto(u, "unstarted") /\ UNCHANGED startedStatic
      \/ /\ IsStatic(u) /\ ~podSyncStatuses[u].terminating
         /\ MayStartStatic(u) /\ Started
         /\ startedStatic' = [startedStatic EXCEPT ![FullNameOf[u]] = u]
      \/ /\ IsStatic(u) /\ ~podSyncStatuses[u].terminating
         /\ Goto(u, "receive") /\ UNCHANGED startedStatic
  BY DEF AllowPodStart
<1>6. MayStartStatic(u) => startedStatic[FullNameOf[u]] \in {NoUID, u}
  BY DEF MayStartStatic
<1> HIDE DEF Started
<1>7. QED
  BY <1>1, <1>2, <1>3, <1>4, <1>5, <1>6

LEMMA AllowPodStartLife ==
  ASSUME TypeOK, NEW u \in UIDs, AllowPodStart(u), WorkerInv(u), LifeInv(u)
  PROVE  LifeInv(u)'
<1> DEFINE w == worker[u].update
           s == podSyncStatuses[u]
           t == podSyncStatuses'[u]
<1>1. /\ worker[u].pc = "allow" /\ ~worker[u].started
      /\ UNCHANGED <<podUpdates, lastUndelivered>>
      /\ SameLife(s, t)
  BY AllowPodStartOutcome DEF LifeInv, PlaceInv, Unbegun
<1>2. /\ Fits(u, w, s)
      /\ u \in StaticUIDs => IsStatic(u)
  BY <1>1 DEF LifeInv, WorkInv, InHand, IsStatic, Fits
<1> HIDE DEF s, t
<1>3. \A x : Fits(u, x, s) => Fits(u, x, t)
  BY <1>1, SameLifeFits
<1>4. CASE Moves(u, "unstarted") /\ podSyncStatuses[u].terminating
  <2>1. PlaceInv(u)'
    BY <1>1, <1>4 DEF LifeInv, PlaceInv, Moves, SameLife, Unbegun
  <2>2. QED
    BY <1>1, <1>4, <2>1, MovesLife DEF InHand, Unbegun
<1>5. CASE Moves(u, "receive") /\ IsStatic(u)
  <2>1. StatusInv(u)' /\ NameInv(u)' /\ PlaceInv(u)'
    BY <1>1, <1>5 DEF LifeInv, StatusInv, NameInv, PlaceInv, Moves, SameLife,
                      Unbegun, s, t
  <2>2. WorkInv(u)'
    BY <1>1, <1>3, <1>5
    DEF LifeInv, WorkInv, Moves, WaitsForName, IsStatic, InHand, s, t
  <2>3. QED
    BY <2>1, <2>2 DEF LifeInv
<1>6. CASE /\ AllowedOn(u)
           /\ IsStatic(u) => ~podSyncStatuses[u].terminating
           /\ \/ startedStatic' = startedStatic /\ ~IsStatic(u)
              \/ startedStatic' = [startedStatic EXCEPT ![FullNameOf[u]] = u]
  <2>1. worker'[u].pc \in {"await", "context"} /\ worker'[u].started
        /\ worker'[u].update = w
    BY <1>6, BeginType DEF AllowedOn
  <2>2. StatusInv(u)' /\ PlaceInv(u)'
    BY <1>1, <2>1 DEF LifeInv, StatusInv, PlaceInv, SameLife, Unbegun, s, t
  <2>3. NameInv(u)'
    BY <1>2, <1>6, PodWorkersAssumption DEF NameInv, TypeOK
  <2>4. w.type # "sync" => ~WaitsForName(u)
    BY <1>2, <1>6 DEF Fits, WaitsForName, s
  <2>5. WorkInv(u)'
    <3>1. podUpdates[u].buf = <<>>
      BY <1>1 DEF WorkerInv
    <3>2. QED
      BY <1>1, <1>2, <1>3, <2>1, <2>4, <3>1
      DEF LifeInv, WorkInv, InHand, WaitsForName, s, t
  <2>6. QED
    BY <2>2, <2>3, <2>5 DEF LifeInv
<1>7. QED
  BY <1>4, <1>5, <1>6, AllowPodStartOutcome

LEMMA AcknowledgeTerminatingEffect ==
  ASSUME TypeOK, NEW u \in UIDs, AcknowledgeTerminating(u)
  PROVE  LET s == podSyncStatuses[u]
             t == podSyncStatuses'[u] IN
         /\ worker[u].pc = "ack"
         /\ worker'[u].pc = "sync" /\ worker'[u].started = worker[u].started
         /\ worker'[u].update = worker[u].update
         /\ UNCHANGED <<podUpdates, lastUndelivered, startedStatic, version>>
         /\ t.known = s.known /\ t.terminating = s.terminating
         /\ t.terminated = s.terminated /\ t.finished = s.finished
         /\ s.terminating => t.startedTerminating
         /\ ~s.terminating => t.startedTerminating = s.startedTerminating
<1>1. /\ worker'[u].pc = "sync" /\ worker'[u].started = worker[u].started
      /\ worker'[u].update = worker[u].update
  BY GotoMoves DEF AcknowledgeTerminating, TypeOK
<1>2. QED
  BY <1>1 DEF AcknowledgeTerminating, Acknowledged, At, TypeOK, PodSyncStatus

LEMMA AcknowledgeTerminatingLife ==
  ASSUME TypeOK, NEW u \in UIDs, AcknowledgeTerminating(u), WorkerInv(u), LifeInv(u)
  PROVE  LifeInv(u)'
<1> DEFINE w == worker[u].update
           s == podSyncStatuses[u]
           t == podSyncStatuses'[u]
<1>1. /\ worker[u].pc = "ack"
      /\ worker'[u].pc = "sync" /\ worker'[u].started = worker[u].started
      /\ worker'[u].update = w
      /\ UNCHANGED <<podUpdates, lastUndelivered, startedStatic>>
      /\ t.known = s.known /\ t.terminating = s.terminating
      /\ t.terminated = s.terminated /\ t.finished = s.finished
      /\ s.terminating => t.startedTerminating
      /\ ~s.terminating => t.startedTerminating = s.startedTerminating
  BY AcknowledgeTerminatingEffect
<1>2. w.type = "terminating" /\ worker[u].started /\ podUpdates[u].buf = <<>>
  BY <1>1 DEF LifeInv, PlaceInv, Unbegun, WorkerInv
<1>3. s.terminating /\ Fits(u, w, s)
  BY <1>1, <1>2 DEF LifeInv, WorkInv, Fits, InHand
<1>4. lastUndelivered[u].type # "sync"
  BY <1>1, <1>2 DEF LifeInv, WorkInv, WaitsForName, InHand
<1> HIDE DEF s, t
<1>5. \A x : Fits(u, x, s) /\ x.type # "sync" => Fits(u, x, t)
  BY <1>1 DEF Fits
<1>6. StatusInv(u)' /\ PlaceInv(u)' /\ NameInv(u)'
  BY <1>1, <1>2, <1>3 DEF LifeInv, StatusInv, PlaceInv, NameInv, Unbegun, s, t
<1>7. WorkInv(u)'
  BY <1>1, <1>2, <1>3, <1>4, <1>5 DEF LifeInv, WorkInv, InHand, s, t
<1>8. QED
  BY <1>6, <1>7 DEF LifeInv

\* The work completeSync and completeTerminating leave behind.
LEMMA NextPhaseLeaves ==
  ASSUME TypeOK, NEW u \in UIDs, NEW type, NextPhase(u, type)
  PROVE  /\ lastUndelivered'[u].type = type
         /\ lastUndelivered'[u].runtime = FALSE
         /\ lastUndelivered'[u].version = worker[u].update.version
         /\ type \in {"sync", "terminating", "terminated"} /\ worker[u].update \in Work
              => lastUndelivered'[u] \in Work
<1> DEFINE next == [type |-> type, runtime |-> FALSE,
                    version |-> worker[u].update.version, grace |-> 0]
<1>1. lastUndelivered'[u] = next
  BY DEF NextPhase, TypeOK
<1>2. type \in {"sync", "terminating", "terminated"} /\ worker[u].update \in Work
        => next \in Work
  BY DEF Work, Grace
<1>3. QED
  BY <1>1, <1>2

LEMMA CompleteSyncEffect ==
  ASSUME TypeOK, NEW u \in UIDs, CompleteSync(u)
  PROVE  LET s == podSyncStatuses[u]
             t == podSyncStatuses'[u] IN
         /\ worker[u].pc = "natural"
         /\ worker'[u].pc = "next" /\ worker'[u].started = worker[u].started
         /\ worker'[u].update = worker[u].update
         /\ UNCHANGED <<podUpdates, startedStatic, version>>
         /\ NextPhase(u, "terminating")
         /\ t.known = s.known /\ t.terminating /\ t.startedTerminating
         /\ t.terminated = s.terminated /\ t.finished = s.finished
<1>1. /\ worker'[u].pc = "next" /\ worker'[u].started = worker[u].started
      /\ worker'[u].update = worker[u].update
  BY GotoMoves DEF CompleteSync, TypeOK
<1>2. QED
  BY <1>1 DEF CompleteSync, At, TypeOK, PodSyncStatus

LEMMA CompleteSyncLife ==
  ASSUME TypeOK, NEW u \in UIDs, CompleteSync(u), WorkerInv(u), LifeInv(u)
  PROVE  LifeInv(u)'
<1> DEFINE w == worker[u].update
           s == podSyncStatuses[u]
           t == podSyncStatuses'[u]
           next == lastUndelivered'[u]
<1>1. /\ worker[u].pc = "natural"
      /\ worker'[u].pc = "next" /\ worker'[u].started = worker[u].started
      /\ worker'[u].update = w
      /\ UNCHANGED <<podUpdates, startedStatic>>
      /\ NextPhase(u, "terminating")
      /\ t.known = s.known /\ t.terminating /\ t.startedTerminating
      /\ t.terminated = s.terminated /\ t.finished = s.finished
  BY CompleteSyncEffect
<1>2. /\ worker[u].started /\ podUpdates[u].buf = <<>>
      /\ s.known
  BY <1>1 DEF LifeInv, PlaceInv, Unbegun, WorkerInv
<1>3. w.type = "sync" /\ Fits(u, w, s)
  BY <1>1 DEF LifeInv, PlaceInv, WorkInv, InHand
<1>4. next.type = "terminating" /\ next.runtime = FALSE /\ next \in Work
  BY <1>1, <1>3, NextPhaseLeaves DEF Fits
<1> HIDE DEF s, t, next
<1>5. Fits(u, next, t)
  BY <1>1, <1>3, <1>4 DEF Fits
<1>6. StatusInv(u)' /\ PlaceInv(u)' /\ NameInv(u)'
  BY <1>1, <1>2 DEF LifeInv, StatusInv, PlaceInv, NameInv, Unbegun, s, t
<1>7. WorkInv(u)'
  BY <1>1, <1>2, <1>4, <1>5 DEF WorkInv, InHand, s, t, next
<1>8. QED
  BY <1>6, <1>7 DEF LifeInv

LEMMA CompleteTerminatingEffect ==
  ASSUME TypeOK, NEW u \in UIDs, CompleteTerminating(u)
  PROVE  LET s == podSyncStatuses[u]
             t == podSyncStatuses'[u] IN
         /\ worker[u].pc = "stopped"
         /\ worker'[u].pc = "next" /\ worker'[u].started = worker[u].started
         /\ worker'[u].update = worker[u].update
         /\ UNCHANGED <<podUpdates, startedStatic, version>>
         /\ NextPhase(u, "terminated")
         /\ t.known = s.known /\ t.terminating = s.terminating
         /\ t.startedTerminating = s.startedTerminating
         /\ t.terminated /\ t.finished = s.finished
<1>1. /\ worker'[u].pc = "next" /\ worker'[u].started = worker[u].started
      /\ worker'[u].update = worker[u].update
  BY GotoMoves DEF CompleteTerminating, TypeOK
<1>2. QED
  BY <1>1 DEF CompleteTerminating, Stopped, At, TypeOK, PodSyncStatus

LEMMA CompleteTerminatingLife ==
  ASSUME TypeOK, NEW u \in UIDs, CompleteTerminating(u), WorkerInv(u), LifeInv(u)
  PROVE  LifeInv(u)'
<1> DEFINE w == worker[u].update
           s == podSyncStatuses[u]
           t == podSyncStatuses'[u]
           next == lastUndelivered'[u]
<1>1. /\ worker[u].pc = "stopped"
      /\ worker'[u].pc = "next" /\ worker'[u].started = worker[u].started
      /\ worker'[u].update = w
      /\ UNCHANGED <<podUpdates, startedStatic>>
      /\ NextPhase(u, "terminated")
      /\ t.known = s.known /\ t.terminating = s.terminating
      /\ t.startedTerminating = s.startedTerminating
      /\ t.terminated /\ t.finished = s.finished
  BY CompleteTerminatingEffect
<1>2. /\ worker[u].started /\ podUpdates[u].buf = <<>>
      /\ s.startedTerminating /\ s.terminating
  BY <1>1 DEF LifeInv, PlaceInv, StatusInv, Unbegun, WorkerInv
<1>3. Fits(u, w, s)
  BY <1>1 DEF LifeInv, WorkInv, InHand
<1>4. next.type = "terminated" /\ next.runtime = FALSE /\ next \in Work
  BY <1>1, <1>3, NextPhaseLeaves DEF Fits
<1> HIDE DEF s, t, next
<1>5. Fits(u, next, t)
  BY <1>1, <1>2, <1>4 DEF Fits
<1>6. StatusInv(u)' /\ PlaceInv(u)' /\ NameInv(u)'
  BY <1>1, <1>2 DEF LifeInv, StatusInv, PlaceInv, NameInv, Unbegun, s, t
<1>7. WorkInv(u)'
  BY <1>1, <1>2, <1>4, <1>5 DEF WorkInv, InHand, s, t, next
<1>8. QED
  BY <1>6, <1>7 DEF LifeInv

\* A worker that ends leaves a finished pod, with nothing undelivered.
LEMMA FinishEffect ==
  ASSUME TypeOK, NEW u \in UIDs,
         \/ CompleteTerminatingRuntimePod(u) \/ CompleteUnstartedTerminated(u)
         \/ CompleteTerminated(u)
  PROVE  LET s == podSyncStatuses[u]
             t == podSyncStatuses'[u] IN
         /\ worker[u].pc \in {"orphaned", "unstarted", "cleaned"}
         /\ worker'[u] = NoWorker /\ podUpdates'[u] = NoChan
         /\ lastUndelivered'[u] = NoWork
         /\ CleanUp({u})
         /\ t.known = s.known /\ t.terminating = s.terminating
         /\ t.startedTerminating = s.startedTerminating
         /\ t.finished
         /\ IF worker[u].pc = "cleaned" THEN t.terminated = s.terminated
            ELSE t.terminated
<1> DEFINE s == podSyncStatuses[u]
           r == [s EXCEPT !.terminated = TRUE]
           t == podSyncStatuses'[u]
           from == IF worker[u].pc = "cleaned" THEN s ELSE r
<1>1. /\ worker[u].pc \in {"orphaned", "unstarted", "cleaned"}
      /\ Finish(u, from)
  BY DEF CompleteTerminatingRuntimePod, CompleteUnstartedTerminated,
         CompleteTerminated, At
<1>2. s \in PodSyncStatus
  BY DEF TypeOK
<1>3. /\ r \in PodSyncStatus /\ r.known = s.known
      /\ r.terminating = s.terminating /\ r.terminated
      /\ r.startedTerminating = s.startedTerminating
  BY <1>2, TerminatedType DEF PodSyncStatus
<1>4. /\ worker'[u] = NoWorker /\ podUpdates'[u] = NoChan
      /\ lastUndelivered'[u] = NoWork
      /\ CleanUp({u})
  BY <1>1 DEF Finish, CleanUp, TypeOK
<1> HIDE DEF r, s
<1>5. t = [from EXCEPT !.finished = TRUE, !.working = FALSE]
  BY <1>1 DEF Finish, TypeOK, s
<1>6. from \in PodSyncStatus
  BY <1>2, <1>3
<1> HIDE DEF from
<1>7. /\ t.known = from.known /\ t.terminating = from.terminating
      /\ t.startedTerminating = from.startedTerminating
      /\ t.finished /\ t.terminated = from.terminated
  BY <1>5, <1>6 DEF PodSyncStatus
<1>8. QED
  BY <1>1, <1>3, <1>4, <1>7 DEF from, s

LEMMA FinishLife ==
  ASSUME TypeOK, NEW u \in UIDs, LifeInv(u),
         \/ CompleteTerminatingRuntimePod(u) \/ CompleteUnstartedTerminated(u)
         \/ CompleteTerminated(u)
  PROVE  LifeInv(u)'
<1> DEFINE s == podSyncStatuses[u]
           t == podSyncStatuses'[u]
<1>1. /\ worker[u].pc \in {"orphaned", "unstarted", "cleaned"}
      /\ worker'[u] = NoWorker /\ podUpdates'[u] = NoChan
      /\ lastUndelivered'[u] = NoWork
      /\ t.known = s.known /\ t.terminating = s.terminating
      /\ t.startedTerminating = s.startedTerminating
      /\ t.finished
      /\ IF worker[u].pc = "cleaned" THEN t.terminated = s.terminated
         ELSE t.terminated
  BY FinishEffect
<1>2. Fits(u, worker[u].update, s)
  BY <1>1 DEF LifeInv, WorkInv, InHand
<1>3. s.terminating /\ t.terminated
  BY <1>1, <1>2 DEF LifeInv, PlaceInv, Fits
<1>4. worker'[u].pc = "none" /\ worker'[u].started = FALSE /\ podUpdates'[u].buf = <<>>
  BY <1>1 DEF NoWorker, NoChan
<1>5. StatusInv(u)' /\ PlaceInv(u)' /\ NameInv(u)'
  BY <1>1, <1>3, <1>4 DEF LifeInv, StatusInv, PlaceInv, NameInv, Unbegun
<1>6. WorkInv(u)'
  BY <1>1, <1>4 DEF WorkInv, InHand, NoWork
<1>7. QED
  BY <1>5, <1>6 DEF LifeInv

\* completeWork sends what waits, or leaves the worker idle.
LEMMA CompleteWorkEffect ==
  ASSUME TypeOK, NEW u \in UIDs, CompleteWork(u), WorkerInv(u)
  PROVE  LET w == lastUndelivered[u] IN
         /\ worker[u].pc \in {"next", "canceled"}
         /\ podUpdates[u].buf = <<>>
         /\ worker'[u].pc = "receive" /\ worker'[u].started = worker[u].started
         /\ worker'[u].update = worker[u].update
         /\ UNCHANGED <<startedStatic, version>>
         /\ SameLife(podSyncStatuses[u], podSyncStatuses'[u])
         /\ lastUndelivered'[u] = NoWork
         /\ podUpdates'[u].buf = IF w # NoWork THEN <<w>> ELSE <<>>
<1> DEFINE w == lastUndelivered[u]
<1>1. worker[u].pc \in {"next", "canceled"} /\ podUpdates[u].buf = <<>>
  BY DEF CompleteWork, WorkerInv
<1>2. /\ worker'[u].pc = "receive" /\ worker'[u].started = worker[u].started
      /\ worker'[u].update = worker[u].update
  BY GotoMoves DEF CompleteWork, TypeOK
<1>3. SameLife(podSyncStatuses[u], podSyncStatuses'[u])
  BY DEF CompleteWork, Idle, SameLife, TypeOK, PodSyncStatus
<1>4. CASE w # NoWork
  <2>1. podUpdates' = [podUpdates EXCEPT ![u] =
          [podUpdates[u] EXCEPT !.buf = Append(podUpdates[u].buf, w)]]
    BY <1>4 DEF CompleteWork
  <2>2. podUpdates[u] \in Channel /\ Append(podUpdates[u].buf, w) = <<w>>
    BY <1>1 DEF TypeOK
  <2>3. podUpdates'[u].buf = <<w>>
    BY <2>1, <2>2 DEF TypeOK, Channel
  <2>4. lastUndelivered'[u] = NoWork
    BY <1>4 DEF CompleteWork, Delivered, TypeOK
  <2>5. QED
    BY <1>1, <1>2, <1>3, <1>4, <2>3, <2>4 DEF CompleteWork
<1>5. CASE w = NoWork
  BY <1>1, <1>2, <1>3, <1>5 DEF CompleteWork
<1>6. QED
  BY <1>4, <1>5

LEMMA CompleteWorkLife ==
  ASSUME TypeOK, NEW u \in UIDs, CompleteWork(u), WorkerInv(u), LifeInv(u)
  PROVE  LifeInv(u)'
<1> DEFINE w == lastUndelivered[u]
           s == podSyncStatuses[u]
           t == podSyncStatuses'[u]
<1>1. /\ worker[u].pc \in {"next", "canceled"}
      /\ worker'[u].pc = "receive" /\ worker'[u].started = worker[u].started
      /\ UNCHANGED startedStatic
      /\ SameLife(s, t)
      /\ lastUndelivered'[u] = NoWork
      /\ podUpdates'[u].buf = IF w # NoWork THEN <<w>> ELSE <<>>
  BY CompleteWorkEffect
<1> HIDE DEF s, t, w
<1>2. \A x : Fits(u, x, s) => Fits(u, x, t)
  BY <1>1, SameLifeFits
<1>3. w # NoWork => Fits(u, w, s)
  BY DEF LifeInv, WorkInv, s, w
<1>4. StatusInv(u)' /\ PlaceInv(u)' /\ NameInv(u)'
  BY <1>1 DEF LifeInv, StatusInv, PlaceInv, NameInv, SameLife, Unbegun, s, t
<1>5. podUpdates'[u].buf # <<>> => w # NoWork /\ Head(podUpdates'[u].buf) = w
  BY <1>1
<1>6. WorkInv(u)'
  BY <1>1, <1>2, <1>3, <1>5 DEF WorkInv, InHand, NoWork, t
<1>7. QED
  BY <1>4, <1>6 DEF LifeInv

\* What UpdatePod finds: the status of the UID, or a new one, which is finished or
\* has nothing decided.
LEMMA StatusForLife ==
  ASSUME NEW u \in UIDs, NEW r, NEW cacheTerminal, LifeInv(u), TypeOK
  PROVE  LET s == StatusFor(u, r, cacheTerminal) IN
         /\ s.known
         /\ podSyncStatuses[u].known => s = podSyncStatuses[u]
         /\ ~podSyncStatuses[u].known =>
              /\ s.startedTerminating = s.finished
              /\ s.terminated = s.finished /\ s.terminating = s.finished
         /\ s.startedTerminating => s.terminating
         /\ s.terminated => s.terminating
         /\ s.terminated /\ ~s.finished => s.startedTerminating
         /\ s.finished => s.terminated
BY DEF StatusFor, Unknown, LifeInv, StatusInv, TypeOK, PodSyncStatus

\* An ignored update changes nothing of the life of a UID that was known.
LEMMA IgnoreUpdateEffect ==
  ASSUME TypeOK, NEW u \in UIDs, NEW r, NEW s \in PodSyncStatus,
         IgnoreUpdate(u, r, s)
  PROVE  /\ SameLife(s, podSyncStatuses'[u])
         /\ (s.terminating /\ r.type = "create") \/ s.finished
            \/ (s.terminated /\ r.runtime)
         /\ UNCHANGED <<podUpdates, lastUndelivered, worker>>
<1>1. SameLife(s, podSyncStatuses'[u])
  BY DEF IgnoreUpdate, SameLife, TypeOK, PodSyncStatus
<1>2. QED
  BY <1>1 DEF IgnoreUpdate

\* An accepted update leaves work of the kind the new status calls for, in the
\* channel of an idle worker or in lastUndelivered of a busy one.
AcceptedWork(u, r, t, w) ==
  /\ w \in Work
  /\ w.type = IF t.terminated THEN "terminated"
              ELSE IF t.terminating THEN "terminating" ELSE "sync"
  /\ w.runtime = r.runtime
  /\ w.version = version'[u]

LEMMA AcceptUpdateEffect ==
  ASSUME TypeOK, NEW u \in UIDs, NEW r \in Requests[u], NEW s \in PodSyncStatus,
         AcceptUpdate(u, r, s), version'[u] \in Nat
  PROVE  LET t == podSyncStatuses'[u] IN
         /\ ~s.finished
         /\ t.known = s.known /\ t.terminated = s.terminated
         /\ t.startedTerminating = s.startedTerminating
         /\ t.finished = s.finished
         /\ s.terminating => t.terminating
         /\ worker' = IF podUpdates[u].open THEN worker
                      ELSE [worker EXCEPT ![u] = [NoWorker EXCEPT !.pc = "receive"]]
         /\ \E w : /\ AcceptedWork(u, r, t, w)
                   /\ IF s.working
                      THEN /\ lastUndelivered' = [lastUndelivered EXCEPT ![u] = w]
                           /\ UNCHANGED podUpdates
                      ELSE /\ podUpdates' = [podUpdates EXCEPT ![u] =
                                [open |-> TRUE,
                                 buf |-> Append(podUpdates[u].buf, w)]]
                           /\ UNCHANGED lastUndelivered
<1> DEFINE q == Requested(s, r)
           t == podSyncStatuses'[u]
           type == WorkType(q)
           g == IF type # "terminating" THEN q.grace
                ELSE EffectiveGrace(q.grace, r.deletion, r.override, SpecGrace[u])
           w == [type |-> type, runtime |-> r.runtime, version |-> version'[u],
                 grace |-> IF type = "terminating" THEN g ELSE 0]
<1>1. r \in Request /\ SpecGrace[u] \in Grace
  BY PodWorkersAssumption
<1>2. q \in PodSyncStatus
  BY <1>1, RequestedType
<1>3. /\ q.known = s.known /\ q.working = s.working
      /\ q.finished = s.finished /\ q.terminated = s.terminated
      /\ q.startedTerminating = s.startedTerminating
      /\ s.terminating => q.terminating
  BY RequestedKeeps
<1> HIDE DEF q
<1>4. type \in {"sync", "terminating", "terminated"}
  BY WorkTypeIsType
<1>5. g \in Grace
  <2>1. q.grace \in Grace /\ r.deletion \in Grace /\ r.override \in Grace
    BY <1>1, <1>2 DEF PodSyncStatus, Request
  <2>2. QED
    BY <1>1, <2>1, EffectiveGraceIsPositive
<1>6. /\ t.known = q.known /\ t.terminating = q.terminating
      /\ t.startedTerminating = q.startedTerminating
      /\ t.terminated = q.terminated /\ t.finished = q.finished
  BY <1>2 DEF AcceptUpdate, TypeOK, PodSyncStatus, q
<1>7. type = IF t.terminated THEN "terminated"
             ELSE IF t.terminating THEN "terminating" ELSE "sync"
  BY <1>6 DEF WorkType
<1> HIDE DEF type, g
<1>8. w \in Work
  <2>1. r.runtime \in BOOLEAN /\ 0 \in Grace
    BY <1>1 DEF Request, Grace
  <2>2. QED
    BY <1>4, <1>5, <2>1 DEF Work
<1>9. w.type = type /\ w.runtime = r.runtime /\ w.version = version'[u]
  OBVIOUS
<1>10. IF q.working
       THEN /\ lastUndelivered' = [lastUndelivered EXCEPT ![u] = w]
            /\ UNCHANGED podUpdates
       ELSE /\ podUpdates' = [podUpdates EXCEPT ![u] =
                 [open |-> TRUE, buf |-> Append(podUpdates[u].buf, w)]]
            /\ UNCHANGED lastUndelivered
  BY DEF AcceptUpdate, IsWorking, w, g, type, q
<1>11. /\ ~s.finished
       /\ worker' = IF podUpdates[u].open THEN worker
                    ELSE [worker EXCEPT ![u] = [NoWorker EXCEPT !.pc = "receive"]]
  BY DEF AcceptUpdate
<1> HIDE DEF w, t
<1>12. AcceptedWork(u, r, t, w)
  BY <1>7, <1>8, <1>9 DEF AcceptedWork
<1>13. QED
  BY <1>3, <1>6, <1>10, <1>11, <1>12 DEF t

\* A pod may be found to have further to go, which what waits still fits.
LEMMA LaterFits ==
  ASSUME NEW u, NEW w, NEW s, NEW t, Fits(u, w, s),
         t.terminated = s.terminated, s.terminating => t.terminating,
         t.startedTerminating = s.startedTerminating
  PROVE  Fits(u, w, t)
BY DEF Fits

LEMMA UpdatePodLife ==
  ASSUME TypeOK, NEW u \in UIDs, KilledAsItself(u), NEW r \in Requests[u],
         NEW cacheTerminal \in BOOLEAN, UpdatePod(u, r, cacheTerminal),
         WorkerInv(u), LifeInv(u)
  PROVE  LifeInv(u)'
<1> DEFINE s == StatusFor(u, r, cacheTerminal)
           t == podSyncStatuses'[u]
<1>1. s \in PodSyncStatus /\ UNCHANGED startedStatic /\ version'[u] \in Nat
  BY StatusForType DEF TypeOK, UpdatePod
<1>2. /\ s.known
      /\ podSyncStatuses[u].known => s = podSyncStatuses[u]
      /\ ~podSyncStatuses[u].known =>
           /\ s.startedTerminating = s.finished
           /\ s.terminated = s.finished /\ s.terminating = s.finished
      /\ s.startedTerminating => s.terminating
      /\ s.terminated => s.terminating
      /\ s.terminated /\ ~s.finished => s.startedTerminating
      /\ s.finished => s.terminated
  BY StatusForLife
<1>3. worker[u].pc # "none" => s = podSyncStatuses[u]
  BY <1>2 DEF WorkerInv
<1>4. s.working => worker[u].pc # "none"
  BY <1>2, StatusForKeeps DEF WorkerInv
<1>5. IgnoreUpdate(u, r, s) \/ AcceptUpdate(u, r, s)
  BY DEF UpdatePod
<1> HIDE DEF s
<1>6. CASE IgnoreUpdate(u, r, s)
  <2>1. /\ SameLife(s, t)
        /\ (s.terminating /\ r.type = "create") \/ s.finished
           \/ (s.terminated /\ r.runtime)
        /\ UNCHANGED <<podUpdates, lastUndelivered, worker>>
    BY <1>1, <1>6, IgnoreUpdateEffect
  <2> HIDE DEF t
  <2>2. StatusInv(u)' /\ PlaceInv(u)' /\ NameInv(u)'
    BY <1>1, <1>2, <1>3, <2>1
    DEF LifeInv, StatusInv, PlaceInv, NameInv, SameLife, Unbegun, t
  <2>3. \A w : Fits(u, w, s) => Fits(u, w, t)
    BY <2>1, SameLifeFits
  <2>4. WorkInv(u)'
    <3>1. CASE worker[u].pc # "none"
      BY <1>3, <2>1, <2>3, <3>1 DEF LifeInv, WorkInv, WaitsForName, t
    <3>2. CASE worker[u].pc = "none"
      BY <2>1, <3>2 DEF WorkerInv, WorkInv, WaitsForName, InHand, NoWork
    <3>3. QED
      BY <3>1, <3>2
  <2>5. QED
    BY <2>2, <2>4 DEF LifeInv
<1>7. CASE AcceptUpdate(u, r, s)
  <2>1. /\ ~s.finished
        /\ t.known = s.known /\ t.terminated = s.terminated
        /\ t.startedTerminating = s.startedTerminating
        /\ t.finished = s.finished
        /\ s.terminating => t.terminating
        /\ worker' = IF podUpdates[u].open THEN worker
                     ELSE [worker EXCEPT ![u] = [NoWorker EXCEPT !.pc = "receive"]]
    BY <1>1, <1>7, AcceptUpdateEffect
  <2>2. PICK w : /\ AcceptedWork(u, r, t, w)
                 /\ IF s.working
                    THEN /\ lastUndelivered' = [lastUndelivered EXCEPT ![u] = w]
                         /\ UNCHANGED podUpdates
                    ELSE /\ podUpdates' = [podUpdates EXCEPT ![u] =
                              [open |-> TRUE,
                               buf |-> Append(podUpdates[u].buf, w)]]
                         /\ UNCHANGED lastUndelivered
    BY <1>1, <1>7, AcceptUpdateEffect
  <2>3. t.terminating \in BOOLEAN
    <3>1. podSyncStatuses'[u] \in PodSyncStatus
      BY UpdatePodType DEF TypeOK
    <3>2. QED
      BY <3>1 DEF PodSyncStatus
  <2> HIDE DEF t
  <2>4. /\ t.startedTerminating => t.terminating
        /\ t.terminated => t.terminating
    BY <1>2, <2>1
  <2>5. Fits(u, w, t)
    BY <2>2, <2>4 DEF AcceptedWork, Fits, KilledAsItself
  <2>6. /\ w # NoWork
        /\ w.type = "sync" => ~t.terminating
    BY <2>2 DEF AcceptedWork, Work, NoWork
  <2>7. \A x : Fits(u, x, s) => Fits(u, x, t)
    BY <2>1, LaterFits
  <2>8. CASE podUpdates[u].open
    <3>1. worker' = worker /\ worker[u].pc # "none" /\ s = podSyncStatuses[u]
      BY <1>3, <2>1, <2>8 DEF WorkerInv
    <3>2. StatusInv(u)' /\ PlaceInv(u)' /\ NameInv(u)'
      BY <1>1, <1>2, <2>1, <2>4, <3>1
      DEF LifeInv, StatusInv, PlaceInv, NameInv, t
    <3>3. CASE s.working
      <4>1. /\ lastUndelivered'[u] = w
            /\ UNCHANGED podUpdates
        BY <2>2, <3>3 DEF TypeOK
      <4>2. w.type = "sync" =>
              /\ worker[u].pc \in InHand => worker[u].update.type = "sync"
              /\ podUpdates[u].buf # <<>> => Head(podUpdates[u].buf).type = "sync"
        BY <2>1, <2>6, <3>1 DEF LifeInv, WorkInv, Fits
      <4>3. worker[u].pc = "receive" => podUpdates[u].buf # <<>>
        BY <3>1, <3>3 DEF WorkerInv
      <4>4. WorkInv(u)'
        BY <2>5, <2>7, <3>1, <4>1, <4>2, <4>3
        DEF LifeInv, WorkInv, WaitsForName, t
      <4>5. QED
        BY <3>2, <4>4 DEF LifeInv
    <3>4. CASE ~s.working
      <4>1. worker[u].pc = "receive" /\ podUpdates[u].buf = <<>>
        BY <3>1, <3>4 DEF WorkerInv
      <4>2. podUpdates'[u].buf = <<w>> /\ UNCHANGED lastUndelivered
        BY <2>2, <3>4, <4>1 DEF TypeOK
      <4>3. Head(podUpdates'[u].buf) = w /\ podUpdates'[u].buf # <<>>
        BY <4>2
      <4>4. WorkInv(u)'
        BY <2>5, <2>7, <3>1, <4>1, <4>2, <4>3
        DEF LifeInv, WorkInv, WaitsForName, InHand, NoWork, t
      <4>5. QED
        BY <3>2, <4>4 DEF LifeInv
    <3>5. QED
      BY <3>3, <3>4
  <2>9. CASE ~podUpdates[u].open
    <3>1. /\ worker[u].pc = "none" /\ podUpdates[u].buf = <<>>
          /\ lastUndelivered[u] = NoWork /\ ~s.working
      BY <1>1, <1>4, <2>9 DEF WorkerInv, PodSyncStatus
    <3>2. worker'[u].pc = "receive" /\ worker'[u].started = FALSE
      BY <2>1, <2>9 DEF TypeOK, NoWorker
    <3>3. podUpdates'[u].buf = <<w>> /\ UNCHANGED lastUndelivered
      BY <2>2, <3>1 DEF TypeOK
    <3>4. Head(podUpdates'[u].buf) = w /\ podUpdates'[u].buf # <<>>
      BY <3>3
    <3>5. ~s.startedTerminating
      BY <1>2, <2>1, <3>1 DEF LifeInv, StatusInv
    <3>6. StatusInv(u)' /\ PlaceInv(u)' /\ NameInv(u)'
      BY <1>1, <1>2, <2>1, <2>4, <3>2, <3>5
      DEF StatusInv, PlaceInv, NameInv, Unbegun, t
    <3>7. WorkInv(u)'
      BY <2>5, <3>1, <3>2, <3>3, <3>4 DEF WorkInv, InHand, NoWork, t
    <3>8. QED
      BY <3>6, <3>7 DEF LifeInv
  <2>10. QED
    BY <2>8, <2>9
<1>8. QED
  BY <1>5, <1>6, <1>7

LifesInv == \A u \in UIDs : KilledAsItself(u) => LifeInv(u)

LEMMA UntouchedLife ==
  ASSUME NEW v, LifeInv(v), Untouched(v),
         v \in StaticUIDs /\ startedStatic[FullNameOf[v]] = v
           => startedStatic'[FullNameOf[v]] = v
  PROVE  LifeInv(v)'
BY DEF LifeInv, StatusInv, PlaceInv, WorkInv, NameInv, WaitsForName, Untouched

\* The work a step of its worker leaves still fits the pod.
LEMMA WorkerStepLife ==
  ASSUME TypeOK, NEW u \in UIDs, WorkerStep(u), WorkerInv(u), LifeInv(u)
  PROVE  LifeInv(u)'
BY ReceiveLife, InsertPodCacheLife, AllowPodStartLife, AwaitStatusLife,
   ContextForWorkerLife, AcknowledgeTerminatingLife, SyncReturnsLife,
   CompleteSyncLife, CompleteTerminatingLife, FinishLife, CompleteWorkLife
DEF WorkerStep

\* A worker takes a name nobody has, and gives up its own only.
LEMMA WorkerStepKeepsNames ==
  ASSUME TypeOK, NEW u \in UIDs, WorkerStep(u), NEW v \in UIDs, v # u,
         NEW n \in Names, startedStatic[n] = v
  PROVE  startedStatic'[n] = v
<1>1. CASE AllowPodStart(u)
  <2>1. \/ UNCHANGED startedStatic
        \/ /\ startedStatic[FullNameOf[u]] \in {NoUID, u}
           /\ startedStatic' = [startedStatic EXCEPT ![FullNameOf[u]] = u]
    BY <1>1, AllowPodStartOutcome DEF Moves
  <2>2. v # NoUID
    BY PodWorkersAssumption
  <2>3. QED
    BY <2>1, <2>2 DEF TypeOK
<1>2. CASE \/ CompleteTerminatingRuntimePod(u) \/ CompleteUnstartedTerminated(u)
           \/ CompleteTerminated(u)
  <2>1. CleanUp({u})
    BY <1>2, FinishEffect
  <2>2. QED
    BY <2>1 DEF CleanUp
<1>3. CASE UNCHANGED startedStatic
  BY <1>3
<1>4. QED
  BY <1>1, <1>2, <1>3
  DEF WorkerStep, Receive, InsertPodCache, AwaitStatus, ContextForWorker,
      AcknowledgeTerminating, SyncReturns, CompleteSync, CompleteTerminating,
      CompleteWork

\* Only finished pods are forgotten, with all that waited for them.
LEMMA SyncKnownPodsForgets ==
  ASSUME TypeOK, NEW desired \in SUBSET UIDs, SyncKnownPods(desired)
  PROVE  \E gone \in SUBSET UIDs :
           /\ \A v \in gone : podSyncStatuses[v].known /\ podSyncStatuses[v].finished
           /\ podSyncStatuses' =
                [v \in UIDs |-> IF v \in gone THEN Unknown ELSE podSyncStatuses[v]]
           /\ CleanUp(gone)
           /\ UNCHANGED <<worker, version>>
BY DEF SyncKnownPods, Forgettable

LEMMA SyncKnownPodsLife ==
  ASSUME TypeOK, NEW desired \in SUBSET UIDs, SyncKnownPods(desired),
         NEW u \in UIDs, WorkerInv(u), LifeInv(u)
  PROVE  LifeInv(u)'
<1>1. PICK gone \in SUBSET UIDs :
        /\ \A v \in gone : podSyncStatuses[v].known /\ podSyncStatuses[v].finished
        /\ podSyncStatuses' =
             [v \in UIDs |-> IF v \in gone THEN Unknown ELSE podSyncStatuses[v]]
        /\ CleanUp(gone)
        /\ UNCHANGED <<worker, version>>
  BY SyncKnownPodsForgets
<1>2. CASE u \in gone
  <2>1. /\ podSyncStatuses'[u] = Unknown /\ podUpdates'[u] = NoChan
        /\ lastUndelivered'[u] = NoWork
        /\ worker'[u] = worker[u] /\ worker[u].pc = "none"
    BY <1>1, <1>2 DEF CleanUp, WorkerInv
  <2>2. StatusInv(u)' /\ PlaceInv(u)' /\ NameInv(u)'
    BY <2>1 DEF LifeInv, StatusInv, PlaceInv, NameInv, Unknown, Unbegun
  <2>3. WorkInv(u)'
    BY <2>1 DEF WorkInv, InHand, NoChan, NoWork
  <2>4. QED
    BY <2>2, <2>3 DEF LifeInv
<1>3. CASE u \notin gone
  <2>1. Untouched(u)
    BY <1>1, <1>3 DEF CleanUp, Untouched
  <2>2. u \in StaticUIDs /\ startedStatic[FullNameOf[u]] = u
          => startedStatic'[FullNameOf[u]] = u
    BY <1>1, <1>3, PodWorkersAssumption DEF CleanUp
  <2>3. QED
    BY <2>1, <2>2, UntouchedLife
<1>4. QED
  BY <1>2, <1>3

LEMMA LifesInvInductive ==
  TypeOK /\ WorkersInv /\ LifesInv /\ [Next]_vars => LifesInv'
<1>1. SUFFICES ASSUME TypeOK, WorkersInv, LifesInv, [Next]_vars, NEW v \in UIDs,
                      KilledAsItself(v)
               PROVE  LifeInv(v)'
  BY DEF LifesInv, KilledAsItself
<1>2. WorkerInv(v) /\ LifeInv(v)
  BY <1>1 DEF WorkersInv, LifesInv
<1>3. Untouched(v) /\ UNCHANGED startedStatic => LifeInv(v)'
  BY <1>2, UntouchedLife
<1>4. ASSUME NEW u \in UIDs, NEW r \in Requests[u], NEW cacheTerminal \in BOOLEAN,
             UpdatePod(u, r, cacheTerminal)
      PROVE  LifeInv(v)'
  <2>1. CASE u = v
    BY <1>1, <1>2, <1>4, <2>1, UpdatePodLife
  <2>2. CASE u # v
    BY <1>1, <1>3, <1>4, <2>2, UpdatePodTouchesOne DEF UpdatePod
  <2>3. QED
    BY <2>1, <2>2
<1>5. ASSUME NEW u \in UIDs, WorkerStep(u) PROVE LifeInv(v)'
  <2>1. CASE u = v
    BY <1>1, <1>2, <1>5, <2>1, WorkerStepLife
  <2>2. CASE u # v
    <3>1. FullNameOf[v] \in Names
      BY PodWorkersAssumption
    <3>2. Untouched(v)
      BY <1>1, <1>5, <2>2, WorkerStepTouchesOne
    <3>3. QED
      BY <1>1, <1>2, <1>5, <2>2, <3>1, <3>2, UntouchedLife, WorkerStepKeepsNames
  <2>3. QED
    BY <2>1, <2>2
<1>6. ASSUME NEW u \in UIDs, CacheRefresh(u) PROVE LifeInv(v)'
  BY <1>3, <1>6 DEF CacheRefresh, Untouched
<1>7. ASSUME NEW desired \in SUBSET UIDs, SyncKnownPods(desired)
      PROVE  LifeInv(v)'
  BY <1>1, <1>2, <1>7, SyncKnownPodsLife
<1>8. CASE UNCHANGED vars
  BY <1>3, <1>8 DEF vars, Untouched
<1>9. QED
  BY <1>1, <1>4, <1>5, <1>6, <1>7, <1>8 DEF Next

LEMMA LifesInvInit == Init => LifesInv
BY DEF Init, LifesInv, LifeInv, StatusInv, PlaceInv, WorkInv, NameInv, InHand,
       Unbegun, NoChan, NoWorker, NoWork, Unknown

\* Whatever a worker holds or has waiting was asked for in the phase of life its
\* pod is in, unless a static pod is killed as a runtime pod.
THEOREM LifesInvariant == Spec => []LifesInv
BY LifesInvInit, LifesInvInductive, TypeCorrect, WorkersInvariant, PTL DEF Spec

\* What other kubelet loops are told of a pod is true of what its worker is doing,
\* for any number of pods, requests and failures.
THEOREM QueriesAreTrueHolds ==
  ASSUME NoStaticRuntimeKill
  PROVE  Spec => []QueriesAreTrue
<1>1. TypeOK /\ WorkersInv /\ LifesInv => QueriesAreTrue
  <2>1. SUFFICES ASSUME TypeOK, WorkersInv, LifesInv, NEW u \in UIDs,
                        worker[u].pc = "sync"
                 PROVE
           LET type == worker[u].update.type IN
           /\ type = "sync" =>
                ~ShouldPodContainersBeTerminating(u) /\ ~IsPodKnownTerminated(u)
           /\ type # "terminated" =>
                /\ CouldHaveRunningContainers(u) /\ ~ShouldPodRuntimeBeRemoved(u)
                /\ ShouldPodContentBeRemoved(u) => podSyncStatuses[u].evicted
           /\ type # "sync" => IsPodTerminationRequested(u)
    BY DEF QueriesAreTrue, At
  <2>2. podSyncStatuses[u].known /\ Fits(u, worker[u].update, podSyncStatuses[u])
    BY <2>1 DEF WorkersInv, WorkerInv, LifesInv, NoStaticRuntimeKill, LifeInv, WorkInv, InHand
  <2>3. QED
    BY <2>2 DEF Fits, ShouldPodContainersBeTerminating, IsPodKnownTerminated,
                CouldHaveRunningContainers, ShouldPodRuntimeBeRemoved,
                ShouldPodContentBeRemoved, IsPodTerminationRequested
<1>2. QED
  BY <1>1, LifesInvariant, TypeCorrect, WorkersInvariant, PTL

\* A static pod that has begun holds its full name until it is finished, and its
\* mirror pod is known to be terminating while it is stopped.
THEOREM StaticPodHoldsNameHolds ==
  ASSUME NoStaticRuntimeKill
  PROVE  Spec => []StaticPodHoldsName
<1>1. TypeOK /\ WorkersInv /\ LifesInv => StaticPodHoldsName
  <2>1. SUFFICES ASSUME TypeOK, WorkersInv, LifesInv, NEW u \in StaticUIDs,
                        worker[u].started
                 PROVE
           /\ startedStatic[FullNameOf[u]] = u
           /\ worker[u].pc = "sync" /\ worker[u].update.type = "terminating" =>
                IsPodForMirrorPodTerminatingByFullName(FullNameOf[u])
    BY DEF StaticPodHoldsName, At
  <2>2. u \in UIDs /\ u # NoUID
    BY PodWorkersAssumption
  <2>3. startedStatic[FullNameOf[u]] = u
    BY <2>1, <2>2 DEF LifesInv, NoStaticRuntimeKill, LifeInv, NameInv
  <2>4. worker[u].pc = "sync" =>
          /\ podSyncStatuses[u].known
          /\ Fits(u, worker[u].update, podSyncStatuses[u])
    BY <2>1, <2>2 DEF WorkersInv, WorkerInv, LifesInv, NoStaticRuntimeKill, LifeInv, WorkInv, InHand
  <2>5. QED
    BY <2>2, <2>3, <2>4 DEF Fits, IsPodForMirrorPodTerminatingByFullName
<1>2. QED
  BY <1>1, LifesInvariant, TypeCorrect, WorkersInvariant, PTL

(***************************************************************************)
(* The contract of PodLifecycle                                            *)
(*                                                                         *)
(* The refinement mapping takes of a status how far the pod is and of a    *)
(* worker whether syncPod runs.  A step of one UID maps to one step of the *)
(* contract, of that pod, or to none.                                      *)
(***************************************************************************)
LifePhase(s) ==
  IF ~s.known THEN "unknown" ELSE IF s.finished THEN "finished"
  ELSE IF s.terminated THEN "stopped"
  ELSE IF s.startedTerminating THEN "stopping"
  ELSE IF s.terminating THEN "stopRequested" ELSE "syncing"

InSync(w) == w.pc = "sync" /\ w.update.type = "sync"

LEMMA MappedPhase ==
  [u \in UIDs |-> PhaseOf(u)] = [u \in UIDs |-> LifePhase(podSyncStatuses[u])]
BY DEF PhaseOf, LifePhase

LEMMA MappedPhaseNext ==
  [u \in UIDs |-> PhaseOf(u)]' = [u \in UIDs |-> LifePhase(podSyncStatuses'[u])]
BY DEF PhaseOf, LifePhase

LEMMA MappedStarting ==
  {u \in UIDs : At(u, "sync") /\ worker[u].update.type = "sync"}
    = {u \in UIDs : InSync(worker[u])}
BY DEF At, InSync

LEMMA MappedStartingNext ==
  {u \in UIDs : At(u, "sync") /\ worker[u].update.type = "sync"}'
    = {u \in UIDs : InSync(worker'[u])}
BY DEF At, InSync

\* What a step of UID u leaves of the other UIDs.
OthersRest(u) ==
  \A v \in UIDs \ {u} :
    /\ podSyncStatuses'[v] = podSyncStatuses[v]
    /\ worker'[v] = worker[v]

LEMMA PhaseMoves ==
  ASSUME NEW u \in UIDs, NEW from, NEW to, OthersRest(u),
         LifePhase(podSyncStatuses[u]) \in from,
         LifePhase(podSyncStatuses'[u]) = to,
         InSync(worker'[u]) <=> InSync(worker[u])
  PROVE  Lifecycle!Move(u, from, to)
<1> DEFINE phase == [v \in UIDs |-> LifePhase(podSyncStatuses[v])]
           phaseNext == [v \in UIDs |-> LifePhase(podSyncStatuses'[v])]
<1>1. phase[u] \in from
  OBVIOUS
<1>2. phaseNext = [phase EXCEPT ![u] = to]
  BY DEF OthersRest
<1>3. {v \in UIDs : InSync(worker'[v])} = {v \in UIDs : InSync(worker[v])}
  BY DEF OthersRest
<1>4. QED
  BY <1>1, <1>2, <1>3, MappedPhase, MappedPhaseNext, MappedStarting,
     MappedStartingNext
  DEF Lifecycle!Move

LEMMA PhaseRests ==
  ASSUME \A v \in UIDs :
           LifePhase(podSyncStatuses'[v]) = LifePhase(podSyncStatuses[v]),
         \A v \in UIDs : InSync(worker'[v]) <=> InSync(worker[v])
  PROVE  UNCHANGED Lifecycle!vars
<1>1. [v \in UIDs |-> LifePhase(podSyncStatuses'[v])]
        = [v \in UIDs |-> LifePhase(podSyncStatuses[v])]
  OBVIOUS
<1>2. {v \in UIDs : InSync(worker'[v])} = {v \in UIDs : InSync(worker[v])}
  OBVIOUS
<1>3. QED
  BY <1>1, <1>2, MappedPhase, MappedPhaseNext, MappedStarting,
     MappedStartingNext
  DEF Lifecycle!vars

LEMMA SyncBegins ==
  ASSUME NEW u \in UIDs, OthersRest(u),
         LifePhase(podSyncStatuses[u]) \in {"syncing", "stopRequested"},
         LifePhase(podSyncStatuses'[u]) = LifePhase(podSyncStatuses[u]),
         InSync(worker'[u])
  PROVE  Lifecycle!BeginSync(u)
<1>1. [v \in UIDs |-> LifePhase(podSyncStatuses'[v])]
        = [v \in UIDs |-> LifePhase(podSyncStatuses[v])]
  BY DEF OthersRest
<1>2. {v \in UIDs : InSync(worker'[v])}
        = {v \in UIDs : InSync(worker[v])} \union {u}
  BY DEF OthersRest
<1>3. QED
  BY <1>1, <1>2, MappedPhase, MappedPhaseNext, MappedStarting,
     MappedStartingNext
  DEF Lifecycle!BeginSync

LEMMA SyncEnds ==
  ASSUME NEW u \in UIDs, OthersRest(u),
         LifePhase(podSyncStatuses'[u]) = LifePhase(podSyncStatuses[u]),
         InSync(worker[u]), ~InSync(worker'[u])
  PROVE  Lifecycle!EndSync(u)
<1>1. [v \in UIDs |-> LifePhase(podSyncStatuses'[v])]
        = [v \in UIDs |-> LifePhase(podSyncStatuses[v])]
  BY DEF OthersRest
<1>2. {v \in UIDs : InSync(worker'[v])}
        = {v \in UIDs : InSync(worker[v])} \ {u}
  BY DEF OthersRest
<1>3. u \in {v \in UIDs : InSync(worker[v])}
  OBVIOUS
<1>4. QED
  BY <1>1, <1>2, <1>3, MappedPhase, MappedPhaseNext, MappedStarting,
     MappedStartingNext
  DEF Lifecycle!EndSync

LEMMA NotStarting ==
  ASSUME NEW u \in UIDs, ~InSync(worker[u])
  PROVE  u \notin {v \in UIDs : At(v, "sync") /\ worker[v].update.type = "sync"}
BY DEF At, InSync

\* A step of the contract or none.
Refines == Lifecycle!Next \/ UNCHANGED Lifecycle!vars

LEMMA SameLifePhase ==
  ASSUME NEW s, NEW t, SameLife(s, t)
  PROVE  LifePhase(t) = LifePhase(s)
BY DEF SameLife, LifePhase

LEMMA UntouchedRest ==
  ASSUME NEW u, \A v \in UIDs \ {u} : Untouched(v)
  PROVE  OthersRest(u)
BY DEF OthersRest, Untouched

LEMMA RestsButFor ==
  ASSUME NEW u \in UIDs, OthersRest(u),
         LifePhase(podSyncStatuses'[u]) = LifePhase(podSyncStatuses[u]),
         InSync(worker'[u]) <=> InSync(worker[u])
  PROVE  Refines
<1>1. \A v \in UIDs :
        /\ LifePhase(podSyncStatuses'[v]) = LifePhase(podSyncStatuses[v])
        /\ InSync(worker'[v]) <=> InSync(worker[v])
  BY DEF OthersRest
<1>2. QED
  BY <1>1, PhaseRests DEF Refines

\* UpdatePod admits a pod, or asks it to stop.
LEMMA UpdatePodRefines ==
  ASSUME TypeOK, NEW u \in UIDs, NEW r \in Requests[u],
         NEW cacheTerminal \in BOOLEAN, UpdatePod(u, r, cacheTerminal),
         WorkerInv(u), LifeInv(u)
  PROVE  Refines
<1> DEFINE s == StatusFor(u, r, cacheTerminal)
           t == podSyncStatuses'[u]
           old == podSyncStatuses[u]
<1>1. s \in PodSyncStatus /\ version'[u] \in Nat
  BY StatusForType DEF TypeOK, UpdatePod
<1>2. /\ s.known
      /\ old.known => s = old
      /\ ~old.known =>
           /\ s.startedTerminating = s.finished
           /\ s.terminated = s.finished /\ s.terminating = s.finished
  BY StatusForLife
<1>3. IgnoreUpdate(u, r, s) \/ AcceptUpdate(u, r, s)
  BY DEF UpdatePod
<1>4. OthersRest(u)
  BY UpdatePodTouchesOne, UntouchedRest
<1> HIDE DEF s
<1>5. /\ IF IgnoreUpdate(u, r, s) THEN SameLife(s, t)
         ELSE /\ t.known /\ ~t.finished /\ t.terminated = s.terminated
              /\ t.startedTerminating = s.startedTerminating
              /\ s.terminating => t.terminating
              /\ ~s.finished /\ (s.finished = t.finished)
      /\ InSync(worker'[u]) <=> InSync(worker[u])
  <2>1. CASE IgnoreUpdate(u, r, s)
    BY <1>1, <2>1, IgnoreUpdateEffect
  <2>2. CASE ~IgnoreUpdate(u, r, s)
    <3>1. AcceptUpdate(u, r, s)
      BY <1>3, <2>2
    <3>2. /\ ~s.finished
          /\ t.known = s.known /\ t.terminated = s.terminated
          /\ t.startedTerminating = s.startedTerminating
          /\ t.finished = s.finished
          /\ s.terminating => t.terminating
          /\ worker' = IF podUpdates[u].open THEN worker
                       ELSE [worker EXCEPT ![u] = [NoWorker EXCEPT !.pc = "receive"]]
      BY <1>1, <3>1, AcceptUpdateEffect
    <3>3. ~podUpdates[u].open => worker[u].pc = "none" /\ worker'[u].pc = "receive"
      BY <3>2 DEF WorkerInv, TypeOK, NoWorker
    <3>4. InSync(worker'[u]) <=> InSync(worker[u])
      BY <3>2, <3>3 DEF InSync
    <3>5. QED
      BY <1>2, <2>2, <3>2, <3>4
  <2>3. QED
    BY <2>1, <2>2
<1>6. t \in PodSyncStatus
  BY UpdatePodType DEF TypeOK
<1>7. /\ t.terminating \in BOOLEAN /\ s.finished \in BOOLEAN
      /\ old.known \in BOOLEAN /\ s.startedTerminating \in BOOLEAN
      /\ s.terminated \in BOOLEAN /\ s.terminating \in BOOLEAN
  BY <1>1, <1>6 DEF PodSyncStatus, TypeOK
<1> HIDE DEF t, old
<1>8. CASE ~old.known
  <2>1. LifePhase(old) = "unknown"
    BY <1>8 DEF LifePhase
  <2>2. LifePhase(t) \in {"syncing", "stopRequested", "finished"}
    BY <1>2, <1>5, <1>7, <1>8 DEF LifePhase, SameLife
  <2>3. Lifecycle!Move(u, {"unknown"}, LifePhase(t))
    BY <1>4, <1>5, <2>1, PhaseMoves DEF t, old
  <2>4. QED
    BY <2>2, <2>3 DEF Refines, Lifecycle!Next, Lifecycle!Admit
<1>9. CASE old.known
  <2>1. \/ LifePhase(t) = LifePhase(old)
        \/ LifePhase(old) = "syncing" /\ LifePhase(t) = "stopRequested"
    BY <1>2, <1>5, <1>7, <1>9 DEF LifePhase, SameLife
  <2>2. CASE LifePhase(t) = LifePhase(old)
    BY <1>4, <1>5, <2>2, RestsButFor DEF t, old
  <2>3. CASE LifePhase(old) = "syncing" /\ LifePhase(t) = "stopRequested"
    <3>1. Lifecycle!Move(u, {"syncing"}, "stopRequested")
      BY <1>4, <1>5, <2>3, PhaseMoves DEF t, old
    <3>2. QED
      BY <3>1 DEF Refines, Lifecycle!Next, Lifecycle!RequestStop
  <2>4. QED
    BY <2>1, <2>2, <2>3
<1>10. QED
  BY <1>7, <1>8, <1>9

\* The worker's moves: syncPod begins or comes back, teardown begins, the
\* containers are down, the pod is finished.
LEMMA WorkerStepRefines ==
  ASSUME TypeOK, NEW u \in UIDs, WorkerStep(u), WorkerInv(u), LifeInv(u)
  PROVE  Refines
<1> DEFINE w == worker[u].update
           s == podSyncStatuses[u]
           t == podSyncStatuses'[u]
<1>1. OthersRest(u)
  BY WorkerStepTouchesOne, UntouchedRest
<1>2. /\ worker[u].pc # "none" => s.known /\ ~s.finished
      /\ worker[u].pc \in InHand => Fits(u, w, s)
  BY DEF WorkerInv, LifeInv, WorkInv
<1>3. ASSUME SameLife(s, t), worker[u].pc # "sync", worker'[u].pc # "sync"
      PROVE  Refines
  <2>1. LifePhase(t) = LifePhase(s)
    BY <1>3, SameLifePhase
  <2>2. QED
    BY <1>1, <1>3, <2>1, RestsButFor DEF InSync
<1>4. CASE Receive(u)
  <2>1. /\ worker[u].pc = "receive" /\ worker'[u].pc \in {"await", "context", "insert"}
        /\ UNCHANGED podSyncStatuses
    BY <1>4, ReceiveTakes, BeginType
  <2>2. QED
    BY <1>3, <2>1, SameLifeRefl
<1>5. CASE (\E found \in BOOLEAN : InsertPodCache(u, found)) \/ AwaitStatus(u)
  <2>1. PICK pc \in {"allow", "context"} : Goto(u, pc)
    BY <1>5 DEF InsertPodCache, AwaitStatus
  <2>2. worker'[u].pc = pc
    BY <2>1, GotoMoves DEF TypeOK
  <2>3. worker[u].pc \in {"insert", "await"} /\ UNCHANGED podSyncStatuses
    BY <1>5 DEF InsertPodCache, AwaitStatus, At
  <2>4. QED
    BY <1>3, <2>2, <2>3, SameLifeRefl
<1>6. CASE AllowPodStart(u)
  <2>1. /\ worker[u].pc = "allow" /\ SameLife(s, t)
        /\ \/ AllowedOn(u) \/ Moves(u, "unstarted") \/ Moves(u, "receive")
    BY <1>6, AllowPodStartOutcome
  <2>2. worker'[u].pc # "sync"
    BY <2>1 DEF AllowedOn, Moves, Begin
  <2>3. QED
    BY <1>3, <2>1, <2>2
<1>7. CASE ContextForWorker(u)
  <2> DEFINE pc == IF w.type = "terminating" THEN "ack" ELSE "sync"
  <2>1. worker[u].pc = "context" /\ Moves(u, pc)
    BY <1>7, ContextForWorkerMoves
  <2>2. SameLife(s, t) /\ worker'[u].pc = pc /\ worker'[u].update = w
    BY <2>1 DEF Moves
  <2>3. LifePhase(t) = LifePhase(s)
    BY <2>2, SameLifePhase
  <2>4. CASE w.type = "sync"
    <3>1. ~s.startedTerminating /\ ~s.terminated /\ s.known /\ ~s.finished
      BY <1>2, <2>1, <2>4 DEF Fits, InHand
    <3>2. LifePhase(s) \in {"syncing", "stopRequested"}
      BY <3>1 DEF LifePhase
    <3>3. Lifecycle!BeginSync(u)
      BY <1>1, <2>2, <2>3, <2>4, <3>2, SyncBegins DEF InSync
    <3>4. QED
      BY <3>3 DEF Refines, Lifecycle!Next
  <2>5. CASE w.type # "sync"
    BY <1>1, <2>1, <2>2, <2>3, <2>5, RestsButFor DEF InSync
  <2>6. QED
    BY <2>4, <2>5
<1>8. CASE AcknowledgeTerminating(u)
  <2>1. /\ worker[u].pc = "ack"
        /\ worker'[u].update = w
        /\ t.known = s.known /\ t.terminating = s.terminating
        /\ t.terminated = s.terminated /\ t.finished = s.finished
        /\ s.terminating => t.startedTerminating
    BY <1>8, AcknowledgeTerminatingEffect
  <2>2. w.type = "terminating" /\ Fits(u, w, s)
    BY <1>2, <2>1 DEF LifeInv, PlaceInv, InHand
  <2>3. s.known /\ ~s.finished /\ s.terminating /\ ~s.terminated
    BY <1>2, <2>1, <2>2 DEF Fits
  <2>4. /\ LifePhase(s) \in {"stopRequested", "stopping"}
        /\ LifePhase(t) = "stopping"
    BY <2>1, <2>3 DEF LifePhase
  <2>5. ~InSync(worker[u]) /\ ~InSync(worker'[u])
    BY <2>1, <2>2 DEF InSync
  <2>6. CASE LifePhase(s) = "stopping"
    BY <1>1, <2>4, <2>5, <2>6, RestsButFor
  <2>7. CASE LifePhase(s) = "stopRequested"
    <3>1. Lifecycle!Move(u, {"syncing", "stopRequested"}, "stopping")
      BY <1>1, <2>4, <2>5, <2>7, PhaseMoves
    <3>2. Lifecycle!BeginStop(u)
      BY <2>5, <3>1, NotStarting DEF Lifecycle!BeginStop
    <3>3. QED
      BY <3>2 DEF Refines, Lifecycle!Next
  <2>8. QED
    BY <2>4, <2>6, <2>7
<1>9. ASSUME NEW result, SyncReturns(u, result) PROVE Refines
  <2> DEFINE pc == After(w, result)
  <2>1. worker[u].pc = "sync" /\ Moves(u, pc)
    BY <1>9, SyncReturnsMoves
  <2>2. worker'[u].pc # "sync"
    BY <2>1 DEF Moves, After
  <2>3. SameLife(s, t)
    BY <2>1 DEF Moves
  <2>4. LifePhase(t) = LifePhase(s)
    BY <2>3, SameLifePhase
  <2>5. CASE InSync(worker[u])
    <3>1. Lifecycle!EndSync(u)
      BY <1>1, <2>2, <2>4, <2>5, SyncEnds DEF InSync
    <3>2. QED
      BY <3>1 DEF Refines, Lifecycle!Next
  <2>6. CASE ~InSync(worker[u])
    BY <1>1, <2>2, <2>4, <2>6, RestsButFor DEF InSync
  <2>7. QED
    BY <2>5, <2>6
<1>10. CASE CompleteSync(u)
  <2>1. /\ worker[u].pc = "natural" /\ worker'[u].pc = "next"
        /\ t.known = s.known /\ t.terminating /\ t.startedTerminating
        /\ t.terminated = s.terminated /\ t.finished = s.finished
    BY <1>10, CompleteSyncEffect
  <2>2. w.type = "sync" /\ Fits(u, w, s)
    BY <1>2, <2>1 DEF LifeInv, PlaceInv, InHand
  <2>3. s.known /\ ~s.finished /\ ~s.startedTerminating /\ ~s.terminated
    BY <1>2, <2>1, <2>2 DEF Fits
  <2>4. /\ LifePhase(s) \in {"syncing", "stopRequested"}
        /\ LifePhase(t) = "stopping"
    BY <2>1, <2>3 DEF LifePhase
  <2>5. ~InSync(worker[u]) /\ ~InSync(worker'[u])
    BY <2>1 DEF InSync
  <2>6. Lifecycle!Move(u, {"syncing", "stopRequested"}, "stopping")
    BY <1>1, <2>4, <2>5, PhaseMoves
  <2>7. Lifecycle!BeginStop(u)
    BY <2>5, <2>6, NotStarting DEF Lifecycle!BeginStop
  <2>8. QED
    BY <2>7 DEF Refines, Lifecycle!Next
<1>11. CASE CompleteTerminating(u)
  <2>1. /\ worker[u].pc = "stopped" /\ worker'[u].pc = "next"
        /\ t.known = s.known /\ t.terminating = s.terminating
        /\ t.startedTerminating = s.startedTerminating
        /\ t.terminated /\ t.finished = s.finished
    BY <1>11, CompleteTerminatingEffect
  <2>2. w.type = "terminating" /\ s.startedTerminating /\ Fits(u, w, s)
    BY <1>2, <2>1 DEF LifeInv, PlaceInv, InHand
  <2>3. s.known /\ ~s.finished /\ ~s.terminated
    BY <1>2, <2>1, <2>2 DEF Fits
  <2>4. LifePhase(s) \in {"stopping"} /\ LifePhase(t) = "stopped"
    BY <2>1, <2>2, <2>3 DEF LifePhase
  <2>5. ~InSync(worker[u]) /\ ~InSync(worker'[u])
    BY <2>1 DEF InSync
  <2>6. Lifecycle!Move(u, {"stopping"}, "stopped")
    BY <1>1, <2>4, <2>5, PhaseMoves
  <2>7. QED
    BY <2>6 DEF Refines, Lifecycle!Next, Lifecycle!Stopped
<1>12. CASE \/ CompleteTerminatingRuntimePod(u) \/ CompleteUnstartedTerminated(u)
            \/ CompleteTerminated(u)
  <2>1. /\ worker[u].pc \in {"orphaned", "unstarted", "cleaned"}
        /\ worker'[u] = NoWorker
        /\ t.known = s.known /\ t.finished
    BY <1>12, FinishEffect
  <2>2. Fits(u, w, s) /\ s.known /\ ~s.finished
    BY <1>2, <2>1 DEF InHand
  <2>3. s.terminating
    BY <2>1, <2>2 DEF LifeInv, PlaceInv, Fits
  <2>4. /\ LifePhase(s) \in {"stopRequested", "stopping", "stopped"}
        /\ LifePhase(t) = "finished"
    BY <2>1, <2>2, <2>3 DEF LifePhase
  <2>5. ~InSync(worker[u]) /\ ~InSync(worker'[u])
    BY <2>1 DEF InSync, NoWorker
  <2>6. Lifecycle!Move(u, {"stopRequested", "stopping", "stopped"}, "finished")
    BY <1>1, <2>4, <2>5, PhaseMoves
  <2>7. Lifecycle!Finish(u)
    BY <2>5, <2>6, NotStarting DEF Lifecycle!Finish
  <2>8. QED
    BY <2>7 DEF Refines, Lifecycle!Next
<1>13. CASE CompleteWork(u)
  <2>1. /\ worker[u].pc \in {"next", "canceled"} /\ worker'[u].pc = "receive"
        /\ SameLife(s, t)
    BY <1>13, CompleteWorkEffect
  <2>2. QED
    BY <1>3, <2>1
<1>14. QED
  BY <1>4, <1>5, <1>6, <1>7, <1>8, <1>9, <1>10, <1>11, <1>12, <1>13
  DEF WorkerStep

\* Housekeeping forgets finished pods.
LEMMA SyncKnownPodsRefines ==
  ASSUME TypeOK, NEW desired \in SUBSET UIDs, SyncKnownPods(desired)
  PROVE  Refines
<1>1. PICK gone \in SUBSET UIDs :
        /\ \A v \in gone : podSyncStatuses[v].known /\ podSyncStatuses[v].finished
        /\ podSyncStatuses' =
             [v \in UIDs |-> IF v \in gone THEN Unknown ELSE podSyncStatuses[v]]
        /\ CleanUp(gone)
        /\ UNCHANGED <<worker, version>>
  BY SyncKnownPodsForgets
<1> DEFINE phase == [v \in UIDs |-> LifePhase(podSyncStatuses[v])]
           phaseNext == [v \in UIDs |-> LifePhase(podSyncStatuses'[v])]
<1>2. \A v \in gone : phase[v] = "finished"
  BY <1>1 DEF LifePhase
<1>3. phaseNext = [v \in UIDs |-> IF v \in gone THEN "unknown" ELSE phase[v]]
  <2>1. LifePhase(Unknown) = "unknown"
    BY DEF LifePhase, Unknown
  <2>2. \A v \in UIDs : LifePhase(podSyncStatuses'[v]) =
          IF v \in gone THEN "unknown" ELSE LifePhase(podSyncStatuses[v])
    BY <1>1, <2>1
  <2>3. QED
    BY <2>2
<1>4. {v \in UIDs : InSync(worker'[v])} = {v \in UIDs : InSync(worker[v])}
  BY <1>1
<1> HIDE DEF phase, phaseNext
<1>5. Lifecycle!Forget(gone)
  BY <1>2, <1>3, <1>4, MappedPhase, MappedPhaseNext, MappedStarting,
     MappedStartingNext
  DEF Lifecycle!Forget, phase, phaseNext
<1>6. QED
  BY <1>5 DEF Refines, Lifecycle!Next

LEMMA NextRefines ==
  ASSUME NoStaticRuntimeKill
  PROVE  TypeOK /\ WorkersInv /\ LifesInv /\ [Next]_vars
           => [Lifecycle!Next]_(Lifecycle!vars)
<1>1. SUFFICES ASSUME TypeOK, WorkersInv, LifesInv, [Next]_vars
               PROVE  Refines
  BY DEF Refines
<1>2. \A u \in UIDs : WorkerInv(u) /\ LifeInv(u)
  BY <1>1 DEF WorkersInv, LifesInv, NoStaticRuntimeKill
<1>3. UNCHANGED <<podSyncStatuses, worker>> => Refines
  BY PhaseRests DEF Refines
<1>4. ASSUME NEW u \in UIDs, NEW r \in Requests[u], NEW cacheTerminal \in BOOLEAN,
             UpdatePod(u, r, cacheTerminal)
      PROVE  Refines
  BY <1>1, <1>2, <1>4, UpdatePodRefines
<1>5. ASSUME NEW u \in UIDs, WorkerStep(u) PROVE Refines
  BY <1>1, <1>2, <1>5, WorkerStepRefines
<1>6. ASSUME NEW u \in UIDs, CacheRefresh(u) PROVE Refines
  BY <1>3, <1>6 DEF CacheRefresh
<1>7. ASSUME NEW desired \in SUBSET UIDs, SyncKnownPods(desired) PROVE Refines
  BY <1>1, <1>7, SyncKnownPodsRefines
<1>8. CASE UNCHANGED vars
  BY <1>3, <1>8 DEF vars
<1>9. QED
  BY <1>1, <1>4, <1>5, <1>6, <1>7, <1>8 DEF Next

\* The pod workers, with their goroutines, channels and locks, keep the contract
\* of PodLifecycle for any number of pods and requests: no syncPod begins once
\* the stop was acknowledged, teardown waits for the one in flight, and a UID is
\* finished until it is forgotten.
THEOREM ImplementsLifecycleHolds ==
  ASSUME NoStaticRuntimeKill
  PROVE  Spec => ImplementsLifecycle
<1>1. Init => Lifecycle!Init
  <2>1. SUFFICES ASSUME Init PROVE Lifecycle!Init
    OBVIOUS
  <2>2. \A u \in UIDs : PhaseOf(u) = "unknown" /\ ~At(u, "sync")
    BY <2>1 DEF Init, PhaseOf, Unknown, At, NoWorker
  <2>3. QED
    BY <2>2 DEF Lifecycle!Init
<1>2. QED
  BY <1>1, NextRefines, TypeCorrect, WorkersInvariant, LifesInvariant, PTL
  DEF Spec, ImplementsLifecycle, Lifecycle!Spec

(***************************************************************************)
(* The order of updates                                                    *)
(*                                                                         *)
(* What waits for a worker is not older than what it processed last: first *)
(* what is in its channel, then what is in lastUndelivered.                *)
(***************************************************************************)
OrderInv(u) ==
  LET buf == podUpdates[u].buf
      next == lastUndelivered[u]
      last == worker[u].update.version IN
  u \notin StaticUIDs =>
    /\ last <= version[u]
    /\ buf # <<>> => last <= Head(buf).version /\ Head(buf).version <= version[u]
    /\ next # NoWork =>
         /\ last <= next.version /\ next.version <= version[u]
         /\ buf # <<>> => Head(buf).version <= next.version

OrdersInv == \A u \in UIDs : OrderInv(u)

LEMMA VersionsAreNat ==
  ASSUME TypeOK, NEW u \in UIDs
  PROVE  /\ version[u] \in Nat /\ worker[u].update.version \in Nat
         /\ lastUndelivered[u].version \in Nat
         /\ podUpdates[u].buf # <<>> => Head(podUpdates[u].buf).version \in Nat
<1>1. \A w \in Work \union {NoWork} : w.version \in Nat
  BY DEF Work, NoWork
<1>2. worker[u].update \in Work \union {NoWork}
      /\ lastUndelivered[u] \in Work \union {NoWork}
      /\ podUpdates[u].buf \in Seq(Work) /\ version[u] \in Nat
  BY DEF TypeOK, Worker, Channel
<1>3. podUpdates[u].buf # <<>> => Head(podUpdates[u].buf) \in Work
  BY <1>2, HeadTailProperties
<1>4. QED
  BY <1>1, <1>2, <1>3

LEMMA NoWorkerVersion == NoWorker.update.version = 0 /\ NoWorker.pc = "none"
BY DEF NoWorker, NoWork

\* A worker's step that leaves what it holds and what waits as they are.
LEMMA MovesOrder ==
  ASSUME NEW u, OrderInv(u), UNCHANGED version,
         worker'[u].update = worker[u].update,
         podUpdates'[u] = podUpdates[u], lastUndelivered'[u] = lastUndelivered[u]
  PROVE  OrderInv(u)'
BY DEF OrderInv

LEMMA WorkerStepOrder ==
  ASSUME TypeOK, NEW u \in UIDs, WorkerStep(u), WorkerInv(u), OrderInv(u)
  PROVE  OrderInv(u)'
<1>1. CASE Receive(u)
  <2>1. /\ podUpdates[u].buf # <<>> /\ podUpdates'[u].buf = <<>>
        /\ worker'[u].update = Head(podUpdates[u].buf)
        /\ UNCHANGED <<lastUndelivered, version>>
    BY <1>1, ReceiveTakes
  <2>2. QED
    BY <2>1, VersionsAreNat DEF OrderInv
<1>2. CASE (\E found \in BOOLEAN : InsertPodCache(u, found)) \/ AwaitStatus(u)
  <2>1. PICK pc : Goto(u, pc)
    BY <1>2 DEF InsertPodCache, AwaitStatus
  <2>2. worker'[u].update = worker[u].update
    BY <2>1, GotoMoves DEF TypeOK
  <2>3. UNCHANGED <<podUpdates, lastUndelivered, version>>
    BY <1>2 DEF InsertPodCache, AwaitStatus
  <2>4. QED
    BY <2>2, <2>3, MovesOrder
<1>3. CASE AllowPodStart(u)
  <2>1. /\ UNCHANGED <<podUpdates, lastUndelivered, version>>
        /\ AllowedOn(u) \/ Moves(u, "unstarted") \/ Moves(u, "receive")
    BY <1>3, AllowPodStartOutcome
  <2>2. worker'[u].update = worker[u].update
    BY <2>1 DEF AllowedOn, Moves
  <2>3. QED
    BY <2>1, <2>2, MovesOrder
<1>4. CASE ContextForWorker(u)
  <2>1. UNCHANGED version
    BY <1>4 DEF ContextForWorker
  <2>2. QED
    BY <1>4, <2>1, ContextForWorkerMoves, MovesOrder DEF Moves
<1>5. CASE AcknowledgeTerminating(u)
  BY <1>5, AcknowledgeTerminatingEffect, MovesOrder
<1>6. ASSUME NEW result, SyncReturns(u, result) PROVE OrderInv(u)'
  <2>1. UNCHANGED version
    BY <1>6 DEF SyncReturns
  <2>2. QED
    BY <1>6, <2>1, SyncReturnsMoves, MovesOrder DEF Moves
<1>7. CASE CompleteSync(u) \/ CompleteTerminating(u)
  <2>1. /\ worker'[u].update = worker[u].update
        /\ worker[u].pc \in {"natural", "stopped"}
        /\ UNCHANGED <<podUpdates, version>>
    BY <1>7, CompleteSyncEffect, CompleteTerminatingEffect
  <2>2. lastUndelivered'[u].version = worker[u].update.version
    BY <1>7, CompleteSyncEffect, CompleteTerminatingEffect, NextPhaseLeaves
  <2>3. podUpdates[u].buf = <<>>
    BY <2>1 DEF WorkerInv
  <2>4. QED
    BY <2>1, <2>2, <2>3, VersionsAreNat DEF OrderInv
<1>8. CASE \/ CompleteTerminatingRuntimePod(u) \/ CompleteUnstartedTerminated(u)
           \/ CompleteTerminated(u)
  <2>1. /\ worker'[u] = NoWorker /\ podUpdates'[u] = NoChan
        /\ lastUndelivered'[u] = NoWork
    BY <1>8, FinishEffect
  <2>2. UNCHANGED version
    BY <1>8 DEF CompleteTerminatingRuntimePod, CompleteUnstartedTerminated,
                CompleteTerminated, Finish
  <2>3. podUpdates'[u].buf = <<>> /\ worker'[u].update.version = 0
    BY <2>1, NoWorkerVersion DEF NoChan
  <2>4. QED
    BY <2>1, <2>2, <2>3, VersionsAreNat DEF OrderInv
<1>9. CASE CompleteWork(u)
  <2> DEFINE w == lastUndelivered[u]
  <2>1. /\ worker'[u].update = worker[u].update
        /\ UNCHANGED version
        /\ lastUndelivered'[u] = NoWork
        /\ podUpdates'[u].buf = IF w # NoWork THEN <<w>> ELSE <<>>
    BY <1>9, CompleteWorkEffect
  <2> HIDE DEF w
  <2>2. podUpdates'[u].buf # <<>> => w # NoWork /\ Head(podUpdates'[u].buf) = w
    BY <2>1
  <2>3. QED
    BY <2>1, <2>2 DEF OrderInv, w
<1>10. QED
  BY <1>1, <1>2, <1>3, <1>4, <1>5, <1>6, <1>7, <1>8, <1>9 DEF WorkerStep

\* An update is newer than all before it, and waits behind them: a pod that is not
\* static has nothing undelivered when its worker waits at an empty channel.
LEMMA UpdatePodOrder ==
  ASSUME TypeOK, NEW u \in UIDs, NEW r \in Requests[u], u \notin StaticUIDs,
         NEW cacheTerminal \in BOOLEAN, UpdatePod(u, r, cacheTerminal),
         WorkerInv(u), LifeInv(u), OrderInv(u)
  PROVE  OrderInv(u)'
<1> DEFINE s == StatusFor(u, r, cacheTerminal)
<1>1. /\ s \in PodSyncStatus
      /\ version'[u] = version[u] + 1 /\ version'[u] \in Nat
  BY StatusForType DEF TypeOK, UpdatePod
<1>2. IgnoreUpdate(u, r, s) \/ AcceptUpdate(u, r, s)
  BY DEF UpdatePod
<1>3. /\ s.working = podSyncStatuses[u].working
  <2>1. podSyncStatuses[u].working \in BOOLEAN /\ s.working \in BOOLEAN
    BY <1>1 DEF TypeOK, PodSyncStatus
  <2>2. ~podSyncStatuses[u].known => ~podSyncStatuses[u].working
    BY DEF WorkerInv
  <2>3. QED
    BY <2>1, <2>2, StatusForKeeps
<1> HIDE DEF s
<1>4. CASE IgnoreUpdate(u, r, s)
  <2>1. UNCHANGED <<podUpdates, lastUndelivered, worker>>
    BY <1>1, <1>4, IgnoreUpdateEffect
  <2>2. QED
    BY <1>1, <2>1, VersionsAreNat DEF OrderInv
<1>5. CASE AcceptUpdate(u, r, s)
  <2>1. worker' = IF podUpdates[u].open THEN worker
                  ELSE [worker EXCEPT ![u] = [NoWorker EXCEPT !.pc = "receive"]]
    BY <1>1, <1>5, AcceptUpdateEffect
  <2>2. PICK w : /\ AcceptedWork(u, r, podSyncStatuses'[u], w)
                 /\ IF s.working
                    THEN /\ lastUndelivered' = [lastUndelivered EXCEPT ![u] = w]
                         /\ UNCHANGED podUpdates
                    ELSE /\ podUpdates' = [podUpdates EXCEPT ![u] =
                              [open |-> TRUE,
                               buf |-> Append(podUpdates[u].buf, w)]]
                         /\ UNCHANGED lastUndelivered
    BY <1>1, <1>5, AcceptUpdateEffect
  <2>3. w.version = version[u] + 1
    BY <1>1, <2>2 DEF AcceptedWork
  <2>4. worker'[u].update.version \in {0, worker[u].update.version}
    <3>1. [NoWorker EXCEPT !.pc = "receive"].update = NoWorker.update
      BY DEF NoWorker
    <3>2. worker'[u] \in {worker[u], [NoWorker EXCEPT !.pc = "receive"]}
      BY <2>1 DEF TypeOK
    <3>3. QED
      BY <3>1, <3>2, NoWorkerVersion
  <2>5. CASE s.working
    <3>1. lastUndelivered'[u] = w /\ UNCHANGED podUpdates
      BY <2>2, <2>5 DEF TypeOK
    <3>2. QED
      BY <1>1, <2>3, <2>4, <3>1, VersionsAreNat DEF OrderInv
  <2>6. CASE ~s.working
    <3>1. /\ worker[u].pc \in {"none", "receive"} /\ podUpdates[u].buf = <<>>
      BY <1>3, <2>6 DEF WorkerInv
    <3>2. lastUndelivered[u] = NoWork
      BY <3>1 DEF WorkerInv, LifeInv, WorkInv, WaitsForName
    <3>3. podUpdates'[u].buf = <<w>> /\ lastUndelivered'[u] = NoWork
      BY <2>2, <2>6, <3>1, <3>2 DEF TypeOK
    <3>4. Head(podUpdates'[u].buf) = w
      BY <3>3
    <3>5. QED
      BY <1>1, <2>3, <2>4, <3>3, <3>4, VersionsAreNat DEF OrderInv
  <2>7. QED
    BY <2>5, <2>6
<1>6. QED
  BY <1>2, <1>4, <1>5

LEMMA OrdersInvInductive ==
  TypeOK /\ WorkersInv /\ LifesInv /\ OrdersInv /\ [Next]_vars => OrdersInv'
<1>1. SUFFICES ASSUME TypeOK, WorkersInv, LifesInv, OrdersInv, [Next]_vars,
                      NEW v \in UIDs, v \notin StaticUIDs
               PROVE  OrderInv(v)'
  BY DEF OrdersInv, OrderInv
<1>2. WorkerInv(v) /\ LifeInv(v) /\ OrderInv(v)
  BY <1>1 DEF WorkersInv, LifesInv, KilledAsItself, OrdersInv
<1>3. Untouched(v) /\ version'[v] = version[v] => OrderInv(v)'
  BY <1>2 DEF Untouched, OrderInv
<1>4. ASSUME NEW u \in UIDs, NEW r \in Requests[u], NEW cacheTerminal \in BOOLEAN,
             UpdatePod(u, r, cacheTerminal)
      PROVE  OrderInv(v)'
  <2>1. CASE u = v
    BY <1>1, <1>2, <1>4, <2>1, UpdatePodOrder
  <2>2. CASE u # v
    <3>1. version'[v] = version[v]
      BY <1>1, <1>4, <2>2 DEF UpdatePod, TypeOK
    <3>2. QED
      BY <1>1, <1>3, <1>4, <2>2, <3>1, UpdatePodTouchesOne
  <2>3. QED
    BY <2>1, <2>2
<1>5. ASSUME NEW u \in UIDs, WorkerStep(u) PROVE OrderInv(v)'
  <2>1. CASE u = v
    BY <1>1, <1>2, <1>5, <2>1, WorkerStepOrder
  <2>2. CASE u # v
    <3>1. UNCHANGED version
      BY <1>5
      DEF WorkerStep, Receive, InsertPodCache, AllowPodStart, AwaitStatus,
          ContextForWorker, AcknowledgeTerminating, SyncReturns, CompleteSync,
          CompleteTerminating, CompleteTerminatingRuntimePod,
          CompleteUnstartedTerminated, CompleteTerminated, Finish, CompleteWork
    <3>2. QED
      BY <1>1, <1>3, <1>5, <2>2, <3>1, WorkerStepTouchesOne
  <2>3. QED
    BY <2>1, <2>2
<1>6. ASSUME NEW u \in UIDs, CacheRefresh(u) PROVE OrderInv(v)'
  BY <1>3, <1>6 DEF CacheRefresh, Untouched
<1>7. ASSUME NEW desired \in SUBSET UIDs, SyncKnownPods(desired)
      PROVE  OrderInv(v)'
  <2>1. PICK gone \in SUBSET UIDs :
          /\ \A u \in gone : podSyncStatuses[u].known /\ podSyncStatuses[u].finished
          /\ podSyncStatuses' =
               [u \in UIDs |-> IF u \in gone THEN Unknown ELSE podSyncStatuses[u]]
          /\ CleanUp(gone)
          /\ UNCHANGED <<worker, version>>
    BY <1>1, <1>7, SyncKnownPodsForgets
  <2>2. CASE v \in gone
    <3>1. podUpdates'[v].buf = <<>> /\ lastUndelivered'[v] = NoWork
          /\ worker'[v] = worker[v] /\ version'[v] = version[v]
      BY <2>1, <2>2 DEF CleanUp, NoChan
    <3>2. QED
      BY <1>2, <3>1 DEF OrderInv
  <2>3. CASE v \notin gone
    BY <1>3, <2>1, <2>3 DEF CleanUp, Untouched
  <2>4. QED
    BY <2>2, <2>3
<1>8. CASE UNCHANGED vars
  BY <1>3, <1>8 DEF vars, Untouched
<1>9. QED
  BY <1>1, <1>4, <1>5, <1>6, <1>7, <1>8 DEF Next

\* Updates of a pod that is not static are processed in the order of the calls:
\* its worker never turns to an older pod object than the one it had.
THEOREM UpdatesInOrderHolds == Spec => UpdatesInOrder
<1> DEFINE InOrder == \A u \in UIDs \ StaticUIDs :
             At(u, "receive") /\ worker'[u].pc # "receive" =>
               worker'[u].update.version >= worker[u].update.version
<1>1. Init => OrdersInv
  BY DEF Init, OrdersInv, OrderInv, NoWorker, NoWork, NoChan
<1>2. TypeOK /\ WorkersInv /\ OrdersInv /\ [Next]_vars => [InOrder]_vars
  <2>1. SUFFICES ASSUME TypeOK, WorkersInv, OrdersInv, [Next]_vars,
                        NEW v \in UIDs \ StaticUIDs,
                        worker[v].pc = "receive", worker'[v].pc # "receive"
                 PROVE  worker'[v].update.version >= worker[v].update.version
    BY DEF At
  <2>2. WorkerInv(v) /\ OrderInv(v)
    BY <2>1 DEF WorkersInv, OrdersInv
  <2>3. worker'[v] # worker[v]
    BY <2>1
  <2>4. ASSUME NEW u \in UIDs, NEW r \in Requests[u],
               NEW cacheTerminal \in BOOLEAN, UpdatePod(u, r, cacheTerminal)
        PROVE  FALSE
    <3>1. u = v
      BY <2>1, <2>3, <2>4, UpdatePodTouchesOne DEF Untouched
    <3>2. podUpdates[v].open
      BY <2>1, <2>2 DEF WorkerInv
    <3>3. UNCHANGED worker
      BY <2>4, <3>1, <3>2 DEF UpdatePod, IgnoreUpdate, AcceptUpdate
    <3>4. QED
      BY <2>3, <3>3
  <2>5. ASSUME NEW u \in UIDs, WorkerStep(u)
        PROVE  worker'[v].update.version >= worker[v].update.version
    <3>1. u = v
      BY <2>1, <2>3, <2>5, WorkerStepTouchesOne DEF Untouched
    <3>2. Receive(v)
      BY <2>1, <2>5, <3>1
      DEF WorkerStep, At, InsertPodCache, AllowPodStart, AwaitStatus,
          ContextForWorker, AcknowledgeTerminating, SyncReturns, CompleteSync,
          CompleteTerminating, CompleteTerminatingRuntimePod,
          CompleteUnstartedTerminated, CompleteTerminated, CompleteWork
    <3>3. /\ podUpdates[v].buf # <<>>
          /\ worker'[v].update = Head(podUpdates[v].buf)
      BY <2>1, <2>2, <3>2, ReceiveTakes
    <3>4. QED
      BY <2>1, <2>2, <3>3, VersionsAreNat DEF OrderInv
  <2>6. UNCHANGED worker => FALSE
    BY <2>3
  <2>7. QED
    BY <2>1, <2>4, <2>5, <2>6 DEF Next, CacheRefresh, SyncKnownPods, vars
<1>3. TypeOK /\ WorkersInv /\ LifesInv /\ OrdersInv /\ [Next]_vars
        => OrdersInv' /\ [InOrder]_vars
  BY <1>2, OrdersInvInductive
<1>4. QED
  BY <1>1, <1>3, TypeCorrect, WorkersInvariant, LifesInvariant, PTL
  DEF Spec, UpdatesInOrder
=============================================================================
