---------------------------- MODULE ProberProofs ----------------------------
(***************************************************************************)
(* Theorems about Prober, for every set of pods, specs and containers, all *)
(* thresholds and any number of workers.                                   *)
(*                                                                         *)
(* ProberInv: the worker in the map is the only one of its probe; a worker *)
(* that may leave is one of a pod that ends, so that a pod which was added *)
(* and does not end has all its workers; every success that is kept was    *)
(* earned; and the status that is being made, like the published one,      *)
(* claims no more.                                                         *)
(*                                                                         *)
(* Moves sums up what any step of a worker but the last does, Signals what *)
(* the other calls do to the workers, Reports what UpdatePodStatus does    *)
(* before it publishes.                                                    *)
(***************************************************************************)
EXTENDS Prober, TLAPS

\* What makes a worker leave has its pod end, and so has a view of a container that
\* has ended for good.
Minded(k, w) ==
  /\ w.pc = "send" => w.next \in {"wait", "exit"}
  /\ w.stopCh \/ w.deletion \/ w.pc = "exit" \/ w.next = "exit" => PodOf(k) \in ending
  /\ (w.pc = "decide" /\ w.view.state = "terminated" /\ spec[PodOf(k)].policy = "Never")
       => PodOf(k) \in ending

\* A pod that was added and does not end has all its workers.
Guarded(p) == p \in added \ ending => \A k \in ProbesOf(p) : workers[k] # NoWorker

\* A status that was begun after AddPod claims what was earned, unless the pod ends.
Honest(p, status) ==
  status.added => p \in added /\ (p \notin ending => Claimed(p, status))

WorkersInv ==
  /\ OneWorker
  /\ \A k \in Keys, j \in Slots : Minded(k, worker[k][j])
  /\ \A k \in Keys : workers[k] # NoWorker => PodOf(k) \in added
  /\ \A p \in UIDs : Guarded(p)

ClaimsInv ==
  /\ \A t \in ProbeTypes : results[t] = "success" => t \in earned
  /\ \A p \in UIDs : /\ SaysEnd(p, published[p]) => p \in ending
                     /\ Honest(p, published[p])
                     /\ Honest(p, report[p].status)

ProberInv == TypeOK /\ WorkersInv /\ ClaimsInv

-----------------------------------------------------------------------------
(***************************************************************************)
(* Types                                                                   *)
(***************************************************************************)
LEMMA SlotNumbers == Slots \subseteq Nat \ {0} /\ NoWorker \notin Slots
BY ProberAssumption DEF Slots, NoWorker

LEMMA KeyParts ==
  ASSUME NEW k \in Keys
  PROVE  PodOf(k) \in UIDs /\ NameOf(k) \in Names /\ TypeOf(k) \in ProbeTypes
BY DEF Keys, PodOf, NameOf, TypeOf

LEMMA NamesListed ==
  \A i \in 1..Len(Containers) : Containers[i] \in Names
BY DEF Names

LEMMA DeadType == Dead \in Worker
BY DEF Dead, Worker, Pcs, NoView, View, States, Results

LEMMA InType == \A state \in States : In(state) \in ContainerStatus
BY DEF In, ContainerStatus

LEMMA NoStatusType == NoStatus \in PodStatus /\ Idle \in Report
<1>1. NoStatus \in PodStatus
  BY InType DEF NoStatus, PodStatus, States
<1>2. 1 \in 1..Len(Containers)
  BY ProberAssumption
<1>3. QED
  BY <1>1, <1>2 DEF Idle, Report, ReportPcs

\* The fields a step of a worker changes.
LEMMA WorkerFields ==
  ASSUME NEW w \in Worker
  PROVE  /\ \A pc \in Pcs, view \in View : [w EXCEPT !.pc = pc, !.view = view] \in Worker
         /\ \A pc \in Pcs, next \in Pcs : [w EXCEPT !.pc = pc, !.next = next] \in Worker
         /\ \A pc \in Pcs, next \in Pcs, view \in View :
              [w EXCEPT !.view = view, !.pc = pc, !.next = next] \in Worker
         /\ \A b \in BOOLEAN : [w EXCEPT !.manualTriggerCh = b] \in Worker
         /\ \A b \in BOOLEAN : [w EXCEPT !.stopCh = b] \in Worker
         /\ \A pc \in Pcs, b \in BOOLEAN : [w EXCEPT !.pc = pc, !.stopCh = b] \in Worker
         /\ \A r \in Results, n \in Nat :
              [w EXCEPT !.lastResult = r, !.resultRun = n] \in Worker
         /\ \A b \in BOOLEAN, n \in Nat :
              [w EXCEPT !.onHold = b, !.resultRun = n] \in Worker
<1> USE DEF Worker
<1>1. \A pc \in Pcs, view \in View : [w EXCEPT !.pc = pc, !.view = view] \in Worker
  OBVIOUS
<1>2. \A pc \in Pcs, next \in Pcs : [w EXCEPT !.pc = pc, !.next = next] \in Worker
  OBVIOUS
<1>3. \A pc \in Pcs, next \in Pcs, view \in View :
        [w EXCEPT !.view = view, !.pc = pc, !.next = next] \in Worker
  OBVIOUS
<1>4. \A b \in BOOLEAN : [w EXCEPT !.manualTriggerCh = b] \in Worker
  OBVIOUS
<1>5. \A b \in BOOLEAN : [w EXCEPT !.stopCh = b] \in Worker
  OBVIOUS
<1>6. \A pc \in Pcs, b \in BOOLEAN : [w EXCEPT !.pc = pc, !.stopCh = b] \in Worker
  OBVIOUS
<1>7. \A r \in Results, n \in Nat : [w EXCEPT !.lastResult = r, !.resultRun = n] \in Worker
  OBVIOUS
<1>8. \A b \in BOOLEAN, n \in Nat : [w EXCEPT !.onHold = b, !.resultRun = n] \in Worker
  OBVIOUS
<1>9. QED
  BY <1>1, <1>2, <1>3, <1>4, <1>5, <1>6, <1>7, <1>8

\* Counting a result changes nothing that decides where a worker goes.
LEMMA CountedType ==
  ASSUME NEW w \in Worker, NEW result \in Results, NEW t \in ProbeTypes
  PROVE  LET c == Counted(w, result, t) IN
         /\ c \in Worker
         /\ c.pc = w.pc /\ c.next = w.next /\ c.view = w.view
         /\ c.deletion = w.deletion /\ c.stopCh = w.stopCh
<1>1. w.resultRun \in Nat
  BY DEF Worker
<1>2. \E n \in Nat : Counted(w, result, t) = [w EXCEPT !.lastResult = result, !.resultRun = n]
  <2> DEFINE n == IF w.lastResult = result
                  THEN IF w.resultRun < MaxRun(t) THEN w.resultRun + 1 ELSE w.resultRun
                  ELSE 1
  <2>1. n \in Nat
    BY <1>1
  <2>2. Counted(w, result, t) = [w EXCEPT !.lastResult = result, !.resultRun = n]
    BY DEF Counted
  <2>3. QED
    BY <2>1, <2>2
<1>3. PICK n \in Nat : Counted(w, result, t) = [w EXCEPT !.lastResult = result, !.resultRun = n]
  BY <1>2
<1>4. [w EXCEPT !.lastResult = result, !.resultRun = n] \in Worker
  BY WorkerFields
<1>5. QED
  BY <1>3, <1>4 DEF Worker

-----------------------------------------------------------------------------
(***************************************************************************)
(* What a step leaves alone stays true                                     *)
(***************************************************************************)
Grows ==
  /\ UNCHANGED spec
  /\ added \subseteq added' /\ ending \subseteq ending' /\ earned \subseteq earned'

LEMMA ClaimedKept ==
  ASSUME Grows, NEW p \in UIDs, NEW status, Claimed(p, status)
  PROVE  Claimed(p, status)'
BY DEF Grows, Claimed

LEMMA HonestKept ==
  ASSUME Grows, NEW p \in UIDs, NEW status, Honest(p, status)
  PROVE  Honest(p, status)'
BY ClaimedKept DEF Grows, Honest

LEMMA ClaimsKept ==
  ASSUME ProberInv, Grows, UNCHANGED <<published, report>>,
         \A t \in ProbeTypes : results'[t] = "success" => t \in earned'
  PROVE  ClaimsInv'
<1>1. ASSUME NEW p \in UIDs
      PROVE  /\ SaysEnd(p, published[p])' => p \in ending'
             /\ Honest(p, published[p])'
             /\ Honest(p, report[p].status)'
  <2>1. PICK a : a = published[p]
    OBVIOUS
  <2>2. PICK b : b = report[p].status
    OBVIOUS
  <2>3. Honest(p, a) /\ Honest(p, b)
    BY <2>1, <2>2 DEF ProberInv, ClaimsInv
  <2>4. Honest(p, a)' /\ Honest(p, b)'
    BY <2>3, HonestKept
  <2>5. published'[p] = a /\ report'[p].status = b
    BY <2>1, <2>2
  <2>6. Honest(p, published[p])' /\ Honest(p, report[p].status)'
    BY <2>4, <2>5
  <2>7. SaysEnd(p, published[p])' => p \in ending'
    BY DEF ProberInv, ClaimsInv, SaysEnd, Grows
  <2>8. QED
    BY <2>6, <2>7
<1>2. QED
  BY <1>1 DEF ClaimsInv

LEMMA MapKept ==
  ASSUME ProberInv, Grows, UNCHANGED <<workers, added>>
  PROVE  /\ \A k \in Keys : workers'[k] # NoWorker => PodOf(k) \in added'
         /\ \A p \in UIDs : Guarded(p)'
BY DEF ProberInv, WorkersInv, Grows, Guarded, ProbesOf

-----------------------------------------------------------------------------
(***************************************************************************)
(* A step of a worker                                                      *)
(***************************************************************************)
\* What a step of worker j of probe k does, unless it is its last
Moves(k, j, w) ==
  /\ OthersKeep /\ UNCHANGED workers
  /\ Alive(k, j) /\ w \in Worker /\ w.pc # "dead" /\ Minded(k, w)
  /\ worker' = [worker EXCEPT ![k][j] = w]
  /\ results' \in [ProbeTypes -> Results \union {"none"}]
  /\ updates' \in [ProbeTypes -> 0..UpdatesCap]
  /\ earned \subseteq earned' /\ earned' \in SUBSET ProbeTypes
  /\ \A t \in ProbeTypes : results'[t] = "success" => t \in earned'

LEMMA MovesInv ==
  ASSUME ProberInv, NEW k \in Keys, NEW j \in Slots, NEW w, Moves(k, j, w)
  PROVE  ProberInv'
<1>1. worker \in [Keys -> [Slots -> Worker]] /\ workers \in [Keys -> Slots \union {NoWorker}]
  BY DEF ProberInv, TypeOK
<1>2. /\ worker' \in [Keys -> [Slots -> Worker]]
      /\ worker'[k][j] = w
      /\ \A i \in Slots \ {j} : worker'[k][i] = worker[k][i]
      /\ \A l \in Keys \ {k} : worker'[l] = worker[l]
  BY <1>1 DEF Moves
<1>3. Grows
  BY DEF Moves, OthersKeep, podVars, Grows
<1>4. TypeOK'
  BY <1>2 DEF Moves, OthersKeep, podVars, ProberInv, TypeOK
<1>5. ASSUME NEW l \in Keys, NEW i \in Slots
      PROVE  (Alive(l, i)' <=> workers'[l] = i) /\ Minded(l, worker[l][i])'
  <2>1. CASE l = k /\ i = j
    BY <1>2, <2>1 DEF Moves, OthersKeep, podVars, Minded, ProberInv, WorkersInv, OneWorker,
                     Alive, At
  <2>2. CASE l # k \/ i # j
    <3>1. worker'[l][i] = worker[l][i]
      BY <1>2, <2>2
    <3>2. QED
      BY <3>1 DEF Moves, OthersKeep, podVars, Minded, ProberInv, WorkersInv, OneWorker,
                  Alive, At
  <2>3. QED
    BY <2>1, <2>2
<1>6. WorkersInv'
  <2>1. UNCHANGED <<workers, added>>
    BY DEF Moves, OthersKeep
  <2>2. QED
    BY <2>1, <1>3, <1>5, MapKept DEF WorkersInv, OneWorker
<1>7. ClaimsInv'
  <2>1. /\ UNCHANGED <<published, report>>
        /\ \A t \in ProbeTypes : results'[t] = "success" => t \in earned'
    BY DEF Moves, OthersKeep
  <2>2. QED
    BY <2>1, <1>3, ClaimsKept
<1>8. QED
  BY <1>4, <1>6, <1>7 DEF ProberInv

\* The types of what a worker at a place has.
LEMMA AtSlot ==
  ASSUME ProberInv, NEW k \in Keys, NEW j \in Slots
  PROVE  /\ worker[k][j] \in Worker /\ Minded(k, worker[k][j])
         /\ PodOf(k) \in UIDs /\ NameOf(k) \in Names /\ TypeOf(k) \in ProbeTypes
         /\ results \in [ProbeTypes -> Results \union {"none"}]
         /\ updates \in [ProbeTypes -> 0..UpdatesCap]
         /\ earned \in SUBSET ProbeTypes
         /\ \A t \in ProbeTypes : results[t] = "success" => t \in earned
BY KeyParts DEF ProberInv, TypeOK, WorkersInv, ClaimsInv

LEMMA ReturnMoves ==
  ASSUME ProberInv, NEW k \in Keys, NEW j \in Slots, NEW w \in Worker, NEW pc,
         Alive(k, j), Minded(k, w), Return(k, j, w, pc),
         pc \in {"look", "wait", "exit"}, pc = "exit" => PodOf(k) \in ending
  PROVE  \E v : Moves(k, j, v)
<1> DEFINE v == [w EXCEPT !.pc = pc, !.view = NoView]
<1>1. NoView \in View /\ pc \in Pcs
  BY DEF NoView, View, States, Pcs
<1>2. v \in Worker
  BY <1>1, WorkerFields
<1>3. v.pc = pc /\ v.next = w.next /\ v.stopCh = w.stopCh /\ v.deletion = w.deletion
  BY DEF Worker
<1>4. Minded(k, v) /\ v.pc # "dead"
  BY <1>3 DEF Minded
<1>5. worker' = [worker EXCEPT ![k][j] = v]
  BY DEF Return, Becomes
<1>6. UNCHANGED <<workers, results, updates, earned>> /\ OthersKeep
  BY DEF Return
<1> HIDE DEF v
<1>7. Moves(k, j, v)
  BY <1>2, <1>4, <1>5, <1>6, AtSlot DEF Moves
<1>8. QED
  BY <1>7

LEMMA SetMoves ==
  ASSUME ProberInv, NEW k \in Keys, NEW j \in Slots, NEW w \in Worker, NEW result \in Results,
         NEW next, Alive(k, j), Minded(k, w), Set(k, j, w, result, next),
         next \in {"wait", "exit"}, next = "exit" => PodOf(k) \in ending
  PROVE  \E v : Moves(k, j, v)
<1>1. NoView \in View /\ next \in Pcs /\ "send" \in Pcs
  BY DEF NoView, View, States, Pcs
<1>2. PICK v : /\ v = IF results[TypeOf(k)] # result
                      THEN [w EXCEPT !.view = NoView, !.pc = "send", !.next = next]
                      ELSE [w EXCEPT !.view = NoView, !.pc = next]
               /\ worker' = [worker EXCEPT ![k][j] = v]
  BY DEF Set, Becomes
<1>3. v \in Worker /\ v.pc # "dead" /\ Minded(k, v)
  <2>1. CASE results[TypeOf(k)] # result
    <3>1. v = [w EXCEPT !.view = NoView, !.pc = "send", !.next = next]
      BY <1>2, <2>1
    <3>2. v \in Worker
      BY <3>1, <1>1, WorkerFields
    <3>3. v.pc = "send" /\ v.next = next /\ v.stopCh = w.stopCh /\ v.deletion = w.deletion
      BY <3>1 DEF Worker
    <3>4. QED
      BY <3>2, <3>3 DEF Minded
  <2>2. CASE results[TypeOf(k)] = result
    <3>1. v = [w EXCEPT !.view = NoView, !.pc = next]
      BY <1>2, <2>2
    <3>2. v \in Worker
      BY <3>1, <1>1 DEF Worker
    <3>3. v.pc = next /\ v.next = w.next /\ v.stopCh = w.stopCh /\ v.deletion = w.deletion
      BY <3>1 DEF Worker
    <3>4. QED
      BY <3>2, <3>3 DEF Minded
  <2>3. QED
    BY <2>1, <2>2
<1>4. /\ results' = [results EXCEPT ![TypeOf(k)] = result]
      /\ earned' = IF result = "success" THEN earned \union {TypeOf(k)} ELSE earned
      /\ UNCHANGED <<workers, updates>> /\ OthersKeep
  BY DEF Set
<1>5. /\ results' \in [ProbeTypes -> Results \union {"none"}]
      /\ earned \subseteq earned' /\ earned' \in SUBSET ProbeTypes
      /\ \A t \in ProbeTypes : results'[t] = "success" => t \in earned'
  BY <1>4, AtSlot
<1>6. Moves(k, j, v)
  BY <1>2, <1>3, <1>4, <1>5, AtSlot DEF Moves
<1>7. QED
  BY <1>6

LEMMA LookMoves ==
  ASSUME ProberInv, NEW k \in Keys, NEW j \in Slots, Look(k, j)
  PROVE  \E v : Moves(k, j, v)
<1>1. PICK w \in Worker : w = worker[k][j] /\ Minded(k, w)
  BY AtSlot
<1>2. PICK p \in UIDs : p = PodOf(k)
  BY AtSlot
<1>3. PICK status \in PodStatus : status = published[p]
  BY DEF ProberInv, TypeOK
<1>4. SaysEnd(p, status) => p \in ending
  BY <1>3 DEF ProberInv, ClaimsInv
<1>5. Alive(k, j)
  BY DEF Look, Alive, At
<1>6. CASE Return(k, j, w, "wait")
  BY <1>1, <1>5, <1>6, ReturnMoves
<1>7. CASE Return(k, j, w, "exit") /\ status.terminal
  <2>1. PodOf(k) \in ending
    BY <1>2, <1>4, <1>7 DEF SaysEnd
  <2>2. QED
    BY <2>1, <1>1, <1>5, <1>7, ReturnMoves
<1>8. CASE /\ Becomes(k, j, [w EXCEPT
                !.view = [state |-> status.containers[NameOf(k)].state,
                          started |-> status.containers[NameOf(k)].started],
                !.pc = "decide"])
           /\ UNCHANGED <<workers, results, updates, earned>> /\ OthersKeep
  <2>1. PICK c \in ContainerStatus : c = status.containers[NameOf(k)]
    BY AtSlot DEF PodStatus
  <2>2. PICK v : v = [w EXCEPT !.view = [state |-> c.state, started |-> c.started],
                               !.pc = "decide"]
    OBVIOUS
  <2>3. v \in Worker
    <3>1. [state |-> c.state, started |-> c.started] \in View /\ "decide" \in Pcs
      BY DEF ContainerStatus, View, Pcs
    <3>2. QED
      BY <2>2, <3>1 DEF Worker
  <2>4. /\ v.pc = "decide" /\ v.view.state = c.state /\ v.next = w.next
        /\ v.stopCh = w.stopCh /\ v.deletion = w.deletion
    BY <2>2 DEF Worker
  <2>5. (c.state = "terminated" /\ spec[p].policy = "Never") => p \in ending
    BY <2>1, <1>4, AtSlot DEF SaysEnd
  <2>6. Minded(k, v)
    BY <1>1, <1>2, <2>4, <2>5 DEF Minded
  <2>7. worker' = [worker EXCEPT ![k][j] = v]
    BY <1>8, <2>1, <2>2 DEF Becomes
  <2>8. Moves(k, j, v)
    BY <1>5, <1>8, <2>3, <2>4, <2>6, <2>7, AtSlot DEF Moves
  <2>9. QED
    BY <2>8
<1>9. QED
  BY <1>1, <1>2, <1>3, <1>6, <1>7, <1>8 DEF Look

LEMMA SendMoves ==
  ASSUME ProberInv, NEW k \in Keys, NEW j \in Slots, Send(k, j)
  PROVE  \E v : Moves(k, j, v)
<1>1. PICK w \in Worker : w = worker[k][j] /\ Minded(k, w)
  BY AtSlot
<1>2. PICK v : v = [w EXCEPT !.pc = w.next, !.next = "dead"]
  OBVIOUS
<1>3. w.pc = "send" /\ w.next \in {"wait", "exit"} /\ w.next \in Pcs /\ "dead" \in Pcs
  BY <1>1 DEF Send, Minded, Worker, Pcs
<1>4. v \in Worker
  BY <1>2, <1>3, WorkerFields
<1>5. /\ v.pc = w.next /\ v.next = "dead" /\ v.stopCh = w.stopCh /\ v.deletion = w.deletion
  BY <1>2 DEF Worker
<1>6. Minded(k, v) /\ v.pc # "dead"
  BY <1>1, <1>3, <1>5 DEF Minded
<1>7. worker' = [worker EXCEPT ![k][j] = v]
  BY <1>1, <1>2 DEF Send, Becomes
<1>8. /\ updates' \in [ProbeTypes -> 0..UpdatesCap]
      /\ UNCHANGED <<workers, results, earned>> /\ OthersKeep
  <2>1. /\ updates[TypeOf(k)] < UpdatesCap
        /\ updates' = [updates EXCEPT ![TypeOf(k)] = @ + 1]
        /\ UNCHANGED <<workers, results, earned>> /\ OthersKeep
    BY DEF Send
  <2>2. updates[TypeOf(k)] + 1 \in 0..UpdatesCap
    BY <2>1, AtSlot, ProberAssumption
  <2>3. QED
    BY <2>1, <2>2, AtSlot
<1>9. Alive(k, j)
  BY <1>1, <1>3 DEF Alive, At
<1>10. Moves(k, j, v)
  BY <1>4, <1>6, <1>7, <1>8, <1>9, AtSlot DEF Moves
<1>11. QED
  BY <1>10

\* The ends of a doProbe that has looked
LEMMA DecidingMoves ==
  ASSUME ProberInv, NEW k \in Keys, NEW j \in Slots,
         OnHold(k, j) \/ NotRunning(k, j) \/ QuietShutdown(k, j) \/ Early(k, j) \/ Probe(k, j)
  PROVE  \E v : Moves(k, j, v)
<1>1. PICK w \in Worker : w = worker[k][j] /\ Minded(k, w)
  BY AtSlot
<1>2. w.pc = "decide" /\ Alive(k, j)
  BY <1>1 DEF OnHold, NotRunning, QuietShutdown, Early, Probe, Probed, Alive, At
<1>3. CASE Return(k, j, w, "wait")
  BY <1>1, <1>2, <1>3, ReturnMoves
<1>4. CASE NotRunning(k, j)
  <2>1. PICK pc \in {"exit", "wait"} :
          /\ Return(k, j, w, pc)
          /\ pc = "exit" => w.view.state = "terminated" /\ spec[PodOf(k)].policy = "Never"
    BY <1>1, <1>4 DEF NotRunning
  <2>2. pc = "exit" => PodOf(k) \in ending
    BY <1>1, <1>2, <2>1 DEF Minded
  <2>3. QED
    BY <1>1, <1>2, <2>1, <2>2, ReturnMoves
<1>5. CASE QuietShutdown(k, j)
  <2>1. Set(k, j, w, "success", "exit") /\ w.deletion
    BY <1>1, <1>5 DEF QuietShutdown
  <2>2. PodOf(k) \in ending /\ "success" \in Results
    BY <1>1, <2>1 DEF Minded, Results
  <2>3. QED
    BY <1>1, <1>2, <2>1, <2>2, SetMoves
<1>6. CASE Probe(k, j)
  <2>1. PICK outcome \in ProbeOutcomes, result \in Results, counted \in Worker :
          /\ counted.pc = w.pc /\ counted.next = w.next /\ counted.view = w.view
          /\ counted.deletion = w.deletion /\ counted.stopCh = w.stopCh
          /\ \/ Return(k, j, w, "wait")
             \/ Return(k, j, counted, "wait")
             \/ Set(k, j, [counted EXCEPT !.onHold = TRUE, !.resultRun = 0], result, "wait")
             \/ Set(k, j, counted, result, "wait")
    <3>1. PICK outcome \in ProbeOutcomes :
            LET result == resultOf(outcome)
                counted == Counted(w, result, TypeOf(k))
                hold == StopsEarly(k) /\ result = "failure"
            IN  IF outcome = "error" \/ counted.resultRun < Threshold(TypeOf(k), result)
                THEN Return(k, j, IF outcome = "error" THEN w ELSE counted, "wait")
                ELSE Set(k, j, IF hold THEN [counted EXCEPT !.onHold = TRUE, !.resultRun = 0]
                               ELSE counted, result, "wait")
      BY <1>1, <1>6 DEF Probe
    <3>2. PICK result \in Results : result = resultOf(outcome)
      BY DEF resultOf, Results
    <3>3. PICK counted \in Worker :
            /\ counted = Counted(w, result, TypeOf(k))
            /\ counted.pc = w.pc /\ counted.next = w.next /\ counted.view = w.view
            /\ counted.deletion = w.deletion /\ counted.stopCh = w.stopCh
      BY CountedType, AtSlot
    <3>4. QED
      BY <3>1, <3>2, <3>3
  <2>2. Minded(k, counted)
    BY <1>1, <2>1 DEF Minded
  <2>3. PICK held : held = [counted EXCEPT !.onHold = TRUE, !.resultRun = 0]
    OBVIOUS
  <2>4. held \in Worker
    BY <2>3, WorkerFields
  <2>5. Minded(k, held)
    BY <2>2, <2>3 DEF Minded, Worker
  <2>6. CASE Set(k, j, held, result, "wait")
    BY <1>2, <2>4, <2>5, <2>6, SetMoves
  <2>7. CASE Set(k, j, counted, result, "wait")
    BY <1>2, <2>2, <2>7, SetMoves
  <2>8. CASE Return(k, j, w, "wait")
    BY <1>1, <1>2, <2>8, ReturnMoves
  <2>9. CASE Return(k, j, counted, "wait")
    BY <1>2, <2>2, <2>9, ReturnMoves
  <2>10. QED
    BY <2>1, <2>3, <2>6, <2>7, <2>8, <2>9
<1>7. QED
  BY <1>1, <1>3, <1>4, <1>5, <1>6 DEF OnHold, Early

LEMMA WaitingMoves ==
  ASSUME ProberInv, NEW k \in Keys, NEW j \in Slots,
         StopSeen(k, j) \/ Tick(k, j) \/ Triggered(k, j)
  PROVE  \E v : Moves(k, j, v)
<1>1. PICK w \in Worker : w = worker[k][j] /\ Minded(k, w)
  BY AtSlot
<1>2. w.pc = "wait" /\ Alive(k, j)
  BY <1>1 DEF StopSeen, Tick, Triggered, Alive, At
<1>3. CASE StopSeen(k, j)
  <2>1. PICK v : v = [w EXCEPT !.pc = "exit", !.stopCh = FALSE]
    OBVIOUS
  <2>2. v \in Worker
    BY <2>1, WorkerFields DEF Pcs
  <2>3. v.pc = "exit" /\ v.next = w.next /\ v.deletion = w.deletion /\ v.stopCh = FALSE
    BY <2>1 DEF Worker
  <2>4. Minded(k, v)
    BY <1>1, <1>3, <2>3 DEF Minded, StopSeen
  <2>5. Moves(k, j, v)
    BY <1>1, <1>2, <1>3, <2>1, <2>2, <2>3, <2>4, AtSlot DEF Moves, StopSeen, Becomes
  <2>6. QED
    BY <2>5
<1>4. CASE Tick(k, j)
  <2>1. Return(k, j, w, "look")
    BY <1>1, <1>4 DEF Tick
  <2>2. QED
    BY <1>1, <1>2, <2>1, ReturnMoves
<1>5. CASE Triggered(k, j)
  <2>1. PICK v : v = [w EXCEPT !.manualTriggerCh = FALSE]
    OBVIOUS
  <2>2. v \in Worker
    BY <2>1, WorkerFields
  <2>3. Minded(k, v)
    BY <1>1, <2>1 DEF Minded, Worker
  <2>4. Return(k, j, v, "look")
    BY <1>1, <1>5, <2>1 DEF Triggered
  <2>5. QED
    BY <1>2, <2>2, <2>3, <2>4, ReturnMoves
<1>6. QED
  BY <1>3, <1>4, <1>5

\* A worker leaves the map and the probe in one step.
LEMMA RemoveWorkerInv ==
  ASSUME ProberInv, NEW k \in Keys, NEW j \in Slots, removeWorker(k, j)
  PROVE  ProberInv'
<1>1. worker \in [Keys -> [Slots -> Worker]] /\ workers \in [Keys -> Slots \union {NoWorker}]
  BY DEF ProberInv, TypeOK
<1>2. /\ worker' \in [Keys -> [Slots -> Worker]]
      /\ worker'[k][j] = Dead
      /\ \A i \in Slots \ {j} : worker'[k][i] = worker[k][i]
      /\ \A l \in Keys \ {k} : worker'[l] = worker[l]
  BY <1>1, DeadType DEF removeWorker, Becomes
<1>3. /\ workers' \in [Keys -> Slots \union {NoWorker}]
      /\ workers'[k] = NoWorker
      /\ \A l \in Keys \ {k} : workers'[l] = workers[l]
  BY <1>1 DEF removeWorker
<1>4. Grows /\ UNCHANGED <<added, ending, published, report, results, earned>>
  BY DEF removeWorker, OthersKeep, podVars, Grows
<1>5. TypeOK'
  BY <1>2, <1>3 DEF removeWorker, OthersKeep, podVars, ProberInv, TypeOK
<1>6. workers[k] = j /\ PodOf(k) \in ending
  <2>1. worker[k][j].pc = "exit"
    BY DEF removeWorker, At
  <2>2. Minded(k, worker[k][j])
    BY AtSlot
  <2>3. QED
    BY <2>1, <2>2 DEF ProberInv, WorkersInv, OneWorker, Alive, At, Minded
<1>7. OneWorker'
  <2>1. ASSUME NEW l \in Keys, NEW i \in Slots PROVE Alive(l, i)' <=> workers'[l] = i
    <3>1. CASE l # k
      BY <1>2, <1>3, <3>1 DEF ProberInv, WorkersInv, OneWorker, Alive, At
    <3>2. CASE l = k /\ i = j
      BY <1>2, <1>3, <3>2, SlotNumbers DEF Alive, At, Dead
    <3>3. CASE l = k /\ i # j
      BY <1>2, <1>3, <1>6, <3>3, SlotNumbers DEF ProberInv, WorkersInv, OneWorker, Alive, At
    <3>4. QED
      BY <3>1, <3>2, <3>3
  <2>2. QED
    BY <2>1 DEF OneWorker
<1>8. \A l \in Keys, i \in Slots : Minded(l, worker[l][i])'
  <2>1. ASSUME NEW l \in Keys, NEW i \in Slots PROVE Minded(l, worker[l][i])'
    <3>1. CASE l = k /\ i = j
      BY <1>2, <1>4, <1>6, <3>1 DEF Minded, Dead
    <3>2. CASE l # k \/ i # j
      <4>1. worker'[l][i] = worker[l][i]
        BY <1>2, <3>2
      <4>2. QED
        BY <1>4, <4>1 DEF Grows, Minded, ProberInv, WorkersInv
    <3>3. QED
      BY <3>1, <3>2
  <2>2. QED
    BY <2>1
<1>9. \A l \in Keys : workers'[l] # NoWorker => PodOf(l) \in added'
  BY <1>3, <1>4 DEF ProberInv, WorkersInv
<1>10. ASSUME NEW p \in UIDs PROVE Guarded(p)'
  <2>1. CASE p = PodOf(k)
    BY <1>4, <1>6, <2>1 DEF Guarded
  <2>2. CASE p # PodOf(k)
    <3>1. Guarded(p)
      BY DEF ProberInv, WorkersInv
    <3>2. ProbesOf(p)' = ProbesOf(p) /\ k \notin ProbesOf(p) /\ ProbesOf(p) \subseteq Keys
      BY <1>4, <2>2 DEF ProbesOf, Grows
    <3>3. QED
      BY <1>3, <1>4, <3>1, <3>2 DEF Guarded
  <2>3. QED
    BY <2>1, <2>2
<1>11. ClaimsInv'
  <2>1. \A t \in ProbeTypes : results'[t] = "success" => t \in earned'
    BY <1>4 DEF ProberInv, ClaimsInv
  <2>2. QED
    BY <1>4, <2>1, ClaimsKept
<1>12. QED
  BY <1>5, <1>7, <1>8, <1>9, <1>10, <1>11 DEF ProberInv, WorkersInv

LEMMA RunInv ==
  ASSUME ProberInv, NEW k \in Keys, NEW j \in Slots, run(k, j)
  PROVE  ProberInv'
BY LookMoves, SendMoves, DecidingMoves, WaitingMoves, MovesInv, RemoveWorkerInv DEF run, doProbe

-----------------------------------------------------------------------------
(***************************************************************************)
(* The manager's calls                                                     *)
(***************************************************************************)
\* Every probe has a rank, so that AddPod starts none that has a worker.
LEMMA PositionNumber == \A k \in Keys : Position(k) \in Nat
<1>1. ASSUME NEW k \in Keys PROVE Position(k) \in Nat
  <2>1. \E i \in 1..Len(Containers) : Containers[i] = NameOf(k)
    BY KeyParts DEF Names
  <2>2. (CHOOSE i \in 1..Len(Containers) : Containers[i] = NameOf(k)) \in Nat
    BY <2>1, ProberAssumption
  <2>3. Rank(TypeOf(k)) \in Nat
    BY KeyParts DEF Rank, ProbeTypes
  <2>4. QED
    BY <2>2, <2>3 DEF Position
<1>2. QED
  BY <1>1

LEMMA StartWorkersInv ==
  ASSUME ProberInv, NEW p \in UIDs, NEW new \in SUBSET ProbesOf(p), NEW deletion \in BOOLEAN,
         \A k \in new : workers[k] = NoWorker,
         p \notin added => new = ProbesOf(p),
         StartWorkers(p, new, deletion)
  PROVE  ProberInv'
<1>1. worker \in [Keys -> [Slots -> Worker]] /\ workers \in [Keys -> Slots \union {NoWorker}]
  BY DEF ProberInv, TypeOK
<1>2. new \subseteq Keys /\ \A k \in new : PodOf(k) = p
  BY DEF ProbesOf
<1>3. PICK started \in Worker :
        /\ started = newWorker(deletion)
        /\ started.pc = "look" /\ started.next = "dead" /\ started.stopCh = FALSE
        /\ started.deletion = deletion
  <2>1. newWorker(deletion) \in Worker
    BY DeadType DEF newWorker, Worker, Pcs
  <2>2. QED
    BY <2>1 DEF newWorker, Dead
<1>4. PICK slot \in [new -> Slots] :
        /\ \A k \in new : worker[k][slot[k]].pc = "dead"
        /\ workers' = [k \in Keys |-> IF k \in new THEN slot[k] ELSE workers[k]]
        /\ worker' = [k \in Keys |-> IF k \in new
                        THEN [worker[k] EXCEPT ![slot[k]] = started] ELSE worker[k]]
  BY <1>3 DEF StartWorkers
<1>5. /\ added' = added \union {p}
      /\ ending' = IF deletion THEN ending \union {p} ELSE ending
      /\ CallKeeps
  BY DEF StartWorkers
<1>6. Grows /\ UNCHANGED <<spec, published, report, results, earned>>
  BY <1>5 DEF CallKeeps, podVars, Grows
<1>7. /\ workers' \in [Keys -> Slots \union {NoWorker}]
      /\ worker' \in [Keys -> [Slots -> Worker]]
      /\ \A k \in Keys \ new : workers'[k] = workers[k] /\ worker'[k] = worker[k]
      /\ \A k \in new : /\ workers'[k] = slot[k] /\ slot[k] \in Slots
                        /\ worker'[k][slot[k]] = started
                        /\ \A i \in Slots \ {slot[k]} : worker'[k][i] = worker[k][i]
  BY <1>1, <1>2, <1>4
<1>8. TypeOK'
  BY <1>5, <1>7 DEF CallKeeps, podVars, ProberInv, TypeOK
<1>9. ASSUME NEW k \in Keys, NEW i \in Slots
      PROVE  (Alive(k, i)' <=> workers'[k] = i) /\ Minded(k, worker[k][i])'
  <2>1. Minded(k, worker[k][i]) /\ (Alive(k, i) <=> workers[k] = i)
    BY DEF ProberInv, WorkersInv, OneWorker
  <2>2. CASE k \in new /\ i = slot[k]
    BY <1>2, <1>3, <1>5, <1>7, <2>2 DEF Alive, At, Minded
  <2>3. CASE k \in new /\ i # slot[k]
    <3>1. worker'[k][i] = worker[k][i] /\ workers[k] = NoWorker /\ workers'[k] # i
      BY <1>7, <2>3
    <3>2. QED
      BY <1>6, <2>1, <3>1, SlotNumbers DEF Alive, At, Minded, Grows
  <2>4. CASE k \notin new
    BY <1>6, <1>7, <2>1, <2>4 DEF Alive, At, Minded, Grows
  <2>5. QED
    BY <2>2, <2>3, <2>4
<1>10. \A k \in Keys : workers'[k] # NoWorker => PodOf(k) \in added'
  BY <1>2, <1>5, <1>7 DEF ProberInv, WorkersInv
<1>11. ASSUME NEW q \in UIDs PROVE Guarded(q)'
  <2>1. Guarded(q) /\ ProbesOf(q)' = ProbesOf(q) /\ ProbesOf(q) \subseteq Keys
    BY <1>6 DEF ProberInv, WorkersInv, ProbesOf
  <2>2. CASE q \in added
    <3>1. q \in added' \ ending' => \A k \in ProbesOf(q) : workers[k] # NoWorker
      BY <1>6, <2>1, <2>2 DEF Guarded, Grows
    <3>2. QED
      BY <1>7, <2>1, <3>1, SlotNumbers DEF Guarded
  <2>3. CASE q \notin added
    <3>1. q \in added' => q = p /\ new = ProbesOf(q)
      BY <1>5, <2>3
    <3>2. QED
      BY <1>7, <2>1, <3>1, SlotNumbers DEF Guarded
  <2>4. QED
    BY <2>2, <2>3
<1>12. ClaimsInv'
  <2>1. \A t \in ProbeTypes : results'[t] = "success" => t \in earned'
    BY <1>6 DEF ProberInv, ClaimsInv
  <2>2. QED
    BY <1>6, <2>1, ClaimsKept
<1>13. QED
  BY <1>8, <1>9, <1>10, <1>11, <1>12 DEF ProberInv, WorkersInv, OneWorker

LEMMA AddPodInv ==
  ASSUME ProberInv, NEW p \in UIDs, NEW deletion \in BOOLEAN, AddPod(p, deletion)
  PROVE  ProberInv'
<1>1. PICK new : new = {k \in ProbesOf(p) : \A l \in ProbesOf(p) :
                          Position(l) <= Position(k) => workers[l] = NoWorker}
  OBVIOUS
<1>2. StartWorkers(p, new, deletion) /\ new \in SUBSET ProbesOf(p)
  BY <1>1 DEF AddPod
<1>3. \A k \in new : workers[k] = NoWorker
  BY <1>1, PositionNumber DEF ProbesOf
<1>4. p \notin added => new = ProbesOf(p)
  BY <1>1 DEF ProberInv, WorkersInv, ProbesOf
<1>5. QED
  BY <1>2, <1>3, <1>4, StartWorkersInv

\* What the other calls do to the workers: they signal some of them, and a stop only
\* those of pods that end.
Signals ==
  /\ worker' \in [Keys -> [Slots -> Worker]]
  /\ \A k \in Keys, j \in Slots :
       LET w == worker[k][j]  v == worker'[k][j] IN
       /\ v.pc = w.pc /\ v.next = w.next /\ v.view = w.view /\ v.deletion = w.deletion
       /\ v.stopCh => w.stopCh \/ PodOf(k) \in ending'

LEMMA SignalsInv ==
  ASSUME ProberInv, Grows, UNCHANGED <<workers, added>>, Signals
  PROVE  WorkersInv'
<1>1. ASSUME NEW k \in Keys, NEW j \in Slots
      PROVE  (Alive(k, j)' <=> workers'[k] = j) /\ Minded(k, worker[k][j])'
  <2>1. Minded(k, worker[k][j]) /\ (Alive(k, j) <=> workers[k] = j)
    BY DEF ProberInv, WorkersInv, OneWorker
  <2>2. Alive(k, j)' <=> workers'[k] = j
    BY <2>1 DEF Signals, Alive, At
  <2>3. QED
    BY <2>1, <2>2 DEF Signals, Minded, Grows
<1>2. QED
  BY <1>1, MapKept DEF WorkersInv, OneWorker

LEMMA StopInv ==
  ASSUME ProberInv, NEW probes \in SUBSET Keys, NEW pods \in SUBSET UIDs,
         \A k \in probes : PodOf(k) \in pods, Stop(probes, pods)
  PROVE  ProberInv'
<1>1. worker \in [Keys -> [Slots -> Worker]] /\ workers \in [Keys -> Slots \union {NoWorker}]
  BY DEF ProberInv, TypeOK
<1>2. /\ worker' = [k \in Keys |-> IF k \in probes /\ workers[k] # NoWorker
                     THEN [worker[k] EXCEPT ![workers[k]].stopCh = TRUE] ELSE worker[k]]
      /\ ending' = ending \union pods /\ UNCHANGED <<workers, added>> /\ CallKeeps
  BY DEF Stop
<1>3. Grows /\ UNCHANGED <<published, report, results, earned>>
  BY <1>2 DEF CallKeeps, podVars, Grows
<1>4. ASSUME NEW k \in Keys
      PROVE  /\ worker'[k] \in [Slots -> Worker]
             /\ \A j \in Slots :
                  LET w == worker[k][j]  v == worker'[k][j] IN
                  /\ v.pc = w.pc /\ v.next = w.next /\ v.view = w.view
                  /\ v.deletion = w.deletion
                  /\ v.stopCh => w.stopCh \/ PodOf(k) \in ending'
  <2>1. CASE k \in probes /\ workers[k] # NoWorker
    <3>1. worker[k] \in [Slots -> Worker] /\ workers[k] \in Slots
      BY <1>1, <2>1
    <3>2. worker'[k] = [worker[k] EXCEPT
                          ![workers[k]] = [worker[k][workers[k]] EXCEPT !.stopCh = TRUE]]
      BY <1>2, <2>1
    <3>3. PICK v : v = [worker[k][workers[k]] EXCEPT !.stopCh = TRUE]
      OBVIOUS
    <3>4. v \in Worker
      BY <3>1, <3>3, WorkerFields
    <3>5. /\ v.pc = worker[k][workers[k]].pc /\ v.next = worker[k][workers[k]].next
          /\ v.view = worker[k][workers[k]].view
          /\ v.deletion = worker[k][workers[k]].deletion
      BY <3>1, <3>3 DEF Worker
    <3>6. PodOf(k) \in ending'
      BY <1>2, <2>1
    <3>7. QED
      BY <3>1, <3>2, <3>3, <3>4, <3>5, <3>6
  <2>2. CASE ~(k \in probes /\ workers[k] # NoWorker)
    BY <1>1, <1>2, <2>2
  <2>3. QED
    BY <2>1, <2>2
<1>5. Signals
  <2>1. worker' \in [Keys -> [Slots -> Worker]]
    BY <1>2, <1>4
  <2>2. QED
    BY <2>1, <1>4 DEF Signals
<1>6. TypeOK'
  BY <1>2, <1>5 DEF Signals, CallKeeps, podVars, ProberInv, TypeOK
<1>7. \A t \in ProbeTypes : results'[t] = "success" => t \in earned'
  BY <1>3 DEF ProberInv, ClaimsInv
<1>8. QED
  BY <1>2, <1>3, <1>5, <1>6, <1>7, SignalsInv, ClaimsKept DEF ProberInv

LEMMA StopsInv ==
  /\ \A p \in UIDs : ProberInv /\ StopLivenessAndStartup(p) => ProberInv'
  /\ \A p \in UIDs : ProberInv /\ RemovePod(p) => ProberInv'
  /\ \A desiredPods \in SUBSET UIDs : ProberInv /\ CleanupPods(desiredPods) => ProberInv'
<1>1. ASSUME NEW p \in UIDs, ProberInv, StopLivenessAndStartup(p) PROVE ProberInv'
  <2> DEFINE probes == {k \in Keys : PodOf(k) = p /\ TypeOf(k) \in {"liveness", "startup"}}
  <2>1. Stop(probes, {p}) /\ probes \in SUBSET Keys /\ \A k \in probes : PodOf(k) \in {p}
    BY <1>1 DEF StopLivenessAndStartup
  <2>2. QED
    BY <1>1, <2>1, StopInv
<1>2. ASSUME NEW p \in UIDs, ProberInv, RemovePod(p) PROVE ProberInv'
  <2> DEFINE probes == {k \in Keys : PodOf(k) = p}
  <2>1. Stop(probes, {p}) /\ probes \in SUBSET Keys /\ \A k \in probes : PodOf(k) \in {p}
    BY <1>2 DEF RemovePod
  <2>2. QED
    BY <1>2, <2>1, StopInv
<1>3. ASSUME NEW desiredPods \in SUBSET UIDs, ProberInv, CleanupPods(desiredPods)
      PROVE  ProberInv'
  <2> DEFINE probes == {k \in Keys : PodOf(k) \notin desiredPods}
  <2>1. /\ Stop(probes, UIDs \ desiredPods) /\ probes \in SUBSET Keys
        /\ \A k \in probes : PodOf(k) \in UIDs \ desiredPods
    BY <1>3, KeyParts DEF CleanupPods
  <2>2. QED
    BY <1>3, <2>1, StopInv
<1>4. QED
  BY <1>1, <1>2, <1>3

-----------------------------------------------------------------------------
(***************************************************************************)
(* A status in the making                                                  *)
(***************************************************************************)
\* What a step of UpdatePodStatus before its last does
Reports(p, r) ==
  /\ ManagerKeeps
  /\ r \in Report /\ Honest(p, r.status)
  /\ report' = [report EXCEPT ![p] = r]

LEMMA ReportsInv ==
  ASSUME ProberInv, NEW p \in UIDs, NEW r, Reports(p, r), Signals
  PROVE  ProberInv'
<1>1. Grows /\ UNCHANGED <<workers, added, ending, spec, published, earned>>
  BY DEF Reports, ManagerKeeps, podVars, Grows
<1>2. TypeOK'
  BY DEF Reports, Signals, ManagerKeeps, podVars, ProberInv, TypeOK
<1>3. WorkersInv'
  BY <1>1, SignalsInv
<1>4. ASSUME NEW q \in UIDs
      PROVE  /\ SaysEnd(q, published[q])' => q \in ending'
             /\ Honest(q, published[q])' /\ Honest(q, report[q].status)'
  <2>1. PICK a : a = published[q]
    OBVIOUS
  <2>2. PICK b : b = report'[q].status
    OBVIOUS
  <2>3. Honest(q, a)
    BY <2>1 DEF ProberInv, ClaimsInv
  <2>4. Honest(q, b)
    <3>1. CASE q = p
      BY <2>2, <3>1 DEF Reports, ProberInv, TypeOK
    <3>2. CASE q # p
      <4>1. b = report[q].status
        BY <2>2, <3>2 DEF Reports, ProberInv, TypeOK
      <4>2. QED
        BY <4>1 DEF ProberInv, ClaimsInv
    <3>3. QED
      BY <3>1, <3>2
  <2>5. Honest(q, a)' /\ Honest(q, b)'
    BY <1>1, <2>3, <2>4, HonestKept
  <2>6. published'[q] = a /\ report'[q].status = b
    BY <1>1, <2>1, <2>2
  <2>7. Honest(q, published[q])' /\ Honest(q, report[q].status)'
    BY <2>5, <2>6
  <2>8. SaysEnd(q, published[q])' => q \in ending'
    BY <1>1 DEF ProberInv, ClaimsInv, SaysEnd
  <2>9. QED
    BY <2>7, <2>8
<1>5. \A t \in ProbeTypes : results'[t] = "success" => t \in earned'
  BY DEF Reports, ManagerKeeps, ProberInv, ClaimsInv
<1>6. QED
  BY <1>2, <1>3, <1>4, <1>5 DEF ProberInv, ClaimsInv

LEMMA QuietSignals ==
  ASSUME ProberInv, UNCHANGED worker
  PROVE  Signals
BY DEF ProberInv, TypeOK, Signals

\* The types of what a status in the making is put together from.
LEMMA AtReport ==
  ASSUME ProberInv, NEW p \in UIDs
  PROVE  /\ report[p] \in Report /\ Honest(p, report[p].status)
         /\ Container(p) \in Names /\ Reported(p) \in ContainerStatus
         /\ results \in [ProbeTypes -> Results \union {"none"}]
         /\ spec[p].policy \in {"Always", "OnFailure", "Never"}
         /\ spec[p].probes \in [Names -> SUBSET ProbeTypes]
<1>1. report[p] \in Report /\ Honest(p, report[p].status)
  BY DEF ProberInv, TypeOK, ClaimsInv
<1>2. Container(p) \in Names
  BY <1>1, NamesListed DEF Container, Report
<1>3. Reported(p) \in ContainerStatus
  BY <1>1, <1>2 DEF Reported, Report, PodStatus
<1>4. QED
  BY <1>1, <1>2, <1>3, ProberAssumption DEF ProberInv, TypeOK

LEMMA StateType ==
  ASSUME ProberInv, NEW p \in UIDs, NEW n \in Names
  PROVE  StateOf(p, n) \in States
BY DEF ProberInv, TypeOK, StateOf, States

LEMMA GenerateInv ==
  ASSUME ProberInv, NEW p \in UIDs, Generate(p)
  PROVE  ProberInv'
<1>1. Terminal(p) \subseteq BOOLEAN
  BY AtReport DEF Terminal
<1>2. PICK containers : containers = [n \in Names |-> In(StateOf(p, n))]
  OBVIOUS
<1>3. containers \in [Names -> ContainerStatus]
  BY <1>2, StateType, InType
<1>4. PICK status :
        /\ \E terminal \in BOOLEAN :
             status = [known |-> TRUE, terminal |-> terminal, containers |-> containers,
                       added |-> p \in added]
        /\ report' = [report EXCEPT ![p] = [pc |-> "started", at |-> 1, status |-> status]]
        /\ UNCHANGED worker /\ ManagerKeeps
  BY <1>1, <1>2 DEF Generate
<1>5. status \in PodStatus
  BY <1>3, <1>4 DEF PodStatus
<1>6. PICK r : r = [pc |-> "started", at |-> 1, status |-> status]
  OBVIOUS
<1>7. r \in Report
  <2>1. 1 \in 1..Len(Containers) /\ "started" \in ReportPcs
    BY ProberAssumption DEF ReportPcs
  <2>2. QED
    BY <1>5, <1>6, <2>1 DEF Report
<1>8. Claimed(p, status)
  <2>1. status.containers = containers
    BY <1>4
  <2>2. \A n \in Names : ~status.containers[n].started /\ ~status.containers[n].ready
    BY <1>2, <2>1 DEF In
  <2>3. QED
    BY <2>2 DEF Claimed
<1>9. Honest(p, r.status)
  <2>1. status.added = (p \in added)
    BY <1>4
  <2>2. r.status = status
    BY <1>6
  <2>3. QED
    BY <1>8, <2>1, <2>2 DEF Honest
<1>10. Reports(p, r)
  BY <1>4, <1>6, <1>7, <1>9 DEF Reports
<1>11. QED
  BY <1>4, <1>10, QuietSignals, ReportsInv

\* What an answer may claim of the container that is asked about
Earned(p, answered) ==
  report[p].status.added /\ p \notin ending =>
    /\ answered.started /\ "startup" \in spec[p].probes[Container(p)] => "startup" \in earned
    /\ answered.ready /\ "readiness" \in spec[p].probes[Container(p)] => "readiness" \in earned

LEMMA AnswerReports ==
  ASSUME ProberInv, NEW p \in UIDs, NEW answered \in ContainerStatus,
         NEW pc \in {"next", "startupWorker", "ready", "readinessWorker"},
         Earned(p, answered), Answer(p, answered, pc), ManagerKeeps
  PROVE  \E r : Reports(p, r)
<1>1. PICK n \in Names : n = Container(p)
  BY AtReport
<1>2. PICK q \in Report : q = report[p] /\ Honest(p, q.status)
  BY AtReport
<1>3. PICK status : status = [q.status EXCEPT !.containers[n] = answered]
  OBVIOUS
<1>4. q.status \in PodStatus /\ q.at \in 1..Len(Containers)
  BY DEF Report
<1>5. /\ status \in PodStatus /\ status.added = q.status.added
      /\ status.containers[n] = answered
      /\ \A m \in Names \ {n} : status.containers[m] = q.status.containers[m]
  BY <1>3, <1>4 DEF PodStatus
<1>6. Honest(p, status)
  <2>1. ASSUME status.added, p \notin ending PROVE Claimed(p, status)
    <3>1. Claimed(p, q.status)
      BY <1>2, <1>5, <2>1 DEF Honest
    <3>2. ASSUME NEW m \in Names
          PROVE  /\ status.containers[m].started /\ "startup" \in spec[p].probes[m]
                      => "startup" \in earned
                 /\ status.containers[m].ready /\ "readiness" \in spec[p].probes[m]
                      => "readiness" \in earned
      <4>1. CASE m = n
        BY <1>1, <1>2, <1>5, <2>1, <4>1 DEF Earned
      <4>2. CASE m # n
        BY <1>5, <3>1, <4>2 DEF Claimed
      <4>3. QED
        BY <4>1, <4>2
    <3>3. QED
      BY <3>2 DEF Claimed
  <2>2. QED
    BY <1>2, <1>5, <2>1 DEF Honest
<1>7. PICK to \in ReportPcs, at \in 1..Len(Containers) :
        report' = [report EXCEPT ![p] = [pc |-> to, at |-> at, status |-> status]]
  <2>1. PICK next : next = IF q.at < Len(Containers)
                           THEN [pc |-> "started", at |-> q.at + 1]
                           ELSE [pc |-> "publish", at |-> q.at]
    OBVIOUS
  <2>2. PICK goal : goal = IF pc = "next" THEN next ELSE [pc |-> pc, at |-> q.at]
    OBVIOUS
  <2>3. report' = [report EXCEPT ![p] = [pc |-> goal.pc, at |-> goal.at, status |-> status]]
    BY <1>1, <1>2, <1>3, <2>1, <2>2 DEF Answer, ProberInv, TypeOK
  <2>4. next.pc \in ReportPcs /\ next.at \in 1..Len(Containers)
    BY <1>4, <2>1, ProberAssumption DEF ReportPcs
  <2>5. goal.pc \in ReportPcs /\ goal.at \in 1..Len(Containers)
    BY <1>4, <2>2, <2>4 DEF ReportPcs
  <2>6. QED
    BY <2>3, <2>5
<1>8. PICK r : r = [pc |-> to, at |-> at, status |-> status]
  OBVIOUS
<1>9. r \in Report
  BY <1>5, <1>8 DEF Report
<1>10. Reports(p, r)
  BY <1>6, <1>7, <1>8, <1>9 DEF Reports
<1>11. QED
  BY <1>10

LEMMA AskedType ==
  ASSUME ProberInv, NEW p \in UIDs
  PROVE  /\ \A b \in BOOLEAN : /\ Started(p, b) \in ContainerStatus
                               /\ Started(p, b).started = b
                               /\ Started(p, b).ready = Reported(p).ready
         /\ \A b \in BOOLEAN : /\ Ready(p, b) \in ContainerStatus
                               /\ Ready(p, b).ready = b
                               /\ Ready(p, b).started = Reported(p).started
BY AtReport DEF Started, Ready, ContainerStatus

\* The part of the status that is there already claims what was earned.
LEMMA ReportedEarned ==
  ASSUME ProberInv, NEW p \in UIDs
  PROVE  Earned(p, Reported(p))
BY AtReport DEF Honest, Claimed, Earned, Reported

\* A pod that was added when its status was begun, and does not end, has the workers
\* of its container's probes.
LEMMA StillGuarded ==
  ASSUME ProberInv, NEW p \in UIDs, report[p].status.added, p \notin ending,
         NEW t \in {"startup", "readiness"}, t \in spec[p].probes[Container(p)]
  PROVE  workers[<<p, Container(p), t>>] # NoWorker
<1>1. PICK n \in Names : n = Container(p)
  BY AtReport
<1>2. p \in added
  BY AtReport DEF Honest
<1>3. <<p, n, t>> \in ProbesOf(p)
  BY <1>1 DEF ProbesOf, Keys, PodOf, NameOf, TypeOf, ProbeTypes
<1>4. QED
  BY <1>1, <1>2, <1>3 DEF ProberInv, WorkersInv, Guarded

LEMMA GetStartupInv ==
  ASSUME ProberInv, NEW p \in UIDs, GetStartup(p)
  PROVE  ProberInv'
<1>1. PICK started \in BOOLEAN, pc \in {"next", "startupWorker", "ready"} :
        /\ Answer(p, Started(p, started), pc) /\ ManagerKeeps /\ UNCHANGED worker
        /\ started => results["startup"] = "success"
  BY DEF GetStartup
<1>2. started => "startup" \in earned
  BY <1>1 DEF ProberInv, ClaimsInv, ProbeTypes
<1>3. PICK answered \in ContainerStatus : /\ answered = Started(p, started)
                                          /\ answered.started = started
                                          /\ answered.ready = Reported(p).ready
  BY AskedType
<1>4. Earned(p, answered)
  BY <1>2, <1>3, ReportedEarned DEF Earned
<1>5. QED
  BY <1>1, <1>3, <1>4, AnswerReports, QuietSignals, ReportsInv

LEMMA GetStartupWorkerInv ==
  ASSUME ProberInv, NEW p \in UIDs, GetStartupWorker(p)
  PROVE  ProberInv'
<1>1. PICK started \in BOOLEAN, pc \in {"next", "ready"} :
        /\ Answer(p, Started(p, started), pc) /\ ManagerKeeps /\ UNCHANGED worker
        /\ started => workers[<<p, Container(p), "startup">>] = NoWorker
  BY DEF GetStartupWorker
<1>2. PICK answered \in ContainerStatus : /\ answered = Started(p, started)
                                          /\ answered.started = started
                                          /\ answered.ready = Reported(p).ready
  BY AskedType
<1>3. Earned(p, answered)
  BY <1>1, <1>2, ReportedEarned, StillGuarded DEF Earned
<1>4. QED
  BY <1>1, <1>2, <1>3, AnswerReports, QuietSignals, ReportsInv

LEMMA GetReadinessInv ==
  ASSUME ProberInv, NEW p \in UIDs, GetReadiness(p)
  PROVE  ProberInv'
<1>1. PICK ready \in BOOLEAN, pc \in {"next", "readinessWorker"} :
        /\ Answer(p, Ready(p, ready), pc) /\ ManagerKeeps /\ UNCHANGED worker
        /\ ready => results["readiness"] = "success"
  BY DEF GetReadiness
<1>2. ready => "readiness" \in earned
  BY <1>1 DEF ProberInv, ClaimsInv, ProbeTypes
<1>3. PICK answered \in ContainerStatus : /\ answered = Ready(p, ready)
                                          /\ answered.ready = ready
                                          /\ answered.started = Reported(p).started
  BY AskedType
<1>4. Earned(p, answered)
  BY <1>2, <1>3, ReportedEarned DEF Earned
<1>5. QED
  BY <1>1, <1>3, <1>4, AnswerReports, QuietSignals, ReportsInv

LEMMA GetReadinessWorkerInv ==
  ASSUME ProberInv, NEW p \in UIDs, GetReadinessWorker(p)
  PROVE  ProberInv'
<1>1. PICK k \in Keys : k = <<p, Container(p), "readiness">>
  BY AtReport DEF Keys, ProbeTypes
<1>2. PICK ready \in BOOLEAN :
        /\ Answer(p, Ready(p, ready), "next") /\ ManagerKeeps
        /\ ready <=> workers[k] = NoWorker
        /\ worker' = IF ready THEN worker
                     ELSE [worker EXCEPT ![k][workers[k]].manualTriggerCh = TRUE]
  BY <1>1 DEF GetReadinessWorker
<1>3. PICK answered \in ContainerStatus : /\ answered = Ready(p, ready)
                                          /\ answered.ready = ready
                                          /\ answered.started = Reported(p).started
  BY AskedType
<1>4. Earned(p, answered)
  BY <1>1, <1>2, <1>3, ReportedEarned, StillGuarded DEF Earned
<1>5. Signals
  <2>1. CASE ready
    BY <1>2, <2>1, QuietSignals
  <2>2. CASE ~ready
    <3>1. /\ worker \in [Keys -> [Slots -> Worker]]
          /\ workers \in [Keys -> Slots \union {NoWorker}]
      BY DEF ProberInv, TypeOK
    <3>2. PICK j \in Slots : j = workers[k]
      BY <1>2, <2>2, <3>1
    <3>3. PICK v : v = [worker[k][j] EXCEPT !.manualTriggerCh = TRUE]
      OBVIOUS
    <3>4. v \in Worker
      <4>1. PICK w \in Worker : w = worker[k][j]
        BY AtSlot
      <4>2. QED
        BY <3>3, <4>1, WorkerFields
    <3>5. /\ v.pc = worker[k][j].pc /\ v.next = worker[k][j].next
          /\ v.view = worker[k][j].view /\ v.deletion = worker[k][j].deletion
          /\ v.stopCh = worker[k][j].stopCh
      BY <3>1, <3>3 DEF Worker
    <3>6. worker' = [worker EXCEPT ![k][j] = v]
      BY <1>2, <2>2, <3>1, <3>2, <3>3
    <3>7. /\ worker' \in [Keys -> [Slots -> Worker]]
          /\ worker'[k][j] = v
          /\ \A i \in Slots \ {j} : worker'[k][i] = worker[k][i]
          /\ \A l \in Keys \ {k} : worker'[l] = worker[l]
      BY <3>1, <3>4, <3>6
    <3>8. ASSUME NEW l \in Keys, NEW i \in Slots
          PROVE  LET a == worker[l][i]  b == worker'[l][i] IN
                 /\ b.pc = a.pc /\ b.next = a.next /\ b.view = a.view
                 /\ b.deletion = a.deletion /\ b.stopCh = a.stopCh
      <4>1. CASE l = k /\ i = j
        BY <3>5, <3>7, <4>1
      <4>2. CASE l # k \/ i # j
        BY <3>7, <4>2
      <4>3. QED
        BY <4>1, <4>2
    <3>9. QED
      BY <3>7, <3>8 DEF Signals
  <2>3. QED
    BY <2>1, <2>2
<1>6. QED
  BY <1>2, <1>3, <1>4, <1>5, AnswerReports, ReportsInv

LEMMA PublishInv ==
  ASSUME ProberInv, NEW p \in UIDs, Publish(p)
  PROVE  ProberInv'
<1>1. /\ report' = [report EXCEPT ![p] = Idle]
      /\ work' = [work EXCEPT ![p] = IF @ = "sync" THEN "terminating" ELSE "done"]
      /\ UNCHANGED <<spec, entry, exited, workers, worker, results, updates, added, earned>>
  BY DEF Publish
<1>2. PICK s \in PodStatus : s = report[p].status
  BY AtReport DEF Report
<1>3. \/ /\ published' = [published EXCEPT ![p] = s]
         /\ ending' = IF SaysEnd(p, s) THEN ending \union {p} ELSE ending
      \/ UNCHANGED <<published, ending>>
  BY <1>2 DEF Publish
<1>4. Grows /\ Signals
  BY <1>1, <1>3, QuietSignals DEF Grows
<1>5. published' \in [UIDs -> PodStatus] /\ ending' \in SUBSET UIDs
  BY <1>2, <1>3 DEF ProberInv, TypeOK
<1>6. TypeOK'
  BY <1>1, <1>5, NoStatusType DEF ProberInv, TypeOK
<1>7. WorkersInv'
  BY <1>1, <1>4, SignalsInv
<1>8. ASSUME NEW q \in UIDs
      PROVE  /\ SaysEnd(q, published[q])' => q \in ending'
             /\ Honest(q, published[q])' /\ Honest(q, report[q].status)'
  <2>1. Honest(q, report[q].status)'
    <3>1. CASE q = p
      <4>1. report'[q] = Idle
        BY <1>1, <3>1 DEF ProberInv, TypeOK
      <4>2. QED
        BY <4>1 DEF Honest, Idle, NoStatus
    <3>2. CASE q # p
      <4>1. PICK a : a = report[q].status
        OBVIOUS
      <4>2. Honest(q, a)
        BY <4>1 DEF ProberInv, ClaimsInv
      <4>3. report'[q].status = a
        BY <1>1, <3>2, <4>1 DEF ProberInv, TypeOK
      <4>4. Honest(q, a)'
        BY <1>4, <4>2, HonestKept
      <4>5. QED
        BY <4>3, <4>4
    <3>3. QED
      BY <3>1, <3>2
  <2>2. CASE published'[q] = published[q]
    <3>1. PICK a : a = published[q]
      OBVIOUS
    <3>2. Honest(q, a) /\ (SaysEnd(q, a) => q \in ending)
      BY <3>1 DEF ProberInv, ClaimsInv
    <3>3. Honest(q, a)'
      BY <1>4, <3>2, HonestKept
    <3>4. SaysEnd(q, published[q])' => q \in ending'
      BY <1>4, <2>2, <3>1, <3>2 DEF SaysEnd, Grows
    <3>5. QED
      BY <2>1, <2>2, <3>1, <3>3, <3>4
  <2>3. CASE published'[q] # published[q]
    <3>1. /\ q = p /\ published'[q] = s
          /\ ending' = IF SaysEnd(p, s) THEN ending \union {p} ELSE ending
      BY <1>3, <2>3 DEF ProberInv, TypeOK
    <3>2. Honest(q, s)
      BY <1>2, <3>1 DEF ProberInv, ClaimsInv
    <3>3. Honest(q, s)'
      BY <1>4, <3>2, HonestKept
    <3>4. SaysEnd(q, published[q])' => q \in ending'
      BY <1>4, <3>1 DEF SaysEnd, Grows
    <3>5. QED
      BY <2>1, <3>1, <3>3, <3>4
  <2>4. QED
    BY <2>2, <2>3
<1>9. \A t \in ProbeTypes : results'[t] = "success" => t \in earned'
  BY <1>1 DEF ProberInv, ClaimsInv
<1>10. QED
  BY <1>6, <1>7, <1>8, <1>9 DEF ProberInv, ClaimsInv

LEMMA UpdatePodStatusInv ==
  ASSUME ProberInv, NEW p \in UIDs, UpdatePodStatus(p)
  PROVE  ProberInv'
BY GenerateInv, GetStartupInv, GetStartupWorkerInv, GetReadinessInv, GetReadinessWorkerInv,
   PublishInv DEF UpdatePodStatus

LEMMA DeletePodStatusInv ==
  ASSUME ProberInv, NEW p \in UIDs, deletePodStatus(p)
  PROVE  ProberInv'
<1>1. /\ published' = [published EXCEPT ![p] = NoStatus]
      /\ UNCHANGED <<spec, work, entry, exited, workers, worker, results, updates, report,
                     added, ending, earned>>
  BY DEF deletePodStatus, podVars
<1>2. Grows /\ Signals
  BY <1>1, QuietSignals DEF Grows
<1>3. TypeOK'
  BY <1>1, NoStatusType DEF ProberInv, TypeOK
<1>4. WorkersInv'
  BY <1>1, <1>2, SignalsInv
<1>5. ASSUME NEW q \in UIDs
      PROVE  /\ SaysEnd(q, published[q])' => q \in ending'
             /\ Honest(q, published[q])' /\ Honest(q, report[q].status)'
  <2>1. PICK a : a = published'[q]
    OBVIOUS
  <2>2. Honest(q, a) /\ (SaysEnd(q, a) => q \in ending)
    <3>1. CASE q = p
      <4>1. a = NoStatus
        BY <1>1, <2>1, <3>1 DEF ProberInv, TypeOK
      <4>2. QED
        BY <4>1 DEF NoStatus, Honest, SaysEnd, In
    <3>2. CASE q # p
      BY <1>1, <2>1, <3>2 DEF ProberInv, TypeOK, ClaimsInv
    <3>3. QED
      BY <3>1, <3>2
  <2>3. PICK b : b = report[q].status
    OBVIOUS
  <2>4. Honest(q, b)
    BY <2>3 DEF ProberInv, ClaimsInv
  <2>5. Honest(q, a)' /\ Honest(q, b)'
    BY <1>2, <2>2, <2>4, HonestKept
  <2>6. QED
    BY <1>1, <2>1, <2>2, <2>3, <2>5 DEF SaysEnd
<1>6. \A t \in ProbeTypes : results'[t] = "success" => t \in earned'
  BY <1>1 DEF ProberInv, ClaimsInv
<1>7. QED
  BY <1>3, <1>4, <1>5, <1>6 DEF ProberInv, ClaimsInv

\* The pod cache has no part in what the invariant says.
LEMMA EntryInv ==
  ASSUME ProberInv, NEW p \in UIDs,
         insertPodCache(p) \/ SetPodCompleted(p) \/ \E n \in Names : SetContainerExit(p, n)
  PROVE  ProberInv'
<1>1. EntryMoves
  BY DEF insertPodCache, SetPodCompleted, SetContainerExit
<1>2. Grows /\ Signals
  BY <1>1, QuietSignals DEF EntryMoves, Grows
<1>3. /\ work' \in [UIDs -> {"none", "sync", "terminating", "done"}]
      /\ entry' \in [UIDs -> {"none", "ready", "completed"}]
      /\ exited' \in [UIDs -> SUBSET Names]
  <2>1. CASE insertPodCache(p)
    BY <2>1 DEF insertPodCache, ProberInv, TypeOK
  <2>2. CASE SetPodCompleted(p)
    BY <2>2 DEF SetPodCompleted, ProberInv, TypeOK
  <2>3. CASE \E n \in Names : SetContainerExit(p, n)
    BY <2>3 DEF SetContainerExit, ProberInv, TypeOK
  <2>4. QED
    BY <2>1, <2>2, <2>3
<1>4. TypeOK'
  BY <1>1, <1>3 DEF EntryMoves, ProberInv, TypeOK
<1>5. WorkersInv'
  BY <1>1, <1>2, SignalsInv DEF EntryMoves
<1>6. ClaimsInv'
  <2>1. \A t \in ProbeTypes : results'[t] = "success" => t \in earned'
    BY <1>1 DEF EntryMoves, ProberInv, ClaimsInv
  <2>2. QED
    BY <1>1, <1>2, <2>1, ClaimsKept DEF EntryMoves
<1>7. QED
  BY <1>4, <1>5, <1>6 DEF ProberInv

-----------------------------------------------------------------------------
(***************************************************************************)
(* The theorems                                                            *)
(***************************************************************************)
LEMMA InitProberInv ==
  ASSUME Init
  PROVE  ProberInv
<1>1. TypeOK
  BY DeadType, NoStatusType, ProberAssumption DEF Init, TypeOK
<1>2. WorkersInv
  BY SlotNumbers DEF Init, WorkersInv, OneWorker, Alive, At, Dead, Minded, Guarded
<1>3. ClaimsInv
  BY DEF Init, ClaimsInv, SaysEnd, Honest, Idle, NoStatus, In
<1>4. QED
  BY <1>1, <1>2, <1>3 DEF ProberInv

LEMMA NextProberInv ==
  ASSUME ProberInv, [Next]_vars
  PROVE  ProberInv'
<1>1. CASE \E p \in UIDs, deletion \in BOOLEAN : AddPod(p, deletion)
  BY <1>1, AddPodInv
<1>2. CASE \E p \in UIDs : StopLivenessAndStartup(p) \/ RemovePod(p)
  BY <1>2, StopsInv
<1>3. CASE \E desiredPods \in SUBSET UIDs : CleanupPods(desiredPods)
  BY <1>3, StopsInv
<1>4. CASE \E k \in Keys, j \in Slots : run(k, j)
  BY <1>4, RunInv
<1>5. CASE \E p \in UIDs : UpdatePodStatus(p) \/ deletePodStatus(p)
  BY <1>5, UpdatePodStatusInv, DeletePodStatusInv
<1>6. CASE \/ \E p \in UIDs : insertPodCache(p) \/ SetPodCompleted(p)
           \/ \E p \in UIDs, n \in Names : SetContainerExit(p, n)
  BY <1>6, EntryInv
<1>7. CASE UNCHANGED vars
  <2>1. UNCHANGED <<spec, work, entry, exited, published, workers, worker, results, updates,
                    report, added, ending, earned>>
    BY <1>7 DEF vars, podVars
  <2>2. Grows /\ Signals
    BY <2>1, QuietSignals DEF Grows
  <2>3. TypeOK'
    BY <2>1 DEF ProberInv, TypeOK
  <2>4. \A t \in ProbeTypes : results'[t] = "success" => t \in earned'
    BY <2>1 DEF ProberInv, ClaimsInv
  <2>5. QED
    BY <2>1, <2>2, <2>3, <2>4, SignalsInv, ClaimsKept DEF ProberInv
<1>8. QED
  BY <1>1, <1>2, <1>3, <1>4, <1>5, <1>6, <1>7 DEF Next

LEMMA ProberInvHolds == Spec => []ProberInv
<1>1. Init => ProberInv
  BY InitProberInv
<1>2. ProberInv /\ [Next]_vars => ProberInv'
  BY NextProberInv
<1>3. QED
  BY <1>1, <1>2, PTL DEF Spec

\* All of the probe manager's state has its type, and no channel of updates ever has
\* more updates than fit: a worker that has one too many is held up.
THEOREM ProberTypeCorrect == Spec => []TypeOK
<1>1. ProberInv => TypeOK
  BY DEF ProberInv
<1>2. QED
  BY <1>1, ProberInvHolds, PTL

\* A probe never has two workers, and none that the manager's map does not have: what
\* AddPod, the stopping calls and the workers' own leaving do to the map fit together.
THEOREM OneWorkerHolds == Spec => []OneWorker
<1>1. ProberInv => OneWorker
  BY DEF ProberInv, WorkersInv
<1>2. QED
  BY <1>1, ProberInvHolds, PTL

\* UpdatePodStatus asks for a result and for a worker one after the other, while
\* workers come and leave: still the status of a pod that was added, and does not end,
\* claims no container started or ready before a probe of that type has succeeded.
THEOREM ClaimsAreEarnedHolds == Spec => []ClaimsAreEarned
<1>1. ProberInv => ClaimsAreEarned
  BY DEF ProberInv, ClaimsInv, Honest, ClaimsAreEarned
<1>2. QED
  BY <1>1, ProberInvHolds, PTL
=============================================================================
