------------------------- MODULE PodCallbacksProofs -------------------------
(***************************************************************************)
(* Type correctness of PodCallbacks, and that the callbacks' unlocked      *)
(* get-change-set on a shared object neither loses an exit code nor makes  *)
(* one up, in the cache and in what the worker reports of it.              *)
(***************************************************************************)
EXTENDS PodCallbacks, TLAPS

-----------------------------------------------------------------------------
(* The inductive invariant *)

\* Only SetPodCompleted puts its own object in the cache, and nobody is handed it
\* before.
Places ==
  /\ cached \in Containers \union {"inserted", NoObject}
  /\ \A c \in Containers : got[c] \in Containers \union {"inserted", NoObject}
  /\ reading \in Containers \union {"inserted", NoObject}

\* Until then, the empty statuses made up for goroutines that found no entry show no
\* container.
EmptyOnes ==
  \A k \in Containers : \A d \in Containers :
    objects[k][d].state = "absent" /\ objects[k][d].ok

\* Does the status show an end, or a failure, only of a command that has come to it?
Real(st, c) ==
  /\ st[c].state = "exited" => pc[c] # "running"
  /\ ~st[c].ok => pc[c] # "running" /\ ~succeeded[c]

\* No object shows a failure of a command that did not fail, not even the completed one.
FailuresAreReal ==
  \A o \in Objects : \A c \in Containers :
    ~objects[o][c].ok => pc[c] # "running" /\ ~succeeded[c]

\* The worker's object and what the worker has reported are real.
RealOnes == \A c \in Containers : Real(objects["inserted"], c) /\ Real(reported, c)

\* The object is in the cache, or has been, and shows every container.
Made(o) ==
  /\ o \in {"inserted", "completed"}
  /\ o = "inserted" => place # "insert"
  /\ o = "completed" => completed
  /\ \A d \in Containers : objects[o][d].state # "absent"

Past(c) == pc[c] \in {"assigning", "stamped", "set"}

\* Unless a goroutine came too early, all of them have an object that was in the
\* cache, and until the pod is declared completed there is only one.
Shared ==
  /\ cached # NoObject => Made(cached)
  /\ \A c \in Containers : Past(c) => Made(got[c])
  /\ ~completed => cached = IF place = "insert" THEN NoObject ELSE "inserted"

\* What a goroutine has assigned so far is in its object, whatever the others did.
Assigned ==
  \A c \in Containers :
    /\ Past(c) /\ "state" \notin fields[c] => objects[got[c]][c].state = "exited"
    /\ Past(c) /\ "ok" \notin fields[c] => objects[got[c]][c].ok = succeeded[c]
    /\ pc[c] \in {"stamped", "set"} => fields[c] = {}

\* The worker was handed such an object, that of the goroutine that woke it.
Woken ==
  place = "making" =>
    /\ Made(reading)
    /\ wokenBy \in Containers => pc[wokenBy] = "set" /\ reading = got[wokenBy]

CallbacksInv ==
  /\ FailuresAreReal
  /\ ~completed => Places /\ EmptyOnes /\ RealOnes
  /\ ~missed => Shared /\ Assigned /\ Woken

-----------------------------------------------------------------------------
(* Type correctness *)

LEMMA Names ==
  /\ "inserted" \in Objects /\ "completed" \in Objects /\ Containers \subseteq Objects
  /\ "inserted" \notin Containers /\ "completed" \notin Containers
  /\ "main" \notin Containers
  /\ NoObject \notin Objects /\ NoObject \notin Containers /\ NoObject # "inserted"
BY PodCallbacksAssumption DEF Objects

LEMMA Builds ==
  /\ SetPodReady \in PodStatus /\ SetPodCompleted \in PodStatus
  /\ AbsentStatus \in ContainerStatus
BY DEF SetPodReady, SetPodCompleted, PodStatus, ContainerStatus, AbsentStatus

\* One assignment to the status st, for the container c.
AfterAssign(st, c, field) ==
  [d \in Containers |->
     IF ~Named(c, d) \/ st[d].state = "absent" THEN st[d]
     ELSE IF field = "state" THEN [st[d] EXCEPT !.state = "exited"]
     ELSE [st[d] EXCEPT !.ok = succeeded[c]]]

LEMMA AfterAssignType ==
  ASSUME TypeOK, NEW st \in PodStatus, NEW c \in Containers, NEW field
  PROVE  AfterAssign(st, c, field) \in PodStatus
<1>1. succeeded[c] \in BOOLEAN
  BY DEF TypeOK
<1>2. ASSUME NEW d \in Containers
      PROVE  AfterAssign(st, c, field)[d] \in ContainerStatus
  <2>1. st[d] \in ContainerStatus
    BY DEF PodStatus
  <2> QED
    BY <1>1, <2>1 DEF AfterAssign, ContainerStatus
<1> QED
  BY <1>2 DEF AfterAssign, PodStatus

\* What one assignment does to the objects.
LEMMA AssignEffect ==
  ASSUME TypeOK, NEW c \in Containers, NEW field, Assign(c, field)
  PROVE  /\ got[c] \in Objects
         /\ objects' = [objects EXCEPT ![got[c]] = AfterAssign(objects[got[c]], c, field)]
         /\ \A o \in Objects : objects'[o] = IF o = got[c]
                 THEN AfterAssign(objects[o], c, field) ELSE objects[o]
<1>1. got[c] \in Objects
  BY DEF TypeOK, Assign
<1>2. objects' = [objects EXCEPT ![got[c]] = AfterAssign(objects[got[c]], c, field)]
  BY <1>1 DEF Assign, AfterAssign, TypeOK
<1> QED
  BY <1>1, <1>2 DEF TypeOK

\* Finding no entry, or the empty status made up for it, leaves the objects alone.
LEMMA GetStatusEffect ==
  ASSUME TypeOK, NEW c \in Containers, GetStatus(c)
  PROVE  /\ objects' = objects
         /\ got' = [got EXCEPT ![c] = IF cached = NoObject THEN c ELSE cached]
         /\ (IF cached = NoObject THEN c ELSE cached) \in Objects
<1>1. (IF cached = NoObject THEN c ELSE cached) \in Objects
  BY Names DEF TypeOK
<1>2. ASSUME ObjectFor(c) = c, cached # NoObject
      PROVE  [objects EXCEPT ![c] = objects[cached]] = objects
  BY <1>2 DEF ObjectFor, TypeOK
<1> QED
  BY <1>1, <1>2 DEF GetStatus, ObjectFor

\* Where a Set leaves the cache and the worker.
LEMMA CacheSetEffect ==
  ASSUME NEW w \in Writers, NEW o, CacheSet(w, o)
  PROVE  /\ cached' = o /\ entryNew' \in BOOLEAN
         /\ UNCHANGED <<work, reported, stampNew>>
         /\ \/ /\ place = "waiting" /\ place' = "making"
               /\ reading' = o /\ wokenBy' = w
            \/ UNCHANGED <<reading, place, wokenBy>>
BY DEF CacheSet, Notified

LEMMA InitTypeOK == Init => TypeOK
<1> SUFFICES ASSUME Init
             PROVE  TypeOK
  OBVIOUS
<1>1. [c \in Containers |-> AbsentStatus] \in PodStatus
  BY Builds DEF PodStatus
<1>2. objects \in [Objects -> PodStatus] /\ reported \in PodStatus
  BY <1>1 DEF Init
<1> QED
  BY <1>2 DEF Init, TypeOK

LEMMA TypeStep == TypeOK /\ [Next]_vars => TypeOK'
<1> SUFFICES ASSUME TypeOK, [Next]_vars
             PROVE  TypeOK'
  OBVIOUS
<1> USE Names, Builds
<1>1. CASE Insert
  BY <1>1 DEF Insert, TypeOK, goVars
<1>2. CASE InsertFails
  BY <1>2 DEF InsertFails, TypeOK, goVars, cacheVars
<1>3. CASE GetNewerThan
  BY <1>3 DEF GetNewerThan, TypeOK, goVars, cacheVars
<1>4. CASE Sync
  <2>1. reported' \in PodStatus
    BY <1>4 DEF Sync, TypeOK
  <2>2. work' \in {"sync", "terminating", "terminated", "done"}
    BY <1>4 DEF Sync, NextWork, TypeOK
  <2> QED
    BY <1>4, <2>1, <2>2 DEF Sync, PlaceAfterSync, TypeOK, goVars
<1>5. ASSUME NEW c \in Containers, GetStatus(c)
      PROVE  TypeOK'
  <2>1. /\ objects' = objects
        /\ got' = [got EXCEPT ![c] = IF cached = NoObject THEN c ELSE cached]
        /\ (IF cached = NoObject THEN c ELSE cached) \in Objects
    BY <1>5, GetStatusEffect
  <2>2. missed' \in BOOLEAN
    BY <1>5 DEF GetStatus, TypeOK
  <2> QED
    BY <1>5, <2>1, <2>2 DEF GetStatus, TypeOK, workerVars
<1>6. ASSUME NEW c \in Containers, NEW field \in {"state", "ok"}, Assign(c, field)
      PROVE  TypeOK'
  <2>1. /\ got[c] \in Objects
        /\ objects' = [objects EXCEPT ![got[c]] =
                         AfterAssign(objects[got[c]], c, field)]
    BY <1>6, AssignEffect
  <2>2. AfterAssign(objects[got[c]], c, field) \in PodStatus
    BY <2>1, AfterAssignType DEF TypeOK
  <2>3. objects' \in [Objects -> PodStatus]
    BY <2>1, <2>2 DEF TypeOK
  <2> QED
    BY <1>6, <2>3 DEF Assign, TypeOK, workerVars
<1>7. ASSUME NEW c \in Containers, StampExit(c)
      PROVE  TypeOK'
  BY <1>7 DEF StampExit, ReadClock, TypeOK, workerVars, cacheVars, Writers
<1>8. ASSUME NEW c \in Containers, SetStatus(c)
      PROVE  TypeOK'
  <2>1. got[c] \in Objects /\ c \in Writers
    BY <1>8 DEF SetStatus, TypeOK, Writers
  <2>2. CacheSet(c, got[c])
    BY <1>8 DEF SetStatus
  <2>3. /\ cached' \in Objects /\ entryNew' \in BOOLEAN
        /\ UNCHANGED <<work, reported, stampNew>>
        /\ \/ place' = "making" /\ reading' \in Objects /\ wokenBy' \in Writers
           \/ UNCHANGED <<reading, place, wokenBy>>
    BY <2>1, <2>2, CacheSetEffect
  <2> QED
    BY <1>8, <2>3 DEF SetStatus, TypeOK
<1>9. ASSUME NEW c \in Containers, NEW ok \in BOOLEAN, CommandEnds(c, ok)
      PROVE  TypeOK'
  BY <1>9 DEF CommandEnds, TypeOK, workerVars, cacheVars
<1>10. CASE StampCompleted
  BY <1>10 DEF StampCompleted, ReadClock, TypeOK, workerVars, cacheVars, goVars, Writers
<1>11. CASE SetCompleted
  <2>1. CacheSet("main", "completed") /\ "main" \in Writers
    BY <1>11 DEF SetCompleted, Writers
  <2>2. /\ cached' \in Objects /\ entryNew' \in BOOLEAN
        /\ UNCHANGED <<work, reported, stampNew>>
        /\ \/ place' = "making" /\ reading' \in Objects /\ wokenBy' \in Writers
           \/ UNCHANGED <<reading, place, wokenBy>>
    BY <2>1, CacheSetEffect
  <2>3. objects' \in [Objects -> PodStatus]
    BY <1>11 DEF SetCompleted, TypeOK
  <2> QED
    BY <1>11, <2>2, <2>3 DEF SetCompleted, TypeOK, goVars
<1>12. CASE UNCHANGED vars
  BY <1>12 DEF vars, goVars, workerVars, cacheVars, TypeOK
<1> QED
  BY <1>1, <1>2, <1>3, <1>4, <1>5, <1>6, <1>7, <1>8, <1>9, <1>10, <1>11, <1>12
     DEF Next, Worker, Exiting

\* The worker, the goroutines and the main loop keep every variable in its domain;
\* a goroutine that assigns has an object to assign to, and a worker that reports has
\* one to report.
THEOREM TypeCorrect == Spec => []TypeOK
BY InitTypeOK, TypeStep, PTL DEF Spec

-----------------------------------------------------------------------------
(* The invariant *)

LEMMA InitCallbacksInv == Init => CallbacksInv
<1> SUFFICES ASSUME Init
             PROVE  CallbacksInv
  OBVIOUS
<1> USE Names
<1>1. \A o \in Objects : \A d \in Containers :
        objects[o][d].state = "absent" /\ objects[o][d].ok
  BY DEF Init, AbsentStatus
<1>2. \A d \in Containers : reported[d].state = "absent" /\ reported[d].ok
  BY DEF Init, AbsentStatus
<1>5. FailuresAreReal
  BY <1>1 DEF FailuresAreReal
<1>3. Places /\ EmptyOnes /\ RealOnes
  BY <1>1, <1>2 DEF Init, Places, EmptyOnes, RealOnes, Real
<1>4. Shared /\ Assigned /\ Woken
  BY <1>1 DEF Init, Shared, Assigned, Woken, Past
<1> QED
  BY <1>3, <1>4, <1>5 DEF CallbacksInv

LEMMA InsertKeeps == TypeOK /\ CallbacksInv /\ Insert => CallbacksInv'
<1> SUFFICES ASSUME TypeOK, CallbacksInv, Insert
             PROVE  CallbacksInv'
  OBVIOUS
<1> USE Names
<1>1. /\ \A d \in Containers : /\ objects'["inserted"][d].state = "running"
                               /\ objects'["inserted"][d].ok
      /\ \A o \in Objects : o # "inserted" => objects'[o] = objects[o]
  BY DEF Insert, SetPodReady, TypeOK
<1>2. /\ cached' = "inserted" /\ place = "insert" /\ place' = "get"
      /\ UNCHANGED <<missed, main, pc, succeeded, got, fields, reading, reported>>
  BY DEF Insert, goVars
<1>3. ASSUME ~completed
      PROVE  Places' /\ EmptyOnes' /\ RealOnes'
  BY <1>1, <1>2, <1>3 DEF CallbacksInv, Places, EmptyOnes, RealOnes, Real
<1>4. ASSUME ~missed
      PROVE  Shared' /\ Assigned' /\ Woken'
  <2>1. ASSUME NEW c \in Containers, Past(c)
        PROVE  got[c] = "completed" /\ Made(got[c])
    BY <2>1, <1>2, <1>4 DEF CallbacksInv, Shared, Made
  <2>2. Made("inserted")'
    BY <1>1, <1>2 DEF Made
  <2>3. ASSUME NEW c \in Containers, Past(c)
        PROVE  Made(got[c])' /\ objects'[got[c]] = objects[got[c]]
    <3>1. got[c] = "completed" /\ got'[c] = got[c]
      BY <2>1, <2>3, <1>2
    <3> QED
      BY <2>1, <2>3, <3>1, <1>1, <1>2 DEF Made, completed
  <2>4. Shared'
    BY <2>2, <2>3, <1>2 DEF Shared, Past
  <2>5. Assigned'
    BY <2>3, <1>2, <1>4 DEF CallbacksInv, Assigned, Past
  <2> QED
    BY <2>4, <2>5, <1>2 DEF Woken
<1>9. FailuresAreReal'
  BY <1>1, <1>2 DEF CallbacksInv, FailuresAreReal
<1> QED
  BY <1>2, <1>3, <1>4, <1>9 DEF CallbacksInv, completed

LEMMA GetStatusKeeps ==
  ASSUME TypeOK, CallbacksInv, NEW c \in Containers, GetStatus(c)
  PROVE  CallbacksInv'
<1> USE Names
<1>1. /\ objects' = objects
      /\ got' = [got EXCEPT ![c] = IF cached = NoObject THEN c ELSE cached]
  BY GetStatusEffect
<1>2. /\ pc' = [pc EXCEPT ![c] = "assigning"] /\ pc[c] = "exited"
      /\ fields' = [fields EXCEPT ![c] = {"state", "ok"}]
      /\ missed' = (missed \/ cached = NoObject)
      /\ UNCHANGED <<cached, succeeded, main, place, reading, wokenBy, reported>>
  BY DEF GetStatus, workerVars
<1>3. \A d \in Containers :
        /\ pc'[d] = IF d = c THEN "assigning" ELSE pc[d]
        /\ fields'[d] = IF d = c THEN {"state", "ok"} ELSE fields[d]
        /\ got'[d] = IF d # c THEN got[d]
                     ELSE IF cached = NoObject THEN c ELSE cached
  BY <1>1, <1>2 DEF TypeOK
<1>4. ASSUME ~completed
      PROVE  Places' /\ EmptyOnes' /\ RealOnes'
  <2>1. Places' /\ EmptyOnes'
    BY <1>1, <1>2, <1>3, <1>4 DEF CallbacksInv, Places, EmptyOnes
  <2>2. RealOnes'
    BY <1>1, <1>2, <1>3, <1>4 DEF CallbacksInv, RealOnes, Real
  <2> QED
    BY <2>1, <2>2
<1>5. ASSUME ~missed'
      PROVE  Shared' /\ Assigned' /\ Woken'
  <2>1. cached # NoObject /\ ~missed /\ Made(cached)
    BY <1>2, <1>5 DEF CallbacksInv, Shared
  <2>2. \A o : Made(o)' <=> Made(o)
    BY <1>1, <1>2 DEF Made, completed
  <2>3. Shared'
    <3>1. \A d \in Containers : Past(d)' => Made(got'[d])
      BY <2>1, <1>3 DEF CallbacksInv, Shared, Past
    <3> QED
      BY <3>1, <2>1, <2>2, <1>2 DEF CallbacksInv, Shared, completed, Made
  <2>4. Assigned'
    BY <2>1, <1>1, <1>2, <1>3 DEF CallbacksInv, Assigned, Past
  <2>5. Woken'
    BY <2>1, <2>2, <1>2, <1>3 DEF CallbacksInv, Woken
  <2> QED
    BY <2>3, <2>4, <2>5
<1>9. FailuresAreReal'
  BY <1>1, <1>2, <1>3 DEF CallbacksInv, FailuresAreReal
<1> QED
  BY <1>2, <1>4, <1>5, <1>9 DEF CallbacksInv, completed

\* An assignment touches one container's status of one object, and no status that
\* is not shown.
LEMMA AssignFields ==
  ASSUME TypeOK, NEW c \in Containers, NEW field \in {"state", "ok"}, Assign(c, field)
  PROVE  \A o \in Objects : \A d \in Containers :
           LET touched == o = got[c] /\ d = c /\ objects[o][d].state # "absent"
           IN  /\ objects'[o][d].state = IF touched /\ field = "state" THEN "exited"
                                         ELSE objects[o][d].state
               /\ objects'[o][d].ok = IF touched /\ field = "ok" THEN succeeded[c]
                                      ELSE objects[o][d].ok
<1> SUFFICES ASSUME NEW o \in Objects, NEW d \in Containers
             PROVE  LET touched == o = got[c] /\ d = c /\ objects[o][d].state # "absent"
                    IN  /\ objects'[o][d].state = IF touched /\ field = "state"
                             THEN "exited" ELSE objects[o][d].state
                        /\ objects'[o][d].ok = IF touched /\ field = "ok"
                             THEN succeeded[c] ELSE objects[o][d].ok
  OBVIOUS
<1>1. objects'[o] = IF o = got[c] THEN AfterAssign(objects[o], c, field) ELSE objects[o]
  BY AssignEffect
<1>2. objects[o][d] \in ContainerStatus
  BY DEF TypeOK, PodStatus
<1>3. AfterAssign(objects[o], c, field)[d] =
        IF c # d \/ objects[o][d].state = "absent" THEN objects[o][d]
        ELSE IF field = "state" THEN [objects[o][d] EXCEPT !.state = "exited"]
        ELSE [objects[o][d] EXCEPT !.ok = succeeded[c]]
  BY DEF AfterAssign, Named
<1>4. /\ [objects[o][d] EXCEPT !.state = "exited"].state = "exited"
      /\ [objects[o][d] EXCEPT !.state = "exited"].ok = objects[o][d].ok
      /\ [objects[o][d] EXCEPT !.ok = succeeded[c]].ok = succeeded[c]
      /\ [objects[o][d] EXCEPT !.ok = succeeded[c]].state = objects[o][d].state
  BY <1>2 DEF ContainerStatus
<1> QED
  BY <1>1, <1>3, <1>4

LEMMA AssignKeeps ==
  ASSUME TypeOK, CallbacksInv, NEW c \in Containers, NEW field \in {"state", "ok"},
         Assign(c, field)
  PROVE  CallbacksInv'
<1> USE Names
<1>1. \A o \in Objects : \A d \in Containers :
        /\ objects'[o][d].state =
             IF o = got[c] /\ d = c /\ objects[o][d].state # "absent" /\ field = "state"
             THEN "exited" ELSE objects[o][d].state
        /\ objects'[o][d].ok =
             IF o = got[c] /\ d = c /\ objects[o][d].state # "absent" /\ field = "ok"
             THEN succeeded[c] ELSE objects[o][d].ok
  BY AssignFields
<1>2. /\ pc[c] = "assigning" /\ field \in fields[c]
      /\ UNCHANGED <<cached, missed, main, pc, succeeded, got, place, reading, wokenBy,
                     reported>>
  BY DEF Assign, workerVars
<1>3. \A d \in Containers : fields'[d] = IF d = c THEN fields[c] \ {field} ELSE fields[d]
  BY DEF Assign, TypeOK
<1>4. ASSUME ~completed
      PROVE  Places' /\ EmptyOnes' /\ RealOnes'
  <2>1. Places' /\ EmptyOnes'
    BY <1>1, <1>2, <1>4 DEF CallbacksInv, Places, EmptyOnes
  <2>2. \A d \in Containers : Real(objects["inserted"], d) /\ Real(reported, d)
    BY <1>4 DEF CallbacksInv, RealOnes
  <2>3. RealOnes'
    BY <2>2, <1>1, <1>2, <1>4 DEF RealOnes, Real
  <2> QED
    BY <2>1, <2>3
<1>5. ASSUME ~missed
      PROVE  Shared' /\ Assigned' /\ Woken'
  <2>1. \A o : Made(o) => o \in Objects
    BY DEF Made
  <2>2. \A o : Made(o) => Made(o)'
    BY <2>1, <1>1, <1>2 DEF Made, completed
  <2>3. Shared'
    BY <2>2, <1>2, <1>5 DEF CallbacksInv, Shared, Past, completed
  <2>4. Assigned'
    <3> SUFFICES ASSUME NEW d \in Containers
                 PROVE  /\ Past(d) /\ "state" \notin fields'[d]
                             => objects'[got[d]][d].state = "exited"
                        /\ Past(d) /\ "ok" \notin fields'[d]
                             => objects'[got[d]][d].ok = succeeded[d]
                        /\ pc[d] \in {"stamped", "set"} => fields'[d] = {}
      BY <1>2 DEF Assigned, Past
    <3>1. Past(d) => got[d] \in Objects /\ objects[got[d]][d].state # "absent"
      BY <1>5, <2>1 DEF CallbacksInv, Shared, Made
    <3>2. /\ Past(d) /\ "state" \notin fields[d] => objects[got[d]][d].state = "exited"
          /\ Past(d) /\ "ok" \notin fields[d] => objects[got[d]][d].ok = succeeded[d]
          /\ pc[d] \in {"stamped", "set"} => fields[d] = {}
      BY <1>5 DEF CallbacksInv, Assigned
    <3> QED
      BY <3>1, <3>2, <1>1, <1>2, <1>3
  <2>5. Woken'
    BY <2>2, <1>2, <1>5 DEF CallbacksInv, Woken
  <2> QED
    BY <2>3, <2>4, <2>5
<1>9. FailuresAreReal'
  BY <1>1, <1>2 DEF CallbacksInv, FailuresAreReal, TypeOK
<1> QED
  BY <1>2, <1>4, <1>5, <1>9 DEF CallbacksInv, completed

LEMMA StampExitKeeps ==
  ASSUME TypeOK, CallbacksInv, NEW c \in Containers, StampExit(c)
  PROVE  CallbacksInv'
<1>1. /\ pc[c] = "assigning" /\ fields[c] = {}
      /\ \A d \in Containers : pc'[d] = IF d = c THEN "stamped" ELSE pc[d]
      /\ UNCHANGED <<cached, objects, missed, main, succeeded, got, fields, place, reading,
                     wokenBy, reported>>
  BY DEF StampExit, ReadClock, cacheVars, workerVars, TypeOK
<1>2. ASSUME ~completed
      PROVE  Places' /\ EmptyOnes' /\ RealOnes'
  BY <1>1, <1>2 DEF CallbacksInv, Places, EmptyOnes, RealOnes, Real
<1>3. ASSUME ~missed
      PROVE  Shared' /\ Assigned' /\ Woken'
  <2>1. Shared'
    BY <1>1, <1>3 DEF CallbacksInv, Shared, Past, Made, completed
  <2>2. Assigned'
    BY <1>1, <1>3 DEF CallbacksInv, Assigned, Past
  <2>3. Woken'
    BY <1>1, <1>3 DEF CallbacksInv, Woken, Made, completed
  <2> QED
    BY <2>1, <2>2, <2>3
<1>9. FailuresAreReal'
  BY <1>1 DEF CallbacksInv, FailuresAreReal
<1> QED
  BY <1>1, <1>2, <1>3, <1>9 DEF CallbacksInv, completed

LEMMA SetStatusKeeps ==
  ASSUME TypeOK, CallbacksInv, NEW c \in Containers, SetStatus(c)
  PROVE  CallbacksInv'
<1> USE Names
<1>1. /\ pc[c] = "stamped"
      /\ \A d \in Containers : pc'[d] = IF d = c THEN "set" ELSE pc[d]
      /\ UNCHANGED <<objects, missed, main, succeeded, got, fields>>
      /\ CacheSet(c, got[c])
  BY DEF SetStatus, TypeOK
<1>2. /\ cached' = got[c] /\ UNCHANGED reported
      /\ \/ /\ place = "waiting" /\ place' = "making"
            /\ reading' = got[c] /\ wokenBy' = c
         \/ UNCHANGED <<reading, place, wokenBy>>
  BY <1>1, CacheSetEffect DEF Writers
<1>3. ASSUME ~completed
      PROVE  Places' /\ EmptyOnes' /\ RealOnes'
  <2>1. Places'
    BY <1>1, <1>2, <1>3 DEF CallbacksInv, Places
  <2>2. EmptyOnes' /\ RealOnes'
    BY <1>1, <1>2, <1>3 DEF CallbacksInv, EmptyOnes, RealOnes, Real
  <2> QED
    BY <2>1, <2>2
<1>4. ASSUME ~missed
      PROVE  Shared' /\ Assigned' /\ Woken'
  <2>1. Made(got[c]) /\ Past(c)
    BY <1>1, <1>4 DEF CallbacksInv, Shared, Past
  <2>2. \A o : Made(o)' <=> Made(o)
    BY <1>1, <1>2 DEF Made, completed
  <2>3. ~completed => cached' = IF place' = "insert" THEN NoObject ELSE "inserted"
    BY <2>1, <1>2 DEF Made
  <2>4. Shared'
    BY <2>1, <2>2, <2>3, <1>1, <1>2, <1>4 DEF CallbacksInv, Shared, Past, completed
  <2>5. Assigned'
    BY <1>1, <1>4 DEF CallbacksInv, Assigned, Past
  <2>6. Woken'
    BY <2>1, <2>2, <1>1, <1>2, <1>4 DEF CallbacksInv, Woken
  <2> QED
    BY <2>4, <2>5, <2>6
<1>9. FailuresAreReal'
  BY <1>1 DEF CallbacksInv, FailuresAreReal
<1> QED
  BY <1>1, <1>3, <1>4, <1>9 DEF CallbacksInv, completed

LEMMA CommandEndsKeeps ==
  ASSUME TypeOK, CallbacksInv, NEW c \in Containers, NEW ok \in BOOLEAN,
         CommandEnds(c, ok)
  PROVE  CallbacksInv'
<1>1. /\ pc[c] = "running"
      /\ \A d \in Containers : /\ pc'[d] = IF d = c THEN "exited" ELSE pc[d]
                               /\ d # c => succeeded'[d] = succeeded[d]
      /\ UNCHANGED <<cached, objects, missed, main, got, fields, place, reading, wokenBy,
                     reported>>
  BY DEF CommandEnds, cacheVars, workerVars, TypeOK
<1>2. ASSUME ~completed
      PROVE  Places' /\ EmptyOnes' /\ RealOnes'
  BY <1>1, <1>2 DEF CallbacksInv, Places, EmptyOnes, RealOnes, Real
<1>3. ASSUME ~missed
      PROVE  Shared' /\ Assigned' /\ Woken'
  <2>1. Shared'
    BY <1>1, <1>3 DEF CallbacksInv, Shared, Past, Made, completed
  <2>2. Assigned'
    BY <1>1, <1>3 DEF CallbacksInv, Assigned, Past
  <2>3. Woken'
    BY <1>1, <1>3 DEF CallbacksInv, Woken, Made, completed
  <2> QED
    BY <2>1, <2>2, <2>3
<1>9. FailuresAreReal'
  BY <1>1 DEF CallbacksInv, FailuresAreReal
<1> QED
  BY <1>1, <1>2, <1>3, <1>9 DEF CallbacksInv, completed

LEMMA SetCompletedKeeps == TypeOK /\ CallbacksInv /\ SetCompleted => CallbacksInv'
<1> SUFFICES ASSUME TypeOK, CallbacksInv, SetCompleted
             PROVE  CallbacksInv'
  OBVIOUS
<1> USE Names
<1>1. /\ ~completed /\ completed'
      /\ UNCHANGED <<missed, pc, succeeded, got, fields>>
      /\ CacheSet("main", "completed")
  BY DEF SetCompleted, completed, goVars
<1>2. /\ \A d \in Containers : objects'["completed"][d].state = "exited" /\ objects'["completed"][d].ok
      /\ \A o \in Objects : o # "completed" => objects'[o] = objects[o]
  BY DEF SetCompleted, SetPodCompleted, TypeOK
<1>3. /\ cached' = "completed"
      /\ \/ place = "waiting" /\ place' = "making" /\ wokenBy' = "main" /\ reading' = "completed"
         \/ UNCHANGED <<reading, place, wokenBy>>
  BY <1>1, CacheSetEffect DEF Writers
<1>4. ASSUME ~missed
      PROVE  Shared' /\ Assigned' /\ Woken'
  <2>1. \A c \in Containers : Past(c) => got[c] = "inserted"
    BY <1>1, <1>4 DEF CallbacksInv, Shared, Made
  <2>2. Made("completed")'
    BY <1>1, <1>2 DEF Made
  <2>3. Made("inserted") => Made("inserted")'
    BY <1>2, <1>3 DEF Made
  <2>4. Shared'
    <3>1. \A c \in Containers : Past(c)' => Made(got[c])'
      BY <2>1, <2>3, <1>1, <1>4 DEF CallbacksInv, Shared, Past
    <3> QED
      BY <3>1, <2>2, <1>1, <1>3 DEF Shared
  <2>5. Assigned'
    BY <2>1, <1>1, <1>2, <1>4 DEF CallbacksInv, Assigned, Past
  <2>6. Woken'
    <3>1. place = "making" => reading = "inserted" /\ Made("inserted")
      BY <1>1, <1>4 DEF CallbacksInv, Woken, Made
    <3> QED
      BY <3>1, <2>2, <2>3, <1>1, <1>3, <1>4 DEF CallbacksInv, Woken
  <2> QED
    BY <2>4, <2>5, <2>6
<1>9. FailuresAreReal'
  BY <1>1, <1>2 DEF CallbacksInv, FailuresAreReal
<1> QED
  BY <1>1, <1>4, <1>9 DEF CallbacksInv

LEMMA WorkerKeeps ==
  TypeOK /\ CallbacksInv /\ (InsertFails \/ GetNewerThan \/ Sync) => CallbacksInv'
<1> SUFFICES ASSUME TypeOK, CallbacksInv, InsertFails \/ GetNewerThan \/ Sync
             PROVE  CallbacksInv'
  OBVIOUS
<1> USE Names
<1>1. UNCHANGED <<cached, objects, missed, main, pc, succeeded, got, fields>>
  BY DEF InsertFails, GetNewerThan, Sync, cacheVars, goVars
<1>2. /\ place' # "insert" /\ (place = "insert" => completed)
      /\ place' = "making" => /\ wokenBy' = NoObject
                           /\ place = "get" /\ reading' = cached /\ cached # NoObject
      /\ reading' \in {reading, cached, NoObject}
  BY DEF InsertFails, GetNewerThan, Sync, PlaceAfterSync
<1>3. \/ reported' = reported
      \/ place = "making" /\ reported' = objects[reading]
  BY DEF InsertFails, GetNewerThan, Sync
<1>4. ASSUME ~completed
      PROVE  Places' /\ EmptyOnes' /\ RealOnes'
  <2>1. Places' /\ EmptyOnes'
    BY <1>1, <1>2, <1>4 DEF CallbacksInv, Places, EmptyOnes
  <2>2. \A d \in Containers : Real(reported', d)
    <3>1. CASE reported' = reported
      BY <3>1, <1>4 DEF CallbacksInv, RealOnes
    <3>2. CASE place = "making" /\ reported' = objects[reading]
      <4>1. reading \in Containers \union {"inserted"}
        BY <3>2, <1>4 DEF CallbacksInv, Places, TypeOK
      <4> QED
        BY <4>1, <3>2, <1>4 DEF CallbacksInv, RealOnes, EmptyOnes, Real
    <3> QED
      BY <1>3, <3>1, <3>2
  <2>3. RealOnes'
    BY <2>2, <1>1, <1>4 DEF CallbacksInv, RealOnes, Real
  <2> QED
    BY <2>1, <2>3
<1>5. ASSUME ~missed
      PROVE  Shared' /\ Assigned' /\ Woken'
  <2>1. \A o : Made(o) => Made(o)'
    BY <1>1, <1>2 DEF Made, completed
  <2>2. Shared'
    BY <2>1, <1>1, <1>2, <1>5 DEF CallbacksInv, Shared, Past, completed
  <2>4. Woken'
    BY <2>1, <1>1, <1>2, <1>5 DEF CallbacksInv, Shared, Woken
  <2>3. Assigned'
    BY <1>1, <1>5 DEF CallbacksInv, Assigned, Past
  <2> QED
    BY <2>2, <2>3, <2>4
<1>9. FailuresAreReal'
  BY <1>1 DEF CallbacksInv, FailuresAreReal
<1> QED
  BY <1>1, <1>4, <1>5, <1>9 DEF CallbacksInv, completed

LEMMA OthersKeep ==
  TypeOK /\ CallbacksInv /\ (StampCompleted \/ UNCHANGED vars) => CallbacksInv'
<1> SUFFICES ASSUME TypeOK, CallbacksInv, StampCompleted \/ UNCHANGED vars
             PROVE  CallbacksInv'
  OBVIOUS
<1>1. /\ UNCHANGED <<cached, objects, missed, pc, succeeded, got, fields, place, reading,
                     wokenBy, reported>>
      /\ completed' = completed
  BY DEF StampCompleted, ReadClock, completed, vars, cacheVars, goVars, workerVars
<1>2. ASSUME ~completed
      PROVE  Places' /\ EmptyOnes' /\ RealOnes'
  BY <1>1, <1>2 DEF CallbacksInv, Places, EmptyOnes, RealOnes, Real
<1>3. ASSUME ~missed
      PROVE  Shared' /\ Assigned' /\ Woken'
  BY <1>1, <1>3 DEF CallbacksInv, Shared, Assigned, Woken, Past, Made
<1>9. FailuresAreReal'
  BY <1>1 DEF CallbacksInv, FailuresAreReal
<1> QED
  BY <1>1, <1>2, <1>3, <1>9 DEF CallbacksInv

LEMMA CallbacksStep == TypeOK /\ CallbacksInv /\ [Next]_vars => CallbacksInv'
BY InsertKeeps, GetStatusKeeps, AssignKeeps, StampExitKeeps, SetStatusKeeps,
   CommandEndsKeeps, SetCompletedKeeps, WorkerKeeps, OthersKeep
   DEF Next, Worker, Exiting

LEMMA CallbacksInvariant == Spec => []CallbacksInv
BY CallbacksStep, InitCallbacksInv, TypeCorrect, PTL DEF Spec

-----------------------------------------------------------------------------
(* What the invariant says *)

\* A goroutine that has done its assignments has left its exit in its object.
LEMMA OwnExit ==
  ASSUME TypeOK, CallbacksInv, ~missed, NEW c \in Containers, pc[c] = "set"
  PROVE  got[c] \in Objects /\ objects[got[c]][c] = Exit(c)
<1> USE Names
<1>1. got[c] \in Objects
  BY DEF CallbacksInv, Shared, Made, Past
<1>2. objects[got[c]][c].state = "exited" /\ objects[got[c]][c].ok = succeeded[c]
  BY DEF CallbacksInv, Assigned, Past
<1>3. objects[got[c]][c] \in ContainerStatus
  BY <1>1 DEF TypeOK, PodStatus
<1> QED
  BY <1>1, <1>2, <1>3 DEF Exit, ContainerStatus

LEMMA CallbacksInvIsEnough == TypeOK /\ CallbacksInv => ExitCodesAreTrue
<1> SUFFICES ASSUME TypeOK, CallbacksInv
             PROVE  ExitCodesAreTrue
  OBVIOUS
<1> USE Names
<1>1. ExitCodeKept
  <2> SUFFICES ASSUME ~completed, ~missed, NEW c \in Containers, pc[c] = "set"
               PROVE  Shown(c) = Exit(c)
    BY DEF ExitCodeKept
  <2>1. got[c] = "inserted" /\ cached = "inserted"
    BY DEF CallbacksInv, Shared, Made, Past
  <2> QED
    BY <2>1, OwnExit DEF Shown
<1>2. ExitIsReal
  BY DEF ExitIsReal, Shown, AbsentStatus, CallbacksInv, Places, EmptyOnes, RealOnes, Real
<1> QED
  BY <1>1, <1>2 DEF ExitCodesAreTrue

\* For any number of containers whose commands end in any order: the callbacks, which
\* get, change and set one object without a lock around the three, keep every exit
\* code that was recorded and show no exit of a command that still runs.
THEOREM ExitCodesAreTrueHolds == Spec => []ExitCodesAreTrue
BY TypeCorrect, CallbacksInvariant, CallbacksInvIsEnough, PTL

\* Neither does a report, made of that object while they change it, show an exit of a
\* command that still runs or a failure of one that did not fail; and the end that
\* woke the worker is in what it is about to report, with its exit code.
THEOREM ReportsAreTrueHolds == Spec => []ReportsAreTrue
<1>1. TypeOK /\ CallbacksInv => ReportsAreTrue
  <2> SUFFICES ASSUME TypeOK, CallbacksInv
               PROVE  ReportsAreTrue
    OBVIOUS
  <2>1. ReportIsReal
    BY DEF ReportIsReal, CallbacksInv, RealOnes, Real
  <2>2. WakerIsSeen
    BY OwnExit DEF WakerIsSeen, CallbacksInv, Woken
  <2> QED
    BY <2>1, <2>2 DEF ReportsAreTrue
<1> QED
  BY <1>1, TypeCorrect, CallbacksInvariant, PTL

=============================================================================
