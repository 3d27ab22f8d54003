-------------------------- MODULE ObjectCacheProofs --------------------------
(***************************************************************************)
(* Theorems about ObjectCache, for every set of pods, specs, objects and   *)
(* Gets, every life of an object and any number of items and reflectors.   *)
(*                                                                         *)
(* The properties are inductive only together: a reference count stays a   *)
(* number because it counts the pods that name the object, a Get reads     *)
(* something fresh because every run of the reflector has listed what the  *)
(* server held since the item was made, and an item that is frozen keeps   *)
(* its store because no sweep can stop it while a Get uses it.             *)
(***************************************************************************)
EXTENDS ObjectCache, TLAPS, FiniteSetTheorems, SequenceTheorems

\* What the store of an item holds once it is synced, and what its runs have seen,
\* is not older than the item.
Fresh(i) ==
  /\ item[i].since <= server[item[i].object]
  /\ item[i].initialized => item[i].data >= item[i].since
  /\ \A k \in Slots :
       run[i][k].pc \in {"listed", "watch"} => run[i][k].seen >= item[i].since

\* A run gets its channel when it starts.
Unclosed(i) ==
  \A k \in Slots : run[i][k].pc \notin {"list", "listed", "watch"} => ~run[i][k].closed

\* An item is watched, or its WaitGroup has ended the process.
Minded(i) == Watched(i) \/ \E k \in Slots : run[i][k].pc = "panicked"

\* What a Get under way knows of its item.
Using(g) ==
  getter[g].pc # "idle" =>
    /\ getter[g].item \in Items
    /\ getter[g].pc # "access" => ~item[getter[g].item].idle
    /\ getter[g].pc = "read" =>
         item[getter[g].item].data >= item[getter[g].item].since
    /\ getter[g].pc = "stop" => item[getter[g].item].immutable

\* What holds of the item of an object for as long as it is in the map.
Indexed(o) ==
  index[o] # NoItem =>
    /\ item[index[o]].object = o
    /\ item[index[o]].immutable /\ item[index[o]].stopped => item[index[o]].initialized
    /\ ~item[index[o]].stopped => Minded(index[o])
    /\ \A g \in Getters :
         getter[g].item = index[o] /\ getter[g].pc \in {"read", "freeze", "stop"} =>
           item[index[o]].initialized

CacheInv ==
  /\ TypeOK
  /\ \A i \in Items : Fresh(i) /\ Unclosed(i)
  /\ \A g \in Getters : Using(g)
  /\ \A o \in Objects : Indexed(o)
  /\ ReferencesCounted
-----------------------------------------------------------------------------
(***************************************************************************)
(* Types                                                                   *)
(***************************************************************************)
LEMMA VersionsAreNumbers ==
  /\ Len(Life) \in Nat /\ Versions \subseteq Nat
  /\ \A v \in Int : v \in Versions <=> 1 <= v /\ v <= Len(Life)
<1>1. Len(Life) \in Nat
  BY ObjectCacheAssumption, LenProperties
<1>2. QED
  BY <1>1 DEF Versions

LEMMA ItemNumbers == Items \subseteq Nat /\ NoItem \notin Items
BY ObjectCacheAssumption DEF Items, NoItem

LEMMA ReferencedIsObjects ==
  /\ \A spec \in Specs : Referenced(spec) \subseteq Objects
  /\ Referenced(NoSpec) = {}
BY ObjectCacheAssumption DEF Referenced

LEMMA BlankType ==
  ASSUME TypeOK, NEW o \in Objects
  PROVE  Blank(o) \in Item /\ [Blank(o) EXCEPT !.refCount = 1] \in Item
<1>1. server[o] \in Versions
  BY DEF TypeOK
<1>2. QED
  BY <1>1 DEF Blank, Item

\* The fields an operation changes, one at a time.
LEMMA ItemFieldTypes ==
  ASSUME NEW x \in Item
  PROVE  /\ stopThreadUnsafe(x) \in Item
         /\ \A b \in BOOLEAN : /\ [x EXCEPT !.idle = b] \in Item
                               /\ [x EXCEPT !.stopped = b] \in Item
                               /\ [x EXCEPT !.immutable = b] \in Item
         /\ \A n \in Nat : [x EXCEPT !.refCount = n] \in Item
         /\ \A v \in Versions : /\ [x EXCEPT !.data = v] \in Item
                                /\ [x EXCEPT !.data = v, !.initialized = TRUE] \in Item
BY DEF Item, stopThreadUnsafe

LEMMA RunFieldTypes ==
  ASSUME NEW r \in Run
  PROVE  /\ NoRun \in Run
         /\ \A pc \in RunPcs : /\ [r EXCEPT !.pc = pc] \in Run
                               /\ [NoRun EXCEPT !.pc = pc] \in Run
         /\ \A pc \in RunPcs, v \in Versions :
              [r EXCEPT !.pc = pc, !.seen = v] \in Run
         /\ [r EXCEPT !.closed = TRUE] \in Run
         /\ \A v \in Versions : [r EXCEPT !.seen = v] \in Run
BY DEF Run, NoRun, RunPcs

-----------------------------------------------------------------------------
(***************************************************************************)
(* A step of a reflector                                                   *)
(***************************************************************************)
\* What a step of a run of item i does: nothing to anything else, and to the item
\* it puts at most a version in the store, as fresh as the item.
Reflected(i, k) ==
  /\ UNCHANGED <<registered, call, index, getter, server>>
  /\ item' \in [Items -> Item] /\ run' \in [Items -> [Slots -> Run]]
  /\ \A j \in Items \ {i} : item'[j] = item[j] /\ run'[j] = run[j]
  /\ \E v \in Versions \union {NoVersion}, b \in BOOLEAN :
       /\ item'[i] = [item[i] EXCEPT !.data = v, !.initialized = b]
       /\ item[i].initialized => b
       /\ \/ v = item[i].data /\ b = item[i].initialized
          \/ v >= item[i].since
  /\ Fresh(i)' /\ Unclosed(i)'
  /\ Minded(i) /\ ~item[i].stopped => Minded(i)'

\* What a step of run k of item i does to the runs: run k becomes s, and of the others
\* at most those that sleep are let go.
Moved(i, k, s) ==
  /\ run' \in [Items -> [Slots -> Run]]
  /\ \A j \in Items \ {i} : run'[j] = run[j]
  /\ run'[i][k] = s
  /\ \A l \in Slots \ {k} :
       \/ run'[i][l] = run[i][l]
       \/ /\ run[i][l].pc = "asleep" /\ run'[i][l].pc = "released"
          /\ run'[i][l].closed = run[i][l].closed

LEMMA OneMoves ==
  ASSUME CacheInv, NEW i \in Items, NEW k \in Slots, NEW s \in Run,
         run' = [run EXCEPT ![i][k] = s]
  PROVE  Moved(i, k, s)
<1>1. run \in [Items -> [Slots -> Run]]
  BY DEF CacheInv, TypeOK
<1>2. QED
  BY <1>1 DEF Moved

LEMMA DoneMoves ==
  ASSUME CacheInv, NEW i \in Items, NEW k \in Slots, Done(i, k)
  PROVE  Moved(i, k, NoRun)
<1>1. run \in [Items -> [Slots -> Run]] /\ NoRun \in Run
  BY DEF CacheInv, TypeOK, NoRun, Run, RunPcs
<1> DEFINE woken(j) == run[i][j].pc = "asleep" /\ Running(i) = {k}
           after == [j \in Slots |->
                       IF j = k THEN NoRun
                       ELSE IF woken(j) THEN [run[i][j] EXCEPT !.pc = "released"]
                       ELSE run[i][j]]
<1>2. run' = [run EXCEPT ![i] = after]
  BY DEF Done
<1>3. ASSUME NEW j \in Slots
      PROVE  /\ [run[i][j] EXCEPT !.pc = "released"] \in Run
             /\ [run[i][j] EXCEPT !.pc = "released"].pc = "released"
             /\ [run[i][j] EXCEPT !.pc = "released"].closed = run[i][j].closed
  <2>1. PICK r \in Run : r = run[i][j]
    BY <1>1
  <2>2. QED
    BY <2>1 DEF Run, RunPcs
<1>4. ASSUME NEW j \in Slots
      PROVE  /\ after[j] \in Run
             /\ j = k => after[j] = NoRun
             /\ j # k => \/ after[j] = run[i][j]
                         \/ /\ run[i][j].pc = "asleep" /\ after[j].pc = "released"
                            /\ after[j].closed = run[i][j].closed
  BY <1>1, <1>3
<1>5. after \in [Slots -> Run]
  BY <1>4
<1> HIDE DEF after
<1>6. /\ run' \in [Items -> [Slots -> Run]] /\ run'[i] = after
      /\ \A j \in Items \ {i} : run'[j] = run[j]
  BY <1>1, <1>2, <1>5
<1>7. QED
  BY <1>4, <1>6 DEF Moved

LEMMA ReflectIsReflected ==
  ASSUME CacheInv, NEW i \in Items, NEW k \in Slots, Reflect(i, k) \/ Relist(i, k)
  PROVE  Reflected(i, k)
<1> DEFINE r == run[i][k]
           x == item[i]
<1>1. /\ r \in Run /\ x \in Item /\ server[x.object] \in Versions
      /\ run \in [Items -> [Slots -> Run]] /\ item \in [Items -> Item]
  BY DEF CacheInv, TypeOK, Item
<1>2. Fresh(i) /\ Unclosed(i)
  BY DEF CacheInv
<1>3. x.since \in Nat /\ r.seen \in Nat /\ x.data \in Nat
  <2>1. /\ x.since \in Versions /\ r.seen \in Versions \union {NoVersion}
        /\ x.data \in Versions \union {NoVersion}
    BY <1>1 DEF Item, Run
  <2>2. Versions \subseteq Nat /\ NoVersion \in Nat
    BY VersionsAreNumbers DEF NoVersion
  <2> HIDE DEF x, r
  <2>3. QED
    BY <2>1, <2>2
<1>4. UNCHANGED <<registered, call, index, getter, server>>
  <2>1. CASE Wait(i, k) \/ Wake(i, k) \/ Add(i, k) \/ Relist(i, k)
    BY <2>1, Zenon DEF Relist, Wait, Wake, Add
  <2>2. CASE Start(i, k) \/ List(i, k) \/ Replace(i, k)
    BY <2>2, Zenon DEF Start, List, Replace
  <2>3. CASE WatchEvent(i, k) \/ Return(i, k)
    BY <2>3, Zenon DEF WatchEvent, Return
  <2>4. QED
    BY <2>1, <2>2, <2>3, Zenon DEF Reflect
<1>5. ASSUME NEW s \in Run, NEW v \in Versions \union {NoVersion}, NEW b \in BOOLEAN,
             Moved(i, k, s),
             item' = [item EXCEPT ![i] = [x EXCEPT !.data = v, !.initialized = b]],
             x.initialized => b,
             (v = x.data /\ b = x.initialized) \/ v >= x.since,
             s.pc \in {"listed", "watch"} => s.seen >= x.since,
             s.pc \notin {"list", "listed", "watch"} => ~s.closed,
             \/ x.stopped
             \/ r.pc \in {"list", "listed", "watch"} /\ r.closed
             \/ s.pc \in {"asleep", "panicked", "add", "start"}
             \/ s.pc \in {"list", "listed", "watch"} /\ ~s.closed
      PROVE  Reflected(i, k)
  <2>1. [x EXCEPT !.data = v, !.initialized = b] \in Item
    BY <1>1 DEF Item
  <2>2. /\ item' \in [Items -> Item] /\ item'[i] = [x EXCEPT !.data = v, !.initialized = b]
        /\ \A j \in Items \ {i} : item'[j] = item[j]
    BY <1>1, <1>5, <2>1
  <2>3. /\ run' \in [Items -> [Slots -> Run]]
        /\ \A j \in Items \ {i} : run'[j] = run[j]
        /\ run'[i][k] = s
        /\ \A l \in Slots \ {k} :
             \/ run'[i][l] = run[i][l]
             \/ /\ run[i][l].pc = "asleep" /\ run'[i][l].pc = "released"
                /\ run'[i][l].closed = run[i][l].closed
    BY <1>5 DEF Moved
  <2>4. /\ item'[i].since = x.since /\ item'[i].object = x.object
        /\ item'[i].data = v /\ item'[i].initialized = b
    BY <1>1, <2>2 DEF Item
  <2>5. Fresh(i)'
    BY <1>2, <1>4, <1>5, <2>3, <2>4 DEF Fresh
  <2>6. Unclosed(i)'
    BY <1>2, <1>5, <2>3 DEF Unclosed
  <2>7. Minded(i) /\ ~x.stopped => Minded(i)'
    <3>1. SUFFICES ASSUME ~x.stopped, NEW l \in Slots,
                          \/ run[i][l].pc \in {"wait", "asleep", "released", "add",
                                               "start", "panicked"}
                          \/ run[i][l].pc \in {"list", "listed", "watch"} /\ ~run[i][l].closed
                   PROVE  \E m \in Slots :
                            \/ run'[i][m].pc \in {"wait", "asleep", "released", "add",
                                                  "start", "panicked"}
                            \/ run'[i][m].pc \in {"list", "listed", "watch"} /\ ~run'[i][m].closed
      BY DEF Minded, Watched
    <3>2. CASE l # k
      BY <2>3, <3>1, <3>2
    <3>3. CASE l = k
      BY <1>5, <2>3, <3>1, <3>3
    <3>4. QED
      BY <3>2, <3>3
  <2>8. QED
    BY <1>4, <1>5, <2>2, <2>3, <2>5, <2>6, <2>7 DEF Reflected
<1>6. ASSUME NEW s \in Run, UNCHANGED item, Moved(i, k, s),
             s.pc \in {"listed", "watch"} => s.seen >= x.since,
             s.pc \notin {"list", "listed", "watch"} => ~s.closed,
             \/ x.stopped
             \/ r.pc \in {"list", "listed", "watch"} /\ r.closed
             \/ s.pc \in {"asleep", "panicked", "add", "start"}
             \/ s.pc \in {"list", "listed", "watch"} /\ ~s.closed
      PROVE  Reflected(i, k)
  <2>1. item' = [item EXCEPT ![i] = [x EXCEPT !.data = x.data, !.initialized = x.initialized]]
    BY <1>1, <1>6 DEF Item
  <2>2. x.data \in Versions \union {NoVersion} /\ x.initialized \in BOOLEAN
    BY <1>1 DEF Item
  <2> HIDE DEF x, r
  <2>3. QED
    BY <1>5, <1>6, <2>1, <2>2
<1>7. x.data \in Versions \union {NoVersion} /\ x.initialized \in BOOLEAN
  BY <1>1 DEF Item
<1> HIDE DEF r, x
<1>8. CASE Wait(i, k) \/ Wake(i, k) \/ Add(i, k) \/ Relist(i, k)
  <2>1. PICK pc \in {"add", "asleep", "panicked", "start", "list"} :
          /\ run' = [run EXCEPT ![i][k] = [r EXCEPT !.pc = pc]]
          /\ UNCHANGED item
          /\ ~r.closed
    <3>1. CASE Wait(i, k)
      BY <1>2, <3>1 DEF Wait, Unclosed, r
    <3>2. CASE Wake(i, k)
      BY <1>2, <3>2 DEF Wake, Unclosed, r
    <3>3. CASE Add(i, k) \/ Relist(i, k)
      BY <1>2, <3>3 DEF Add, Relist, Unclosed, r
    <3>4. QED
      BY <1>8, <3>1, <3>2, <3>3
  <2>2. /\ [r EXCEPT !.pc = pc] \in Run
        /\ [r EXCEPT !.pc = pc].pc = pc /\ ~[r EXCEPT !.pc = pc].closed
    BY <1>1, <2>1 DEF RunPcs, Run, NoRun
  <2>3. QED
    BY <1>6, <2>1, <2>2, OneMoves
<1>9. CASE Start(i, k)
  <2>1. /\ r.pc = "start" /\ ~r.closed /\ UNCHANGED item
        /\ x.stopped => Done(i, k)
        /\ ~x.stopped => run' = [run EXCEPT ![i][k] = [r EXCEPT !.pc = "list"]]
    BY <1>2, <1>9 DEF Start, Unclosed, r, x
  <2>2. /\ [r EXCEPT !.pc = "list"] \in Run /\ NoRun \in Run
        /\ [r EXCEPT !.pc = "list"].pc = "list" /\ ~[r EXCEPT !.pc = "list"].closed
    BY <1>1, <2>1 DEF RunPcs, Run, NoRun
  <2>3. NoRun.pc = "none" /\ ~NoRun.closed
    BY DEF NoRun
  <2>4. CASE x.stopped
    BY <1>6, <2>1, <2>2, <2>3, <2>4, DoneMoves
  <2>5. CASE ~x.stopped
    BY <1>6, <2>1, <2>2, <2>5, OneMoves
  <2>6. QED
    BY <2>4, <2>5
<1>10. CASE List(i, k)
  <2> DEFINE s == [r EXCEPT !.pc = "listed", !.seen = server[x.object]]
  <2>1. r.pc = "list" /\ UNCHANGED item /\ run' = [run EXCEPT ![i][k] = s]
    BY <1>10 DEF List, r, x
  <2>2. s \in Run /\ s.pc = "listed" /\ s.closed = r.closed /\ s.seen = server[x.object]
    BY <1>1 DEF RunPcs, Run
  <2>3. server[x.object] >= x.since
    BY <1>1, <1>2, <1>3, VersionsAreNumbers DEF Fresh, x
  <2> HIDE DEF s
  <2>4. QED
    BY <1>6, <2>1, <2>2, <2>3, OneMoves
<1>11. CASE Replace(i, k)
  <2> DEFINE s == [r EXCEPT !.pc = "watch"]
  <2>1. /\ r.pc = "listed" /\ run' = [run EXCEPT ![i][k] = s]
        /\ item' = [item EXCEPT ![i] = [x EXCEPT !.data = r.seen, !.initialized = TRUE]]
    BY <1>11 DEF Replace, r, x
  <2>2. s \in Run /\ s.pc = "watch" /\ s.closed = r.closed /\ s.seen = r.seen
    BY <1>1 DEF RunPcs, Run
  <2>3. r.seen >= x.since /\ r.seen \in Versions \union {NoVersion}
    BY <1>1, <1>2, <2>1 DEF Fresh, r, x, Run
  <2> HIDE DEF s
  <2>4. QED
    BY <1>5, <2>1, <2>2, <2>3, OneMoves
<1>12. CASE WatchEvent(i, k)
  <2> DEFINE s == [r EXCEPT !.seen = r.seen + 1]
  <2>1. /\ r.pc = "watch" /\ r.seen < server[x.object] /\ run' = [run EXCEPT ![i][k] = s]
        /\ item' = [item EXCEPT ![i] =
             [x EXCEPT !.data = r.seen + 1, !.initialized = x.initialized]]
    BY <1>1, <1>12 DEF WatchEvent, r, x, Item
  <2>2. /\ r.seen + 1 \in Versions \union {NoVersion}
        /\ r.seen + 1 >= x.since
    <3>1. server[x.object] \in Versions /\ r.seen >= x.since
      BY <1>1, <1>2, <2>1 DEF Fresh, r, x
    <3>2. server[x.object] \in Int /\ server[x.object] <= Len(Life)
      <4>1. PICK v \in Versions : v = server[x.object]
        BY <3>1
      <4>2. v \in Nat
        BY VersionsAreNumbers
      <4>3. v <= Len(Life)
        BY <4>2, VersionsAreNumbers
      <4>4. QED
        BY <4>1, <4>2, <4>3
    <3>3. r.seen + 1 \in Int /\ 1 <= r.seen + 1 /\ r.seen + 1 <= Len(Life)
      BY <1>3, <2>1, <3>2, VersionsAreNumbers
    <3>4. QED
      BY <1>3, <3>1, <3>3, VersionsAreNumbers
  <2>3. s \in Run /\ s.pc = "watch" /\ s.closed = r.closed /\ s.seen = r.seen + 1
    BY <1>1, <2>1, <2>2 DEF Run
  <2> HIDE DEF s
  <2>4. QED
    BY <1>5, <1>7, <2>1, <2>2, <2>3, OneMoves
<1>13. CASE Return(i, k)
  <2>1. r.pc \in {"list", "watch"} /\ r.closed /\ UNCHANGED item /\ Done(i, k)
    BY <1>13 DEF Return, r
  <2>2. NoRun \in Run /\ NoRun.pc = "none" /\ ~NoRun.closed
    BY DEF Run, NoRun, RunPcs
  <2>3. QED
    BY <1>6, <2>1, <2>2, DoneMoves
<1>14. QED
  BY <1>8, <1>9, <1>10, <1>11, <1>12, <1>13 DEF Reflect

\* The reference counts depend on the map, the pods and the call alone.
LEMMA CountsKept ==
  ASSUME ReferencesCounted, UNCHANGED <<registered, call, index>>,
         \A o \in Objects : index[o] # NoItem =>
           item'[index[o]].refCount = item[index[o]].refCount
  PROVE  ReferencesCounted'
<1>1. \A o \in Objects : References(o)' = References(o) /\ Wanting(o)' = Wanting(o)
  BY DEF References, Wanting
<1>2. QED
  BY <1>1 DEF ReferencesCounted

LEMMA ReflectKeepsInv ==
  ASSUME CacheInv, NEW i \in Items, NEW k \in Slots, Reflected(i, k)
  PROVE  CacheInv'
<1> DEFINE x == item[i]
<1>1. /\ x \in Item /\ \A g \in Getters : getter[g].item \in Items \union {NoItem}
      /\ \A o \in Objects : index[o] \in Items \union {NoItem}
  BY DEF CacheInv, TypeOK, Getter
<1>2. PICK v \in Versions \union {NoVersion}, b \in BOOLEAN :
        /\ item'[i] = [x EXCEPT !.data = v, !.initialized = b]
        /\ x.initialized => b
        /\ (v = x.data /\ b = x.initialized) \/ v >= x.since
  BY DEF Reflected
<1>3. /\ item'[i].object = x.object /\ item'[i].since = x.since
      /\ item'[i].idle = x.idle /\ item'[i].immutable = x.immutable
      /\ item'[i].stopped = x.stopped /\ item'[i].refCount = x.refCount
      /\ item'[i].data = v /\ item'[i].initialized = b
  BY <1>1, <1>2 DEF Item
<1>4. /\ UNCHANGED <<registered, call, index, getter, server>>
      /\ \A j \in Items \ {i} : item'[j] = item[j] /\ run'[j] = run[j]
  BY DEF Reflected
<1> HIDE DEF x
<1>5. \A j \in Items : /\ item'[j].object = item[j].object
                       /\ item'[j].since = item[j].since
                       /\ item'[j].idle = item[j].idle
                       /\ item'[j].immutable = item[j].immutable
                       /\ item'[j].stopped = item[j].stopped
                       /\ item'[j].refCount = item[j].refCount
                       /\ item[j].initialized => item'[j].initialized
                       /\ item[j].data >= item[j].since => item'[j].data >= item'[j].since
  BY <1>2, <1>3, <1>4 DEF x
<1>6. TypeOK'
  BY <1>4 DEF Reflected, CacheInv, TypeOK
<1>7. ASSUME NEW j \in Items PROVE Fresh(j)' /\ Unclosed(j)'
  <2>1. CASE j = i
    BY <2>1 DEF Reflected
  <2>2. CASE j # i
    BY <1>4, <2>2 DEF CacheInv, Fresh, Unclosed
  <2>3. QED
    BY <2>1, <2>2
<1>8. ASSUME NEW g \in Getters PROVE Using(g)'
  BY <1>4, <1>5 DEF CacheInv, Using
<1>9. ASSUME NEW o \in Objects PROVE Indexed(o)'
  <2>1. CASE index[o] = NoItem
    BY <1>4, <2>1 DEF Indexed
  <2>2. CASE index[o] # NoItem
    <3>1. index[o] \in Items /\ Indexed(o)
      BY <1>1, <2>2 DEF CacheInv
    <3>2. ~item[index[o]].stopped => Minded(index[o])'
      <4>1. CASE index[o] = i
        BY <1>4, <2>2, <3>1, <4>1 DEF Indexed, Reflected
      <4>2. CASE index[o] # i
        BY <1>4, <2>2, <3>1, <4>2 DEF Indexed, Minded, Watched
      <4>3. QED
        BY <4>1, <4>2
    <3>3. QED
      BY <1>4, <1>5, <2>2, <3>1, <3>2 DEF Indexed
  <2>3. QED
    BY <2>1, <2>2
<1>10. ReferencesCounted'
  BY <1>1, <1>4, <1>5, CountsKept DEF CacheInv
<1>11. QED
  BY <1>6, <1>7, <1>8, <1>9, <1>10 DEF CacheInv

-----------------------------------------------------------------------------
(***************************************************************************)
(* A step that changes one item and its runs, but not what they have seen  *)
(***************************************************************************)
Altered(i, x) ==
  /\ UNCHANGED <<registered, call, index, server>>
  /\ item' = [item EXCEPT ![i] = x]
  /\ x.object = item[i].object /\ x.since = item[i].since
  /\ x.data = item[i].data /\ x.refCount = item[i].refCount
  /\ x.initialized => item[i].initialized
  /\ run' \in [Items -> [Slots -> Run]]
  /\ \A j \in Items \ {i} : run'[j] = run[j]
  /\ \A k \in Slots : run'[i][k].pc \in {"listed", "watch"} =>
       run'[i][k].pc = run[i][k].pc /\ run'[i][k].seen = run[i][k].seen
  /\ Unclosed(i)'

LEMMA AlteredKeeps ==
  ASSUME CacheInv, NEW i \in Items, NEW x \in Item, Altered(i, x),
         getter' \in [Getters -> Getter]
  PROVE  /\ TypeOK'
         /\ item'[i] = x /\ \A j \in Items \ {i} : item'[j] = item[j]
         /\ \A j \in Items : Fresh(j)' /\ Unclosed(j)'
         /\ ReferencesCounted'
<1>1. item \in [Items -> Item] /\ \A o \in Objects : index[o] \in Items \union {NoItem}
  BY DEF CacheInv, TypeOK
<1>2. /\ item'[i] = x /\ item' \in [Items -> Item]
      /\ \A j \in Items \ {i} : item'[j] = item[j]
  BY <1>1 DEF Altered
<1>3. TypeOK'
  BY <1>2 DEF Altered, CacheInv, TypeOK
<1>4. ASSUME NEW j \in Items PROVE Fresh(j)' /\ Unclosed(j)'
  <2>1. Fresh(j) /\ Unclosed(j)
    BY DEF CacheInv
  <2>2. CASE j = i
    BY <1>2, <2>1, <2>2 DEF Altered, Fresh
  <2>3. CASE j # i
    BY <1>2, <2>1, <2>3 DEF Altered, Fresh, Unclosed
  <2>4. QED
    BY <2>2, <2>3
<1>5. \A j \in Items : item'[j].refCount = item[j].refCount
  BY <1>2 DEF Altered
<1>6. ReferencesCounted'
  BY <1>1, <1>5, CountsKept DEF Altered, CacheInv
<1>7. QED
  BY <1>2, <1>3, <1>4, <1>6

\* Closing the channel of an item's runs changes nothing else of them.
LEMMA ClosedRunsKeep ==
  ASSUME CacheInv, NEW i \in Items, run' = [run EXCEPT ![i] = ClosedRuns(i)]
  PROVE  /\ run' \in [Items -> [Slots -> Run]]
         /\ \A j \in Items \ {i} : run'[j] = run[j]
         /\ \A k \in Slots : /\ run'[i][k].pc = run[i][k].pc
                             /\ run'[i][k].seen = run[i][k].seen
         /\ Unclosed(i)'
<1>1. run \in [Items -> [Slots -> Run]] /\ Unclosed(i)
  BY DEF CacheInv, TypeOK
<1>2. \A k \in Slots : ClosedRuns(i)[k] \in Run
  <2>1. ASSUME NEW k \in Slots PROVE ClosedRuns(i)[k] \in Run
    <3>1. PICK r \in Run : r = run[i][k]
      BY <1>1
    <3>2. [r EXCEPT !.closed = TRUE] \in Run
      BY RunFieldTypes
    <3>3. ClosedRuns(i)[k] = [r EXCEPT !.closed = TRUE] \/ ClosedRuns(i)[k] = r
      BY <3>1 DEF ClosedRuns
    <3>4. QED
      BY <3>2, <3>3
  <2>2. QED
    BY <2>1
<1>3. ClosedRuns(i) \in [Slots -> Run]
  BY <1>2 DEF ClosedRuns
<1>4. \A k \in Slots : /\ ClosedRuns(i)[k].pc = run[i][k].pc
                       /\ ClosedRuns(i)[k].seen = run[i][k].seen
                       /\ run[i][k].pc \notin {"list", "listed", "watch"} =>
                            ClosedRuns(i)[k].closed = run[i][k].closed
  <2>1. ASSUME NEW k \in Slots
        PROVE  /\ ClosedRuns(i)[k].pc = run[i][k].pc
               /\ ClosedRuns(i)[k].seen = run[i][k].seen
               /\ run[i][k].pc \notin {"list", "listed", "watch"} =>
                    ClosedRuns(i)[k].closed = run[i][k].closed
    <3> DEFINE r == run[i][k]
    <3>1. r \in Run
      BY <1>1
    <3>2. ClosedRuns(i)[k] = IF r.pc \in {"list", "listed", "watch"}
                             THEN [r EXCEPT !.closed = TRUE] ELSE r
      BY DEF ClosedRuns
    <3> HIDE DEF r
    <3>3. QED
      BY <3>1, <3>2 DEF Run, r
  <2>2. QED
    BY <2>1
<1>5. run'[i] = ClosedRuns(i) /\ \A j \in Items \ {i} : run'[j] = run[j]
  BY <1>1
<1>6. run' \in [Items -> [Slots -> Run]]
  BY <1>1, <1>3
<1>7. Unclosed(i)'
  BY <1>1, <1>4, <1>5 DEF Unclosed
<1>8. QED
  BY <1>4, <1>5, <1>6, <1>7

\* A reflector that is started waits for its predecessor: the item is watched.
LEMMA StartedKeeps ==
  ASSUME CacheInv, NEW i \in Items, NEW x, startReflector(i, x)
  PROVE  /\ item' = [item EXCEPT ![i] = x]
         /\ run' \in [Items -> [Slots -> Run]]
         /\ \A j \in Items \ {i} : run'[j] = run[j]
         /\ \A k \in Slots : run'[i][k].pc \in {"listed", "watch"} =>
              run'[i][k].pc = run[i][k].pc /\ run'[i][k].seen = run[i][k].seen
         /\ Unclosed(i)' /\ Minded(i)'
<1>1. run \in [Items -> [Slots -> Run]] /\ Unclosed(i)
  BY DEF CacheInv, TypeOK
<1>2. PICK k \in Slots : /\ item' = [item EXCEPT ![i] = x]
                         /\ run' = [run EXCEPT ![i][k] = [NoRun EXCEPT !.pc = "wait"]]
  BY DEF startReflector
<1>3. /\ [NoRun EXCEPT !.pc = "wait"] \in Run
      /\ [NoRun EXCEPT !.pc = "wait"].pc = "wait" /\ ~[NoRun EXCEPT !.pc = "wait"].closed
  BY DEF NoRun, Run, RunPcs
<1>4. /\ run' \in [Items -> [Slots -> Run]]
      /\ run'[i][k].pc = "wait" /\ ~run'[i][k].closed
      /\ \A l \in Slots \ {k} : run'[i][l] = run[i][l]
      /\ \A j \in Items \ {i} : run'[j] = run[j]
  BY <1>1, <1>2, <1>3
<1>5. Unclosed(i)' /\ Minded(i)'
  BY <1>1, <1>4 DEF Unclosed, Minded, Watched
<1>6. QED
  BY <1>2, <1>4, <1>5

\* It is enough to look at what uses the item and at the objects it is the item of.
LEMMA AlteredInv ==
  ASSUME CacheInv, NEW i \in Items, NEW x \in Item, Altered(i, x),
         getter' \in [Getters -> Getter],
         \A h \in Getters : Using(h)',
         \A o \in Objects : index[o] = i => Indexed(o)',
         \A h \in Getters : getter'[h] = getter[h] \/ getter'[h].item \in {i, NoItem}
  PROVE  CacheInv'
<1>1. /\ TypeOK' /\ ReferencesCounted'
      /\ \A j \in Items \ {i} : item'[j] = item[j]
      /\ \A j \in Items : Fresh(j)' /\ Unclosed(j)'
  BY AlteredKeeps
<1>2. ASSUME NEW o \in Objects, index[o] # i PROVE Indexed(o)'
  <2>1. CASE index[o] = NoItem
    BY <2>1 DEF Indexed, Altered
  <2>2. CASE index[o] # NoItem
    <3>1. index[o] \in Items \ {i} /\ Indexed(o)
      BY <1>2, <2>2 DEF CacheInv, TypeOK
    <3>2. item'[index[o]] = item[index[o]] /\ run'[index[o]] = run[index[o]]
      BY <1>1, <3>1 DEF Altered
    <3>3. Minded(index[o])' <=> Minded(index[o])
      BY <3>2 DEF Minded, Watched, Altered
    <3>4. \A h \in Getters : getter'[h].item = index[o] => getter'[h] = getter[h]
      BY <1>2, <2>2
    <3>5. QED
      BY <2>2, <3>1, <3>2, <3>3, <3>4 DEF Indexed, Altered
  <2>3. QED
    BY <2>1, <2>2
<1>3. QED
  BY <1>1, <1>2 DEF CacheInv

LEMMA StoppedIsAltered ==
  ASSUME CacheInv, NEW i \in Items,
         item' = [item EXCEPT ![i] = stopThreadUnsafe(item[i])],
         run' = [run EXCEPT ![i] = ClosedRuns(i)],
         UNCHANGED <<registered, call, index, server>>
  PROVE  Altered(i, stopThreadUnsafe(item[i]))
<1>1. PICK old \in Item : old = item[i]
  BY DEF CacheInv, TypeOK
<1>2. PICK x \in Item : x = stopThreadUnsafe(old)
  BY ItemFieldTypes
<1>3. /\ x.object = old.object /\ x.since = old.since /\ x.data = old.data
      /\ x.refCount = old.refCount
      /\ x.initialized => old.initialized
  BY <1>2 DEF Item, stopThreadUnsafe
<1>4. /\ run' \in [Items -> [Slots -> Run]]
      /\ \A j \in Items \ {i} : run'[j] = run[j]
      /\ \A k \in Slots : run'[i][k].pc \in {"listed", "watch"} =>
           run'[i][k].pc = run[i][k].pc /\ run'[i][k].seen = run[i][k].seen
      /\ Unclosed(i)'
  BY ClosedRunsKeep
<1>5. item' = [item EXCEPT ![i] = x]
  BY <1>1, <1>2
<1>6. Altered(i, x)
  BY <1>1, <1>3, <1>4, <1>5 DEF Altered
<1>7. QED
  BY <1>1, <1>2, <1>6

\* A Get goes on, and changes nothing but where it stands.
LEMMA QuietGetInv ==
  ASSUME CacheInv, NEW g \in Getters, NEW w \in Getter,
         getter' = [getter EXCEPT ![g] = w],
         UNCHANGED <<registered, call, index, item, run, server>>,
         Using(g)',
         \A o \in Objects :
           index[o] # NoItem /\ w.item = index[o] /\ w.pc \in {"read", "freeze", "stop"}
             => item[index[o]].initialized
  PROVE  CacheInv'
<1>1. /\ getter' \in [Getters -> Getter] /\ getter'[g] = w
      /\ \A h \in Getters \ {g} : getter'[h] = getter[h]
  BY DEF CacheInv, TypeOK
<1>2. TypeOK'
  BY <1>1 DEF CacheInv, TypeOK
<1>3. \A i \in Items : Fresh(i)' /\ Unclosed(i)'
  BY DEF CacheInv, Fresh, Unclosed
<1>4. \A h \in Getters : Using(h)'
  BY <1>1 DEF CacheInv, Using
<1>5. ASSUME NEW o \in Objects PROVE Indexed(o)'
  <2>1. Indexed(o)
    BY DEF CacheInv
  <2>2. Minded(index[o])' <=> Minded(index[o])
    BY DEF Minded, Watched
  <2>3. QED
    BY <1>1, <2>1, <2>2 DEF Indexed
<1>6. ReferencesCounted'
  BY CountsKept DEF CacheInv
<1>7. QED
  BY <1>2, <1>3, <1>4, <1>5, <1>6 DEF CacheInv

\* The steps of a Get that look, wait and read
LEMMA GetLooksInv ==
  ASSUME CacheInv, NEW g \in Getters,
         \/ \E o \in Objects : Lookup(g, o)
         \/ Poll(g) \/ TimeOut(g) \/ Read(g)
  PROVE  CacheInv'
<1> DEFINE w == getter[g]
<1>1. w \in Getter /\ Using(g) /\ getter \in [Getters -> Getter]
  BY DEF CacheInv, TypeOK
<1>2. ASSUME NEW o \in Objects, Lookup(g, o) PROVE CacheInv'
  <2> DEFINE v == [pc |-> "access", item |-> index[o]]
  <2>1. index[o] \in Items
    BY <1>2 DEF Lookup, CacheInv, TypeOK
  <2>2. v \in Getter /\ v.pc = "access" /\ v.item = index[o]
    BY <2>1 DEF Getter, GetPcs
  <2>3. /\ getter' = [getter EXCEPT ![g] = v]
        /\ UNCHANGED <<registered, call, index, item, run, server>>
    BY <1>2 DEF Lookup
  <2>4. getter'[g] = v
    BY <1>1, <2>3
  <2> HIDE DEF v
  <2>5. Using(g)'
    BY <2>1, <2>2, <2>4 DEF Using
  <2>6. QED
    BY <2>2, <2>3, <2>5, QuietGetInv
<1>3. ASSUME NEW pc \in {"read", "freeze"}, w.pc \in {"poll", "read"},
             getter' = [getter EXCEPT ![g] = [w EXCEPT !.pc = pc]],
             UNCHANGED <<registered, call, index, item, run, server>>,
             w.pc = "poll" => pc = "read" /\ item[w.item].initialized,
             w.pc = "read" => pc = "freeze"
      PROVE  CacheInv'
  <2> DEFINE v == [w EXCEPT !.pc = pc]
  <2>1. v \in Getter /\ v.pc = pc /\ v.item = w.item /\ w.item \in Items
    BY <1>1, <1>3 DEF Getter, GetPcs, Using
  <2>2. getter'[g] = v
    BY <1>1, <1>3
  <2>3. \A o \in Objects : w.item = index[o] => item[index[o]].initialized
    BY <1>3, <2>1, ItemNumbers DEF CacheInv, Indexed
  <2>4. Fresh(w.item)
    BY <2>1 DEF CacheInv
  <2> HIDE DEF v
  <2>5. Using(g)'
    BY <1>1, <1>3, <2>1, <2>2, <2>4 DEF Using, Fresh
  <2>6. QED
    BY <1>3, <2>1, <2>3, <2>5, QuietGetInv DEF v
<1>4. ASSUME Ends(g), UNCHANGED <<registered, call, index, item, run, server>>
      PROVE  CacheInv'
  <2>1. NoGet \in Getter /\ NoGet.pc = "idle"
    BY DEF NoGet, Getter, GetPcs
  <2>2. Using(g)'
    BY <1>1, <1>4, <2>1 DEF Ends, Using
  <2>3. QED
    BY <1>4, <2>1, <2>2, QuietGetInv DEF Ends
<1>5. CASE Poll(g)
  <2>1. /\ w.pc = "poll" /\ item[w.item].initialized
        /\ getter' = [getter EXCEPT ![g] = [w EXCEPT !.pc = "read"]]
        /\ UNCHANGED <<registered, call, index, item, run, server>>
    BY <1>5 DEF Poll, Goto
  <2>2. QED
    BY <1>3, <2>1
<1>6. CASE Read(g)
  <2>1. /\ w.pc = "read"
        /\ \/ getter' = [getter EXCEPT ![g] = [w EXCEPT !.pc = "freeze"]]
           \/ Ends(g)
        /\ UNCHANGED <<registered, call, index, item, run, server>>
    BY <1>6 DEF Read, Goto
  <2>2. QED
    BY <1>3, <1>4, <2>1
<1>7. CASE TimeOut(g)
  BY <1>4, <1>7 DEF TimeOut
<1>8. QED
  BY <1>2, <1>5, <1>6, <1>7

\* The steps of a Get that write to its item
LEMMA GetWritesInv ==
  ASSUME CacheInv, NEW g \in Getters,
         \/ setLastAccessTime(g) \/ restartReflectorIfNeeded(g)
         \/ setImmutable(g) \/ stop(g)
  PROVE  CacheInv'
<1>1. getter \in [Getters -> Getter] /\ Using(g) /\ getter[g] \in Getter
  BY DEF CacheInv, TypeOK
<1>2. getter[g].pc # "idle"
  BY DEF setLastAccessTime, restartReflectorIfNeeded, setImmutable, stop
<1>3a. PICK i \in Items : i = getter[g].item
  BY <1>1, <1>2 DEF Using
<1>3b. PICK old \in Item : old = item[i]
  BY DEF CacheInv, TypeOK
<1>3. /\ i \in Items /\ old \in Item /\ item \in [Items -> Item]
      /\ i = getter[g].item /\ old = item[i]
  BY <1>3a, <1>3b DEF CacheInv, TypeOK
<1>4. run \in [Items -> [Slots -> Run]] /\ Unclosed(i)
  BY <1>3 DEF CacheInv, TypeOK
<1>5. \A o \in Objects : Indexed(o)
  BY DEF CacheInv
\* What the four have in common
<1>6. ASSUME NEW x \in Item, NEW w \in Getter, Altered(i, x),
             getter' = [getter EXCEPT ![g] = w], w.item \in {i, NoItem},
             w.pc # "idle" => /\ w.item = i
                              /\ w.pc \notin {"access", "read"} /\ ~x.idle
                              /\ w.pc = "stop" => x.immutable,
             x.idle => old.idle, old.immutable => x.immutable,
             x.initialized = old.initialized,
             x.immutable /\ x.stopped =>
               (old.immutable /\ old.stopped) \/ getter[g].pc \in {"freeze", "stop"},
             ~x.stopped => Minded(i)' \/ (~old.stopped /\ UNCHANGED run),
             w.pc \in {"read", "freeze", "stop"} => getter[g].pc = "freeze"
      PROVE  CacheInv'
  <2>1. /\ getter' \in [Getters -> Getter] /\ getter'[g] = w
        /\ \A h \in Getters \ {g} : getter'[h] = getter[h]
    BY <1>1, <1>6
  <2>2. item'[i] = x /\ \A j \in Items \ {i} : item'[j] = item[j]
    BY <1>3, <1>6, <2>1, AlteredKeeps
  <2>3. x.data = old.data /\ x.since = old.since /\ x.object = old.object
    BY <1>3, <1>6 DEF Altered
  <2>4. \A h \in Getters : Using(h)'
    <3>1. ASSUME NEW h \in Getters \ {g} PROVE Using(h)'
      <4>1. Using(h)
        BY DEF CacheInv
      <4>2. CASE getter[h].item = i
        BY <1>3, <1>6, <2>1, <2>2, <2>3, <4>1, <4>2 DEF Using
      <4>3. CASE getter[h].item # i
        BY <2>1, <2>2, <4>1, <4>3 DEF Using
      <4>4. QED
        BY <4>2, <4>3
    <3>2. Using(g)'
      BY <1>3, <1>6, <2>1, <2>2 DEF Using
    <3>3. QED
      BY <3>1, <3>2
  <2>5. ASSUME NEW o \in Objects, index[o] = i PROVE Indexed(o)'
    <3>1. Indexed(o) /\ index'[o] = i /\ i # NoItem
      BY <1>3, <1>5, <1>6, <2>5, ItemNumbers DEF Altered
    <3>2. getter[g].pc \in {"freeze", "stop"} => old.initialized
      BY <1>3, <2>5, <3>1 DEF Indexed
    <3>3. x.immutable /\ x.stopped => x.initialized
      BY <1>3, <1>6, <2>5, <3>1, <3>2 DEF Indexed
    <3>4. ~x.stopped => Minded(i)'
      BY <1>3, <1>6, <2>5, <3>1 DEF Indexed, Minded, Watched
    <3>5. ASSUME NEW h \in Getters, getter'[h].item = i,
                 getter'[h].pc \in {"read", "freeze", "stop"}
          PROVE  x.initialized
      BY <1>3, <1>6, <2>1, <2>5, <3>1, <3>2, <3>5 DEF Indexed
    <3>6. QED
      BY <1>3, <2>2, <2>3, <2>5, <3>1, <3>3, <3>4, <3>5 DEF Indexed
  <2>6. QED
    BY <1>3, <1>6, <2>1, <2>4, <2>5, AlteredInv
<1>7. \A pc \in GetPcs : LET w == [getter[g] EXCEPT !.pc = pc]
                         IN  w \in Getter /\ w.item = i /\ w.pc = pc
  BY <1>3, <1>1 DEF Getter
<1>8. /\ UNCHANGED run => /\ run' \in [Items -> [Slots -> Run]]
                          /\ \A j \in Items \ {i} : run'[j] = run[j]
                          /\ \A k \in Slots : run'[i][k] = run[i][k]
                          /\ Unclosed(i)'
  BY <1>4 DEF Unclosed
<1>9. CASE setLastAccessTime(g)
  <2> DEFINE x == [old EXCEPT !.idle = FALSE]
             w == [getter[g] EXCEPT !.pc = "restart"]
  <2>1. /\ item' = [item EXCEPT ![i] = x] /\ getter' = [getter EXCEPT ![g] = w]
        /\ UNCHANGED <<registered, call, index, run, server>>
    BY <1>3, <1>9 DEF setLastAccessTime, Goto, Item
  <2>2. /\ x \in Item /\ x = [old EXCEPT !.idle = FALSE] /\ ~x.idle
        /\ x.object = old.object /\ x.since = old.since /\ x.data = old.data
        /\ x.refCount = old.refCount /\ x.initialized = old.initialized
        /\ x.stopped = old.stopped /\ x.immutable = old.immutable
    BY <1>3 DEF Item
  <2>3. w \in Getter /\ w.item = i /\ w.pc = "restart"
    BY <1>7 DEF GetPcs
  <2> HIDE DEF x, w
  <2>4. Altered(i, x)
    BY <1>3, <1>8, <2>1, <2>2 DEF Altered
  <2>5. QED
    BY <1>6, <2>1, <2>2, <2>3, <2>4
<1>10. CASE setImmutable(g)
  <2> DEFINE x == [old EXCEPT !.immutable = TRUE]
             w == [getter[g] EXCEPT !.pc = "stop"]
  <2>1. /\ item' = [item EXCEPT ![i] = x] /\ getter' = [getter EXCEPT ![g] = w]
        /\ UNCHANGED <<registered, call, index, run, server>>
        /\ getter[g].pc = "freeze"
    BY <1>3, <1>10 DEF setImmutable, Goto, Item
  <2>2. /\ x \in Item /\ x.immutable /\ x.idle = old.idle
        /\ x.object = old.object /\ x.since = old.since /\ x.data = old.data
        /\ x.refCount = old.refCount /\ x.initialized = old.initialized
        /\ x.stopped = old.stopped
    BY <1>3 DEF Item
  <2>3. w \in Getter /\ w.item = i /\ w.pc = "stop"
    BY <1>7 DEF GetPcs
  <2>4. ~old.idle
    BY <1>3, <1>1, <2>1 DEF Using
  <2> HIDE DEF x, w
  <2>5. Altered(i, x)
    BY <1>3, <1>8, <2>1, <2>2 DEF Altered
  <2>6. QED
    BY <1>6, <2>1, <2>2, <2>3, <2>4, <2>5
<1>11. CASE stop(g)
  <2> DEFINE x == stopThreadUnsafe(old)
  <2>1. /\ item' = [item EXCEPT ![i] = x] /\ getter' = [getter EXCEPT ![g] = NoGet]
        /\ UNCHANGED <<registered, call, index, server>>
        /\ run' = [run EXCEPT ![i] = ClosedRuns(i)]
        /\ getter[g].pc = "stop"
    BY <1>3, <1>11 DEF stop, Ends
  <2>2. old.immutable
    BY <1>3, <1>1, <2>1 DEF Using
  <2>3. /\ x \in Item /\ x.immutable /\ x.idle = old.idle /\ x.stopped
        /\ x.object = old.object /\ x.since = old.since /\ x.data = old.data
        /\ x.refCount = old.refCount /\ x.initialized = old.initialized
    BY <1>3, <2>2 DEF Item, stopThreadUnsafe
  <2>4. NoGet \in Getter /\ NoGet.item = NoItem /\ NoGet.pc = "idle"
    BY DEF NoGet, Getter, GetPcs
  <2> HIDE DEF x
  <2>5. Altered(i, x)
    BY <1>3, <2>1, StoppedIsAltered DEF x
  <2>6. QED
    BY <1>6, <2>1, <2>2, <2>3, <2>4, <2>5
<1>12. CASE restartReflectorIfNeeded(g)
  <2> DEFINE w == [getter[g] EXCEPT !.pc = "poll"]
  <2>1. /\ getter' = [getter EXCEPT ![g] = w] /\ getter[g].pc = "restart"
        /\ UNCHANGED <<registered, call, index, server>>
        /\ \/ UNCHANGED <<item, run>>
           \/ /\ ~old.immutable /\ old.stopped
              /\ startReflector(i, [old EXCEPT !.stopped = FALSE])
    BY <1>3, <1>12 DEF restartReflectorIfNeeded, Goto
  <2>2. w \in Getter /\ w.item = i /\ w.pc = "poll"
    BY <1>7 DEF GetPcs
  <2>3. ~old.idle
    BY <1>3, <1>1, <2>1 DEF Using
  <2> HIDE DEF w
  <2>4. CASE UNCHANGED <<item, run>>
    <3>1. getter'[g] = w
      BY <1>1, <2>1
    <3>2. Using(g)'
      BY <1>3, <2>2, <2>3, <2>4, <3>1 DEF Using
    <3>3. QED
      BY <2>1, <2>2, <2>4, <3>2, QuietGetInv
  <2>5. CASE /\ ~old.immutable /\ old.stopped
             /\ startReflector(i, [old EXCEPT !.stopped = FALSE])
    <3> DEFINE x == [old EXCEPT !.stopped = FALSE]
    <3>1. /\ x \in Item /\ x.immutable = old.immutable /\ x.idle = old.idle /\ ~x.stopped
          /\ x.object = old.object /\ x.since = old.since /\ x.data = old.data
          /\ x.refCount = old.refCount /\ x.initialized = old.initialized
      BY <1>3 DEF Item
    <3>2. startReflector(i, x)
      BY <2>5
    <3> HIDE DEF x
    <3>3. Altered(i, x) /\ Minded(i)'
      <4>1. /\ item' = [item EXCEPT ![i] = x]
            /\ run' \in [Items -> [Slots -> Run]]
            /\ \A j \in Items \ {i} : run'[j] = run[j]
            /\ \A k \in Slots : run'[i][k].pc \in {"listed", "watch"} =>
                 run'[i][k].pc = run[i][k].pc /\ run'[i][k].seen = run[i][k].seen
            /\ Unclosed(i)' /\ Minded(i)'
        BY <3>2, StartedKeeps
      <4>2. QED
        BY <1>3, <2>1, <3>1, <4>1 DEF Altered
    <3>4. QED
      BY <1>6, <2>1, <2>2, <2>3, <3>1, <3>3
  <2>6. QED
    BY <2>1, <2>4, <2>5
<1>13. QED
  BY <1>9, <1>10, <1>11, <1>12

-----------------------------------------------------------------------------
(***************************************************************************)
(* The idle sweep, the clock and the API server                            *)
(***************************************************************************)
\* An item no Get uses beyond having looked it up
LEMMA AlteredUnusedInv ==
  ASSUME CacheInv, NEW i \in Items, NEW x \in Item, Altered(i, x), UNCHANGED getter,
         \A h \in Getters : getter[h].item = i => getter[h].pc \in {"idle", "access"},
         x.immutable = item[i].immutable,
         x.immutable /\ x.stopped => x.initialized,
         ~x.stopped => Minded(i)'
  PROVE  CacheInv'
<1>1. /\ getter' \in [Getters -> Getter]
      /\ item'[i] = x /\ \A j \in Items \ {i} : item'[j] = item[j]
  <2>1. getter' \in [Getters -> Getter]
    BY DEF CacheInv, TypeOK
  <2>2. QED
    BY <2>1, AlteredKeeps
<1>2. x.object = item[i].object
  BY DEF Altered
<1>3. ASSUME NEW h \in Getters PROVE Using(h)'
  BY <1>1 DEF Using, CacheInv
<1>4. ASSUME NEW o \in Objects, index[o] = i PROVE Indexed(o)'
  <2>1. Indexed(o) /\ index'[o] = i /\ i # NoItem
    BY <1>4, ItemNumbers DEF CacheInv, Altered
  <2>2. ~x.stopped => Minded(index[o])'
    BY <1>4, <2>1 DEF Minded, Watched
  <2>3. \A h \in Getters :
          ~(getter'[h].item = i /\ getter'[h].pc \in {"read", "freeze", "stop"})
    OBVIOUS
  <2>4. item'[i].object = o
    BY <1>1, <1>2, <1>4, <2>1 DEF Indexed
  <2>5. QED
    BY <1>1, <1>4, <2>1, <2>2, <2>3, <2>4 DEF Indexed, Minded, Watched
<1>5. QED
  BY <1>1, <1>3, <1>4, AlteredInv

LEMMA stopIfIdleInv ==
  ASSUME CacheInv, NEW o \in Objects, stopIfIdle(o)
  PROVE  CacheInv'
<1>1. PICK i \in Items : i = index[o]
  BY DEF stopIfIdle, CacheInv, TypeOK
<1>2. PICK old \in Item : old = item[i]
  BY DEF CacheInv, TypeOK
<1> DEFINE x == stopThreadUnsafe(old)
<1>3. /\ item' = [item EXCEPT ![i] = x] /\ run' = [run EXCEPT ![i] = ClosedRuns(i)]
      /\ UNCHANGED <<registered, call, index, getter, server>>
      /\ old.initialized /\ old.idle
  BY <1>1, <1>2 DEF stopIfIdle
<1>4. /\ x \in Item /\ x.stopped /\ x.immutable = old.immutable
      /\ x.immutable => x.initialized
  BY <1>2, <1>3 DEF Item, stopThreadUnsafe
<1> HIDE DEF x
<1>5. Altered(i, x)
  BY <1>2, <1>3, StoppedIsAltered DEF x
<1>6. \A h \in Getters : getter[h].item = i => getter[h].pc \in {"idle", "access"}
  BY <1>2, <1>3 DEF CacheInv, Using
<1>7. QED
  BY <1>2, <1>3, <1>4, <1>5, <1>6, AlteredUnusedInv

LEMMA IdleTimeInv ==
  ASSUME CacheInv, NEW o \in Objects, IdleTime(o)
  PROVE  CacheInv'
<1>1. PICK i \in Items : i = index[o]
  BY DEF IdleTime, CacheInv, TypeOK
<1>2. PICK old \in Item : old = item[i]
  BY DEF CacheInv, TypeOK
<1>3. Unclosed(i) /\ Indexed(o) /\ run \in [Items -> [Slots -> Run]]
  BY DEF CacheInv, TypeOK
<1> DEFINE x == [old EXCEPT !.idle = TRUE]
<1>4. /\ item' = [item EXCEPT ![i] = x]
      /\ UNCHANGED <<registered, call, index, run, getter, server>>
      /\ \A g \in Getters : getter[g].item = i => getter[g].pc = "access"
  BY <1>1, <1>2 DEF IdleTime
<1>5. /\ x \in Item /\ x.object = old.object /\ x.since = old.since
      /\ x.data = old.data /\ x.refCount = old.refCount
      /\ x.initialized = old.initialized
      /\ x.stopped = old.stopped /\ x.immutable = old.immutable
  BY <1>2 DEF Item
<1> HIDE DEF x
<1>6. Unclosed(i)' /\ (Minded(i)' <=> Minded(i))
  BY <1>3, <1>4 DEF Unclosed, Minded, Watched
<1>7. Altered(i, x)
  BY <1>2, <1>3, <1>4, <1>5, <1>6 DEF Altered
<1>8. /\ x.immutable /\ x.stopped => x.initialized
      /\ ~x.stopped => Minded(i)'
  BY <1>1, <1>2, <1>3, <1>5, <1>6, ItemNumbers DEF Indexed
<1>9. QED
  BY <1>2, <1>4, <1>5, <1>7, <1>8, AlteredUnusedInv

LEMMA WriteInv ==
  ASSUME CacheInv, NEW o \in Objects, Write(o)
  PROVE  CacheInv'
<1>1. server \in [Objects -> Versions] /\ item \in [Items -> Item]
  BY DEF CacheInv, TypeOK
<1>2. /\ server' = [server EXCEPT ![o] = server[o] + 1] /\ server[o] < Len(Life)
      /\ UNCHANGED <<registered, call, index, item, run, getter>>
  BY DEF Write
<1>3. server[o] \in Nat /\ server[o] + 1 \in Versions
  <2>1. PICK v \in Versions : v = server[o]
    BY <1>1
  <2>2. v \in Nat
    BY VersionsAreNumbers
  <2>3. 1 <= v /\ Len(Life) \in Nat
    BY <2>2, VersionsAreNumbers
  <2>4. v + 1 \in Int /\ 1 <= v + 1 /\ v + 1 <= Len(Life)
    BY <1>2, <2>1, <2>2, <2>3
  <2>5. v + 1 \in Versions
    BY <2>4, VersionsAreNumbers
  <2>6. QED
    BY <2>1, <2>2, <2>5
<1>4. /\ server' \in [Objects -> Versions]
      /\ \A p \in Objects : server[p] \in Nat /\ server'[p] \in Nat
                           /\ server[p] <= server'[p]
  <2>1. server' \in [Objects -> Versions]
    BY <1>1, <1>2, <1>3
  <2>2. \A p \in Objects : server[p] \in Nat /\ server'[p] \in Nat
    BY <1>1, <2>1, VersionsAreNumbers
  <2>3. \A p \in Objects : server[p] <= server'[p]
    BY <1>1, <1>2, <1>3, <2>2
  <2>4. QED
    BY <2>1, <2>2, <2>3
<1>5. TypeOK'
  BY <1>2, <1>4 DEF CacheInv, TypeOK
<1>6. ASSUME NEW i \in Items PROVE Fresh(i)' /\ Unclosed(i)'
  <2>1. Fresh(i) /\ Unclosed(i)
    BY DEF CacheInv
  <2>2. item[i].object \in Objects /\ item[i].since \in Nat
    BY <1>1, VersionsAreNumbers DEF Item
  <2>3. Fresh(i)'
    BY <1>2, <1>4, <2>1, <2>2 DEF Fresh
  <2>4. QED
    BY <1>2, <2>1, <2>3 DEF Unclosed
<1>7. ASSUME NEW g \in Getters PROVE Using(g)'
  BY <1>2 DEF CacheInv, Using
<1>8. ASSUME NEW p \in Objects PROVE Indexed(p)'
  BY <1>2 DEF CacheInv, Indexed, Minded, Watched
<1>9. ReferencesCounted'
  BY <1>2, CountsKept DEF CacheInv
<1>10. QED
  BY <1>5, <1>6, <1>7, <1>8, <1>9 DEF CacheInv

-----------------------------------------------------------------------------
(***************************************************************************)
(* The reference counts                                                    *)
(***************************************************************************)
LEMMA OneMore ==
  ASSUME NEW S, IsFiniteSet(S), NEW p, p \notin S
  PROVE  Cardinality(S) \in Nat /\ Cardinality(S \union {p}) = Cardinality(S) + 1
BY FS_AddElement, FS_CardinalityType

LEMMA WantingNumber ==
  \A o \in Objects : IsFiniteSet(Wanting(o)) /\ Cardinality(Wanting(o)) \in Nat
<1>1. \A o \in Objects : Wanting(o) \subseteq Pods
  BY DEF Wanting
<1>2. QED
  BY <1>1, ObjectCacheAssumption, FS_Subset, FS_CardinalityType

\* What registering a pod anew, or removing it, does to the number of pods that
\* name an object
LEMMA WantingChanges ==
  ASSUME CacheInv, NEW p \in Pods, NEW spec \in Specs \union {NoSpec},
         registered' = [registered EXCEPT ![p] = spec], NEW o \in Objects
  PROVE  Cardinality(Wanting(o)')
           + (IF o \in Referenced(registered[p]) THEN 1 ELSE 0)
         = Cardinality(Wanting(o)) + (IF o \in Referenced(spec) THEN 1 ELSE 0)
<1> DEFINE others == {q \in Pods \ {p} : o \in Referenced(registered[q])}
<1>1. registered \in [Pods -> Specs \union {NoSpec}]
  BY DEF CacheInv, TypeOK
<1>2. IsFiniteSet(others) /\ p \notin others
  <2>1. others \subseteq Pods
    OBVIOUS
  <2>2. QED
    BY <2>1, ObjectCacheAssumption, FS_Subset
<1>3. Wanting(o) = IF o \in Referenced(registered[p]) THEN others \union {p} ELSE others
  BY DEF Wanting
<1>4. registered'[p] = spec /\ \A q \in Pods \ {p} : registered'[q] = registered[q]
  BY <1>1
<1>5. Wanting(o)' = IF o \in Referenced(spec) THEN others \union {p} ELSE others
  <2>1. Wanting(o)' = {q \in Pods : o \in Referenced(registered'[q])}
    BY DEF Wanting, Referenced
  <2>2. QED
    BY <1>4, <2>1
<1> HIDE DEF others
<1>6. /\ Cardinality(others) \in Nat
      /\ Cardinality(others \union {p}) = Cardinality(others) + 1
  BY <1>2, OneMore
<1>7. QED
  BY <1>3, <1>5, <1>6

LEMMA RegistrationInv ==
  ASSUME CacheInv, NEW p \in Pods,
         (\E spec \in Specs : RegisterPod(p, spec)) \/ UnregisterPod(p)
  PROVE  CacheInv'
<1>1. PICK spec \in Specs \union {NoSpec} :
        /\ call.add = {} /\ call.drop = {}
        /\ registered' = [registered EXCEPT ![p] = spec]
        /\ call' = [add |-> Referenced(spec), drop |-> Referenced(registered[p])]
        /\ UNCHANGED <<index, item, run, getter, server>>
  <2>1. CASE \E spec \in Specs : RegisterPod(p, spec)
    BY <2>1 DEF RegisterPod, Unlocked
  <2>2. CASE UnregisterPod(p)
    <3>1. [call EXCEPT !.drop = Referenced(registered[p])]
            = [add |-> {}, drop |-> Referenced(registered[p])]
      <4>1. call \in [add : SUBSET Objects, drop : SUBSET Objects] /\ call.add = {}
        BY <2>2 DEF CacheInv, TypeOK, UnregisterPod, Unlocked
      <4>2. \A d : [call EXCEPT !.drop = d] = [add |-> call.add, drop |-> d]
        BY <4>1
      <4>3. QED
        BY <4>1, <4>2
    <3>2. QED
      BY <2>2, <3>1, ReferencedIsObjects DEF UnregisterPod, Unlocked
  <2>3. QED
    BY <2>1, <2>2
<1>2. registered \in [Pods -> Specs \union {NoSpec}]
  BY DEF CacheInv, TypeOK
<1>3. /\ Referenced(spec) \subseteq Objects
      /\ Referenced(registered[p]) \subseteq Objects
  BY <1>2, ReferencedIsObjects
<1>4. TypeOK'
  BY <1>1, <1>2, <1>3 DEF CacheInv, TypeOK
<1>5. ASSUME NEW i \in Items PROVE Fresh(i)' /\ Unclosed(i)'
  BY <1>1 DEF CacheInv, Fresh, Unclosed
<1>6. ASSUME NEW g \in Getters PROVE Using(g)'
  BY <1>1 DEF CacheInv, Using
<1>7. ASSUME NEW o \in Objects PROVE Indexed(o)'
  BY <1>1 DEF CacheInv, Indexed, Minded, Watched
<1>8. ASSUME NEW o \in Objects
      PROVE  References(o)' + (IF o \in call'.add THEN 1 ELSE 0)
               = Cardinality(Wanting(o)') + (IF o \in call'.drop THEN 1 ELSE 0)
  <2>1. References(o)' = References(o)
    BY <1>1 DEF References
  <2>2. References(o) + 0 = Cardinality(Wanting(o)) + 0
    BY <1>1 DEF CacheInv, ReferencesCounted
  <2>3. Cardinality(Wanting(o)) \in Nat
    BY WantingNumber
  <2>4. References(o) = Cardinality(Wanting(o))
    <3>1. References(o) \in Nat
      BY DEF CacheInv, TypeOK, Item, References
    <3>2. QED
      BY <2>2, <2>3, <3>1
  <2>5. Cardinality(Wanting(o)')
           + (IF o \in Referenced(registered[p]) THEN 1 ELSE 0)
         = Cardinality(Wanting(o)) + (IF o \in Referenced(spec) THEN 1 ELSE 0)
    BY <1>1, WantingChanges
  <2>6. QED
    BY <1>1, <2>1, <2>4, <2>5
<1>9. QED
  BY <1>4, <1>5, <1>6, <1>7, <1>8 DEF CacheInv, ReferencesCounted

LEMMA OneObjectPerItem ==
  ASSUME CacheInv, NEW o \in Objects, NEW p \in Objects \ {o}, index[o] # NoItem
  PROVE  index[p] # index[o]
BY DEF CacheInv, Indexed

LEMMA ReferencesNumber ==
  ASSUME CacheInv, NEW o \in Objects
  PROVE  References(o) \in Nat
BY DEF CacheInv, TypeOK, Item, References

\* A call that goes on to the next object disturbs the count of no other.
LEMMA CountsOfOthers ==
  ASSUME ReferencesCounted, UNCHANGED registered, NEW o \in Objects,
         \A p \in Objects \ {o} : /\ References(p)' = References(p)
                                  /\ p \in call'.add <=> p \in call.add
                                  /\ p \in call'.drop <=> p \in call.drop,
         References(o)' + (IF o \in call'.add THEN 1 ELSE 0)
           = Cardinality(Wanting(o)) + (IF o \in call'.drop THEN 1 ELSE 0)
  PROVE  ReferencesCounted'
<1>1. \A p \in Objects : Wanting(p)' = Wanting(p)
  BY DEF Wanting
<1>2. ASSUME NEW p \in Objects
      PROVE  References(p)' + (IF p \in call'.add THEN 1 ELSE 0)
               = Cardinality(Wanting(p)') + (IF p \in call'.drop THEN 1 ELSE 0)
  <2>1. CASE p = o
    BY <1>1, <2>1
  <2>2. CASE p # o
    BY <1>1, <2>2 DEF ReferencesCounted
  <2>3. QED
    BY <2>1, <2>2
<1>3. QED
  BY <1>2 DEF ReferencesCounted

\* The count of an item goes up or down while it stays in the map.
LEMMA CountedInv ==
  ASSUME CacheInv, NEW o \in Objects, index[o] # NoItem, NEW n \in Nat,
         item' = [item EXCEPT ![index[o]].refCount = n],
         UNCHANGED <<registered, index, run, getter, server>>,
         call' \in [add : SUBSET Objects, drop : SUBSET Objects],
         \A p \in Objects \ {o} : /\ p \in call'.add <=> p \in call.add
                                  /\ p \in call'.drop <=> p \in call.drop,
         n + (IF o \in call'.add THEN 1 ELSE 0)
           = Cardinality(Wanting(o)) + (IF o \in call'.drop THEN 1 ELSE 0)
  PROVE  CacheInv'
<1>1. PICK i \in Items : i = index[o]
  BY DEF CacheInv, TypeOK
<1>2. PICK old \in Item : old = item[i]
  BY DEF CacheInv, TypeOK
<1>3. PICK x \in Item : x = [old EXCEPT !.refCount = n]
  BY <1>2, ItemFieldTypes
<1>4. /\ x.object = old.object /\ x.since = old.since /\ x.data = old.data
      /\ x.initialized = old.initialized /\ x.stopped = old.stopped
      /\ x.immutable = old.immutable /\ x.idle = old.idle /\ x.refCount = n
  BY <1>3 DEF Item
<1>5. item \in [Items -> Item]
  BY DEF CacheInv, TypeOK
<1>6. item' = [item EXCEPT ![i] = x]
  BY <1>1, <1>2, <1>3
<1>7. /\ item' \in [Items -> Item] /\ item'[i] = x
      /\ \A j \in Items \ {i} : item'[j] = item[j]
  BY <1>5, <1>6
<1>8. \A j \in Items : /\ item'[j].object = item[j].object
                       /\ item'[j].since = item[j].since
                       /\ item'[j].data = item[j].data
                       /\ item'[j].initialized = item[j].initialized
                       /\ item'[j].stopped = item[j].stopped
                       /\ item'[j].immutable = item[j].immutable
                       /\ item'[j].idle = item[j].idle
  BY <1>2, <1>4, <1>7
<1>9. TypeOK'
  BY <1>7 DEF CacheInv, TypeOK
<1>10. ASSUME NEW j \in Items PROVE Fresh(j)' /\ Unclosed(j)'
  BY <1>8 DEF CacheInv, Fresh, Unclosed
<1>11. ASSUME NEW g \in Getters PROVE Using(g)'
  BY <1>8 DEF CacheInv, Using
<1>12. ASSUME NEW p \in Objects PROVE Indexed(p)'
  <2>1. Indexed(p) /\ index[p] \in Items \union {NoItem}
    BY DEF CacheInv, TypeOK
  <2>2. QED
    BY <1>8, <2>1 DEF Indexed, Minded, Watched
<1>13. ReferencesCounted'
  <2>1. References(o)' = n
    BY <1>1, <1>4, <1>7 DEF References
  <2>2. ASSUME NEW p \in Objects \ {o} PROVE References(p)' = References(p)
    <3>1. index[p] \in Items \union {NoItem} /\ index[p] # i
      <4>1. index[p] # index[o]
        BY OneObjectPerItem
      <4>2. QED
        BY <1>1, <4>1 DEF CacheInv, TypeOK
    <3>2. index[p] # NoItem => item'[index[p]] = item[index[p]]
      BY <1>7, <3>1
    <3>3. index'[p] = index[p]
      OBVIOUS
    <3>4. CASE index[p] = NoItem
      BY <3>3, <3>4 DEF References
    <3>5. CASE index[p] # NoItem
      <4>1. item'[index'[p]] = item[index[p]]
        BY <3>2, <3>3, <3>5
      <4>2. References(p) = item[index[p]].refCount
        BY <3>5 DEF References
      <4>3. References(p)' = item'[index'[p]].refCount
        BY <3>3, <3>5 DEF References
      <4>4. QED
        BY <4>1, <4>2, <4>3
    <3>6. QED
      BY <3>4, <3>5
  <2>3. QED
    BY <2>1, <2>2, CountsOfOthers DEF CacheInv
<1>14. QED
  BY <1>9, <1>10, <1>11, <1>12, <1>13 DEF CacheInv

LEMMA AddReferenceInv ==
  ASSUME CacheInv, NEW o \in Objects, AddReference(o)
  PROVE  CacheInv'
<1>1. /\ call \in [add : SUBSET Objects, drop : SUBSET Objects]
      /\ call' = [call EXCEPT !.add = call.add \ {o}] /\ o \in call.add
      /\ UNCHANGED <<registered, getter, server>>
  BY DEF AddReference, CacheInv, TypeOK
<1>2. /\ call' \in [add : SUBSET Objects, drop : SUBSET Objects]
      /\ call'.add = call.add \ {o} /\ call'.drop = call.drop
  BY <1>1
<1>3. /\ References(o) \in Nat /\ Cardinality(Wanting(o)) \in Nat
      /\ References(o) + 1
           = Cardinality(Wanting(o)) + (IF o \in call.drop THEN 1 ELSE 0)
  BY <1>1, ReferencesNumber, WantingNumber DEF CacheInv, ReferencesCounted
<1>4. CASE index[o] # NoItem
  <2>1. item' = [item EXCEPT ![index[o]].refCount = References(o) + 1]
    BY <1>4 DEF AddReference, References
  <2>2. UNCHANGED <<index, run>>
    BY <1>4 DEF AddReference
  <2>3. References(o) + 1 \in Nat
    BY <1>3
  <2>4. References(o) + 1 + (IF o \in call'.add THEN 1 ELSE 0)
          = Cardinality(Wanting(o)) + (IF o \in call'.drop THEN 1 ELSE 0)
    <3>1. o \notin call'.add /\ call'.drop = call.drop
      BY <1>2
    <3>2. References(o) + 1 + 0 = References(o) + 1
      BY <1>3
    <3>3. QED
      BY <1>3, <3>1, <3>2
  <2>5. \A p \in Objects \ {o} : /\ p \in call'.add <=> p \in call.add
                                 /\ p \in call'.drop <=> p \in call.drop
    BY <1>2
  <2>6. QED
    BY <1>1, <1>2, <1>4, <2>1, <2>2, <2>3, <2>4, <2>5, CountedInv
<1>5. CASE index[o] = NoItem
  <2>1. PICK i \in Items :
          /\ Free(i) /\ index' = [index EXCEPT ![o] = i]
          /\ startReflector(i, [Blank(o) EXCEPT !.refCount = 1])
    BY <1>5 DEF AddReference
  <2>2. PICK x \in Item : x = [Blank(o) EXCEPT !.refCount = 1]
    BY BlankType DEF CacheInv
  <2>3. /\ x.object = o /\ x.since = server[o] /\ x.refCount = 1
        /\ ~x.initialized /\ ~x.immutable
    BY <2>2 DEF Blank
  <2>4. /\ item' = [item EXCEPT ![i] = x]
        /\ run' \in [Items -> [Slots -> Run]]
        /\ \A j \in Items \ {i} : run'[j] = run[j]
        /\ \A k \in Slots : run'[i][k].pc \in {"listed", "watch"} =>
             run'[i][k].pc = run[i][k].pc
        /\ Unclosed(i)' /\ Minded(i)'
    BY <2>1, <2>2, StartedKeeps
  <2>5. /\ item \in [Items -> Item] /\ server[o] \in Nat
        /\ index \in [Objects -> Items \union {NoItem}]
    BY VersionsAreNumbers DEF CacheInv, TypeOK
  <2>6. /\ item' \in [Items -> Item] /\ item'[i] = x
        /\ \A j \in Items \ {i} : item'[j] = item[j]
    BY <2>4, <2>5
  <2>7. /\ index' \in [Objects -> Items \union {NoItem}] /\ index'[o] = i
        /\ \A p \in Objects \ {o} : index'[p] = index[p]
    BY <2>1, <2>5
  <2>8. /\ \A p \in Objects : index[p] # i
        /\ \A g \in Getters : getter[g].item # i
        /\ \A k \in Slots : run[i][k].pc = "none"
    BY <2>1 DEF Free
  <2>9. TypeOK'
    BY <1>1, <1>2, <2>4, <2>6, <2>7 DEF CacheInv, TypeOK
  <2>10. ASSUME NEW j \in Items PROVE Fresh(j)' /\ Unclosed(j)'
    <3>1. CASE j = i
      <4>1. Fresh(i)'
        BY <1>1, <2>3, <2>4, <2>5, <2>6, <2>8 DEF Fresh
      <4>2. QED
        BY <2>4, <3>1, <4>1
    <3>2. CASE j # i
      BY <1>1, <2>4, <2>6, <3>2 DEF CacheInv, Fresh, Unclosed
    <3>3. QED
      BY <3>1, <3>2
  <2>11. ASSUME NEW g \in Getters PROVE Using(g)'
    BY <1>1, <2>6, <2>8 DEF CacheInv, Using
  <2>12. ASSUME NEW p \in Objects PROVE Indexed(p)'
    <3>1. CASE p = o
      <4>1. ~item'[index'[p]].stopped => Minded(index[p])'
        BY <2>4, <2>7, <3>1 DEF Minded, Watched
      <4>2. QED
        BY <1>1, <2>3, <2>6, <2>7, <2>8, <3>1, <4>1 DEF Indexed, Minded, Watched
    <3>2. CASE p # o
      <4>1. /\ Indexed(p) /\ index'[p] = index[p] /\ index[p] # i
            /\ index[p] \in Items \union {NoItem}
        BY <2>5, <2>7, <2>8, <3>2 DEF CacheInv
      <4>2. QED
        BY <1>1, <2>4, <2>6, <4>1 DEF Indexed, Minded, Watched
    <3>3. QED
      BY <3>1, <3>2
  <2>13. ReferencesCounted'
    <3>1. References(o)' = 1
      BY <2>3, <2>6, <2>7, ItemNumbers DEF References
    <3>2. References(o) = 0
      BY <1>5 DEF References
    <3>3. ASSUME NEW p \in Objects \ {o} PROVE References(p)' = References(p)
      <4>1. index'[p] = index[p] /\ index[p] # i /\ index[p] \in Items \union {NoItem}
        BY <2>5, <2>7, <2>8
      <4>2. index[p] # NoItem => item'[index[p]] = item[index[p]]
        BY <2>6, <4>1
      <4>3. QED
        BY <4>1, <4>2 DEF References
    <3>4. References(o)' + (IF o \in call'.add THEN 1 ELSE 0)
            = Cardinality(Wanting(o)) + (IF o \in call'.drop THEN 1 ELSE 0)
      BY <1>2, <1>3, <3>1, <3>2
    <3>5. QED
      BY <1>1, <1>2, <3>3, <3>4, CountsOfOthers DEF CacheInv
  <2>14. QED
    BY <2>9, <2>10, <2>11, <2>12, <2>13 DEF CacheInv
<1>6. QED
  BY <1>4, <1>5

LEMMA DeleteReferenceInv ==
  ASSUME CacheInv, NEW o \in Objects, DeleteReference(o)
  PROVE  CacheInv'
<1>1. /\ call \in [add : SUBSET Objects, drop : SUBSET Objects]
      /\ call' = [call EXCEPT !.drop = call.drop \ {o}]
      /\ o \in call.drop /\ call.add = {}
      /\ UNCHANGED <<registered, getter, server>>
  BY DEF DeleteReference, CacheInv, TypeOK
<1>2. /\ call' \in [add : SUBSET Objects, drop : SUBSET Objects]
      /\ call'.add = {} /\ call'.drop = call.drop \ {o}
  BY <1>1
<1>3. /\ References(o) \in Nat /\ Cardinality(Wanting(o)) \in Nat
      /\ References(o) = Cardinality(Wanting(o)) + 1
  <2>1. References(o) + 0 = Cardinality(Wanting(o)) + 1
    BY <1>1 DEF CacheInv, ReferencesCounted
  <2>2. QED
    BY <2>1, ReferencesNumber, WantingNumber
<1>4. index[o] # NoItem
  BY <1>3 DEF References
<1>5. References(o) = item[index[o]].refCount
  BY <1>4 DEF References
<1>6. CASE References(o) # 1
  <2>1. /\ item' = [item EXCEPT ![index[o]].refCount = References(o) - 1]
        /\ UNCHANGED <<index, run>>
    BY <1>4, <1>5, <1>6 DEF DeleteReference
  <2>2. References(o) - 1 \in Nat
    BY <1>3
  <2>3. References(o) - 1 + (IF o \in call'.add THEN 1 ELSE 0)
          = Cardinality(Wanting(o)) + (IF o \in call'.drop THEN 1 ELSE 0)
    <3>1. o \notin call'.add /\ o \notin call'.drop
      BY <1>2
    <3>2. References(o) - 1 + 0 = Cardinality(Wanting(o)) + 0
      BY <1>3
    <3>3. QED
      BY <3>1, <3>2
  <2>4. \A p \in Objects \ {o} : /\ p \in call'.add <=> p \in call.add
                                 /\ p \in call'.drop <=> p \in call.drop
    BY <1>1, <1>2
  <2>5. QED
    BY <1>1, <1>2, <1>4, <2>1, <2>2, <2>3, <2>4, CountedInv
<1>7. CASE References(o) = 1
  <2>1. PICK i \in Items : i = index[o]
    BY <1>4 DEF CacheInv, TypeOK
  <2>2. PICK old \in Item : old = item[i]
    BY DEF CacheInv, TypeOK
  <2>3. PICK x \in Item : x = [stopThreadUnsafe(old) EXCEPT !.refCount = 0]
    <3>1. stopThreadUnsafe(old) \in Item
      BY ItemFieldTypes
    <3>2. QED
      BY <3>1, ItemFieldTypes
  <2>4. /\ x.object = old.object /\ x.since = old.since /\ x.data = old.data
        /\ x.immutable = old.immutable /\ x.idle = old.idle
        /\ x.initialized => old.initialized
    BY <2>3 DEF Item, stopThreadUnsafe
  <2>5. /\ item' = [item EXCEPT ![i] = x] /\ index' = [index EXCEPT ![o] = NoItem]
        /\ run' = [run EXCEPT ![i] = ClosedRuns(i)]
    BY <1>4, <1>5, <1>7, <2>1, <2>2, <2>3 DEF DeleteReference
  <2>6. /\ run' \in [Items -> [Slots -> Run]]
        /\ \A j \in Items \ {i} : run'[j] = run[j]
        /\ \A k \in Slots : /\ run'[i][k].pc = run[i][k].pc
                            /\ run'[i][k].seen = run[i][k].seen
        /\ Unclosed(i)'
    BY <2>5, ClosedRunsKeep
  <2>7. /\ item \in [Items -> Item] /\ index \in [Objects -> Items \union {NoItem}]
    BY DEF CacheInv, TypeOK
  <2>8. /\ item' \in [Items -> Item] /\ item'[i] = x
        /\ \A j \in Items \ {i} : item'[j] = item[j]
    BY <2>5, <2>7
  <2>9. /\ index' \in [Objects -> Items \union {NoItem}] /\ index'[o] = NoItem
        /\ \A p \in Objects \ {o} : index'[p] = index[p] /\ index[p] # i
    BY <1>4, <2>1, <2>5, <2>7, OneObjectPerItem
  <2>10. TypeOK'
    BY <1>1, <1>2, <2>6, <2>8, <2>9 DEF CacheInv, TypeOK
  <2>11. ASSUME NEW j \in Items PROVE Fresh(j)' /\ Unclosed(j)'
    <3>1. Fresh(j) /\ Unclosed(j)
      BY DEF CacheInv
    <3>2. CASE j = i
      BY <1>1, <2>2, <2>4, <2>6, <2>8, <3>1, <3>2 DEF Fresh
    <3>3. CASE j # i
      BY <1>1, <2>6, <2>8, <3>1, <3>3 DEF Fresh, Unclosed
    <3>4. QED
      BY <3>2, <3>3
  <2>12. ASSUME NEW g \in Getters PROVE Using(g)'
    BY <1>1, <2>2, <2>4, <2>8 DEF CacheInv, Using
  <2>13. ASSUME NEW p \in Objects PROVE Indexed(p)'
    <3>1. CASE p = o
      BY <2>9, <3>1 DEF Indexed
    <3>2. CASE p # o
      <4>1. /\ Indexed(p) /\ index'[p] = index[p] /\ index[p] # i
            /\ index[p] \in Items \union {NoItem}
        BY <2>7, <2>9, <3>2 DEF CacheInv
      <4>2. QED
        BY <1>1, <2>6, <2>8, <4>1 DEF Indexed, Minded, Watched
    <3>3. QED
      BY <3>1, <3>2
  <2>14. ReferencesCounted'
    <3>1. References(o)' = 0
      BY <2>9 DEF References
    <3>2. ASSUME NEW p \in Objects \ {o} PROVE References(p)' = References(p)
      <4>1. index'[p] = index[p] /\ index[p] # i /\ index[p] \in Items \union {NoItem}
        BY <2>7, <2>9
      <4>2. index[p] # NoItem => item'[index[p]] = item[index[p]]
        BY <2>8, <4>1
      <4>3. QED
        BY <4>1, <4>2 DEF References
    <3>3. References(o)' + (IF o \in call'.add THEN 1 ELSE 0)
            = Cardinality(Wanting(o)) + (IF o \in call'.drop THEN 1 ELSE 0)
      BY <1>2, <1>3, <1>7, <3>1
    <3>4. QED
      BY <1>1, <1>2, <3>2, <3>3, CountsOfOthers DEF CacheInv
  <2>15. QED
    BY <2>10, <2>11, <2>12, <2>13, <2>14 DEF CacheInv
<1>8. QED
  BY <1>6, <1>7

-----------------------------------------------------------------------------
(***************************************************************************)
(* The invariant is inductive                                              *)
(***************************************************************************)
LEMMA InitCacheInv ==
  ASSUME Init
  PROVE  CacheInv
<1>1. 1 \in Versions
  <2>1. Len(Life) \in Nat /\ Len(Life) # 0
    BY ObjectCacheAssumption, LenProperties, EmptySeq
  <2>2. QED
    BY <2>1 DEF Versions
<1>2. server = [o \in Objects |-> 1] /\ \A o \in Objects : server[o] = 1
  BY DEF Init
<1>3. \A o \in Objects : Blank(o) \in Item
  BY <1>1, <1>2 DEF Blank, Item, NoVersion
<1>4. item \in [Items -> {Blank(o) : o \in Objects}]
  BY DEF Init
<1>5. ASSUME NEW i \in Items
      PROVE  /\ item[i] \in Item /\ item[i].since = 1 /\ item[i].object \in Objects
             /\ ~item[i].initialized
  <2>1. PICK o \in Objects : item[i] = Blank(o)
    BY <1>4
  <2>2. QED
    BY <1>2, <1>3, <2>1 DEF Blank
<1>6. item \in [Items -> Item]
  BY <1>4, <1>5
<1>7. run = [i \in Items |-> [k \in Slots |-> NoRun]] /\ NoRun \in Run
  BY DEF Init, NoRun, Run, RunPcs
<1>8. getter = [g \in Getters |-> NoGet] /\ NoGet \in Getter
  BY DEF Init, NoGet, Getter, GetPcs
<1>9. /\ registered = [p \in Pods |-> NoSpec] /\ call = [add |-> {}, drop |-> {}]
      /\ index = [o \in Objects |-> NoItem]
  BY DEF Init
<1>10. TypeOK
  BY <1>1, <1>2, <1>6, <1>7, <1>8, <1>9 DEF TypeOK
<1>11. ASSUME NEW i \in Items PROVE Fresh(i) /\ Unclosed(i)
  <2>1. \A k \in Slots : run[i][k].pc = "none" /\ ~run[i][k].closed
    BY <1>7 DEF NoRun
  <2>2. item[i].since <= server[item[i].object]
    BY <1>2, <1>5
  <2>3. QED
    BY <1>5, <2>1, <2>2 DEF Fresh, Unclosed
<1>12. ASSUME NEW g \in Getters PROVE Using(g)
  BY <1>8 DEF Using, NoGet
<1>13. ASSUME NEW o \in Objects PROVE Indexed(o)
  BY <1>9 DEF Indexed
<1>14. ASSUME NEW o \in Objects
       PROVE  References(o) + (IF o \in call.add THEN 1 ELSE 0)
                = Cardinality(Wanting(o)) + (IF o \in call.drop THEN 1 ELSE 0)
  <2>1. Wanting(o) = {}
    BY <1>9, ReferencedIsObjects DEF Wanting
  <2>2. References(o) = 0 /\ Cardinality(Wanting(o)) = 0
    BY <1>9, <2>1, FS_EmptySet DEF References
  <2>3. o \notin call.add /\ o \notin call.drop
    BY <1>9
  <2>4. QED
    BY <2>2, <2>3
<1>15. QED
  BY <1>10, <1>11, <1>12, <1>13, <1>14 DEF CacheInv, ReferencesCounted

LEMMA NextCacheInv ==
  ASSUME CacheInv, [Next]_vars
  PROVE  CacheInv'
<1>1. CASE Manage
  <2>1. CASE \/ \E p \in Pods, spec \in Specs : RegisterPod(p, spec)
             \/ \E p \in Pods : UnregisterPod(p)
    BY <2>1, RegistrationInv
  <2>2. CASE \E o \in Objects : AddReference(o) \/ DeleteReference(o)
    BY <2>2, AddReferenceInv, DeleteReferenceInv
  <2>3. QED
    BY <1>1, <2>1, <2>2 DEF Manage
<1>2. ASSUME NEW g \in Getters, Get(g) PROVE CacheInv'
  BY <1>2, GetLooksInv, GetWritesInv DEF Get
<1>3. ASSUME NEW o \in Objects, stopIfIdle(o) \/ IdleTime(o) \/ Write(o)
      PROVE  CacheInv'
  BY <1>3, stopIfIdleInv, IdleTimeInv, WriteInv
<1>4. ASSUME NEW i \in Items, NEW k \in Slots, Reflect(i, k) \/ Relist(i, k)
      PROVE  CacheInv'
  BY <1>4, ReflectIsReflected, ReflectKeepsInv
<1>5. CASE UNCHANGED vars
  <2>1. UNCHANGED <<registered, call, index, item, run, getter, server>>
    BY <1>5 DEF vars
  <2>2. TypeOK'
    BY <2>1 DEF CacheInv, TypeOK
  <2>3. ASSUME NEW i \in Items PROVE Fresh(i)' /\ Unclosed(i)'
    BY <2>1 DEF CacheInv, Fresh, Unclosed
  <2>4. ASSUME NEW g \in Getters PROVE Using(g)'
    BY <2>1 DEF CacheInv, Using
  <2>5. ASSUME NEW o \in Objects PROVE Indexed(o)'
    BY <2>1 DEF CacheInv, Indexed, Minded, Watched
  <2>6. ReferencesCounted'
    BY <2>1, CountsKept DEF CacheInv
  <2>7. QED
    BY <2>2, <2>3, <2>4, <2>5, <2>6 DEF CacheInv
<1>6. QED
  BY <1>1, <1>2, <1>3, <1>4, <1>5 DEF Next, startRecycleIdleWatch

LEMMA CacheInvHolds == Spec => []CacheInv
<1>1. Init => CacheInv
  BY InitCacheInv
<1>2. CacheInv /\ [Next]_vars => CacheInv'
  BY NextCacheInv
<1>3. QED
  BY <1>1, <1>2, PTL DEF Spec

-----------------------------------------------------------------------------
(***************************************************************************)
(* The theorems                                                            *)
(***************************************************************************)
\* Every variable keeps its type; above all no reference count, which the code
\* decrements without a check, goes below zero.
THEOREM ObjectCacheTypeCorrect == Spec => []TypeOK
<1>1. CacheInv => TypeOK
  BY DEF CacheInv
<1>2. QED
  BY <1>1, CacheInvHolds, PTL

\* The reference count of an item is the number of registered pods that name the
\* object, up to what the call under way has still to do.
THEOREM ReferencesCountedHolds == Spec => []ReferencesCounted
<1>1. CacheInv => ReferencesCounted
  BY DEF CacheInv
<1>2. QED
  BY <1>1, CacheInvHolds, PTL

\* A Get answers from what the server held when the item was made or later, for
\* any number of Gets, sweeps and reflectors.
THEOREM ReadsAreFreshHolds == Spec => []ReadsAreFresh
<1>1. CacheInv => ReadsAreFresh
  BY DEF CacheInv, Using, ReadsAreFresh
<1>2. QED
  BY <1>1, CacheInvHolds, PTL

\* A frozen item keeps its synced store, and an item that is not stopped is watched.
THEOREM StopsAreSafeHolds == Spec => []StopsAreSafe
<1>1. CacheInv => ImmutableServed
  BY DEF CacheInv, Indexed, ImmutableServed
<1>2. CacheInv => WatchedUnlessStopped
  <2>1. SUFFICES ASSUME CacheInv, NEW i \in Items, NEW o \in Objects, index[o] = i,
                        ~item[i].stopped, Alive
                 PROVE  Watched(i)
    BY DEF WatchedUnlessStopped
  <2>2. QED
    BY <2>1, ItemNumbers DEF CacheInv, Indexed, Minded, Alive
<1>3. QED
  BY <1>1, <1>2, CacheInvHolds, PTL DEF StopsAreSafe

\* Only the last reference takes an item out of the map.
LEMMA IndexKept ==
  ASSUME CacheInv, Next, NEW o \in Objects, index[o] # NoItem, Wanting(o)' # {}
  PROVE  index'[o] = index[o]
<1>1. index \in [Objects -> Items \union {NoItem}]
  BY DEF CacheInv, TypeOK
<1>2. ASSUME NEW p \in Objects, AddReference(p) PROVE index'[o] = index[o]
  BY <1>1, <1>2 DEF AddReference
<1>3. ASSUME NEW p \in Objects, DeleteReference(p) PROVE index'[o] = index[o]
  <2>1. CASE p # o
    BY <1>1, <1>3, <2>1 DEF DeleteReference
  <2>2. CASE p = o
    <3>1. References(o) + 0 = Cardinality(Wanting(o)) + 1
      BY <1>3, <2>2 DEF DeleteReference, CacheInv, ReferencesCounted
    <3>2. Wanting(o)' = Wanting(o)
      BY <1>3 DEF DeleteReference, Wanting
    <3>3. Cardinality(Wanting(o)) \in Nat /\ Cardinality(Wanting(o)) # 0
      BY <3>2, WantingNumber, FS_EmptySet
    <3>4. References(o) # 1
      BY <3>1, <3>3, ReferencesNumber
    <3>5. item[index[o]].refCount # 1
      BY <3>4 DEF References
    <3>6. QED
      BY <1>3, <2>2, <3>5 DEF DeleteReference
  <2>3. QED
    BY <2>1, <2>2
<1>4. CASE \/ \E p \in Pods, spec \in Specs : RegisterPod(p, spec)
           \/ \E p \in Pods : UnregisterPod(p)
  BY <1>4 DEF RegisterPod, UnregisterPod
<1>5. ASSUME NEW g \in Getters, Get(g) PROVE index'[o] = index[o]
  <2>1. CASE \E p \in Objects : Lookup(g, p)
    BY <2>1 DEF Lookup
  <2>2. CASE setLastAccessTime(g) \/ restartReflectorIfNeeded(g)
    BY <2>2 DEF setLastAccessTime, restartReflectorIfNeeded
  <2>3. CASE Poll(g) \/ TimeOut(g) \/ Read(g)
    BY <2>3 DEF Poll, TimeOut, Read
  <2>4. CASE setImmutable(g) \/ stop(g)
    BY <2>4 DEF setImmutable, stop
  <2>5. QED
    BY <1>5, <2>1, <2>2, <2>3, <2>4 DEF Get
<1>6. CASE \E p \in Objects : stopIfIdle(p) \/ IdleTime(p) \/ Write(p)
  BY <1>6 DEF stopIfIdle, IdleTime, Write
<1>7. ASSUME NEW i \in Items, NEW k \in Slots, Reflect(i, k) \/ Relist(i, k)
      PROVE  index'[o] = index[o]
  BY <1>7, ReflectIsReflected DEF Reflected
<1>8. QED
  BY <1>2, <1>3, <1>4, <1>5, <1>6, <1>7, Zenon
  DEF Next, Manage, startRecycleIdleWatch

\* An item stays in the map while a registered pod names its object, whatever is
\* registered anew.
THEOREM UpdateKeepsItemHolds == Spec => UpdateKeepsItem
<1> DEFINE Kept == \A o \in Objects :
             index[o] # NoItem /\ Wanting(o)' # {} => index'[o] = index[o]
<1>1. CacheInv /\ [Next]_vars => [Kept]_vars
  BY IndexKept
<1>2. QED
  BY <1>1, CacheInvHolds, PTL DEF Spec, UpdateKeepsItem
=============================================================================
