-------------------------- MODULE PodConfigProofs --------------------------
(***************************************************************************)
(* First of PodManager alone, for any pods and mirror pods, whatever their *)
(* names: types, and that its maps agree.  Then of PodConfig, for any      *)
(* sources and channel, what the notices of podStorage are worth to the    *)
(* Run loop: types, that no notice is lost on its way, that the maps agree *)
(* when they are notified, and the order in which the pod workers are told *)
(* of a pod.                                                               *)
(***************************************************************************)
EXTENDS PodConfig, TLAPS, WellFoundedInduction

-----------------------------------------------------------------------------
(* The pod manager alone *)

\* A translation belongs to a mirror pod that is known and leads to a pod of its name;
\* the pod itself may be gone.
TranslationsAreOfMirrors ==
  \A m \in UIDs : translationByUID[m] # NoUID =>
    /\ m \in MirrorUIDs /\ KnownPod(m)
    /\ NameOf[translationByUID[m]] = NameOf[m]

\* Each index has a pod under its own name.
IndexedByOwnName ==
  \A n \in Names :
    /\ podByFullName[n] # NoUID => NameOf[podByFullName[n]] = n
    /\ mirrorPodByFullName[n] # NoUID => NameOf[mirrorPodByFullName[n]] = n

\* TranslationIsCurrent without the inverse of the translation
TranslatedToCurrent ==
  \A m \in MirrorUIDs, u \in PodUIDs :
    KnownPod(m) /\ KnownPod(u) /\ NameOf[m] = NameOf[u] => translationByUID[m] = u

\* What is inductive
ManagerInv ==
  /\ ManagerTypeOK /\ NamesIndexed /\ IndexedByOwnName
  /\ TranslatedToCurrent /\ TranslationsAreOfMirrors

(***************************************************************************)
(* Lemmas                                                                  *)
(***************************************************************************)

LEMMA UIDsAreUIDs ==
  /\ \A u \in UIDs : u # NoUID /\ NameOf[u] \in Names
  /\ \A m \in MirrorUIDs : m \in UIDs /\ m \notin PodUIDs
  /\ \A u \in PodUIDs : u \in UIDs /\ u \notin MirrorUIDs
  /\ \A u \in UIDs : u \notin MirrorUIDs => u \in PodUIDs
  /\ NoUID \notin PodUIDs /\ NoUID \notin MirrorUIDs
BY PodManagerAssumption DEF Names, PodUIDs

\* With sound indexes, the inverse of the translation takes care of itself.
LEMMA InverseIsCurrent ==
  ASSUME NamesIndexed, TranslatedToCurrent, TranslationsAreOfMirrors
  PROVE  TranslationIsCurrent
<1> SUFFICES ASSUME NEW m \in MirrorUIDs, NEW u \in PodUIDs,
                    KnownPod(m), KnownPod(u), NameOf[m] = NameOf[u]
             PROVE  TranslatePodUID(m) = u /\ PodToMirror(u) = {m}
  BY DEF TranslationIsCurrent
<1>1. translationByUID[m] = u /\ u # NoUID
  BY UIDsAreUIDs DEF TranslatedToCurrent
<1>2. TranslatePodUID(m) = u
  BY <1>1 DEF TranslatePodUID
<1>3. ASSUME NEW k \in MirrorUIDs, translationByUID[k] = u PROVE k = m
  <2>1. KnownPod(k) /\ NameOf[k] = NameOf[m]
    BY <1>1, <1>3, UIDsAreUIDs DEF TranslationsAreOfMirrors
  <2>2. QED
    BY <2>1 DEF NamesIndexed
<1>4. QED
  BY <1>1, <1>2, <1>3 DEF PodToMirror

\* With sound indexes, the queries by name find the pods that are known.
LEMMA PairsAreCurrent ==
  ASSUME ManagerTypeOK, NamesIndexed, IndexedByOwnName
  PROVE  PairsAgree
<1>1. ASSUME NEW m \in GetMirrorPods, NEW u \in GetPods, NameOf[m] = NameOf[u]
      PROVE  GetMirrorPodByPod(u) = m /\ GetPodByMirrorPod(m) = u
  BY <1>1 DEF NamesIndexed, GetMirrorPods, GetPods, GetMirrorPodByPod, GetPodByMirrorPod
<1>2. ASSUME NEW n \in Names
      PROVE  mirrorPodByFullName[n] # NoUID <=> \E m \in GetMirrorPods : n = NameOf[m]
  <2>1. mirrorPodByFullName[n] # NoUID => mirrorPodByFullName[n] \in GetMirrorPods
    BY <1>2 DEF ManagerTypeOK, NamesIndexed, IndexedByOwnName, GetMirrorPods
  <2>2. QED
    BY <1>2, <2>1, UIDsAreUIDs DEF NamesIndexed, IndexedByOwnName, GetMirrorPods
<1>3. ASSUME NEW n \in Names
      PROVE  podByFullName[n] # NoUID <=> \E u \in GetPods : n = NameOf[u]
  <2>1. podByFullName[n] # NoUID => podByFullName[n] \in GetPods
    BY <1>3 DEF ManagerTypeOK, NamesIndexed, IndexedByOwnName, GetPods
  <2>2. QED
    BY <1>3, <2>1, UIDsAreUIDs DEF NamesIndexed, IndexedByOwnName, GetPods
<1>4. \A m \in GetMirrorPods : NameOf[m] \in Names
  BY UIDsAreUIDs DEF GetMirrorPods
<1>5. OrphanedMirrorPodNames =
        {NameOf[m] : m \in GetMirrorPods} \ {NameOf[u] : u \in GetPods}
  BY <1>2, <1>3, <1>4 DEF OrphanedMirrorPodNames
<1>6. QED
  BY <1>1, <1>5 DEF PairsAgree

LEMMA ManagerInitInv == ManagerInit => ManagerInv
<1> SUFFICES ASSUME ManagerInit PROVE ManagerInv
  OBVIOUS
<1>1. ManagerTypeOK
  BY UIDsAreUIDs DEF ManagerInit, ManagerTypeOK
<1>2. \A u \in UIDs : ~KnownPod(u) /\ translationByUID[u] = NoUID
  BY DEF ManagerInit, KnownPod
<1>3. NamesIndexed
  BY <1>2, UIDsAreUIDs DEF ManagerInit, NamesIndexed
<1>4. TranslationsAreOfMirrors /\ TranslatedToCurrent /\ IndexedByOwnName
  BY <1>2, UIDsAreUIDs DEF ManagerInit, TranslationsAreOfMirrors,
                           TranslatedToCurrent, IndexedByOwnName
<1>5. QED
  BY <1>1, <1>3, <1>4 DEF ManagerInv

\* updatePodsInternal, for a pod whose name no other pod of its kind has
LEMMA UpdateInv ==
  ASSUME ManagerInv, NEW u \in UIDs, NEW pod \in Pod, NameIsFree(u), UpdatePod(u, pod)
  PROVE  ManagerInv'
<1> DEFINE n == NameOf[u]
           target == IF u \in MirrorUIDs THEN podByFullName[n] ELSE u
<1>1. /\ podByUID' = [podByUID EXCEPT ![u] = pod]
      /\ translationByUID' =
           [m \in UIDs |-> IF Translated(u, m) THEN target ELSE translationByUID[m]]
      /\ IF u \in MirrorUIDs
         THEN /\ mirrorPodByFullName' = [mirrorPodByFullName EXCEPT ![n] = u]
              /\ podByFullName' = podByFullName
         ELSE /\ podByFullName' = [podByFullName EXCEPT ![n] = u]
              /\ mirrorPodByFullName' = mirrorPodByFullName
  BY DEF UpdatePod
<1>2. /\ podByUID \in [UIDs -> Pod \union {NoPod}]
      /\ podByFullName \in [Names -> PodUIDs \union {NoUID}]
      /\ mirrorPodByFullName \in [Names -> MirrorUIDs \union {NoUID}]
      /\ translationByUID \in [UIDs -> PodUIDs \union {NoUID}]
      /\ \A v \in PodUIDs : translationByUID[v] = NoUID
      /\ n \in Names
  BY UIDsAreUIDs DEF ManagerInv, ManagerTypeOK
<1>3. \A v \in UIDs : KnownPod(v)' <=> v = u \/ KnownPod(v)
  BY <1>1, <1>2, NoPodAssumption DEF KnownPod
<1>4. \A v \in UIDs \ {u} :
        SameKind(u, v) /\ NameOf[v] = n => ~KnownPod(v)
  BY DEF NameIsFree
<1>5. /\ \A v \in PodUIDs : KnownPod(v) <=> podByFullName[NameOf[v]] = v
      /\ \A m \in MirrorUIDs : KnownPod(m) <=> mirrorPodByFullName[NameOf[m]] = m
  BY DEF ManagerInv, NamesIndexed
<1>6. ManagerTypeOK'
  <2>1. \A m \in UIDs : Translated(u, m) => target \in PodUIDs /\ m \in MirrorUIDs
    BY <1>2, UIDsAreUIDs DEF Translated
  <2>2. /\ translationByUID' \in [UIDs -> PodUIDs \union {NoUID}]
        /\ \A v \in PodUIDs : translationByUID'[v] = NoUID
    BY <1>1, <1>2, <2>1, UIDsAreUIDs
  <2>3. podByUID' \in [UIDs -> Pod \union {NoPod}]
    BY <1>1, <1>2
  <2>4. /\ podByFullName' \in [Names -> PodUIDs \union {NoUID}]
        /\ mirrorPodByFullName' \in [Names -> MirrorUIDs \union {NoUID}]
    BY <1>1, <1>2, UIDsAreUIDs
  <2>5. QED
    BY <2>2, <2>3, <2>4 DEF ManagerTypeOK
<1>7. NamesIndexed'
  <2>1. ASSUME NEW v \in PodUIDs
        PROVE  KnownPod(v)' <=> podByFullName'[NameOf[v]] = v
    <3>1. v \in UIDs /\ NameOf[v] \in Names /\ v \notin MirrorUIDs
      BY UIDsAreUIDs
    <3>2. CASE u \in MirrorUIDs
      BY <1>1, <1>3, <1>5, <3>1, <3>2
    <3>3. CASE u \notin MirrorUIDs /\ NameOf[v] = n
      BY <1>1, <1>2, <1>3, <1>4, <3>1, <3>3 DEF SameKind
    <3>4. CASE u \notin MirrorUIDs /\ NameOf[v] # n
      BY <1>1, <1>2, <1>3, <1>5, <3>1, <3>4
    <3>5. QED
      BY <3>2, <3>3, <3>4
  <2>2. ASSUME NEW m \in MirrorUIDs
        PROVE  KnownPod(m)' <=> mirrorPodByFullName'[NameOf[m]] = m
    <3>1. m \in UIDs /\ NameOf[m] \in Names
      BY UIDsAreUIDs
    <3>2. CASE u \notin MirrorUIDs
      BY <1>1, <1>3, <1>5, <3>1, <3>2
    <3>3. CASE u \in MirrorUIDs /\ NameOf[m] = n
      BY <1>1, <1>2, <1>3, <1>4, <3>1, <3>3 DEF SameKind
    <3>4. CASE u \in MirrorUIDs /\ NameOf[m] # n
      BY <1>1, <1>2, <1>3, <1>5, <3>1, <3>4
    <3>5. QED
      BY <3>2, <3>3, <3>4
  <2>3. QED
    BY <2>1, <2>2 DEF NamesIndexed
<1>8. \A m \in UIDs : translationByUID'[m] =
        IF Translated(u, m) THEN target ELSE translationByUID[m]
  BY <1>1
<1>9. \A k \in Names :
        /\ podByFullName[k] # NoUID =>
             podByFullName[k] \in PodUIDs /\ NameOf[podByFullName[k]] = k
        /\ mirrorPodByFullName[k] # NoUID =>
             mirrorPodByFullName[k] \in MirrorUIDs /\ NameOf[mirrorPodByFullName[k]] = k
  BY <1>2 DEF ManagerInv, IndexedByOwnName
<1>10. IndexedByOwnName'
  BY <1>1, <1>2, <1>9, UIDsAreUIDs DEF IndexedByOwnName
<1>11. TranslationsAreOfMirrors'
  <2> SUFFICES ASSUME NEW m \in UIDs, translationByUID'[m] # NoUID
               PROVE  /\ m \in MirrorUIDs /\ KnownPod(m)'
                      /\ NameOf[translationByUID'[m]] = NameOf[m]
    BY DEF TranslationsAreOfMirrors
  <2>1. CASE ~Translated(u, m)
    <3>1. translationByUID'[m] = translationByUID[m]
      BY <1>8, <2>1
    <3>2. QED
      BY <1>3, <3>1 DEF ManagerInv, TranslationsAreOfMirrors
  <2>2. CASE Translated(u, m) /\ u \in MirrorUIDs
    BY <1>2, <1>3, <1>8, <1>9, <2>2 DEF Translated
  <2>3. CASE Translated(u, m) /\ u \notin MirrorUIDs
    <3>1. mirrorPodByFullName[n] = m /\ translationByUID'[m] = u /\ m # NoUID
      BY <1>8, <2>3, UIDsAreUIDs DEF Translated
    <3>2. m \in MirrorUIDs /\ NameOf[m] = n
      BY <1>2, <1>9, <3>1
    <3>3. QED
      BY <1>3, <1>5, <3>1, <3>2
  <2>4. QED
    BY <2>1, <2>2, <2>3
<1>12. TranslatedToCurrent'
  <2> SUFFICES ASSUME NEW m \in MirrorUIDs, NEW v \in PodUIDs,
                      KnownPod(m)', KnownPod(v)', NameOf[m] = NameOf[v]
               PROVE  translationByUID'[m] = v
    BY DEF TranslatedToCurrent
  <2>1. m \in UIDs /\ v \in UIDs /\ m \notin PodUIDs /\ v \notin MirrorUIDs /\ v # NoUID
    BY UIDsAreUIDs
  <2>2. KnownPod(m) /\ KnownPod(v) => translationByUID[m] = v
    BY DEF ManagerInv, TranslatedToCurrent
  <2>3. CASE u = m
    <3>1. KnownPod(v) /\ podByFullName[n] = v
      BY <1>3, <1>5, <2>1, <2>3
    <3>2. QED
      BY <1>8, <2>1, <2>3, <3>1 DEF Translated
  <2>4. CASE u = v
    <3>1. KnownPod(m) /\ mirrorPodByFullName[n] = m
      BY <1>3, <1>5, <2>1, <2>4
    <3>2. QED
      BY <1>8, <2>1, <2>4, <3>1 DEF Translated
  <2>5. CASE u # m /\ u # v
    <3>1. KnownPod(m) /\ KnownPod(v)
      BY <1>3, <2>1, <2>5
    <3>2. ~Translated(u, m)
      <4>1. CASE u \in MirrorUIDs
        BY <2>5, <4>1 DEF Translated
      <4>2. CASE u \notin MirrorUIDs
        <5>1. NameOf[v] # n
          BY <1>4, <2>1, <2>5, <3>1, <4>2 DEF SameKind
        <5>2. mirrorPodByFullName[n] # m
          BY <1>2, <1>9, <2>1, <5>1, PodManagerAssumption
        <5>3. QED
          BY <4>2, <5>2 DEF Translated
      <4>3. QED
        BY <4>1, <4>2
    <3>3. QED
      BY <1>8, <2>1, <2>2, <3>1, <3>2
  <2>6. QED
    BY <2>3, <2>4, <2>5
<1>13. QED
  BY <1>6, <1>7, <1>10, <1>11, <1>12 DEF ManagerInv

\* DeletePod, for a pod that is known
LEMMA DeleteInv ==
  ASSUME ManagerInv, NEW u \in UIDs, KnownPod(u), DeletePod(u)
  PROVE  ManagerInv'
<1> DEFINE n == NameOf[u]
<1>1. /\ podByUID' = [podByUID EXCEPT ![u] = NoPod]
      /\ IF u \in MirrorUIDs
         THEN /\ mirrorPodByFullName' = [mirrorPodByFullName EXCEPT ![n] = NoUID]
              /\ translationByUID' = [translationByUID EXCEPT ![u] = NoUID]
              /\ podByFullName' = podByFullName
         ELSE /\ podByFullName' = [podByFullName EXCEPT ![n] = NoUID]
              /\ mirrorPodByFullName' = mirrorPodByFullName
              /\ translationByUID' = translationByUID
  BY DEF DeletePod, Cleared
<1>2. /\ podByUID \in [UIDs -> Pod \union {NoPod}]
      /\ podByFullName \in [Names -> PodUIDs \union {NoUID}]
      /\ mirrorPodByFullName \in [Names -> MirrorUIDs \union {NoUID}]
      /\ translationByUID \in [UIDs -> PodUIDs \union {NoUID}]
      /\ \A v \in PodUIDs : translationByUID[v] = NoUID
      /\ n \in Names
  BY UIDsAreUIDs DEF ManagerInv, ManagerTypeOK
<1>3. \A v \in UIDs : KnownPod(v)' <=> v # u /\ KnownPod(v)
  BY <1>1, <1>2 DEF KnownPod
<1>4. /\ \A v \in PodUIDs : KnownPod(v) <=> podByFullName[NameOf[v]] = v
      /\ \A m \in MirrorUIDs : KnownPod(m) <=> mirrorPodByFullName[NameOf[m]] = m
  BY DEF ManagerInv, NamesIndexed
<1>5. \A m \in UIDs : translationByUID'[m] \in {translationByUID[m], NoUID}
  BY <1>1, <1>2
<1>6. ManagerTypeOK'
  BY <1>1, <1>2, UIDsAreUIDs DEF ManagerTypeOK
<1>7. NamesIndexed'
  <2>1. ASSUME NEW v \in PodUIDs
        PROVE  KnownPod(v)' <=> podByFullName'[NameOf[v]] = v
    <3>1. v \in UIDs /\ NameOf[v] \in Names /\ v \notin MirrorUIDs /\ v # NoUID
      BY UIDsAreUIDs
    <3>2. CASE u \in MirrorUIDs
      BY <1>1, <1>3, <1>4, <3>1, <3>2
    <3>3. CASE u \notin MirrorUIDs /\ NameOf[v] = n
      <4>1. podByFullName[n] = u
        BY <1>4, <3>3, UIDsAreUIDs
      <4>2. podByFullName'[n] = NoUID
        BY <1>1, <1>2, <3>3
      <4>3. QED
        BY <1>3, <1>4, <3>1, <3>3, <4>1, <4>2
    <3>4. CASE u \notin MirrorUIDs /\ NameOf[v] # n
      BY <1>1, <1>2, <1>3, <1>4, <3>1, <3>4
    <3>5. QED
      BY <3>2, <3>3, <3>4
  <2>2. ASSUME NEW m \in MirrorUIDs
        PROVE  KnownPod(m)' <=> mirrorPodByFullName'[NameOf[m]] = m
    <3>1. m \in UIDs /\ NameOf[m] \in Names /\ m # NoUID
      BY UIDsAreUIDs
    <3>2. CASE u \notin MirrorUIDs
      BY <1>1, <1>3, <1>4, <3>1, <3>2
    <3>3. CASE u \in MirrorUIDs /\ NameOf[m] = n
      <4>1. mirrorPodByFullName[n] = u
        BY <1>4, <3>3
      <4>2. mirrorPodByFullName'[n] = NoUID
        BY <1>1, <1>2, <3>3
      <4>3. QED
        BY <1>3, <1>4, <3>1, <3>3, <4>1, <4>2
    <3>4. CASE u \in MirrorUIDs /\ NameOf[m] # n
      BY <1>1, <1>2, <1>3, <1>4, <3>1, <3>4
    <3>5. QED
      BY <3>2, <3>3, <3>4
  <2>3. QED
    BY <2>1, <2>2 DEF NamesIndexed
<1>8. IndexedByOwnName'
  BY <1>1, <1>2 DEF ManagerInv, IndexedByOwnName
<1>9. TranslationsAreOfMirrors'
  <2> SUFFICES ASSUME NEW m \in UIDs, translationByUID'[m] # NoUID
               PROVE  /\ m \in MirrorUIDs /\ KnownPod(m)'
                      /\ NameOf[translationByUID'[m]] = NameOf[m]
    BY DEF TranslationsAreOfMirrors
  <2>1. translationByUID'[m] = translationByUID[m]
    BY <1>5
  <2>2. m \in MirrorUIDs /\ KnownPod(m) /\ NameOf[translationByUID[m]] = NameOf[m]
    BY <2>1 DEF ManagerInv, TranslationsAreOfMirrors
  <2>3. m # u
    BY <1>1, <1>2, <2>2
  <2>4. QED
    BY <1>3, <2>1, <2>2, <2>3
<1>10. TranslatedToCurrent'
  <2> SUFFICES ASSUME NEW m \in MirrorUIDs, NEW v \in PodUIDs,
                      KnownPod(m)', KnownPod(v)', NameOf[m] = NameOf[v]
               PROVE  translationByUID'[m] = v
    BY DEF TranslatedToCurrent
  <2>1. m \in UIDs /\ v \in UIDs
    BY UIDsAreUIDs
  <2>2. KnownPod(m) /\ KnownPod(v) /\ m # u
    BY <1>3, <2>1
  <2>3. translationByUID'[m] = translationByUID[m]
    BY <1>1, <1>2, <2>1, <2>2
  <2>4. QED
    BY <2>2, <2>3 DEF ManagerInv, TranslatedToCurrent
<1>11. QED
  BY <1>6, <1>7, <1>8, <1>9, <1>10 DEF ManagerInv

\* SetPods, with a list that has at most one pod of each name and kind
LEMMA SetPodsInv ==
  ASSUME NEW S \in SUBSET UIDs,
         \A u, v \in S : SameKind(u, v) /\ NameOf[u] = NameOf[v] => u = v,
         NEW pod \in Pod,
         SetPods([u \in UIDs |-> IF u \in S THEN pod ELSE NoPod])
  PROVE  ManagerInv'
<1> DEFINE pods == [u \in UIDs |-> IF u \in S THEN pod ELSE NoPod]
           Holder(K, n) == IF \E u \in K : NameOf[u] = n /\ pods[u] # NoPod
                           THEN CHOOSE u \in K : NameOf[u] = n /\ pods[u] # NoPod
                           ELSE NoUID
<1>1. /\ podByUID' = pods
      /\ podByFullName' = [n \in Names |-> Holder(PodUIDs, n)]
      /\ mirrorPodByFullName' = [n \in Names |-> Holder(MirrorUIDs, n)]
      /\ translationByUID' = [m \in UIDs |->
           IF m \in MirrorUIDs /\ pods[m] # NoPod THEN Holder(PodUIDs, NameOf[m])
           ELSE NoUID]
  BY DEF SetPods
<1>2. pods \in [UIDs -> Pod \union {NoPod}] /\ \A u \in UIDs : pods[u] # NoPod <=> u \in S
  BY NoPodAssumption
<1>3. \A K, n : Holder(K, n) # NoUID =>
        /\ Holder(K, n) \in K
        /\ NameOf[Holder(K, n)] = n /\ pods[Holder(K, n)] # NoPod
  <2> SUFFICES ASSUME NEW K, NEW n, Holder(K, n) # NoUID
               PROVE  /\ Holder(K, n) \in K
                      /\ NameOf[Holder(K, n)] = n /\ pods[Holder(K, n)] # NoPod
    OBVIOUS
  <2> HIDE DEF pods
  <2>1. \E u \in K : NameOf[u] = n /\ pods[u] # NoPod
    OBVIOUS
  <2>2. QED
    BY <2>1
<1>4. \A K, n : (\E u \in K : NameOf[u] = n /\ pods[u] # NoPod) /\ K \subseteq UIDs =>
        Holder(K, n) # NoUID
  <2> SUFFICES ASSUME NEW K, NEW n, \E u \in K : NameOf[u] = n /\ pods[u] # NoPod,
                      K \subseteq UIDs
               PROVE  Holder(K, n) # NoUID
    OBVIOUS
  <2> HIDE DEF pods
  <2>1. Holder(K, n) \in K
    OBVIOUS
  <2>2. QED
    BY <2>1, UIDsAreUIDs
<1> HIDE DEF pods, Holder
\* the pod that is found has the name alone in its kind
<1>5. \A u \in PodUIDs : pods[u] # NoPod <=> Holder(PodUIDs, NameOf[u]) = u
  <2> SUFFICES ASSUME NEW u \in PodUIDs
               PROVE  pods[u] # NoPod <=> Holder(PodUIDs, NameOf[u]) = u
    OBVIOUS
  <2> DEFINE h == Holder(PodUIDs, NameOf[u])
  <2>1. ASSUME pods[u] # NoPod PROVE h = u
    <3>1. h # NoUID
      BY <1>4, <2>1 DEF PodUIDs
    <3>2. h \in PodUIDs /\ NameOf[h] = NameOf[u] /\ pods[h] # NoPod
      BY <1>3, <3>1
    <3>3. h \in S /\ u \in S /\ SameKind(h, u)
      BY <1>2, <2>1, <3>2, UIDsAreUIDs DEF SameKind
    <3>4. QED
      BY <3>2, <3>3
  <2>2. ASSUME h = u PROVE pods[u] # NoPod
    BY <1>3, <2>2, UIDsAreUIDs
  <2>3. QED
    BY <2>1, <2>2
<1>6. \A u \in MirrorUIDs : pods[u] # NoPod <=> Holder(MirrorUIDs, NameOf[u]) = u
  <2> SUFFICES ASSUME NEW u \in MirrorUIDs
               PROVE  pods[u] # NoPod <=> Holder(MirrorUIDs, NameOf[u]) = u
    OBVIOUS
  <2> DEFINE h == Holder(MirrorUIDs, NameOf[u])
  <2>1. ASSUME pods[u] # NoPod PROVE h = u
    <3>1. h # NoUID
      BY <1>4, <2>1, PodManagerAssumption
    <3>2. h \in MirrorUIDs /\ NameOf[h] = NameOf[u] /\ pods[h] # NoPod
      BY <1>3, <3>1
    <3>3. h \in S /\ u \in S /\ SameKind(h, u)
      BY <1>2, <2>1, <3>2, UIDsAreUIDs DEF SameKind
    <3>4. QED
      BY <3>2, <3>3
  <2>2. ASSUME h = u PROVE pods[u] # NoPod
    BY <1>3, <2>2, UIDsAreUIDs
  <2>3. QED
    BY <2>1, <2>2
<1>7. \A u \in UIDs : KnownPod(u)' <=> pods[u] # NoPod
  BY <1>1 DEF KnownPod
<1>8. \A m \in UIDs : translationByUID'[m] =
        IF m \in MirrorUIDs /\ pods[m] # NoPod THEN Holder(PodUIDs, NameOf[m]) ELSE NoUID
  BY <1>1
<1>9. ManagerTypeOK'
  <2>1. \A K, n : Holder(K, n) \in K \union {NoUID}
    BY <1>3
  <2>2. /\ podByUID' \in [UIDs -> Pod \union {NoPod}]
        /\ podByFullName' \in [Names -> PodUIDs \union {NoUID}]
        /\ mirrorPodByFullName' \in [Names -> MirrorUIDs \union {NoUID}]
    BY <1>1, <1>2, <2>1
  <2>3. translationByUID' \in [UIDs -> PodUIDs \union {NoUID}]
    BY <1>1, <2>1
  <2>4. \A u \in PodUIDs : translationByUID'[u] = NoUID
    BY <1>8, UIDsAreUIDs
  <2>5. QED
    BY <2>2, <2>3, <2>4 DEF ManagerTypeOK
<1>10. NamesIndexed'
  BY <1>1, <1>5, <1>6, <1>7, UIDsAreUIDs DEF NamesIndexed
<1>11. IndexedByOwnName'
  BY <1>1, <1>3 DEF IndexedByOwnName
<1>12. TranslationsAreOfMirrors'
  <2> SUFFICES ASSUME NEW m \in UIDs, translationByUID'[m] # NoUID
               PROVE  /\ m \in MirrorUIDs /\ KnownPod(m)'
                      /\ NameOf[translationByUID'[m]] = NameOf[m]
    BY DEF TranslationsAreOfMirrors
  <2>1. /\ m \in MirrorUIDs /\ pods[m] # NoPod
        /\ translationByUID'[m] = Holder(PodUIDs, NameOf[m])
    BY <1>8
  <2>2. QED
    BY <1>3, <1>7, <2>1
<1>13. TranslatedToCurrent'
  <2> SUFFICES ASSUME NEW m \in MirrorUIDs, NEW v \in PodUIDs,
                      KnownPod(m)', KnownPod(v)', NameOf[m] = NameOf[v]
               PROVE  translationByUID'[m] = v
    BY DEF TranslatedToCurrent
  <2>1. m \in UIDs /\ v \in UIDs
    BY UIDsAreUIDs
  <2>2. QED
    BY <1>5, <1>7, <1>8, <2>1
<1>14. QED
  BY <1>9, <1>10, <1>11, <1>12, <1>13 DEF ManagerInv

LEMMA ManagerNextInv == ManagerInv /\ [ManagerNext]_managerVars => ManagerInv'
<1> SUFFICES ASSUME ManagerInv, [ManagerNext]_managerVars PROVE ManagerInv'
  OBVIOUS
<1>1. ASSUME NEW u \in UIDs, NEW pod \in Pod, NameIsFree(u), UpdatePod(u, pod)
      PROVE  ManagerInv'
  BY <1>1, UpdateInv
<1>2. ASSUME NEW u \in UIDs, KnownPod(u), DeletePod(u)
      PROVE  ManagerInv'
  BY <1>2, DeleteInv
<1>3. ASSUME NEW S \in SUBSET UIDs,
             \A u, v \in S : SameKind(u, v) /\ NameOf[u] = NameOf[v] => u = v,
             NEW pod \in Pod,
             SetPods([u \in UIDs |-> IF u \in S THEN pod ELSE NoPod])
      PROVE  ManagerInv'
  BY <1>3, SetPodsInv
<1>4. CASE UNCHANGED managerVars
  BY <1>4 DEF managerVars, ManagerInv, ManagerTypeOK, NamesIndexed, IndexedByOwnName,
              TranslatedToCurrent, TranslationsAreOfMirrors, KnownPod
<1>5. QED
  BY <1>1, <1>2, <1>3, <1>4 DEF ManagerNext

(***************************************************************************)
(* Theorems                                                                *)
(***************************************************************************)

\* Every reachable state of the manager satisfies the inductive invariant.
THEOREM ManagerInvariant == ManagerSpec => []ManagerInv
<1>1. QED
  BY ManagerInitInv, ManagerNextInv, PTL DEF ManagerSpec

\* The maps of the manager keep their types, and only a mirror pod is translated
\* (pod_manager.go updatePodsInternal, DeletePod, SetPods).
THEOREM ManagerTypeCorrect == ManagerSpec => []ManagerTypeOK
<1>1. ManagerInv => ManagerTypeOK
  BY DEF ManagerInv
<1>2. QED
  BY <1>1, ManagerInvariant, PTL

\* If a name is given to a pod only when the previous one of its kind was deleted, the
\* index by name and the index by UID agree, whatever the order of the calls
\* (pod_manager.go DeletePod clears the name without a look at the UID).
THEOREM IndexesAgree == ManagerSpec => []NamesIndexed
<1>1. ManagerInv => NamesIndexed
  BY DEF ManagerInv
<1>2. QED
  BY <1>1, ManagerInvariant, PTL

\* Under the same condition a mirror pod's UID is translated to the pod that has its
\* name now, and that pod's inverse translation is that mirror pod alone
\* (pod_manager.go updatePodsInternal, TranslatePodUID, GetUIDTranslations).
THEOREM TranslationHolds == ManagerSpec => []TranslationIsCurrent
<1>1. ManagerInv => TranslationIsCurrent
  BY InverseIsCurrent DEF ManagerInv
<1>2. QED
  BY <1>1, ManagerInvariant, PTL

\* The maps agree, translate to the pod that has the name now, and let a pod and its
\* mirror pod find each other (pod_manager.go GetMirrorPodByPod, GetPodByMirrorPod,
\* GetOrphanedMirrorPodNames).
THEOREM MapsAgreeHolds == ManagerSpec => []MapsAgree
<1>1. ManagerInv => PairsAgree
  BY PairsAreCurrent DEF ManagerInv
<1>2. NamesIndexed /\ TranslationIsCurrent /\ PairsAgree => MapsAgree
  BY DEF MapsAgree
<1>3. QED
  BY <1>1, <1>2, IndexesAgree, TranslationHolds, ManagerInvariant, PTL

-----------------------------------------------------------------------------
(* PodConfig: the inductive invariant *)

\* The lock of podStorage is free only between two Merges.
LockFree == merging = NoSource => outbox = <<>>

\* Run handles a notice with pods only if it has a case for it.
OnlyHandled == Present(handling.pods) # {} => handling.op \in Handled

\* podStorage has one pod of a name from each source.
StoredOnce ==
  \A u, v \in UIDs :
    u # v /\ NameOf[u] = NameOf[v] /\ SourceOf[u] = SourceOf[v] =>
      storage[u] = NoPod \/ storage[v] = NoPod

\* Each notice fits the pod that the notices before it leave, wherever Run may be: it
\* adds a pod that is not there and changes or removes one that is.
OpsFit(pods, notices) ==
  \A k \in 1..Len(notices), u \in UIDs :
    Tells(notices[k], u) =>
      ((notices[k].op = "ADD") <=> (PodAfter(pods, notices, k - 1, u) = NoPod))

\* The workers were told to run the pods the manager knows, and no other.
ToldToRun ==
  \A u \in UIDs : (syncs[u] \in {"create", "update"}) <=> (podByUID[u] # NoPod)

\* Nothing else in its source has the name of u.
Lonely(u) == \A v \in UIDs \ {u} : NameOf[v] # NameOf[u] \/ SourceOf[v] # SourceOf[u]

\* A lonely pod is removed from podStorage only once its source removed it, and its
\* removal is the last thing that is said of it.
LastIsRemoval ==
  \A u \in UIDs :
    /\ world[u] # NoPod => u \notin removed
    /\ storage[u] # NoPod => world[u] # NoPod \/ u \in removed
    /\ Lonely(u) /\ syncs[u] = "kill" => u \in removed
    /\ Lonely(u) => \A k \in 1..Len(Queue) :
         Tells(Queue[k], u) =>
           /\ Queue[k].op = "REMOVE" => u \in removed
           /\ Queue[k].op = "ADD" =>
                syncs[u] = "none" /\ \A j \in 1..(k - 1) : ~Tells(Queue[j], u)

\* At no point of the queue are there two pods of one kind that have one name.
Clash(u, v) == u # v /\ SameKind(u, v) /\ NameOf[u] = NameOf[v]
NoClash(pods, notices) ==
  \A k \in 0..Len(notices), u, v \in UIDs :
    Clash(u, v) => \/ PodAfter(pods, notices, k, u) = NoPod
                   \/ PodAfter(pods, notices, k, v) = NoPod

ConfigInv ==
  /\ LockFree /\ StoredOnce /\ CatchesUp /\ OpsFit(podByUID, Queue)
  /\ ToldToRun /\ LastIsRemoval

-----------------------------------------------------------------------------
(* The last notice that tells of a pod *)

\* < on the natural numbers as a set of pairs, so that facts about well-founded
\* relations apply to it.
NatLess == {ss \in Nat \X Nat : ss[1] < ss[2]}

LEMMA LeastElement ==
  ASSUME NEW T \in SUBSET Nat, T # {}
  PROVE  \E x \in T : \A y \in T : x <= y
<1>1. IsWellFoundedOn(NatLess, Nat)
  BY NatLessThanWellFounded DEF OpToRel, NatLess
<1>2. PICK x \in T : \A y \in T : ~(<<y, x>> \in NatLess)
  BY <1>1, WFMin
<1>3. \A m, n \in Nat : m < n => <<m, n>> \in NatLess
  BY DEF NatLess
<1>4. \A y \in T : ~(y < x)
  BY <1>2, <1>3
<1> QED
  BY <1>4

LEMMA MaxExists ==
  ASSUME NEW n \in Nat, NEW T \in SUBSET (1..n), T # {}
  PROVE  Max(T) \in T /\ \A y \in T : y <= Max(T)
<1>1. \E x \in T : \A y \in T : y <= x
  <2> DEFINE U == {n - x : x \in T}
  <2>1. \A x \in T : n - x \in Nat
    OBVIOUS
  <2>2. (\A x \in U : x \in Nat) /\ U # {}
    BY <2>1, Zenon
  <2>3. U \in SUBSET Nat
    BY <2>2, Zenon
  <2>4. PICK x \in U : \A y \in U : x <= y
    <3> HIDE DEF U
    <3> QED
      BY <2>2, <2>3, LeastElement
  <2>5. PICK z \in T : x = n - z
    BY <2>4
  <2>6. \A y \in T : n - z <= n - y
    BY <2>4, <2>5
  <2> QED
    BY <2>6
<1> QED
  BY <1>1 DEF Max

\* PodAfter is what the last notice of the pod says...
LEMMA LastTells ==
  ASSUME NEW pods, NEW q, NEW u, NEW k \in Nat, NEW i \in 1..k, Tells(q[i], u),
         \A j \in (i + 1)..k : ~Tells(q[j], u)
  PROVE  PodAfter(pods, q, k, u) = Told(q[i], u)
<1> DEFINE telling == {j \in 1..k : Tells(q[j], u)}
<1>1. telling \in SUBSET (1..k) /\ i \in telling
  OBVIOUS
<1>2. \A j \in telling : j <= i /\ j \in Nat
  OBVIOUS
<1>3. Max(telling) = i
  <2> HIDE DEF telling
  <2>1. Max(telling) \in telling /\ \A y \in telling : y <= Max(telling)
    BY <1>1, MaxExists
  <2>2. Max(telling) \in Nat /\ Max(telling) <= i /\ i <= Max(telling)
    BY <2>1, <1>1, <1>2, Zenon
  <2> QED
    BY <2>2
<1> QED
  BY <1>1, <1>3 DEF PodAfter

\* ... and the pod itself if none tells of it.
LEMMA NoneTells ==
  ASSUME NEW pods, NEW q, NEW u, NEW k \in Nat, \A j \in 1..k : ~Tells(q[j], u)
  PROVE  PodAfter(pods, q, k, u) = pods[u]
BY DEF PodAfter

LEMMA TellsOrNot ==
  ASSUME NEW q, NEW u, NEW k \in Nat
  PROVE  \/ \A j \in 1..k : ~Tells(q[j], u)
         \/ \E i \in 1..k : Tells(q[i], u) /\ \A j \in (i + 1)..k : ~Tells(q[j], u)
<1> DEFINE telling == {j \in 1..k : Tells(q[j], u)}
<1>1. telling \in SUBSET (1..k)
  OBVIOUS
<1>2. CASE telling = {}
  BY <1>2
<1>3. CASE telling # {}
  <2>1. Max(telling) \in telling /\ \A j \in telling : j <= Max(telling)
    <3> HIDE DEF telling
    <3> QED
      BY <1>1, <1>3, MaxExists
  <2> QED
    BY <2>1
<1> QED
  BY <1>2, <1>3

\* Two queues that say the same of a pod, of the same pod, lead to the same pod.
LEMMA SameQueue ==
  ASSUME NEW p, NEW q, NEW r, NEW u, NEW k \in Nat, NEW m \in Nat, m <= k,
         \A i \in 1..m : /\ Tells(q[i], u) <=> Tells(r[i], u)
                         /\ Tells(q[i], u) => Told(q[i], u) = Told(r[i], u),
         \A i \in (m + 1)..k : ~Tells(r[i], u)
  PROVE  PodAfter(p, q, m, u) = PodAfter(p, r, k, u)
<1>1. CASE \A j \in 1..m : ~Tells(q[j], u)
  <2>1. \A j \in 1..k : ~Tells(r[j], u)
    BY <1>1
  <2> QED
    BY <1>1, <2>1, NoneTells
<1>2. ASSUME NEW i \in 1..m, Tells(q[i], u), \A j \in (i + 1)..m : ~Tells(q[j], u)
      PROVE  PodAfter(p, q, m, u) = PodAfter(p, r, k, u)
  <2>1. /\ i \in 1..k /\ Tells(r[i], u) /\ Told(q[i], u) = Told(r[i], u)
        /\ \A j \in (i + 1)..k : ~Tells(r[j], u)
    BY <1>2
  <2>2. PodAfter(p, q, m, u) = Told(q[i], u)
    BY <1>2, LastTells
  <2>3. PodAfter(p, r, k, u) = Told(r[i], u)
    BY <2>1, LastTells
  <2> QED
    BY <2>1, <2>2, <2>3
<1> QED
  BY <1>1, <1>2, TellsOrNot

LEMMA SameBase ==
  ASSUME NEW p, NEW pp, NEW q, NEW u, NEW k, p[u] = pp[u]
  PROVE  PodAfter(p, q, k, u) = PodAfter(pp, q, k, u)
BY DEF PodAfter

\* One more notice
LEMMA PodAfterStep ==
  ASSUME NEW p, NEW q, NEW u, NEW k \in Nat
  PROVE  PodAfter(p, q, k + 1, u) =
           IF Tells(q[k + 1], u) THEN Told(q[k + 1], u) ELSE PodAfter(p, q, k, u)
<1>1. CASE Tells(q[k + 1], u)
  BY <1>1, LastTells
<1>2. CASE ~Tells(q[k + 1], u)
  <2>1. PodAfter(p, q, k, u) = PodAfter(p, q, k + 1, u)
    <3>1. \A i \in (k + 1)..(k + 1) : ~Tells(q[i], u)
      BY <1>2
    <3> QED
      BY <3>1, SameQueue
  <2> QED
    BY <1>2, <2>1
<1> QED
  BY <1>1, <1>2

-----------------------------------------------------------------------------
(* The notices of a Merge *)

Ops == {"REMOVE", "ADD", "UPDATE", "DELETE", "RECONCILE"}

\* r has the notices of the operations sent, each at most once, a removal first;
\* operations are taken into account up to ops.
Delivers(r, f, sent, ops) ==
  /\ r \in Seq(PodUpdate)
  /\ \A j \in 1..Len(r) : r[j].op \in ops \intersect sent /\ r[j] = f[r[j].op]
  /\ \A op \in ops \intersect sent : \E j \in 1..Len(r) : r[j].op = op
  /\ \A i, j \in 1..Len(r) : r[i].op = r[j].op => i = j
  /\ "REMOVE" \in ops \intersect sent => r[1].op = "REMOVE"

LEMMA DeliversFirst ==
  ASSUME NEW f \in [Ops -> PodUpdate], f["REMOVE"].op = "REMOVE", NEW sent
  PROVE  Delivers(IF "REMOVE" \in sent THEN <<f["REMOVE"]>> ELSE <<>>, f, sent,
                  {"REMOVE"})
<1>1. f["REMOVE"] \in PodUpdate
  BY DEF Ops
<1>2. CASE "REMOVE" \in sent
  BY <1>1, <1>2 DEF Delivers
<1>3. CASE "REMOVE" \notin sent
  BY <1>1, <1>3 DEF Delivers
<1> QED
  BY <1>2, <1>3

LEMMA DeliversNext ==
  ASSUME NEW f \in [Ops -> PodUpdate], NEW sent, NEW ops, NEW r, NEW op \in Ops,
         Delivers(r, f, sent, ops), "REMOVE" \in ops, op \notin ops, f[op].op = op
  PROVE  Delivers(r \o (IF op \in sent THEN <<f[op]>> ELSE <<>>), f, sent,
                  ops \union {op})
<1>1. f[op] \in PodUpdate /\ r \in Seq(PodUpdate) /\ Len(r) \in Nat
  BY DEF Delivers
<1>2. CASE op \notin sent
  <2>1. r \o <<>> = r
    BY <1>1
  <2>2. (ops \union {op}) \intersect sent = ops \intersect sent
    BY <1>2
  <2> QED
    BY <1>2, <2>1, <2>2 DEF Delivers
<1>3. CASE op \in sent
  <2> DEFINE t == r \o <<f[op]>>
  <2>1. /\ t \in Seq(PodUpdate) /\ Len(t) = Len(r) + 1 /\ t[Len(r) + 1] = f[op]
        /\ \A j \in 1..Len(r) : t[j] = r[j]
    BY <1>1
  <2> HIDE DEF t
  <2>2. \A j \in 1..Len(r) : r[j].op \in ops \intersect sent /\ r[j] = f[r[j].op]
    BY DEF Delivers
  <2>3. \A j \in 1..Len(t) : j \in 1..Len(r) \/ j = Len(r) + 1
    BY <1>1, <2>1
  <2>4. \A j \in 1..Len(t) :
          t[j].op \in (ops \union {op}) \intersect sent /\ t[j] = f[t[j].op]
    BY <1>3, <2>1, <2>2, <2>3
  <2>5. \A o \in (ops \union {op}) \intersect sent : \E j \in 1..Len(t) : t[j].op = o
    <3> SUFFICES ASSUME NEW o \in (ops \union {op}) \intersect sent
                 PROVE  \E j \in 1..Len(t) : t[j].op = o
      OBVIOUS
    <3>1. CASE o = op
      <4>1. Len(r) + 1 \in 1..Len(t)
        BY <1>1, <2>1
      <4> QED
        BY <3>1, <4>1, <2>1
    <3>2. CASE o # op
      <4>1. PICK j \in 1..Len(r) : r[j].op = o
        BY <3>2 DEF Delivers
      <4> QED
        BY <4>1, <1>1, <2>1
    <3> QED
      BY <3>1, <3>2
  <2>6. ASSUME NEW i \in 1..Len(t), NEW j \in 1..Len(t), t[i].op = t[j].op
        PROVE  i = j
    <3>1. \A m \in 1..Len(r) : t[m].op # op
      BY <2>1, <2>2
    <3>2. t[Len(r) + 1].op = op
      BY <2>1
    <3>3. CASE i \in 1..Len(r) /\ j \in 1..Len(r)
      BY <2>1, <2>6, <3>3 DEF Delivers
    <3> QED
      BY <2>3, <2>6, <3>1, <3>2, <3>3
  <2>7. ASSUME "REMOVE" \in (ops \union {op}) \intersect sent
        PROVE  t[1].op = "REMOVE"
    <3>1. "REMOVE" \in ops \intersect sent
      BY <2>7
    <3>2. r[1].op = "REMOVE" /\ 1 \in 1..Len(r)
      BY <3>1, <1>1 DEF Delivers
    <3> QED
      BY <3>2, <2>1
  <2> QED
    BY <1>3, <2>1, <2>4, <2>5, <2>6, <2>7 DEF Delivers, t
<1> QED
  BY <1>2, <1>3

\* The operations of a Merge that are sent
Sent(pods, S, R, firstSet) ==
  {op \in Ops :
     \/ Concerned(op, pods, S, R) # {}
     \/ /\ op = "ADD" /\ firstSet
        /\ \A o \in {"ADD", "UPDATE", "DELETE"} : Concerned(o, pods, S, R) = {}}

LEMMA NoticeTypes ==
  ASSUME storage \in Pods, NEW source \in Sources, NEW pods \in Pods, NEW S, NEW R,
         NEW op \in Ops
  PROVE  /\ Notice(op, source, pods, S, R) \in PodUpdate
         /\ Notice(op, source, pods, S, R).op = op
         /\ Notice(op, source, pods, S, R).source = source
         /\ \A u \in UIDs : Notice(op, source, pods, S, R).pods[u] =
              IF u \notin Concerned(op, pods, S, R) THEN NoPod
              ELSE IF op = "REMOVE" THEN storage[u] ELSE pods[u]
<1>1. Those(IF op = "REMOVE" THEN storage ELSE pods, Concerned(op, pods, S, R)) \in Pods
  BY DEF Those, Pods
<1>2. \A u \in UIDs :
        Those(IF op = "REMOVE" THEN storage ELSE pods, Concerned(op, pods, S, R))[u] =
          IF u \notin Concerned(op, pods, S, R) THEN NoPod
          ELSE IF op = "REMOVE" THEN storage[u] ELSE pods[u]
  BY DEF Those
<1> QED
  BY <1>1, <1>2 DEF Notice, PodUpdate, Ops

LEMMA NoticesDeliver ==
  ASSUME storage \in Pods, NEW source \in Sources, NEW pods \in Pods, NEW S, NEW R,
         NEW firstSet \in BOOLEAN
  PROVE  Delivers(Notices(source, pods, S, R, firstSet),
                  [op \in Ops |-> Notice(op, source, pods, S, R)],
                  Sent(pods, S, R, firstSet), Ops)
<1> DEFINE f == [op \in Ops |-> Notice(op, source, pods, S, R)]
           sent == Sent(pods, S, R, firstSet)
           One(op) == IF op \in sent THEN <<f[op]>> ELSE <<>>
<1>1. f \in [Ops -> PodUpdate] /\ \A op \in Ops : f[op].op = op
  BY NoticeTypes
<1>2. Notices(source, pods, S, R, firstSet) =
        One("REMOVE") \o One("ADD") \o One("UPDATE") \o One("DELETE") \o One("RECONCILE")
  BY DEF Notices, Delivery, Sent, Ops
<1> HIDE DEF f, sent
<1>3. Delivers(One("REMOVE"), f, sent, {"REMOVE"})
  BY <1>1, DeliversFirst DEF Ops
<1>4. Delivers(One("REMOVE") \o One("ADD"), f, sent, {"REMOVE"} \union {"ADD"})
  BY <1>1, <1>3, DeliversNext DEF Ops
<1>5. Delivers(One("REMOVE") \o One("ADD") \o One("UPDATE"), f, sent,
               ({"REMOVE"} \union {"ADD"}) \union {"UPDATE"})
  BY <1>1, <1>4, DeliversNext DEF Ops
<1>6. Delivers(One("REMOVE") \o One("ADD") \o One("UPDATE") \o One("DELETE"), f, sent,
               (({"REMOVE"} \union {"ADD"}) \union {"UPDATE"}) \union {"DELETE"})
  BY <1>1, <1>5, DeliversNext DEF Ops
<1>7. Delivers(One("REMOVE") \o One("ADD") \o One("UPDATE") \o One("DELETE")
                 \o One("RECONCILE"), f, sent,
               ((({"REMOVE"} \union {"ADD"}) \union {"UPDATE"}) \union {"DELETE"})
                 \union {"RECONCILE"})
  <2> DEFINE r == One("REMOVE") \o One("ADD") \o One("UPDATE") \o One("DELETE")
             ops == (({"REMOVE"} \union {"ADD"}) \union {"UPDATE"}) \union {"DELETE"}
  <2>1. "REMOVE" \in ops /\ "RECONCILE" \notin ops /\ "RECONCILE" \in Ops
    BY DEF Ops
  <2>2. Delivers(r, f, sent, ops)
    BY <1>6
  <2> HIDE DEF r, ops
  <2>3. Delivers(r \o One("RECONCILE"), f, sent, ops \union {"RECONCILE"})
    BY <1>1, <2>1, <2>2, DeliversNext
  <2> QED
    BY <2>3 DEF r, ops
<1>8. ((({"REMOVE"} \union {"ADD"}) \union {"UPDATE"}) \union {"DELETE"})
        \union {"RECONCILE"} = Ops
  BY DEF Ops
<1> QED
  BY <1>2, <1>7, <1>8 DEF f, sent

\* The pods that leave and those that come in with a Merge that keeps S of its list
Leaving(source, op, U, S) ==
  CASE op = "SET" -> Stored(source) \ S
    [] op = "REMOVE" -> Stored(source) \intersect U
    [] OTHER -> {}
Coming(op, S) == IF op = "REMOVE" THEN {} ELSE S

\* What a Merge does
LEMMA MergeEffect ==
  ASSUME TypeOK, NEW source \in Sources, NEW op, NEW U \in SUBSET UIDs,
         Merge(source, op, U, world)
  PROVE  \E S \in UniqueNames(U) :
           LET R == Leaving(source, op, U, S)
               C == Coming(op, S)
           IN  /\ S \subseteq U /\ R \subseteq UIDs /\ C \subseteq UIDs
               /\ R \intersect C = {}
               /\ \A u \in R : storage[u] # NoPod /\ SourceOf[u] = source
               /\ merging = NoSource
               /\ storage' \in Pods
               /\ \A u \in UIDs : storage'[u] = IF u \in R THEN NoPod
                                                ELSE IF u \in C THEN world[u]
                                                ELSE storage[u]
               /\ sourcesSeen' = IF op = "SET" THEN sourcesSeen \union {source}
                                 ELSE sourcesSeen
               /\ Delivers(outbox', [o \in Ops |-> Notice(o, source, world, C, R)],
                           Sent(world, C, R, FirstSet(source, op)), Ops)
               /\ merging' = IF outbox' = <<>> THEN NoSource ELSE source
               /\ UNCHANGED <<worldVars, updates, runVars, managerVars>>
<1>1. PICK S \in UniqueNames(U) :
        /\ merging = NoSource
        /\ storage' = [u \in UIDs |-> IF u \in Leaving(source, op, U, S) THEN NoPod
                                      ELSE IF u \in Coming(op, S) THEN world[u]
                                      ELSE storage[u]]
        /\ sourcesSeen' = IF op = "SET" THEN sourcesSeen \union {source} ELSE sourcesSeen
        /\ outbox' = Notices(source, world, Coming(op, S), Leaving(source, op, U, S),
                             FirstSet(source, op))
        /\ merging' = IF outbox' = <<>> THEN NoSource ELSE source
        /\ UNCHANGED <<worldVars, updates, runVars, managerVars>>
  BY DEF Merge, Leaving, Coming
<1> DEFINE R == Leaving(source, op, U, S)
           C == Coming(op, S)
<1>2. storage \in Pods /\ world \in Pods
  BY DEF TypeOK
<1>3. S \subseteq U /\ R \subseteq Stored(source) /\ C \subseteq UIDs
  BY DEF UniqueNames, Leaving, Coming
<1>4. R \subseteq UIDs /\ \A u \in R : storage[u] # NoPod /\ SourceOf[u] = source
  BY <1>3 DEF Stored, Present
<1>5. R \intersect C = {}
  BY DEF Leaving, Coming
<1>6. storage' \in Pods
  BY <1>1, <1>2 DEF Pods
<1>7. FirstSet(source, op) \in BOOLEAN
  BY DEF FirstSet
<1>8. Delivers(outbox', [o \in Ops |-> Notice(o, source, world, C, R)],
               Sent(world, C, R, FirstSet(source, op)), Ops)
  <2> HIDE DEF R, C
  <2>1. Delivers(Notices(source, world, C, R, FirstSet(source, op)),
                 [o \in Ops |-> Notice(o, source, world, C, R)],
                 Sent(world, C, R, FirstSet(source, op)), Ops)
    BY <1>2, <1>7, NoticesDeliver
  <2> QED
    BY <1>1, <2>1 DEF R, C
<1>9. \A u \in UIDs : storage'[u] = IF u \in R THEN NoPod
                                    ELSE IF u \in C THEN world[u] ELSE storage[u]
  BY <1>1
<1> HIDE DEF R, C
<1>10. /\ merging = NoSource
       /\ sourcesSeen' = IF op = "SET" THEN sourcesSeen \union {source} ELSE sourcesSeen
       /\ merging' = IF outbox' = <<>> THEN NoSource ELSE source
       /\ UNCHANGED <<worldVars, updates, runVars, managerVars>>
  BY <1>1
<1> QED
  BY <1>3, <1>4, <1>5, <1>6, <1>8, <1>9, <1>10 DEF R, C

-----------------------------------------------------------------------------
(* Type correctness *)

LEMMA ManagerStepType ==
  ASSUME ManagerTypeOK, NEW u \in UIDs,
         DeletePod(u) \/ \E pod \in Pod : UpdatePod(u, pod)
  PROVE  ManagerTypeOK'
<1> USE UIDsAreUIDs
<1>1. CASE DeletePod(u)
  <2>1. podByUID' = [podByUID EXCEPT ![u] = NoPod]
    BY <1>1 DEF DeletePod
  <2>2. podByUID' \in [UIDs -> Pod \union {NoPod}]
    BY <2>1 DEF ManagerTypeOK
  <2>3. /\ podByFullName' \in [Names -> PodUIDs \union {NoUID}]
        /\ mirrorPodByFullName' \in [Names -> MirrorUIDs \union {NoUID}]
        /\ translationByUID' \in [UIDs -> PodUIDs \union {NoUID}]
        /\ \A v \in PodUIDs : translationByUID'[v] = NoUID
    BY <1>1 DEF DeletePod, Cleared, ManagerTypeOK
  <2> QED
    BY <2>2, <2>3 DEF ManagerTypeOK
<1>2. ASSUME NEW pod \in Pod, UpdatePod(u, pod)
      PROVE  ManagerTypeOK'
  <2> DEFINE target == IF u \in MirrorUIDs THEN podByFullName[NameOf[u]] ELSE u
  <2>1. podByUID' \in [UIDs -> Pod \union {NoPod}]
    BY <1>2 DEF UpdatePod, ManagerTypeOK
  <2>2. /\ podByFullName' \in [Names -> PodUIDs \union {NoUID}]
        /\ mirrorPodByFullName' \in [Names -> MirrorUIDs \union {NoUID}]
    BY <1>2 DEF UpdatePod, ManagerTypeOK
  <2>3. translationByUID' = [m \in UIDs |-> IF Translated(u, m) THEN target
                                            ELSE translationByUID[m]]
    BY <1>2 DEF UpdatePod
  <2>4. target \in PodUIDs \union {NoUID}
    BY DEF ManagerTypeOK
  <2>5. ASSUME NEW m \in PodUIDs
        PROVE  ~Translated(u, m)
    BY DEF Translated, ManagerTypeOK
  <2>6. /\ translationByUID' \in [UIDs -> PodUIDs \union {NoUID}]
        /\ \A v \in PodUIDs : translationByUID'[v] = NoUID
    <3> HIDE DEF target
    <3> QED
      BY <2>3, <2>4, <2>5 DEF ManagerTypeOK
  <2> QED
    BY <2>1, <2>2, <2>6 DEF ManagerTypeOK
<1> QED
  BY <1>1, <1>2

LEMMA UpdateTypes ==
  /\ NoPods \in Pods /\ NoUpdate \in PodUpdate
  /\ \A pods \in Pods, u \in UIDs : [pods EXCEPT ![u] = NoPod] \in Pods
<1>1. NoPods \in Pods
  BY DEF NoPods, Pods
<1>2. NoUpdate \in PodUpdate
  BY <1>1 DEF NoUpdate, PodUpdate
<1>3. ASSUME NEW pods \in Pods, NEW u \in UIDs
      PROVE  [pods EXCEPT ![u] = NoPod] \in Pods
  <2>1. pods \in [UIDs -> Pod \union {NoPod}]
    BY DEF Pods
  <2>2. [pods EXCEPT ![u] = NoPod] \in [UIDs -> Pod \union {NoPod}]
    BY <2>1
  <2> QED
    BY <2>2 DEF Pods
<1> QED
  BY <1>1, <1>2, <1>3

LEMMA MergeType ==
  ASSUME TypeOK, NEW source \in Sources, NEW op, NEW U \in SUBSET UIDs,
         Merge(source, op, U, world)
  PROVE  TypeOK'
<1>1. /\ storage' \in Pods /\ sourcesSeen' \subseteq Sources
      /\ outbox' \in Seq(PodUpdate)
      /\ merging' \in Sources \union {NoSource}
      /\ UNCHANGED <<worldVars, updates, runVars, managerVars>>
  BY MergeEffect DEF Delivers, TypeOK
<1> QED
  BY <1>1 DEF TypeOK, worldVars, runVars, managerVars, ManagerTypeOK

LEMMA HandleType ==
  ASSUME TypeOK, OnlyHandled, NEW u \in UIDs, HandlePod(u)
  PROVE  TypeOK' /\ OnlyHandled'
<1>1. handling \in PodUpdate /\ handling.pods \in Pods /\ handling.pods[u] \in Pod
  BY DEF TypeOK, HandlePod, Present, PodUpdate, Pods
<1>2. ManagerTypeOK'
  BY <1>1, ManagerStepType DEF TypeOK, HandlePod
<1>3. handling' \in PodUpdate
  <2>1. handling' = [handling EXCEPT !.pods = [handling.pods EXCEPT ![u] = NoPod]]
    BY DEF HandlePod
  <2> QED
    BY <1>1, <2>1, UpdateTypes DEF PodUpdate
<1>4. syncs' \in [UIDs -> {"none", "create", "update", "kill"}]
  BY DEF HandlePod, TypeOK, SyncPodType, OnlyHandled, Handled
<1>5. OnlyHandled'
  BY <1>1, <1>3 DEF HandlePod, OnlyHandled, PodUpdate
<1> QED
  BY <1>2, <1>3, <1>4, <1>5 DEF TypeOK, HandlePod, worldVars, storageVars

LEMMA InitType == Init => TypeOK /\ OnlyHandled
<1> SUFFICES ASSUME Init
             PROVE  TypeOK /\ OnlyHandled
  OBVIOUS
<1>1. ManagerTypeOK
  BY ManagerInitInv DEF Init, ManagerInv
<1>2. <<>> \in Seq(PodUpdate) /\ Len(<<>>) <= ChannelSize
  BY PodConfigAssumption
<1> QED
  BY <1>1, <1>2, UpdateTypes, PodConfigAssumption
     DEF Init, TypeOK, OnlyHandled, NoUpdate, NoPods, Present

LEMMA TypeInvariant == Spec => [](TypeOK /\ OnlyHandled)
<1>2. TypeOK /\ OnlyHandled /\ [Next]_vars => TypeOK' /\ OnlyHandled'
  <2> SUFFICES ASSUME TypeOK, OnlyHandled, [Next]_vars
               PROVE  TypeOK' /\ OnlyHandled'
    OBVIOUS
  <2> USE DEF worldVars, storageVars, runVars, managerVars
  <2>1. ASSUME NEW u \in UIDs, NEW pod \in Pod \union {NoPod}, Change(u, pod)
        PROVE  TypeOK'
    <3>1. world' \in Pods /\ changes' \in 0..MaxChanges /\ removed' \subseteq UIDs
      BY <2>1, PodConfigAssumption DEF Change, TypeOK, Pods
    <3> QED
      BY <2>1, <3>1 DEF Change, TypeOK, ManagerTypeOK
  <2>2. ASSUME NEW source \in Sources, Merging(source)
        PROVE  TypeOK'
    <3>1. CASE SetPodsOf(source)
      BY <3>1, MergeType DEF SetPodsOf, Present
    <3>2. ASSUME NEW op \in Operations, NEW U \in SUBSET UIDs,
                 ChangePodsOf(source, op, U)
          PROVE  TypeOK'
      BY <3>2, MergeType DEF ChangePodsOf
    <3> QED
      BY <2>2, <3>1, <3>2 DEF Merging
  <2>3. ASSUME Deliver
        PROVE  TypeOK'
    <3>1. /\ Head(outbox) \in PodUpdate /\ Tail(outbox) \in Seq(PodUpdate)
          /\ Append(updates, Head(outbox)) \in Seq(PodUpdate)
          /\ Len(Append(updates, Head(outbox))) <= ChannelSize
      BY <2>3, PodConfigAssumption DEF Deliver, TypeOK
    <3> QED
      BY <2>3, <3>1 DEF Deliver, TypeOK, ManagerTypeOK
  <2>4. ASSUME TakeUpdate
        PROVE  TypeOK' /\ OnlyHandled'
    <3>1. /\ Head(updates) \in PodUpdate /\ Tail(updates) \in Seq(PodUpdate)
          /\ Len(Tail(updates)) <= ChannelSize
      BY <2>4, PodConfigAssumption DEF TakeUpdate, TypeOK
    <3>2. handling' \in PodUpdate
      BY <2>4, <3>1, UpdateTypes DEF TakeUpdate
    <3>3. ready' \subseteq Sources
      BY <2>4, <3>1 DEF TakeUpdate, TypeOK, PodUpdate
    <3>4. OnlyHandled'
      BY <2>4 DEF TakeUpdate, OnlyHandled, NoUpdate, NoPods, Present
    <3> QED
      BY <2>4, <3>1, <3>2, <3>3, <3>4 DEF TakeUpdate, TypeOK, ManagerTypeOK
  <2>5. ASSUME NEW u \in UIDs, HandlePod(u)
        PROVE  TypeOK' /\ OnlyHandled'
    BY <2>5, HandleType
  <2>6. ASSUME Sync
        PROVE  TypeOK'
    <3>1. [op |-> "SET", pods |-> MergedState, source |-> NoSource] \in PodUpdate
      BY DEF TypeOK, MergedState, PodUpdate
    <3>2. /\ updates' \in Seq(PodUpdate) /\ Len(updates') <= ChannelSize
      BY <2>6, <3>1, PodConfigAssumption DEF Sync, TypeOK
    <3> QED
      BY <2>6, <3>2 DEF Sync, TypeOK, ManagerTypeOK
  <2>7. ASSUME UNCHANGED vars
        PROVE  TypeOK'
    BY <2>7 DEF vars, TypeOK, ManagerTypeOK
  <2>8. ASSUME UNCHANGED handling
        PROVE  OnlyHandled'
    BY <2>8 DEF OnlyHandled
  <2>9. ASSUME NEW source \in Sources, Merging(source)
        PROVE  UNCHANGED handling
    BY <2>9 DEF Merging, SetPodsOf, ChangePodsOf, Merge
  <2> QED
    BY <2>1, <2>2, <2>3, <2>4, <2>5, <2>6, <2>7, <2>8, <2>9
       DEF Next, Running, Discard, Create, Edit, Change, Deliver, Sync, vars
<1> QED
  BY InitType, <1>2, PTL DEF Spec

\* Merges, the Run loop and the sources keep every variable in its domain, and the
\* updates channel within its capacity.
THEOREM PodConfigTypeCorrect == Spec => []TypeOK
BY TypeInvariant, PTL

-----------------------------------------------------------------------------
(* How the queue moves *)

QueueFacts ==
  /\ Len(Queue) = 1 + Len(updates) + Len(outbox) /\ Len(Queue) \in Nat \ {0}
  /\ Len(updates) \in Nat /\ Len(outbox) \in Nat
  /\ Queue[1] = handling
  /\ \A i \in 1..Len(updates) : Queue[i + 1] = updates[i]
  /\ \A i \in 1..Len(outbox) : Queue[1 + Len(updates) + i] = outbox[i]
  /\ \A i \in 1..Len(Queue) : Queue[i] \in PodUpdate

LEMMA QueueIs == TypeOK => QueueFacts
<1> SUFFICES ASSUME TypeOK
             PROVE  QueueFacts
  OBVIOUS
<1>1. /\ handling \in PodUpdate /\ updates \in Seq(PodUpdate)
      /\ outbox \in Seq(PodUpdate)
  BY DEF TypeOK
<1>2. Queue \in Seq(PodUpdate)
  BY <1>1 DEF Queue
<1>3. /\ Len(Queue) = 1 + Len(updates) + Len(outbox)
      /\ Len(updates) \in Nat /\ Len(outbox) \in Nat
      /\ Queue[1] = handling
      /\ \A i \in 1..Len(updates) : Queue[i + 1] = updates[i]
      /\ \A i \in 1..Len(outbox) : Queue[1 + Len(updates) + i] = outbox[i]
  BY <1>1 DEF Queue
<1> QED
  BY <1>2, <1>3 DEF QueueFacts

LEMMA QueueIsNext == TypeOK' => QueueFacts'
BY QueueIs, PTL

LEMMA DeliverMoves ==
  ASSUME TypeOK, TypeOK', Deliver
  PROVE  Queue' = Queue
<1>1. /\ handling \in PodUpdate /\ updates \in Seq(PodUpdate)
      /\ outbox \in Seq(PodUpdate) /\ outbox # <<>>
  BY DEF TypeOK, Deliver
<1>2. <<Head(outbox)>> \o Tail(outbox) = outbox
  BY <1>1
<1>3. Append(updates, Head(outbox)) = updates \o <<Head(outbox)>>
  BY <1>1
<1>4. /\ <<handling>> \in Seq(PodUpdate) /\ <<Head(outbox)>> \in Seq(PodUpdate)
      /\ Tail(outbox) \in Seq(PodUpdate)
  BY <1>1
<1>5. \A a, b, c, d \in Seq(PodUpdate) : (a \o (b \o c)) \o d = (a \o b) \o (c \o d)
  OBVIOUS
<1>6. (<<handling>> \o (updates \o <<Head(outbox)>>)) \o Tail(outbox)
        = (<<handling>> \o updates) \o (<<Head(outbox)>> \o Tail(outbox))
  BY <1>1, <1>4, <1>5
<1>7. handling' = handling /\ updates' = Append(updates, Head(outbox))
      /\ outbox' = Tail(outbox)
  BY DEF Deliver, runVars
<1> QED
  BY <1>2, <1>3, <1>6, <1>7 DEF Queue

\* A notice that Run has no case for tells of no pod.
LEMMA OnlyHandledTell ==
  ASSUME NEW notice, NEW u \in UIDs, Tells(notice, u)
  PROVE  notice.op \in Handled /\ u \in Present(notice.pods) /\ notice # NoUpdate
<1>1. NoUpdate.op = "SET"
  BY DEF NoUpdate
<1> QED
  BY <1>1 DEF Tells, Handled, Present

LEMMA TakeMoves ==
  ASSUME TypeOK, TypeOK', TakeUpdate
  PROVE  /\ Len(Queue) = Len(Queue') + 1
         /\ \A i \in 2..Len(Queue') : Queue'[i] = Queue[i + 1]
         /\ \A u \in UIDs : ~Tells(Queue[1], u)
         /\ \A i \in 1..Len(Queue'), u \in UIDs :
              /\ Tells(Queue'[i], u) <=> Tells(Queue[i + 1], u)
              /\ Tells(Queue'[i], u) => Queue'[i] = Queue[i + 1]
<1>1. /\ updates' = Tail(updates) /\ updates # <<>> /\ outbox' = outbox
      /\ handling' = IF Head(updates).op \in Handled THEN Head(updates) ELSE NoUpdate
      /\ Present(handling.pods) = {}
  BY DEF TakeUpdate, storageVars
<1>2. /\ updates \in Seq(PodUpdate) /\ Len(updates') = Len(updates) - 1
      /\ Len(updates) \in Nat \ {0} /\ Head(updates) = updates[1]
      /\ \A i \in 1..Len(updates') : updates'[i] = updates[i + 1]
  BY <1>1 DEF TypeOK
<1>3. /\ Len(Queue) = 1 + Len(updates) + Len(outbox)
      /\ Queue[1] = handling
      /\ \A i \in 1..Len(updates) : Queue[i + 1] = updates[i]
      /\ \A i \in 1..Len(outbox) : Queue[1 + Len(updates) + i] = outbox[i]
      /\ Len(outbox) \in Nat
  BY QueueIs DEF QueueFacts
<1>4. /\ Len(Queue') = 1 + Len(updates') + Len(outbox)
      /\ Queue'[1] = handling'
      /\ \A i \in 1..Len(updates') : Queue'[i + 1] = updates'[i]
      /\ \A i \in 1..Len(outbox) : Queue'[1 + Len(updates') + i] = outbox[i]
  <2>1. /\ Len(Queue') = 1 + Len(updates') + Len(outbox')
        /\ Queue'[1] = handling'
        /\ \A i \in 1..Len(updates') : Queue'[i + 1] = updates'[i]
        /\ \A i \in 1..Len(outbox') : Queue'[1 + Len(updates') + i] = outbox'[i]
    BY QueueIsNext DEF QueueFacts
  <2> QED
    BY <1>1, <2>1
<1>5. Len(Queue) = Len(Queue') + 1
  BY <1>2, <1>3, <1>4
<1>6. ASSUME NEW i \in 2..Len(Queue')
      PROVE  Queue'[i] = Queue[i + 1]
  <2>1. CASE i - 1 \in 1..Len(updates')
    <3>1. Queue'[(i - 1) + 1] = updates'[i - 1] /\ updates'[i - 1] = updates[(i - 1) + 1]
      BY <2>1, <1>2, <1>4
    <3>2. Queue[i + 1] = updates[i] /\ (i - 1) + 1 = i
      BY <2>1, <1>2, <1>3
    <3> QED
      BY <3>1, <3>2
  <2>2. CASE i - 1 \notin 1..Len(updates')
    <3> DEFINE j == i - 1 - Len(updates')
    <3>1. j \in 1..Len(outbox) /\ i = 1 + Len(updates') + j /\ i + 1 = 1 + Len(updates) + j
      BY <2>2, <1>2, <1>3, <1>4
    <3> HIDE DEF j
    <3> QED
      BY <3>1, <1>3, <1>4
  <2> QED
    BY <2>1, <2>2
<1>7. ASSUME NEW u \in UIDs
      PROVE  /\ ~Tells(Queue[1], u)
             /\ Tells(Queue'[1], u) <=> Tells(Queue[2], u)
             /\ Tells(Queue'[1], u) => Queue'[1] = Queue[2]
  <2>1. Queue[1 + 1] = updates[1] /\ 1 + 1 = 2
    BY <1>2, <1>3
  <2> QED
    BY <2>1, <1>1, <1>2, <1>3, <1>4, OnlyHandledTell
<1> QED
  <2>1. \A i \in 1..Len(Queue') : i = 1 \/ i \in 2..Len(Queue')
    BY <1>2, <1>3, <1>4
  <2>2. 1 + 1 = 2
    OBVIOUS
  <2> QED
    BY <1>5, <1>6, <1>7, <2>1, <2>2

LEMMA SyncMoves ==
  ASSUME TypeOK, TypeOK', LockFree, Sync
  PROVE  /\ Len(Queue') = Len(Queue) + 1
         /\ \A i \in 1..Len(Queue) : Queue'[i] = Queue[i]
         /\ Queue'[Len(Queue')].op = "SET"
<1>1. /\ updates' = Append(updates, [op |-> "SET", pods |-> storage, source |-> NoSource])
      /\ outbox = <<>> /\ outbox' = outbox /\ handling' = handling
  BY DEF Sync, MergedState, LockFree, storageVars, runVars
<1>2. /\ updates \in Seq(PodUpdate) /\ Len(outbox) = 0 /\ Len(updates) \in Nat
      /\ [op |-> "SET", pods |-> storage, source |-> NoSource] \in PodUpdate
  BY <1>1 DEF TypeOK, PodUpdate
<1>3. /\ Len(updates') = Len(updates) + 1
      /\ updates'[Len(updates')].op = "SET"
      /\ \A i \in 1..Len(updates) : updates'[i] = updates[i]
  BY <1>1, <1>2
<1>4. /\ Len(Queue) = 1 + Len(updates) /\ Len(Queue') = 1 + Len(updates')
      /\ Queue[1] = handling /\ Queue'[1] = handling
      /\ \A i \in 1..Len(updates) : Queue[i + 1] = updates[i]
      /\ \A i \in 1..Len(updates') : Queue'[i + 1] = updates'[i]
  BY <1>1, <1>2, <1>3, QueueIs, QueueIsNext DEF QueueFacts
<1>5. ASSUME NEW i \in 1..Len(Queue)
      PROVE  Queue'[i] = Queue[i]
  <2>1. CASE i = 1
    BY <2>1, <1>4
  <2>2. CASE i # 1
    <3>1. i - 1 \in 1..Len(updates) /\ i - 1 \in 1..Len(updates') /\ (i - 1) + 1 = i
      BY <2>2, <1>2, <1>3, <1>4
    <3> QED
      BY <3>1, <1>3, <1>4
  <2> QED
    BY <2>1, <2>2
<1>6. Queue'[Len(Queue')].op = "SET"
  <2>1. Len(updates') \in 1..Len(updates') /\ Len(Queue') = Len(updates') + 1
    BY <1>2, <1>3, <1>4
  <2> QED
    BY <2>1, <1>3, <1>4
<1> QED
  BY <1>2, <1>3, <1>4, <1>5, <1>6

LEMMA HandleMoves ==
  ASSUME TypeOK, TypeOK', OnlyHandled, NEW u \in UIDs, HandlePod(u)
  PROVE  /\ Len(Queue') = Len(Queue)
         /\ \A i \in 2..Len(Queue) : Queue'[i] = Queue[i]
         /\ Tells(Queue[1], u) /\ ~Tells(Queue'[1], u)
         /\ \A v \in UIDs \ {u} :
              /\ Tells(Queue'[1], v) <=> Tells(Queue[1], v)
              /\ Told(Queue'[1], v) = Told(Queue[1], v)
         /\ Queue'[1].op = Queue[1].op
         /\ \A v \in UIDs : podByUID'[v] = IF v = u THEN Told(Queue[1], u)
                                           ELSE podByUID[v]
         /\ syncs' = [syncs EXCEPT ![u] = SyncPodType[Queue[1].op]]
<1>1. /\ handling \in PodUpdate /\ handling.pods \in [UIDs -> Pod \union {NoPod}]
      /\ u \in Present(handling.pods)
      /\ handling.op \in Handled
      /\ handling' = [handling EXCEPT !.pods[u] = NoPod]
      /\ updates' = updates /\ outbox' = outbox
      /\ podByUID \in [UIDs -> Pod \union {NoPod}]
  BY DEF TypeOK, ManagerTypeOK, HandlePod, PodUpdate, Pods, OnlyHandled, storageVars
<1>2. handling' = [handling EXCEPT !.pods = [handling.pods EXCEPT ![u] = NoPod]]
  BY <1>1
<1>3. /\ handling'.op = handling.op
      /\ handling'.pods = [handling.pods EXCEPT ![u] = NoPod]
  BY <1>1, <1>2 DEF PodUpdate
<1>4. \A v \in UIDs : handling'.pods[v] = IF v = u THEN NoPod ELSE handling.pods[v]
  BY <1>1, <1>3
<1>5. /\ Len(Queue') = Len(Queue) /\ Queue[1] = handling /\ Queue'[1] = handling'
      /\ \A i \in 2..Len(Queue) : Queue'[i] = Queue[i]
  <2>1. /\ Len(Queue) = 1 + Len(updates) + Len(outbox)
        /\ Len(Queue') = 1 + Len(updates) + Len(outbox)
        /\ Len(updates) \in Nat /\ Len(outbox) \in Nat
        /\ Queue[1] = handling /\ Queue'[1] = handling'
        /\ \A i \in 1..Len(updates) : Queue[i + 1] = updates[i]
        /\ \A i \in 1..Len(updates) : Queue'[i + 1] = updates[i]
        /\ \A i \in 1..Len(outbox) : Queue[1 + Len(updates) + i] = outbox[i]
        /\ \A i \in 1..Len(outbox) : Queue'[1 + Len(updates) + i] = outbox[i]
    BY <1>1, QueueIs, QueueIsNext DEF QueueFacts
  <2>2. ASSUME NEW i \in 2..Len(Queue)
        PROVE  Queue'[i] = Queue[i]
    <3>1. CASE i - 1 \in 1..Len(updates)
      <4>1. Queue[(i - 1) + 1] = updates[i - 1] /\ Queue'[(i - 1) + 1] = updates[i - 1]
        BY <3>1, <2>1
      <4> QED
        BY <4>1, <2>1
    <3>2. CASE i - 1 \notin 1..Len(updates)
      <4> DEFINE j == i - 1 - Len(updates)
      <4>1. j \in 1..Len(outbox) /\ i = 1 + Len(updates) + j
        BY <3>2, <2>1
      <4> HIDE DEF j
      <4> QED
        BY <4>1, <2>1
    <3> QED
      BY <3>1, <3>2
  <2> QED
    BY <2>1, <2>2
<1>6. podByUID' = [podByUID EXCEPT ![u] = Told(handling, u)]
  BY DEF HandlePod, DeletePod, UpdatePod, Told
<1>7. Tells(handling, u)
  BY <1>1 DEF Tells, Handled, Present
<1>8. /\ ~Tells(handling', u)
      /\ \A v \in UIDs \ {u} : /\ Tells(handling', v) <=> Tells(handling, v)
                               /\ Told(handling', v) = Told(handling, v)
  BY <1>3, <1>4 DEF Tells, Told
<1>9. syncs' = [syncs EXCEPT ![u] = SyncPodType[handling.op]]
  BY DEF HandlePod
<1> QED
  BY <1>1, <1>3, <1>5, <1>6, <1>7, <1>8, <1>9

\* What a Merge means for the rest: the pods of C come in from the source, those of R
\* go, and first tells whether it is the first SET of the source.
Merged(source, first, C, R) ==
  /\ C \subseteq Present(world) /\ R \subseteq Present(storage) /\ R \intersect C = {}
  /\ \A u \in C \union R : SourceOf[u] = source
  /\ \A u, v \in C : NameOf[u] = NameOf[v] => u = v
  /\ \A u \in C, v \in UIDs \ R :
       u # v /\ NameOf[u] = NameOf[v] /\ SourceOf[v] = source => storage[v] = NoPod
  /\ \A u \in R : Lonely(u) => world[u] = NoPod \/ u \in removed
  /\ merging = NoSource
  /\ \A u \in UIDs : storage'[u] = IF u \in R THEN NoPod
                                   ELSE IF u \in C THEN world[u] ELSE storage[u]
  /\ sourcesSeen' \subseteq sourcesSeen \union (IF first THEN {source} ELSE {})
  /\ Delivers(outbox', [o \in Ops |-> Notice(o, source, world, C, R)],
              Sent(world, C, R, first), Ops)
  /\ merging' = IF outbox' = <<>> THEN NoSource ELSE source
  /\ UNCHANGED <<worldVars, updates, runVars, managerVars>>

LEMMA MergingIsMerged ==
  ASSUME TypeOK, NEW source \in Sources, Merging(source)
  PROVE  \E first \in BOOLEAN, C, R \in SUBSET UIDs : Merged(source, first, C, R)
<1>1. PICK op \in {"SET"} \union Operations, U \in SUBSET UIDs :
        /\ Merge(source, op, U, world)
        /\ op = "SET" => U = {u \in Present(world) : SourceOf[u] = source}
        /\ op # "SET" => /\ \A u \in U : SourceOf[u] = source
                         /\ IF op = "REMOVE" THEN U \subseteq removed
                            ELSE /\ U \subseteq Present(world)
                                 /\ \A u \in U : Namesakes(storage, u) = {}
  <2>1. CASE SetPodsOf(source)
    BY <2>1 DEF SetPodsOf, Present
  <2>2. CASE \E op \in Operations, U \in SUBSET UIDs : ChangePodsOf(source, op, U)
    BY <2>2 DEF ChangePodsOf
  <2> QED
    BY <2>1, <2>2 DEF Merging
<1>2. PICK S \in UniqueNames(U) :
        LET R == Leaving(source, op, U, S)
            C == Coming(op, S)
        IN  /\ S \subseteq U /\ R \subseteq UIDs /\ C \subseteq UIDs
            /\ R \intersect C = {}
            /\ \A u \in R : storage[u] # NoPod /\ SourceOf[u] = source
            /\ merging = NoSource
            /\ storage' \in Pods
            /\ \A u \in UIDs : storage'[u] = IF u \in R THEN NoPod
                                             ELSE IF u \in C THEN world[u]
                                             ELSE storage[u]
            /\ sourcesSeen' = IF op = "SET" THEN sourcesSeen \union {source}
                              ELSE sourcesSeen
            /\ Delivers(outbox', [o \in Ops |-> Notice(o, source, world, C, R)],
                        Sent(world, C, R, FirstSet(source, op)), Ops)
            /\ merging' = IF outbox' = <<>> THEN NoSource ELSE source
            /\ UNCHANGED <<worldVars, updates, runVars, managerVars>>
  BY <1>1, MergeEffect
<1> DEFINE R == Leaving(source, op, U, S)
           C == Coming(op, S)
           first == FirstSet(source, op)
<1>3. /\ \A u, v \in S : NameOf[u] = NameOf[v] => u = v
      /\ \A u \in U : \E v \in S : NameOf[v] = NameOf[u]
      /\ S \subseteq U
  BY <1>2 DEF UniqueNames
<1>4. /\ op # "REMOVE" => C = S
      /\ op = "REMOVE" => C = {} /\ R \subseteq U
      /\ op = "SET" => R = Stored(source) \ S
      /\ op \notin {"SET", "REMOVE"} => R = {}
  BY DEF Leaving, Coming
<1>5. C \subseteq Present(world) /\ \A u \in C : SourceOf[u] = source
  BY <1>1, <1>3, <1>4
<1>6. R \subseteq Present(storage)
  BY <1>2 DEF Present
<1>7. ASSUME NEW u \in C, NEW v \in UIDs \ R, u # v, NameOf[u] = NameOf[v],
             SourceOf[v] = source
      PROVE  storage[v] = NoPod
  <2>1. u \in S /\ u \in U
    BY <1>3, <1>4
  <2>2. v \notin S
    BY <2>1, <1>3, <1>7
  <2>3. CASE op = "SET"
    BY <2>2, <2>3, <1>4, <1>7 DEF Stored, Present
  <2>4. CASE op # "SET"
    <3>1. Namesakes(storage, u) = {} /\ SourceOf[u] = source
      BY <2>1, <2>4, <1>1, <1>4
    <3> QED
      BY <3>1, <1>7 DEF Namesakes, Present
  <2> QED
    BY <2>3, <2>4
<1>8. ASSUME NEW u \in R, Lonely(u)
      PROVE  world[u] = NoPod \/ u \in removed
  <2>1. SourceOf[u] = source /\ u \in UIDs
    BY <1>2
  <2>2. CASE op = "SET"
    <3>1. u \notin S
      BY <2>2, <1>4
    <3>2. ASSUME u \in U
          PROVE  FALSE
      <4>1. PICK v \in S : NameOf[v] = NameOf[u]
        BY <3>2, <1>3
      <4>2. v \in UIDs /\ SourceOf[v] = source
        BY <4>1, <1>1, <1>3, <2>2
      <4> QED
        BY <4>1, <4>2, <3>1, <2>1, <1>8 DEF Lonely
    <3> QED
      BY <3>2, <2>1, <2>2, <1>1 DEF Present
  <2>3. CASE op # "SET"
    BY <2>3, <1>1, <1>4
  <2> QED
    BY <2>2, <2>3
<1>9. sourcesSeen' \subseteq sourcesSeen \union (IF first THEN {source} ELSE {})
  BY <1>2 DEF FirstSet
<1>10. first \in BOOLEAN
  BY DEF FirstSet
<1>11. \A u \in C \union R : SourceOf[u] = source
  BY <1>2, <1>5
<1>12. \A u, v \in C : NameOf[u] = NameOf[v] => u = v
  BY <1>3, <1>4
<1>13. /\ R \intersect C = {} /\ merging = NoSource
       /\ \A u \in UIDs : storage'[u] = IF u \in R THEN NoPod
                                        ELSE IF u \in C THEN world[u] ELSE storage[u]
       /\ Delivers(outbox', [o \in Ops |-> Notice(o, source, world, C, R)],
                   Sent(world, C, R, first), Ops)
       /\ merging' = IF outbox' = <<>> THEN NoSource ELSE source
       /\ UNCHANGED <<worldVars, updates, runVars, managerVars>>
       /\ R \subseteq UIDs /\ C \subseteq UIDs
  BY <1>2
<1> HIDE DEF R, C, first
<1>14. Merged(source, first, C, R)
  BY <1>5, <1>6, <1>7, <1>8, <1>9, <1>11, <1>12, <1>13 DEF Merged
<1> QED
  BY <1>10, <1>13, <1>14

LEMMA OperationIs ==
  ASSUME NEW existing, NEW ref
  PROVE  /\ (Operation(existing, ref) = "ADD") <=> (existing = NoPod)
         /\ Operation(existing, ref) # "REMOVE"
         /\ existing # NoPod /\ Operation(existing, ref) \notin {"UPDATE", "DELETE"} =>
              ~Differ(existing, ref)
         /\ Operation(existing, ref) \in {"ADD", "UPDATE", "DELETE", "RECONCILE", "none"}
<1>1. CASE existing = NoPod
  <2>1. Operation(existing, ref) = "ADD"
    BY <1>1 DEF Operation
  <2> QED
    BY <1>1, <2>1
<1>2. CASE existing # NoPod /\ Differ(existing, ref)
  <2>1. Operation(existing, ref) = IF ref.deleting THEN "DELETE" ELSE "UPDATE"
    BY <1>2 DEF Operation
  <2> QED
    BY <1>2, <2>1
<1>3. CASE existing # NoPod /\ ~Differ(existing, ref)
  <2>1. Operation(existing, ref) =
          IF existing.status # ref.status THEN "RECONCILE" ELSE "none"
    BY <1>3 DEF Operation
  <2> QED
    BY <1>3, <2>1
<1> QED
  BY <1>1, <1>2, <1>3

\* The pods that a Merge tells the kubelet of
Telling(C) == {u \in C : Operation(storage[u], world[u]) \in {"ADD", "UPDATE", "DELETE"}}

\* What the notices of a Merge tell
Tellings(source, first, C, R) ==
  /\ Len(Queue') \in Nat /\ Len(Queue) <= Len(Queue')
  /\ \A i \in 1..Len(Queue) : Queue'[i] = Queue[i]
  /\ \A k \in (Len(Queue) + 1)..Len(Queue'), u \in UIDs :
       /\ Queue'[k].op = "REMOVE" => (Tells(Queue'[k], u) <=> u \in R)
       /\ Queue'[k].op # "REMOVE" => (Tells(Queue'[k], u) <=>
            (u \in Telling(C) /\ Operation(storage[u], world[u]) = Queue'[k].op))
       /\ Tells(Queue'[k], u) /\ Queue'[k].op # "REMOVE" => Queue'[k].pods[u] = world[u]
  /\ \A i, j \in (Len(Queue) + 1)..Len(Queue') : Queue'[i].op = Queue'[j].op => i = j
  /\ R # {} => /\ Len(Queue) + 1 <= Len(Queue')
               /\ Queue'[Len(Queue) + 1].op = "REMOVE"
  /\ \A u \in Telling(C) : \E k \in (Len(Queue) + 1)..Len(Queue') :
       Queue'[k].op = Operation(storage[u], world[u])
  /\ \A k \in (Len(Queue) + 1)..Len(Queue') : Queue'[k].source = source
  /\ first => Len(Queue) < Len(Queue')

LEMMA MergedTells ==
  ASSUME TypeOK, TypeOK', LockFree, NEW source \in Sources, NEW first \in BOOLEAN,
         NEW C \in SUBSET UIDs, NEW R \in SUBSET UIDs, Merged(source, first, C, R)
  PROVE  Tellings(source, first, C, R)
<1> DEFINE L == Len(Queue)
           f == [o \in Ops |-> Notice(o, source, world, C, R)]
           sent == Sent(world, C, R, first)
<1>1. /\ merging = NoSource /\ updates' = updates /\ handling' = handling
      /\ Delivers(outbox', f, sent, Ops)
      /\ storage \in Pods /\ world \in Pods
      /\ C \subseteq Present(world) /\ R \subseteq Present(storage)
  BY DEF Merged, runVars, TypeOK
<1>2. outbox = <<>>
  BY <1>1 DEF LockFree
<1>3. /\ Len(Queue') = L + Len(outbox') /\ L = 1 + Len(updates)
      /\ Len(updates) \in Nat /\ Len(outbox') \in Nat
      /\ Queue'[1] = Queue[1]
      /\ \A i \in 1..Len(updates) : Queue'[i + 1] = Queue[i + 1]
      /\ \A i \in 1..Len(outbox') : Queue'[1 + Len(updates) + i] = outbox'[i]
  <2>1. /\ L = 1 + Len(updates) + Len(outbox) /\ Len(updates) \in Nat
        /\ Queue[1] = handling
        /\ \A i \in 1..Len(updates) : Queue[i + 1] = updates[i]
    BY QueueIs DEF QueueFacts
  <2>2. /\ Len(Queue') = 1 + Len(updates) + Len(outbox') /\ Len(outbox') \in Nat
        /\ Queue'[1] = handling
        /\ \A i \in 1..Len(updates) : Queue'[i + 1] = updates[i]
        /\ \A i \in 1..Len(outbox') : Queue'[1 + Len(updates) + i] = outbox'[i]
    BY <1>1, QueueIsNext DEF QueueFacts
  <2>3. Len(outbox) = 0
    BY <1>2
  <2> QED
    BY <2>1, <2>2, <2>3
<1>4. \A i \in 1..L : Queue'[i] = Queue[i]
  <2> SUFFICES ASSUME NEW i \in 1..L
               PROVE  Queue'[i] = Queue[i]
    OBVIOUS
  <2>1. CASE i = 1
    BY <2>1, <1>3
  <2>2. CASE i # 1
    <3>1. i - 1 \in 1..Len(updates) /\ (i - 1) + 1 = i
      BY <2>2, <1>3
    <3> QED
      BY <3>1, <1>3
  <2> QED
    BY <2>1, <2>2
<1> HIDE DEF L, f, sent
<1>5. \A j \in 1..Len(outbox') : Queue'[L + j] = outbox'[j]
  BY <1>3
<1>6. \A k \in (L + 1)..Len(Queue') :
        k - L \in 1..Len(outbox') /\ Queue'[k] = outbox'[k - L]
  <2> SUFFICES ASSUME NEW k \in (L + 1)..Len(Queue')
               PROVE  k - L \in 1..Len(outbox') /\ Queue'[k] = outbox'[k - L]
    OBVIOUS
  <2>1. k - L \in 1..Len(outbox') /\ L + (k - L) = k
    BY <1>3
  <2> QED
    BY <2>1, <1>5
<1>7. ASSUME NEW k \in (L + 1)..Len(Queue')
      PROVE  /\ Queue'[k].op \in Ops \intersect sent
             /\ Queue'[k] = Notice(Queue'[k].op, source, world, C, R)
  <2>1. /\ Queue'[k].op \in Ops \intersect sent
        /\ Queue'[k] = f[Queue'[k].op]
    BY <1>1, <1>6 DEF Delivers
  <2> QED
    BY <2>1 DEF f
<1>8. \A k \in (L + 1)..Len(Queue'), u \in UIDs :
        /\ Queue'[k].op = "REMOVE" => (Tells(Queue'[k], u) <=> u \in R)
        /\ Queue'[k].op # "REMOVE" => (Tells(Queue'[k], u) <=>
             (u \in Telling(C) /\ Operation(storage[u], world[u]) = Queue'[k].op))
        /\ Tells(Queue'[k], u) /\ Queue'[k].op # "REMOVE" => Queue'[k].pods[u] = world[u]
  <2> SUFFICES ASSUME NEW k \in (L + 1)..Len(Queue'), NEW u \in UIDs
               PROVE  /\ Queue'[k].op = "REMOVE" => (Tells(Queue'[k], u) <=> u \in R)
                      /\ Queue'[k].op # "REMOVE" => (Tells(Queue'[k], u) <=>
                           (u \in Telling(C)
                              /\ Operation(storage[u], world[u]) = Queue'[k].op))
                      /\ Tells(Queue'[k], u) /\ Queue'[k].op # "REMOVE" =>
                           Queue'[k].pods[u] = world[u]
    OBVIOUS
  <2> DEFINE op == Queue'[k].op
             n == Queue'[k]
  <2>1. op \in Ops /\ n = Notice(op, source, world, C, R)
    BY <1>7
  <2>2. n.op = op /\ n.pods[u] = IF u \notin Concerned(op, world, C, R) THEN NoPod
                                 ELSE IF op = "REMOVE" THEN storage[u] ELSE world[u]
    <3> HIDE DEF op
    <3> QED
      BY <2>1, <1>1, NoticeTypes
  <2>3. u \in C => world[u] # NoPod
    BY <1>1 DEF Present
  <2>4. u \in R => storage[u] # NoPod
    BY <1>1 DEF Present
  <2>5. Concerned(op, world, C, R) =
          IF op = "REMOVE" THEN R ELSE {v \in C : Operation(storage[v], world[v]) = op}
    BY DEF Concerned
  <2> HIDE DEF op, n
  <2>6. CASE op = "REMOVE"
    <3>1. Tells(n, u) <=> u \in R
      BY <2>2, <2>4, <2>5, <2>6 DEF Tells
    <3> QED
      BY <3>1, <2>6 DEF op, n
  <2>7. CASE op # "REMOVE"
    <3>1. u \in C /\ Operation(storage[u], world[u]) = op =>
            n.pods[u] = world[u] /\ world[u] # NoPod
      BY <2>2, <2>3, <2>5, <2>7
    <3>2. ~(u \in C /\ Operation(storage[u], world[u]) = op) => n.pods[u] = NoPod
      BY <2>2, <2>5, <2>7
    <3>3. Tells(n, u) <=> (u \in Telling(C) /\ Operation(storage[u], world[u]) = op)
      BY <3>1, <3>2, <2>1, <2>2, <2>7 DEF Tells, Telling, Ops
    <3>4. Tells(n, u) => n.pods[u] = world[u]
      BY <3>1, <3>3 DEF Telling
    <3> QED
      BY <3>3, <3>4, <2>7 DEF op, n
  <2> QED
    BY <2>6, <2>7
<1>9. \A i, j \in (L + 1)..Len(Queue') : Queue'[i].op = Queue'[j].op => i = j
  <2> SUFFICES ASSUME NEW i \in (L + 1)..Len(Queue'), NEW j \in (L + 1)..Len(Queue'),
                      Queue'[i].op = Queue'[j].op
               PROVE  i = j
    OBVIOUS
  <2>1. i - L = j - L
    BY <1>1, <1>6 DEF Delivers
  <2> QED
    BY <2>1, <1>3
<1>10. ASSUME NEW op \in Ops, op \in sent
       PROVE  \E k \in (L + 1)..Len(Queue') : Queue'[k].op = op
  <2>1. PICK j \in 1..Len(outbox') : outbox'[j].op = op
    BY <1>1, <1>10 DEF Delivers
  <2>2. L + j \in (L + 1)..Len(Queue') /\ Queue'[L + j] = outbox'[j]
    BY <1>3, <1>5
  <2> QED
    BY <2>1, <2>2
<1>11. ASSUME R # {}
       PROVE  L + 1 <= Len(Queue') /\ Queue'[L + 1].op = "REMOVE"
  <2>1. "REMOVE" \in Ops \intersect sent
    BY <1>11 DEF Ops, sent, Sent, Concerned
  <2>2. 1 \in 1..Len(outbox') /\ outbox'[1].op = "REMOVE"
    <3>1. PICK j \in 1..Len(outbox') : outbox'[j].op = "REMOVE"
      BY <2>1, <1>1 DEF Delivers
    <3>2. 1 \in 1..Len(outbox')
      BY <3>1, <1>3
    <3> QED
      BY <3>2, <2>1, <1>1 DEF Delivers
  <2> QED
    BY <2>2, <1>3, <1>5
<1>12. ASSUME NEW u \in Telling(C)
       PROVE  \E k \in (L + 1)..Len(Queue') :
                Queue'[k].op = Operation(storage[u], world[u])
  <2>1. u \in C /\ Operation(storage[u], world[u]) \in {"ADD", "UPDATE", "DELETE"}
    BY DEF Telling
  <2>2. Operation(storage[u], world[u]) \in Ops
    BY <2>1 DEF Ops
  <2>3. Concerned(Operation(storage[u], world[u]), world, C, R) # {}
    BY <2>1 DEF Concerned
  <2>4. Operation(storage[u], world[u]) \in sent
    BY <2>2, <2>3 DEF sent, Sent
  <2> QED
    BY <2>2, <2>4, <1>10
<1>13. \A k \in (L + 1)..Len(Queue') : Queue'[k].source = source
  BY <1>7, <1>1, NoticeTypes
<1>14. ASSUME first
       PROVE  L < Len(Queue')
  <2>1. \E op \in Ops : op \in sent
    BY <1>14 DEF sent, Sent, Ops
  <2> QED
    BY <2>1, <1>3, <1>10
<1>15. Len(Queue') \in Nat /\ L <= Len(Queue')
  BY <1>3
<1> QED
  BY <1>4, <1>8, <1>9, <1>11, <1>12, <1>13, <1>14, <1>15, Zenon
     DEF L, Tellings

-----------------------------------------------------------------------------
(* The pod at the end of the queue, from step to step *)

\* The queue has lost its first notice, which did not tell of the pod.
LEMMA ShorterQueue ==
  ASSUME NEW p, NEW q, NEW r, NEW u, NEW k \in Nat, ~Tells(q[1], u),
         \A i \in 1..k : /\ Tells(r[i], u) <=> Tells(q[i + 1], u)
                         /\ Tells(r[i], u) => r[i] = q[i + 1]
  PROVE  PodAfter(p, r, k, u) = PodAfter(p, q, k + 1, u)
<1>1. CASE \A j \in 1..k : ~Tells(r[j], u)
  <2>1. ASSUME NEW j \in 1..(k + 1)
        PROVE  ~Tells(q[j], u)
    <3>1. CASE j = 1
      BY <3>1
    <3>2. CASE j # 1
      <4>1. j - 1 \in 1..k /\ (j - 1) + 1 = j
        BY <3>2
      <4> QED
        BY <4>1, <1>1
    <3> QED
      BY <3>1, <3>2
  <2> QED
    BY <1>1, <2>1, NoneTells
<1>2. ASSUME NEW i \in 1..k, Tells(r[i], u), \A j \in (i + 1)..k : ~Tells(r[j], u)
      PROVE  PodAfter(p, r, k, u) = PodAfter(p, q, k + 1, u)
  <2>1. i + 1 \in 1..(k + 1) /\ Tells(q[i + 1], u) /\ r[i] = q[i + 1]
    BY <1>2
  <2>2. ASSUME NEW j \in ((i + 1) + 1)..(k + 1)
        PROVE  ~Tells(q[j], u)
    <3>1. j - 1 \in (i + 1)..k /\ j - 1 \in 1..k /\ (j - 1) + 1 = j
      OBVIOUS
    <3> QED
      BY <3>1, <1>2
  <2>3. PodAfter(p, r, k, u) = Told(r[i], u)
    BY <1>2, LastTells
  <2>4. PodAfter(p, q, k + 1, u) = Told(q[i + 1], u)
    BY <2>1, <2>2, LastTells
  <2> QED
    BY <2>1, <2>3, <2>4
<1> QED
  BY <1>1, <1>2, TellsOrNot

\* The first notice has been handled for the pod.
LEMMA HandledQueue ==
  ASSUME NEW p, NEW pp, NEW q, NEW r, NEW u, NEW k \in Nat, k > 0,
         Tells(q[1], u), ~Tells(r[1], u), pp[u] = Told(q[1], u),
         \A i \in 2..k : r[i] = q[i]
  PROVE  PodAfter(pp, r, k, u) = PodAfter(p, q, k, u)
<1>1. CASE \A j \in 1..k : ~Tells(r[j], u)
  <2>1. \A j \in (1 + 1)..k : ~Tells(q[j], u)
    BY <1>1
  <2>2. PodAfter(p, q, k, u) = Told(q[1], u)
    BY <2>1, LastTells
  <2> QED
    BY <1>1, <2>2, NoneTells
<1>2. ASSUME NEW i \in 1..k, Tells(r[i], u), \A j \in (i + 1)..k : ~Tells(r[j], u)
      PROVE  PodAfter(pp, r, k, u) = PodAfter(p, q, k, u)
  <2>1. i \in 2..k /\ r[i] = q[i] /\ \A j \in (i + 1)..k : ~Tells(q[j], u)
    BY <1>2
  <2>2. PodAfter(pp, r, k, u) = Told(r[i], u)
    BY <1>2, LastTells
  <2>3. PodAfter(p, q, k, u) = Told(q[i], u)
    BY <1>2, <2>1, LastTells
  <2> QED
    BY <2>1, <2>2, <2>3
<1> QED
  BY <1>1, <1>2, TellsOrNot

LEMMA TakeAfter ==
  ASSUME TypeOK, TypeOK', TakeUpdate
  PROVE  \A k \in 0..Len(Queue'), u \in UIDs :
           PodAfter(podByUID', Queue', k, u) = PodAfter(podByUID, Queue, k + 1, u)
<1> SUFFICES ASSUME NEW k \in 0..Len(Queue'), NEW u \in UIDs
             PROVE  PodAfter(podByUID', Queue', k, u) = PodAfter(podByUID, Queue, k + 1, u)
  OBVIOUS
<1>1. /\ ~Tells(Queue[1], u)
      /\ \A i \in 1..Len(Queue') : /\ Tells(Queue'[i], u) <=> Tells(Queue[i + 1], u)
                                   /\ Tells(Queue'[i], u) => Queue'[i] = Queue[i + 1]
  BY TakeMoves
<1>2. podByUID' = podByUID /\ k \in Nat /\ \A i \in 1..k : i \in 1..Len(Queue')
  BY QueueIsNext DEF TakeUpdate, managerVars, QueueFacts
<1> QED
  BY <1>1, <1>2, ShorterQueue

LEMMA HandleAfter ==
  ASSUME TypeOK, TypeOK', OnlyHandled, NEW u \in UIDs, HandlePod(u)
  PROVE  \A k \in 1..Len(Queue), v \in UIDs :
           PodAfter(podByUID', Queue', k, v) = PodAfter(podByUID, Queue, k, v)
<1> SUFFICES ASSUME NEW k \in 1..Len(Queue), NEW v \in UIDs
             PROVE  PodAfter(podByUID', Queue', k, v) = PodAfter(podByUID, Queue, k, v)
  OBVIOUS
<1>1. k \in Nat /\ k > 0 /\ \A i \in 2..k : i \in 2..Len(Queue)
  BY QueueIs DEF QueueFacts
<1>2. /\ \A i \in 2..k : Queue'[i] = Queue[i]
      /\ Tells(Queue[1], u) /\ ~Tells(Queue'[1], u)
      /\ v # u => /\ Tells(Queue'[1], v) <=> Tells(Queue[1], v)
                  /\ Told(Queue'[1], v) = Told(Queue[1], v)
      /\ podByUID'[v] = IF v = u THEN Told(Queue[1], u) ELSE podByUID[v]
  BY <1>1, HandleMoves
<1>3. CASE v = u
  BY <1>1, <1>2, <1>3, HandledQueue
<1>4. CASE v # u
  <2>1. \A i \in 1..k : /\ Tells(Queue'[i], v) <=> Tells(Queue[i], v)
                        /\ Tells(Queue'[i], v) => Told(Queue'[i], v) = Told(Queue[i], v)
    <3>1. \A i \in 1..k : i = 1 \/ i \in 2..k
      BY <1>1
    <3> QED
      BY <3>1, <1>2, <1>4
  <2>2. podByUID'[v] = podByUID[v] /\ \A i \in (k + 1)..k : ~Tells(Queue[i], v)
    BY <1>1, <1>2, <1>4
  <2>3. PodAfter(podByUID', Queue', k, v) = PodAfter(podByUID', Queue, k, v)
    BY <1>1, <2>1, <2>2, SameQueue
  <2> QED
    BY <2>2, <2>3, SameBase
<1> QED
  BY <1>3, <1>4

\* Notices behind the queue change nothing of what is before them.
LEMMA LongerQueue ==
  ASSUME NEW p, NEW q, NEW r, NEW u, NEW k \in Nat, NEW m \in Nat, m <= k,
         \A i \in 1..m : r[i] = q[i],
         \A i \in (m + 1)..k : ~Tells(r[i], u)
  PROVE  PodAfter(p, r, k, u) = PodAfter(p, q, m, u)
BY SameQueue

LEMMA SyncAfter ==
  ASSUME TypeOK, TypeOK', LockFree, Sync
  PROVE  /\ \A k \in 0..Len(Queue), u \in UIDs :
              PodAfter(podByUID', Queue', k, u) = PodAfter(podByUID, Queue, k, u)
         /\ \A u \in UIDs : PodAfter(podByUID', Queue', Len(Queue'), u)
                              = PodAfter(podByUID, Queue, Len(Queue), u)
<1>1. /\ podByUID' = podByUID /\ Len(Queue) \in Nat /\ Len(Queue') = Len(Queue) + 1
      /\ \A i \in 1..Len(Queue) : Queue'[i] = Queue[i]
      /\ \A u \in UIDs : ~Tells(Queue'[Len(Queue')], u)
  BY SyncMoves, QueueIs DEF Sync, managerVars, QueueFacts, Tells
<1>2. ASSUME NEW k \in 0..Len(Queue), NEW u \in UIDs
      PROVE  PodAfter(podByUID', Queue', k, u) = PodAfter(podByUID, Queue, k, u)
  <2>1. /\ k \in Nat /\ \A i \in 1..k : Queue'[i] = Queue[i]
        /\ \A i \in (k + 1)..k : ~Tells(Queue'[i], u)
    BY <1>1
  <2> QED
    BY <1>1, <2>1, LongerQueue
<1>3. ASSUME NEW u \in UIDs
      PROVE  PodAfter(podByUID', Queue', Len(Queue'), u)
               = PodAfter(podByUID, Queue, Len(Queue), u)
  <2>1. \A i \in (Len(Queue) + 1)..Len(Queue') : ~Tells(Queue'[i], u)
    BY <1>1
  <2> QED
    BY <1>1, <2>1, LongerQueue
<1> QED
  BY <1>2, <1>3

\* Behind the queue a Merge tells of a pod once at most.
LEMMA MergedAfter ==
  ASSUME TypeOK, TypeOK', LockFree, NEW source \in Sources, NEW first \in BOOLEAN,
         NEW C \in SUBSET UIDs, NEW R \in SUBSET UIDs, Merged(source, first, C, R)
  PROVE  /\ \A k \in 0..Len(Queue), u \in UIDs :
              PodAfter(podByUID', Queue', k, u) = PodAfter(podByUID, Queue, k, u)
         /\ \A k \in (Len(Queue) + 1)..Len(Queue'), u \in UIDs :
              Tells(Queue'[k], u) =>
                /\ PodAfter(podByUID', Queue', k - 1, u)
                     = PodAfter(podByUID, Queue, Len(Queue), u)
                /\ \A j \in k..Len(Queue') :
                     PodAfter(podByUID', Queue', j, u) = Told(Queue'[k], u)
         /\ \A k \in Len(Queue)..Len(Queue'), u \in UIDs :
              (\A j \in (Len(Queue) + 1)..k : ~Tells(Queue'[j], u)) =>
                PodAfter(podByUID', Queue', k, u)
                  = PodAfter(podByUID, Queue, Len(Queue), u)
<1> DEFINE L == Len(Queue)
<1>1. /\ L \in Nat /\ Len(Queue') \in Nat /\ L <= Len(Queue')
      /\ \A i \in 1..L : Queue'[i] = Queue[i]
      /\ podByUID' = podByUID
  <2>1. podByUID' = podByUID
    BY DEF Merged, managerVars
  <2>2. L \in Nat
    BY QueueIs DEF QueueFacts
  <2> QED
    BY <2>1, <2>2, MergedTells DEF Tellings
<1>2. ASSUME NEW i \in (L + 1)..Len(Queue'), NEW j \in (L + 1)..Len(Queue'), NEW u \in UIDs,
             Tells(Queue'[i], u), Tells(Queue'[j], u)
      PROVE  i = j
  <2>1. R \intersect C = {} /\ Telling(C) \subseteq C
    BY DEF Merged, Telling
  <2>2. \A k \in (L + 1)..Len(Queue') :
          /\ Queue'[k].op = "REMOVE" => (Tells(Queue'[k], u) <=> u \in R)
          /\ Queue'[k].op # "REMOVE" => (Tells(Queue'[k], u) <=>
               (u \in Telling(C) /\ Operation(storage[u], world[u]) = Queue'[k].op))
    <3>1. Tellings(source, first, C, R)
      BY MergedTells
    <3> QED
      BY <3>1 DEF Tellings
  <2>3. Queue'[i].op = Queue'[j].op
    BY <1>2, <2>1, <2>2
  <2> QED
    BY <2>3, MergedTells DEF Tellings
<1> HIDE DEF L
<1>3. ASSUME NEW k \in 0..L, NEW u \in UIDs
      PROVE  PodAfter(podByUID', Queue', k, u) = PodAfter(podByUID, Queue, k, u)
  <2>1. /\ k \in Nat /\ \A i \in 1..k : Queue'[i] = Queue[i]
        /\ \A i \in (k + 1)..k : ~Tells(Queue'[i], u)
    BY <1>1
  <2> QED
    BY <1>1, <2>1, LongerQueue
<1>4. ASSUME NEW k \in L..Len(Queue'), NEW u \in UIDs,
             \A j \in (L + 1)..k : ~Tells(Queue'[j], u)
      PROVE  PodAfter(podByUID', Queue', k, u) = PodAfter(podByUID, Queue, L, u)
  <2>1. k \in Nat /\ L <= k
    BY <1>1
  <2> QED
    BY <1>1, <1>4, <2>1, LongerQueue
<1>5. ASSUME NEW k \in (L + 1)..Len(Queue'), NEW u \in UIDs, Tells(Queue'[k], u)
      PROVE  /\ PodAfter(podByUID', Queue', k - 1, u) = PodAfter(podByUID, Queue, L, u)
             /\ \A j \in k..Len(Queue') :
                  PodAfter(podByUID', Queue', j, u) = Told(Queue'[k], u)
  <2>1. k - 1 \in L..Len(Queue') /\ \A j \in (L + 1)..(k - 1) : ~Tells(Queue'[j], u)
    BY <1>1, <1>2, <1>5
  <2>2. ASSUME NEW j \in k..Len(Queue')
        PROVE  PodAfter(podByUID', Queue', j, u) = Told(Queue'[k], u)
    <3>1. j \in Nat /\ k \in 1..j /\ \A i \in (k + 1)..j : ~Tells(Queue'[i], u)
      BY <1>1, <1>2, <1>5
    <3> QED
      BY <3>1, <1>5, LastTells
  <2> QED
    BY <2>1, <2>2, <1>4
<1> QED
  BY <1>3, <1>4, <1>5 DEF L

-----------------------------------------------------------------------------
(* Each step keeps the invariant *)

LEMMA SamePods ==
  ASSUME NEW p, NEW q
  PROVE  /\ SamePod(p, q) => ((p = NoPod) <=> (q = NoPod))
         /\ SamePod(p, p)
         /\ \A r : SamePod(p, q) /\ SamePod(q, r) => SamePod(p, r)
BY DEF SamePod, Differ

\* The sources change.
LEMMA ChangeKeeps ==
  ASSUME TypeOK, ConfigInv, NEW u \in UIDs, NEW pod \in Pod \union {NoPod},
         Change(u, pod), pod # NoPod => u \notin removed
  PROVE  ConfigInv'
<1>1. /\ UNCHANGED <<storage, sourcesSeen, merging, outbox, updates, handling, syncs,
                     ready, podByUID>>
      /\ Queue' = Queue
  BY DEF Change, storageVars, runVars, managerVars, Queue
<1>2. /\ \A v \in UIDs : world'[v] = IF v = u THEN pod ELSE world[v]
      /\ removed' = IF pod = NoPod THEN removed \union {u} ELSE removed
  BY DEF Change, TypeOK, Pods
<1>3. LastIsRemoval'
  BY <1>1, <1>2 DEF ConfigInv, LastIsRemoval
<1>4. LockFree' /\ StoredOnce' /\ CatchesUp' /\ ToldToRun'
  BY <1>1 DEF ConfigInv, LockFree, StoredOnce, CatchesUp, ToldToRun
<1> QED
  BY <1>1, <1>3, <1>4 DEF ConfigInv

LEMMA DeliverKeeps ==
  ASSUME TypeOK, TypeOK', ConfigInv, Deliver
  PROVE  ConfigInv'
<1>1. /\ UNCHANGED <<storage, sourcesSeen, handling, syncs, ready, podByUID, world,
                     removed>>
      /\ merging' = IF Tail(outbox) = <<>> THEN NoSource ELSE merging
      /\ outbox' = Tail(outbox) /\ outbox # <<>>
  BY DEF Deliver, worldVars, runVars, managerVars
<1>2. Queue' = Queue
  BY DeliverMoves
<1>3. LockFree'
  BY <1>1 DEF ConfigInv, LockFree
<1>4. StoredOnce' /\ CatchesUp' /\ ToldToRun' /\ LastIsRemoval'
  BY <1>1, <1>2 DEF ConfigInv, StoredOnce, CatchesUp, ToldToRun, LastIsRemoval
<1> QED
  BY <1>1, <1>2, <1>3, <1>4 DEF ConfigInv

LEMMA TakeKeeps ==
  ASSUME TypeOK, TypeOK', ConfigInv, TakeUpdate
  PROVE  ConfigInv'
<1>1. /\ UNCHANGED <<storage, sourcesSeen, merging, outbox, syncs, podByUID, world, removed>>
      /\ ready' = ready \union ({Head(updates).source} \ {NoSource})
      /\ updates # <<>>
  BY DEF TakeUpdate, worldVars, storageVars, managerVars
<1>2. /\ Len(Queue) = Len(Queue') + 1 /\ Len(Queue') \in Nat \ {0}
      /\ \A i \in 2..Len(Queue') : Queue'[i] = Queue[i + 1]
      /\ \A u \in UIDs : ~Tells(Queue[1], u)
      /\ \A i \in 1..Len(Queue'), u \in UIDs :
           /\ Tells(Queue'[i], u) <=> Tells(Queue[i + 1], u)
           /\ Tells(Queue'[i], u) => Queue'[i] = Queue[i + 1]
  BY TakeMoves, QueueIsNext DEF QueueFacts
<1>3. \A k \in 0..Len(Queue'), u \in UIDs :
        PodAfter(podByUID', Queue', k, u) = PodAfter(podByUID, Queue, k + 1, u)
  BY TakeAfter
<1>4. LockFree' /\ StoredOnce' /\ ToldToRun'
  BY <1>1 DEF ConfigInv, LockFree, StoredOnce, ToldToRun
<1>5. CatchesUp'
  <2>1. \A u \in UIDs : SamePod(PodAfter(podByUID', Queue', Len(Queue'), u), storage'[u])
    BY <1>1, <1>2, <1>3 DEF ConfigInv, CatchesUp
  <2>2. ASSUME NEW source \in sourcesSeen, source \notin ready'
        PROVE  \E i \in 2..Len(Queue') : Queue'[i].source = source
    <3>1. PICK i \in 2..Len(Queue) : Queue[i].source = source
      BY <1>1, <2>2 DEF ConfigInv, CatchesUp
    <3>2. i # 2
      <4>1. Queue[1 + 1] = Head(updates) /\ 1 + 1 = 2
        <5>1. 1 \in 1..Len(updates) /\ Head(updates) = updates[1]
          BY <1>1 DEF TypeOK
        <5> QED
          BY <5>1, QueueIs DEF QueueFacts
      <4>2. source # NoSource
        BY PodConfigAssumption DEF TypeOK
      <4> QED
        BY <4>1, <4>2, <3>1, <2>2, <1>1
    <3>3. i - 1 \in 2..Len(Queue') /\ Queue'[i - 1] = Queue[(i - 1) + 1] /\ (i - 1) + 1 = i
      BY <3>1, <3>2, <1>2
    <3> QED
      BY <3>1, <3>3
  <2> QED
    BY <1>1, <2>1, <2>2 DEF CatchesUp
<1>6. OpsFit(podByUID', Queue')
  <2> SUFFICES ASSUME NEW k \in 1..Len(Queue'), NEW u \in UIDs, Tells(Queue'[k], u)
               PROVE  (Queue'[k].op = "ADD")
                        <=> (PodAfter(podByUID', Queue', k - 1, u) = NoPod)
    BY DEF OpsFit
  <2>1. k + 1 \in 1..Len(Queue) /\ k - 1 \in 0..Len(Queue') /\ (k - 1) + 1 = (k + 1) - 1
    BY <1>2
  <2>2. Tells(Queue[k + 1], u) /\ Queue'[k] = Queue[k + 1]
    BY <1>2
  <2>3. (Queue[k + 1].op = "ADD") <=> (PodAfter(podByUID, Queue, (k + 1) - 1, u) = NoPod)
    BY <2>1, <2>2 DEF ConfigInv, OpsFit
  <2>4. PodAfter(podByUID', Queue', k - 1, u) = PodAfter(podByUID, Queue, (k - 1) + 1, u)
    BY <2>1, <1>3
  <2> QED
    BY <2>1, <2>2, <2>3, <2>4
<1>7. LastIsRemoval'
  <2> SUFFICES ASSUME NEW u \in UIDs, Lonely(u), NEW k \in 1..Len(Queue'), Tells(Queue'[k], u)
               PROVE  /\ Queue'[k].op = "REMOVE" => u \in removed
                      /\ Queue'[k].op = "ADD" =>
                           syncs[u] = "none" /\ \A j \in 1..(k - 1) : ~Tells(Queue'[j], u)
    BY <1>1 DEF ConfigInv, LastIsRemoval, Lonely
  <2>1. k + 1 \in 1..Len(Queue) /\ Tells(Queue[k + 1], u) /\ Queue'[k] = Queue[k + 1]
    BY <1>2
  <2>2. /\ Queue[k + 1].op = "REMOVE" => u \in removed
        /\ Queue[k + 1].op = "ADD" =>
             syncs[u] = "none" /\ \A j \in 1..((k + 1) - 1) : ~Tells(Queue[j], u)
    BY <2>1 DEF ConfigInv, LastIsRemoval
  <2>3. \A j \in 1..(k - 1) : j \in 1..Len(Queue') /\ j + 1 \in 1..((k + 1) - 1)
    BY <1>2
  <2> QED
    BY <2>1, <2>2, <2>3, <1>2
<1> QED
  BY <1>4, <1>5, <1>6, <1>7 DEF ConfigInv

LEMMA HandleKeeps ==
  ASSUME TypeOK, TypeOK', OnlyHandled, ConfigInv, NEW u \in UIDs, HandlePod(u)
  PROVE  ConfigInv'
<1>1. UNCHANGED <<storage, sourcesSeen, merging, outbox, updates, ready, world, removed>>
  BY DEF HandlePod, worldVars, storageVars
<1>2. /\ Len(Queue') = Len(Queue)
      /\ \A i \in 2..Len(Queue) : Queue'[i] = Queue[i]
      /\ Tells(Queue[1], u) /\ ~Tells(Queue'[1], u)
      /\ \A v \in UIDs \ {u} : /\ Tells(Queue'[1], v) <=> Tells(Queue[1], v)
                               /\ Told(Queue'[1], v) = Told(Queue[1], v)
      /\ Queue'[1].op = Queue[1].op
      /\ \A v \in UIDs : podByUID'[v] = IF v = u THEN Told(Queue[1], u) ELSE podByUID[v]
      /\ syncs' = [syncs EXCEPT ![u] = SyncPodType[Queue[1].op]]
  BY HandleMoves
<1>3. Len(Queue) \in Nat \ {0}
  BY QueueIs DEF QueueFacts
<1>4. \A k \in 1..Len(Queue), v \in UIDs :
        PodAfter(podByUID', Queue', k, v) = PodAfter(podByUID, Queue, k, v)
  BY HandleAfter
<1>5. \A v \in UIDs : syncs'[v] = IF v = u THEN SyncPodType[Queue[1].op] ELSE syncs[v]
  BY <1>2 DEF TypeOK
<1>6. LockFree' /\ StoredOnce'
  BY <1>1 DEF ConfigInv, LockFree, StoredOnce
<1>7. ToldToRun'
  <2>1. Queue[1].op \in {"REMOVE", "ADD", "UPDATE", "DELETE"} /\ Queue[1].pods[u] # NoPod
    BY <1>2 DEF Tells
  <2>2. (SyncPodType[Queue[1].op] \in {"create", "update"}) <=> (Told(Queue[1], u) # NoPod)
    BY <2>1 DEF SyncPodType, Told
  <2> QED
    BY <2>2, <1>2, <1>5 DEF ConfigInv, ToldToRun
<1>8. CatchesUp'
  <2>1. \A v \in UIDs : SamePod(PodAfter(podByUID', Queue', Len(Queue'), v), storage'[v])
    BY <1>1, <1>2, <1>3, <1>4 DEF ConfigInv, CatchesUp
  <2>2. \A source \in sourcesSeen' \ ready' :
          \E i \in 2..Len(Queue') : Queue'[i].source = source
    BY <1>1, <1>2 DEF ConfigInv, CatchesUp
  <2> QED
    BY <2>1, <2>2 DEF CatchesUp
<1>9. OpsFit(podByUID', Queue')
  <2> SUFFICES ASSUME NEW k \in 1..Len(Queue), NEW v \in UIDs, Tells(Queue'[k], v)
               PROVE  (Queue'[k].op = "ADD")
                        <=> (PodAfter(podByUID', Queue', k - 1, v) = NoPod)
    BY <1>2 DEF OpsFit
  <2>1. Tells(Queue[k], v) /\ Queue'[k].op = Queue[k].op /\ (k = 1 => v # u)
    BY <1>2, <1>3
  <2>2. (Queue[k].op = "ADD") <=> (PodAfter(podByUID, Queue, k - 1, v) = NoPod)
    BY <2>1 DEF ConfigInv, OpsFit
  <2>3. CASE k = 1
    <3>1. k - 1 \in Nat /\ \A j \in 1..(k - 1) : FALSE
      BY <2>3
    <3>2. PodAfter(podByUID', Queue', k - 1, v) = podByUID'[v]
      BY <3>1, NoneTells
    <3>3. PodAfter(podByUID, Queue, k - 1, v) = podByUID[v]
      BY <3>1, NoneTells
    <3> QED
      BY <2>1, <2>2, <2>3, <3>2, <3>3, <1>2
  <2>4. CASE k # 1
    <3>1. k - 1 \in 1..Len(Queue)
      BY <2>4, <1>3
    <3> QED
      BY <3>1, <2>1, <2>2, <1>4
  <2> QED
    BY <2>3, <2>4
<1>10. LastIsRemoval'
  <2>1. ASSUME NEW v \in UIDs, Lonely(v), syncs'[v] = "kill"
        PROVE  v \in removed
    <3>1. CASE v = u
      <4>1. Queue[1].op = "REMOVE"
        BY <3>1, <2>1, <1>2, <1>5 DEF SyncPodType, Tells
      <4>2. 1 \in 1..Len(Queue)
        BY <1>3
      <4> QED
        BY <3>1, <4>1, <4>2, <2>1, <1>2 DEF ConfigInv, LastIsRemoval
    <3>2. CASE v # u
      BY <3>2, <2>1, <1>5 DEF ConfigInv, LastIsRemoval
    <3> QED
      BY <3>1, <3>2
  <2>2. ASSUME NEW v \in UIDs, Lonely(v), NEW k \in 1..Len(Queue), Tells(Queue'[k], v)
        PROVE  /\ Queue'[k].op = "REMOVE" => v \in removed
               /\ Queue'[k].op = "ADD" =>
                    syncs'[v] = "none" /\ \A j \in 1..(k - 1) : ~Tells(Queue'[j], v)
    <3>1. \A j \in 1..Len(Queue) :
            Tells(Queue'[j], v) =>
              Tells(Queue[j], v) /\ Queue'[j].op = Queue[j].op /\ (j = 1 => v # u)
      BY <1>2, <1>3
    <3>2. /\ Queue[k].op = "REMOVE" => v \in removed
          /\ Queue[k].op = "ADD" =>
               syncs[v] = "none" /\ \A j \in 1..(k - 1) : ~Tells(Queue[j], v)
      BY <2>2, <3>1 DEF ConfigInv, LastIsRemoval
    <3>3. ASSUME Queue[k].op = "ADD"
          PROVE  v # u
      <4>1. k # 1 => 1 \in 1..(k - 1)
        BY <1>3
      <4> QED
        BY <4>1, <3>1, <3>2, <3>3, <2>2, <1>2
    <3>4. \A j \in 1..(k - 1) : j \in 1..Len(Queue)
      BY <1>3
    <3> QED
      BY <3>1, <3>2, <3>3, <3>4, <2>2, <1>5
  <2>3. \A v \in UIDs : /\ world'[v] # NoPod => v \notin removed'
                        /\ storage'[v] # NoPod => world'[v] # NoPod \/ v \in removed'
    BY <1>1 DEF ConfigInv, LastIsRemoval
  <2> QED
    BY <1>1, <1>2, <2>1, <2>2, <2>3 DEF LastIsRemoval, Lonely
<1> QED
  BY <1>6, <1>7, <1>8, <1>9, <1>10 DEF ConfigInv

LEMMA SyncKeeps ==
  ASSUME TypeOK, TypeOK', ConfigInv, Sync
  PROVE  ConfigInv'
<1>1. /\ UNCHANGED <<storage, sourcesSeen, merging, outbox, handling, syncs, ready,
                     podByUID, world, removed>>
      /\ LockFree
  BY DEF Sync, worldVars, storageVars, runVars, managerVars, ConfigInv
<1>2. /\ Len(Queue') = Len(Queue) + 1 /\ Len(Queue) \in Nat \ {0}
      /\ \A i \in 1..Len(Queue) : Queue'[i] = Queue[i]
      /\ \A u \in UIDs : ~Tells(Queue'[Len(Queue')], u)
  BY <1>1, SyncMoves, QueueIs DEF QueueFacts, Tells
<1>3. /\ \A k \in 0..Len(Queue), u \in UIDs :
           PodAfter(podByUID', Queue', k, u) = PodAfter(podByUID, Queue, k, u)
      /\ \A u \in UIDs : PodAfter(podByUID', Queue', Len(Queue'), u)
                           = PodAfter(podByUID, Queue, Len(Queue), u)
  BY <1>1, SyncAfter
<1>4. \A k \in 1..Len(Queue'), u \in UIDs :
        Tells(Queue'[k], u) => /\ k \in 1..Len(Queue) /\ Queue'[k] = Queue[k]
                               /\ k - 1 \in 0..Len(Queue)
  <2> SUFFICES ASSUME NEW k \in 1..Len(Queue'), NEW u \in UIDs, Tells(Queue'[k], u)
               PROVE  /\ k \in 1..Len(Queue) /\ Queue'[k] = Queue[k]
                      /\ k - 1 \in 0..Len(Queue)
    OBVIOUS
  <2>1. k # Len(Queue')
    BY <1>2
  <2> QED
    BY <2>1, <1>2
<1>5. LockFree' /\ StoredOnce' /\ ToldToRun'
  BY <1>1 DEF ConfigInv, LockFree, StoredOnce, ToldToRun
<1>6. CatchesUp'
  BY <1>1, <1>2, <1>3 DEF ConfigInv, CatchesUp
<1>7. OpsFit(podByUID', Queue')
  BY <1>3, <1>4 DEF ConfigInv, OpsFit
<1>8. LastIsRemoval'
  <2> SUFFICES ASSUME NEW u \in UIDs, Lonely(u), NEW k \in 1..Len(Queue'), Tells(Queue'[k], u)
               PROVE  /\ Queue'[k].op = "REMOVE" => u \in removed
                      /\ Queue'[k].op = "ADD" =>
                           syncs[u] = "none" /\ \A j \in 1..(k - 1) : ~Tells(Queue'[j], u)
    BY <1>1 DEF ConfigInv, LastIsRemoval, Lonely
  <2>1. k \in 1..Len(Queue) /\ Queue'[k] = Queue[k]
    BY <1>4
  <2>2. \A j \in 1..(k - 1) : Queue'[j] = Queue[j]
    BY <2>1, <1>2
  <2> QED
    BY <2>1, <2>2 DEF ConfigInv, LastIsRemoval
<1> QED
  BY <1>5, <1>6, <1>7, <1>8 DEF ConfigInv

LEMMA MergeKeeps ==
  ASSUME TypeOK, TypeOK', ConfigInv, NEW source \in Sources, Merging(source)
  PROVE  ConfigInv'
<1>1. PICK first \in BOOLEAN, C \in SUBSET UIDs, R \in SUBSET UIDs :
        Merged(source, first, C, R)
  BY MergingIsMerged
<1>2. /\ UNCHANGED <<handling, syncs, ready, podByUID, world, removed>>
      /\ merging' = IF outbox' = <<>> THEN NoSource ELSE source
      /\ \A u \in UIDs : storage'[u] = IF u \in R THEN NoPod
                                       ELSE IF u \in C THEN world[u] ELSE storage[u]
      /\ sourcesSeen' \subseteq sourcesSeen \union (IF first THEN {source} ELSE {})
      /\ C \subseteq Present(world) /\ R \subseteq Present(storage) /\ R \intersect C = {}
      /\ \A u \in C \union R : SourceOf[u] = source
      /\ \A u, v \in C : NameOf[u] = NameOf[v] => u = v
      /\ \A u \in C, v \in UIDs \ R :
           u # v /\ NameOf[u] = NameOf[v] /\ SourceOf[v] = source => storage[v] = NoPod
      /\ \A u \in R : Lonely(u) => world[u] = NoPod \/ u \in removed
  BY <1>1 DEF Merged, worldVars, runVars, managerVars
<1> DEFINE L == Len(Queue)
<1>3. /\ L \in Nat \ {0} /\ Len(Queue') \in Nat /\ L <= Len(Queue')
      /\ \A i \in 1..L : Queue'[i] = Queue[i]
      /\ \A k \in (L + 1)..Len(Queue'), u \in UIDs :
           /\ Queue'[k].op = "REMOVE" => (Tells(Queue'[k], u) <=> u \in R)
           /\ Queue'[k].op # "REMOVE" => (Tells(Queue'[k], u) <=>
                (u \in Telling(C) /\ Operation(storage[u], world[u]) = Queue'[k].op))
           /\ Tells(Queue'[k], u) /\ Queue'[k].op # "REMOVE" =>
                Queue'[k].pods[u] = world[u]
      /\ R # {} => L + 1 <= Len(Queue') /\ Queue'[L + 1].op = "REMOVE"
      /\ \A u \in Telling(C) : \E k \in (L + 1)..Len(Queue') :
           Queue'[k].op = Operation(storage[u], world[u])
      /\ \A k \in (L + 1)..Len(Queue') : Queue'[k].source = source
      /\ first => L < Len(Queue')
  <2>1. Tellings(source, first, C, R)
    BY <1>1, MergedTells DEF ConfigInv
  <2>2. L \in Nat \ {0}
    BY QueueIs DEF QueueFacts
  <2> QED
    BY <2>1, <2>2 DEF Tellings
<1>4. /\ \A k \in 0..L, u \in UIDs :
           PodAfter(podByUID', Queue', k, u) = PodAfter(podByUID, Queue, k, u)
      /\ \A k \in (L + 1)..Len(Queue'), u \in UIDs :
           Tells(Queue'[k], u) =>
             /\ PodAfter(podByUID', Queue', k - 1, u) = PodAfter(podByUID, Queue, L, u)
             /\ \A j \in k..Len(Queue') :
                  PodAfter(podByUID', Queue', j, u) = Told(Queue'[k], u)
      /\ \A k \in L..Len(Queue'), u \in UIDs :
           (\A j \in (L + 1)..k : ~Tells(Queue'[j], u)) =>
             PodAfter(podByUID', Queue', k, u) = PodAfter(podByUID, Queue, L, u)
  BY <1>1, MergedAfter DEF ConfigInv
<1>5. \A u \in UIDs : SamePod(PodAfter(podByUID, Queue, L, u), storage[u])
  BY DEF ConfigInv, CatchesUp
<1> HIDE DEF L
<1>6. LockFree' /\ ToldToRun'
  <2>1. source # NoSource
    BY PodConfigAssumption
  <2> QED
    BY <1>2, <2>1 DEF ConfigInv, LockFree, ToldToRun
<1>7. StoredOnce'
  <2> SUFFICES ASSUME NEW u \in UIDs, NEW v \in UIDs, u # v, NameOf[u] = NameOf[v],
                      SourceOf[u] = SourceOf[v], storage'[u] # NoPod, storage'[v] # NoPod
               PROVE  FALSE
    BY DEF StoredOnce
  <2>1. u \notin R /\ v \notin R
    BY <1>2
  <2>2. CASE u \in C
    BY <2>1, <2>2, <1>2
  <2>3. CASE v \in C
    BY <2>1, <2>3, <1>2
  <2>4. CASE u \notin C /\ v \notin C
    BY <2>1, <2>4, <1>2 DEF ConfigInv, StoredOnce
  <2> QED
    BY <2>2, <2>3, <2>4
<1>8. ASSUME NEW u \in UIDs
      PROVE  SamePod(PodAfter(podByUID', Queue', Len(Queue'), u), storage'[u])
  <2>1. CASE u \in R
    <3>1. L + 1 \in (L + 1)..Len(Queue') /\ Queue'[L + 1].op = "REMOVE"
      BY <2>1, <1>3
    <3>2. Tells(Queue'[L + 1], u) /\ Told(Queue'[L + 1], u) = NoPod
      BY <2>1, <3>1, <1>3 DEF Told
    <3>3. Len(Queue') \in (L + 1)..Len(Queue')
      BY <3>1, <1>3
    <3>4. PodAfter(podByUID', Queue', Len(Queue'), u) = NoPod
      BY <3>1, <3>2, <3>3, <1>4
    <3> QED
      BY <2>1, <3>4, <1>2, SamePods
  <2>2. CASE u \in Telling(C)
    <3>1. PICK k \in (L + 1)..Len(Queue') :
            Queue'[k].op = Operation(storage[u], world[u])
      BY <2>2, <1>3
    <3>2. Queue'[k].op # "REMOVE" /\ Tells(Queue'[k], u)
      BY <2>2, <3>1, <1>3, OperationIs
    <3>3. Told(Queue'[k], u) = world[u]
      BY <3>1, <3>2, <1>3 DEF Told
    <3>4. Len(Queue') \in k..Len(Queue')
      BY <1>3
    <3>5. PodAfter(podByUID', Queue', Len(Queue'), u) = world[u]
      BY <3>1, <3>2, <3>3, <3>4, <1>4
    <3>6. u \in C
      BY <2>2 DEF Telling
    <3>7. storage'[u] = world[u]
      BY <3>6, <1>2
    <3> QED
      BY <3>5, <3>7, SamePods
  <2>3. CASE u \notin R /\ u \notin Telling(C)
    <3>1. \A j \in (L + 1)..Len(Queue') : ~Tells(Queue'[j], u)
      BY <2>3, <1>3
    <3>2. Len(Queue') \in L..Len(Queue')
      BY <1>3
    <3>3. PodAfter(podByUID', Queue', Len(Queue'), u) = PodAfter(podByUID, Queue, L, u)
      BY <3>1, <3>2, <1>4
    <3>4. SamePod(storage[u], storage'[u])
      <4>1. CASE u \notin C
        BY <4>1, <2>3, <1>2, SamePods
      <4>2. CASE u \in C
        <5>1. storage'[u] = world[u] /\ world[u] # NoPod
          BY <4>2, <2>3, <1>2 DEF Present
        <5>2. storage[u] # NoPod /\ ~Differ(storage[u], world[u])
          BY <4>2, <2>3, OperationIs DEF Telling
        <5> QED
          BY <5>1, <5>2 DEF SamePod
      <4> QED
        BY <4>1, <4>2
    <3> QED
      BY <3>3, <3>4, <1>5, SamePods
  <2> QED
    BY <2>1, <2>2, <2>3
<1>9. CatchesUp'
  <2>1. ASSUME NEW s \in sourcesSeen' \ ready'
        PROVE  \E i \in 2..Len(Queue') : Queue'[i].source = s
    <3>1. CASE s \in sourcesSeen
      <4>1. PICK i \in 2..Len(Queue) : Queue[i].source = s
        BY <3>1, <2>1, <1>2 DEF ConfigInv, CatchesUp
      <4>2. i \in 2..Len(Queue') /\ Queue'[i] = Queue[i]
        BY <4>1, <1>3 DEF L
      <4> QED
        BY <4>1, <4>2
    <3>2. CASE s \notin sourcesSeen
      <4>1. first /\ s = source
        BY <3>2, <2>1, <1>2
      <4>2. L + 1 \in 2..Len(Queue') /\ L + 1 \in (L + 1)..Len(Queue')
        BY <4>1, <1>3
      <4> QED
        BY <4>1, <4>2, <1>3
    <3> QED
      BY <3>1, <3>2
  <2> QED
    BY <2>1, <1>8 DEF CatchesUp
<1>10. OpsFit(podByUID', Queue')
  <2> SUFFICES ASSUME NEW k \in 1..Len(Queue'), NEW u \in UIDs, Tells(Queue'[k], u)
               PROVE  (Queue'[k].op = "ADD")
                        <=> (PodAfter(podByUID', Queue', k - 1, u) = NoPod)
    BY DEF OpsFit
  <2>1. CASE k \in 1..L
    <3>1. k - 1 \in 0..L /\ Queue'[k] = Queue[k]
      BY <2>1, <1>3
    <3>2. (Queue[k].op = "ADD") <=> (PodAfter(podByUID, Queue, k - 1, u) = NoPod)
      BY <2>1, <3>1 DEF ConfigInv, OpsFit, L
    <3> QED
      BY <3>1, <3>2, <1>4
  <2>2. CASE k \in (L + 1)..Len(Queue')
    <3>1. PodAfter(podByUID', Queue', k - 1, u) = PodAfter(podByUID, Queue, L, u)
      BY <2>2, <1>4
    <3>2. (PodAfter(podByUID, Queue, L, u) = NoPod) <=> (storage[u] = NoPod)
      BY <1>5, SamePods
    <3>3. (Queue'[k].op = "ADD") <=> (storage[u] = NoPod)
      <4>1. CASE Queue'[k].op = "REMOVE"
        BY <4>1, <2>2, <1>2, <1>3 DEF Present
      <4>2. CASE Queue'[k].op # "REMOVE"
        BY <4>2, <2>2, <1>3, OperationIs
      <4> QED
        BY <4>1, <4>2
    <3> QED
      BY <3>1, <3>2, <3>3
  <2> QED
    BY <2>1, <2>2, <1>3
<1>11. LastIsRemoval'
  <2>1. ASSUME NEW u \in UIDs
        PROVE  /\ world[u] # NoPod => u \notin removed
               /\ storage'[u] # NoPod => world[u] # NoPod \/ u \in removed
               /\ Lonely(u) /\ syncs[u] = "kill" => u \in removed
    <3>1. u \in C => world[u] # NoPod
      BY <1>2 DEF Present
    <3> QED
      BY <3>1, <1>2 DEF ConfigInv, LastIsRemoval
  <2>2. ASSUME NEW u \in UIDs, Lonely(u), NEW k \in 1..Len(Queue'), Tells(Queue'[k], u)
        PROVE  /\ Queue'[k].op = "REMOVE" => u \in removed
               /\ Queue'[k].op = "ADD" =>
                    syncs[u] = "none" /\ \A j \in 1..(k - 1) : ~Tells(Queue'[j], u)
    <3>1. CASE k \in 1..L
      <4>1. Queue'[k] = Queue[k] /\ \A j \in 1..(k - 1) : Queue'[j] = Queue[j]
        BY <3>1, <1>3
      <4> QED
        BY <3>1, <4>1, <2>2 DEF ConfigInv, LastIsRemoval, L
    <3>2. ASSUME k \in (L + 1)..Len(Queue'), Queue'[k].op = "REMOVE"
          PROVE  u \in removed
      <4>1. u \in R /\ storage[u] # NoPod
        BY <3>2, <2>2, <1>2, <1>3 DEF Present
      <4>2. world[u] = NoPod \/ u \in removed
        BY <4>1, <1>2, <2>2
      <4> QED
        BY <4>1, <4>2 DEF ConfigInv, LastIsRemoval
    <3>3. ASSUME k \in (L + 1)..Len(Queue'), Queue'[k].op = "ADD"
          PROVE  syncs[u] = "none" /\ \A j \in 1..(k - 1) : ~Tells(Queue'[j], u)
      <4>1. u \in C /\ Operation(storage[u], world[u]) = "ADD"
        BY <3>3, <2>2, <1>3 DEF Telling
      <4>2. storage[u] = NoPod /\ u \notin removed
        <5>1. world[u] # NoPod
          BY <4>1, <1>2 DEF Present
        <5> QED
          BY <5>1, <4>1, OperationIs DEF ConfigInv, LastIsRemoval
      <4>3. PodAfter(podByUID, Queue, L, u) = NoPod
        BY <4>2, <1>5, SamePods
      <4>4. \A j \in 1..L : ~Tells(Queue[j], u)
        <5>1. ASSUME NEW i \in 1..L, Tells(Queue[i], u),
                     \A j \in (i + 1)..L : ~Tells(Queue[j], u)
              PROVE  FALSE
          <6>1. Told(Queue[i], u) = NoPod
            BY <5>1, <4>3, <1>3, LastTells
          <6>2. Queue[i].op = "REMOVE"
            BY <6>1, <5>1 DEF Told, Tells
          <6> QED
            BY <6>2, <5>1, <4>2, <2>2 DEF ConfigInv, LastIsRemoval, L
        <5> QED
          BY <5>1, <1>3, TellsOrNot
      <4>5. podByUID[u] = NoPod
        BY <4>3, <4>4, <1>3, NoneTells
      <4>6. syncs[u] = "none"
        BY <4>2, <4>5, <2>2 DEF ConfigInv, ToldToRun, LastIsRemoval, TypeOK
      <4>7. ASSUME NEW j \in 1..(k - 1), Tells(Queue'[j], u)
            PROVE  FALSE
        <5>1. CASE j \in 1..L
          BY <5>1, <4>4, <4>7, <1>3
        <5>2. CASE j \in (L + 1)..Len(Queue')
          <6>1. PodAfter(podByUID', Queue', k - 1, u) = Told(Queue'[j], u)
            <7>1. k - 1 \in j..Len(Queue')
              BY <3>3, <4>7, <5>2, <1>3
            <7> QED
              BY <7>1, <4>7, <5>2, <1>4
          <6>2. PodAfter(podByUID', Queue', k - 1, u) = NoPod
            BY <3>3, <2>2, <1>4, <4>3
          <6>3. Queue'[j].op = "REMOVE"
            BY <6>1, <6>2, <4>7 DEF Told, Tells
          <6> QED
            BY <6>3, <4>1, <4>7, <5>2, <1>2, <1>3
        <5> QED
          BY <5>1, <5>2, <3>3, <4>7, <1>3
      <4> QED
        BY <4>6, <4>7
    <3> QED
      BY <3>1, <3>2, <3>3, <1>3
  <2> QED
    BY <2>1, <2>2, <1>2 DEF LastIsRemoval, Lonely
<1> QED
  BY <1>6, <1>7, <1>9, <1>10, <1>11 DEF ConfigInv

\* Nobody but Run speaks to the manager and the workers.
LEMMA OnlyRunSpeaks ==
  ASSUME [Next]_vars, \A u \in UIDs : ~HandlePod(u)
  PROVE  syncs' = syncs /\ UNCHANGED managerVars
<1>1. ASSUME NEW source, NEW op, NEW U, NEW pods, Merge(source, op, U, pods)
      PROVE  syncs' = syncs /\ UNCHANGED managerVars
  BY <1>1 DEF Merge, runVars
<1>2. ASSUME NEW source \in Sources, Merging(source)
      PROVE  syncs' = syncs /\ UNCHANGED managerVars
  BY <1>1, <1>2 DEF Merging, SetPodsOf, ChangePodsOf
<1>3. ASSUME NEW u \in UIDs, Discard(u) \/ \E pod \in Pod : Create(u, pod) \/ Edit(u, pod)
      PROVE  syncs' = syncs /\ UNCHANGED managerVars
  BY <1>3 DEF Discard, Create, Edit, Change, runVars
<1>4. ASSUME Deliver \/ TakeUpdate \/ Sync
      PROVE  syncs' = syncs /\ UNCHANGED managerVars
  BY <1>4 DEF Deliver, TakeUpdate, Sync, runVars
<1>5. ASSUME UNCHANGED vars
      PROVE  syncs' = syncs /\ UNCHANGED managerVars
  BY <1>5 DEF vars, runVars
<1> QED
  BY <1>2, <1>3, <1>4, <1>5 DEF Next, Running

LEMMA InitKeeps == Init => ConfigInv /\ NoClash(podByUID, Queue)
<1> SUFFICES ASSUME Init
             PROVE  ConfigInv /\ NoClash(podByUID, Queue)
  OBVIOUS
<1>1. TypeOK
  BY TypeInvariant, InitType DEF Init
<1>2. Len(Queue) = 1 /\ Queue[1] = NoUpdate
  BY <1>1, QueueIs DEF QueueFacts, Init
<1>3. \A u \in UIDs : ~Tells(Queue[1], u)
  BY <1>2, OnlyHandledTell
<1>4. \A k \in 0..1, u \in UIDs : PodAfter(podByUID, Queue, k, u) = NoPod
  <2> SUFFICES ASSUME NEW k \in 0..1, NEW u \in UIDs
               PROVE  PodAfter(podByUID, Queue, k, u) = NoPod
    OBVIOUS
  <2>1. k \in Nat /\ \A j \in 1..k : ~Tells(Queue[j], u)
    BY <1>3
  <2>2. podByUID[u] = NoPod
    BY DEF Init, ManagerInit
  <2> QED
    BY <2>1, <2>2, NoneTells
<1>5. CatchesUp
  BY <1>2, <1>4, SamePods DEF CatchesUp, Init, NoPods
<1>6. OpsFit(podByUID, Queue) /\ NoClash(podByUID, Queue)
  BY <1>2, <1>3, <1>4 DEF OpsFit, NoClash
<1>7. LockFree /\ StoredOnce /\ ToldToRun
  BY DEF Init, ManagerInit, NoPods, LockFree, StoredOnce, ToldToRun
<1>8. LastIsRemoval
  <2>1. \A u \in UIDs : world[u] = NoPod /\ storage[u] = NoPod /\ syncs[u] = "none"
    BY DEF Init, NoPods
  <2>2. \A k \in 1..Len(Queue), u \in UIDs : ~Tells(Queue[k], u)
    <3>1. \A k \in 1..1 : k = 1
      OBVIOUS
    <3> QED
      BY <1>2, <1>3, <3>1
  <2> QED
    BY <2>1, <2>2 DEF LastIsRemoval
<1> QED
  BY <1>5, <1>6, <1>7, <1>8 DEF ConfigInv

LEMMA NextKeeps ==
  TypeOK /\ TypeOK' /\ OnlyHandled /\ ConfigInv /\ [Next]_vars => ConfigInv'
<1> SUFFICES ASSUME TypeOK, TypeOK', OnlyHandled, ConfigInv, [Next]_vars
             PROVE  ConfigInv'
  OBVIOUS
<1>1. ASSUME NEW u \in UIDs, Discard(u) \/ \E pod \in Pod : Create(u, pod) \/ Edit(u, pod)
      PROVE  ConfigInv'
  <2>1. PICK pod \in Pod \union {NoPod} :
          Change(u, pod) /\ (pod # NoPod => u \notin removed)
    BY <1>1 DEF Discard, Create, Edit, ConfigInv, LastIsRemoval
  <2> QED
    BY <2>1, ChangeKeeps
<1>2. ASSUME NEW source \in Sources, Merging(source)
      PROVE  ConfigInv'
  BY <1>2, MergeKeeps
<1>3. ASSUME NEW u \in UIDs, HandlePod(u)
      PROVE  ConfigInv'
  BY <1>3, HandleKeeps
<1>4. ASSUME UNCHANGED vars
      PROVE  ConfigInv'
  <2>1. /\ UNCHANGED <<world, removed, storage, sourcesSeen, merging, outbox, syncs, ready,
                       podByUID>>
        /\ Queue' = Queue
    BY <1>4 DEF vars, worldVars, storageVars, runVars, managerVars, Queue
  <2> QED
    BY <2>1 DEF ConfigInv, LockFree, StoredOnce, CatchesUp, ToldToRun, LastIsRemoval
<1> QED
  BY <1>1, <1>2, <1>3, <1>4, DeliverKeeps, TakeKeeps, SyncKeeps DEF Next, Running

LEMMA ConfigInvariant == Spec => [](TypeOK /\ OnlyHandled /\ ConfigInv)
<1>1. Init => ConfigInv
  BY InitKeeps
<1> QED
  BY <1>1, NextKeeps, TypeInvariant, PTL DEF Spec

\* For any pods, sources, operations and capacity of the channel: no notice is lost,
\* made up or overtaken between podStorage and Run; once those on their way are
\* handled, the kubelet has the pods of podStorage, and it hears of every source that
\* was seen.
THEOREM CatchesUpHolds == Spec => []CatchesUp
<1>1. ConfigInv => CatchesUp
  BY DEF ConfigInv
<1> QED
  BY <1>1, ConfigInvariant, PTL

\* The workers are told of each pod in the order create, update, kill, and again of
\* one that was killed only if another pod of its source has its name.
THEOREM SyncsInOrderHolds == Spec => SyncsInOrder
<1> DEFINE InOrder(u) ==
      syncs'[u] # syncs[u] =>
        \/ <<syncs[u], syncs'[u]>> \in {<<"none", "create">>, <<"create", "update">>,
                                       <<"create", "kill">>, <<"update", "kill">>}
        \/ /\ <<syncs[u], syncs'[u]>> = <<"kill", "create">>
           /\ \E v \in UIDs \ {u} : NameOf[v] = NameOf[u] /\ SourceOf[v] = SourceOf[u]
<1>1. TypeOK /\ TypeOK' /\ OnlyHandled /\ ConfigInv /\ [Next]_vars =>
        [\A u \in UIDs : InOrder(u)]_vars
  <2> SUFFICES ASSUME TypeOK, TypeOK', OnlyHandled, ConfigInv, Next, NEW u \in UIDs,
                      syncs'[u] # syncs[u]
               PROVE  InOrder(u)
    OBVIOUS
  <2>1. PICK v \in UIDs : HandlePod(v)
    <3>1. ASSUME \A v \in UIDs : ~HandlePod(v)
          PROVE  syncs' = syncs
      BY <3>1, OnlyRunSpeaks
    <3> QED
      BY <3>1
  <2>2. /\ syncs' = [syncs EXCEPT ![v] = SyncPodType[Queue[1].op]]
        /\ Tells(Queue[1], v) /\ 1 \in 1..Len(Queue)
    BY <2>1, HandleMoves, QueueIs DEF QueueFacts
  <2>3. v = u /\ syncs'[u] = SyncPodType[Queue[1].op]
    BY <2>2 DEF TypeOK
  <2>4. PodAfter(podByUID, Queue, 0, u) = podByUID[u]
    <3>1. 0 \in Nat /\ \A j \in 1..0 : FALSE
      OBVIOUS
    <3> QED
      BY <3>1, NoneTells
  <2>5. (Queue[1].op = "ADD") <=> (podByUID[u] = NoPod)
    <3>1. (Queue[1].op = "ADD") <=> (PodAfter(podByUID, Queue, 1 - 1, u) = NoPod)
      BY <2>2, <2>3 DEF ConfigInv, OpsFit
    <3>2. 1 - 1 = 0
      OBVIOUS
    <3> QED
      BY <2>4, <3>1, <3>2
  <2>6. (syncs[u] \in {"create", "update"}) <=> (podByUID[u] # NoPod)
    BY DEF ConfigInv, ToldToRun
  <2>7. syncs[u] \in {"none", "create", "update", "kill"}
    BY DEF TypeOK
  <2>8. Queue[1].op \in {"REMOVE", "ADD", "UPDATE", "DELETE"}
    BY <2>2 DEF Tells
  <2>9. CASE Queue[1].op = "ADD"
    <3>1. syncs'[u] = "create" /\ syncs[u] \in {"none", "kill"}
      BY <2>3, <2>5, <2>6, <2>7, <2>9 DEF SyncPodType
    <3>2. Lonely(u) => syncs[u] = "none"
      BY <2>2, <2>3, <2>9 DEF ConfigInv, LastIsRemoval
    <3> QED
      BY <3>1, <3>2 DEF Lonely
  <2>10. CASE Queue[1].op # "ADD"
    <3>1. syncs[u] \in {"create", "update"} /\ syncs'[u] \in {"update", "kill"}
      BY <2>3, <2>5, <2>6, <2>8, <2>10 DEF SyncPodType
    <3> QED
      BY <3>1
  <2> QED
    BY <2>9, <2>10
<1> QED
  BY <1>1, ConfigInvariant, PTL DEF Spec, SyncsInOrder

-----------------------------------------------------------------------------
(* The pod manager behind the notices *)

\* Pods of one kind that have one name come from one source.  The API server is the
\* only source that NewMyKubelet sets up.
OneSource ==
  \A u, v \in UIDs : SameKind(u, v) /\ NameOf[u] = NameOf[v] => SourceOf[u] = SourceOf[v]

LEMMA MergeNoClash ==
  ASSUME OneSource, TypeOK, TypeOK', ConfigInv, NoClash(podByUID, Queue),
         NEW source \in Sources, Merging(source)
  PROVE  NoClash(podByUID', Queue')
<1>1. PICK first \in BOOLEAN, C \in SUBSET UIDs, R \in SUBSET UIDs :
        Merged(source, first, C, R)
  BY MergingIsMerged
<1>2. /\ \A u \in UIDs : storage'[u] = IF u \in R THEN NoPod
                                       ELSE IF u \in C THEN world[u] ELSE storage[u]
      /\ C \subseteq Present(world)
  BY <1>1 DEF Merged
<1>3. Tellings(source, first, C, R)
  BY <1>1, MergedTells DEF ConfigInv
<1> DEFINE L == Len(Queue)
<1>4. /\ \A k \in 0..L, u \in UIDs :
           PodAfter(podByUID', Queue', k, u) = PodAfter(podByUID, Queue, k, u)
      /\ \A k \in (L + 1)..Len(Queue'), u \in UIDs :
           Tells(Queue'[k], u) =>
             \A j \in k..Len(Queue') :
               PodAfter(podByUID', Queue', j, u) = Told(Queue'[k], u)
      /\ \A k \in L..Len(Queue'), u \in UIDs :
           (\A j \in (L + 1)..k : ~Tells(Queue'[j], u)) =>
             PodAfter(podByUID', Queue', k, u) = PodAfter(podByUID, Queue, L, u)
  BY <1>1, MergedAfter DEF ConfigInv
<1>5. /\ \A u \in UIDs : SamePod(PodAfter(podByUID, Queue, L, u), storage[u])
      /\ L \in Nat /\ Len(Queue') \in Nat
  BY QueueIs, QueueIsNext DEF ConfigInv, CatchesUp, QueueFacts
<1>6. ASSUME NEW k \in (L + 1)..Len(Queue'), NEW u \in UIDs, storage'[u] = NoPod
      PROVE  PodAfter(podByUID', Queue', k, u) = NoPod
  <2>1. u \notin C \/ u \in R
    BY <1>2, <1>6 DEF Present
  <2>2. CASE u \in R
    <3>1. Queue'[L + 1].op = "REMOVE" /\ L + 1 \in (L + 1)..Len(Queue') /\ k \in (L + 1)..Len(Queue')
      BY <2>2, <1>3, <1>5 DEF Tellings
    <3>2. Tells(Queue'[L + 1], u)
      BY <2>2, <3>1, <1>3 DEF Tellings
    <3> QED
      BY <3>1, <3>2, <1>4 DEF Told
  <2>3. CASE u \notin R
    <3>1. \A j \in (L + 1)..k : ~Tells(Queue'[j], u)
      BY <2>1, <2>3, <1>3, <1>5 DEF Tellings, Telling
    <3>2. PodAfter(podByUID', Queue', k, u) = PodAfter(podByUID, Queue, L, u)
      BY <3>1, <1>4, <1>5
    <3>3. storage[u] = NoPod
      BY <2>1, <2>3, <1>2, <1>6
    <3> QED
      BY <3>2, <3>3, <1>5, SamePods
  <2> QED
    BY <2>2, <2>3
<1>7. StoredOnce'
  BY MergeKeeps DEF ConfigInv
<1> SUFFICES ASSUME NEW k \in 0..Len(Queue'), NEW u \in UIDs, NEW v \in UIDs, Clash(u, v)
             PROVE  \/ PodAfter(podByUID', Queue', k, u) = NoPod
                    \/ PodAfter(podByUID', Queue', k, v) = NoPod
  BY DEF NoClash
<1>8. CASE k \in 0..L
  BY <1>4, <1>8 DEF NoClash
<1>9. CASE k \in (L + 1)..Len(Queue')
  <2>1. storage'[u] = NoPod \/ storage'[v] = NoPod
    BY <1>7 DEF StoredOnce, OneSource, Clash
  <2> QED
    BY <2>1, <1>6, <1>9
<1> QED
  BY <1>5, <1>8, <1>9

LEMMA HandleNoClash ==
  ASSUME TypeOK, TypeOK', OnlyHandled, NoClash(podByUID, Queue), NEW u \in UIDs,
         HandlePod(u)
  PROVE  /\ NoClash(podByUID', Queue')
         /\ Queue[1].op # "REMOVE" => NameIsFree(u)
<1>1. /\ Len(Queue') = Len(Queue) /\ Tells(Queue[1], u)
      /\ \A v \in UIDs : podByUID'[v] = IF v = u THEN Told(Queue[1], u) ELSE podByUID[v]
  BY HandleMoves
<1>2. Len(Queue) \in Nat \ {0} /\ 1 \in 0..Len(Queue) /\ 0 \in 0..Len(Queue)
  BY QueueIs DEF QueueFacts
<1>3. \A v \in UIDs : PodAfter(podByUID, Queue, 1, v) =
        IF Tells(Queue[1], v) THEN Told(Queue[1], v) ELSE podByUID[v]
  <2> SUFFICES ASSUME NEW v \in UIDs
               PROVE  PodAfter(podByUID, Queue, 1, v) =
                        IF Tells(Queue[1], v) THEN Told(Queue[1], v) ELSE podByUID[v]
    OBVIOUS
  <2>1. 0 \in Nat /\ 0 + 1 = 1 /\ \A j \in 1..0 : FALSE
    OBVIOUS
  <2>2. PodAfter(podByUID, Queue, 0 + 1, v) = IF Tells(Queue[0 + 1], v)
          THEN Told(Queue[0 + 1], v) ELSE PodAfter(podByUID, Queue, 0, v)
    BY <2>1, PodAfterStep
  <2>3. PodAfter(podByUID, Queue, 0, v) = podByUID[v]
    BY <2>1, NoneTells
  <2> QED
    BY <2>1, <2>2, <2>3
<1>4. \A v \in UIDs : PodAfter(podByUID', Queue', 0, v) = podByUID'[v]
  <2>1. 0 \in Nat /\ \A j \in 1..0 : FALSE
    OBVIOUS
  <2> QED
    BY <2>1, NoneTells
<1>5. \A v \in UIDs : PodAfter(podByUID, Queue, 0, v) = podByUID[v]
  <2>1. 0 \in Nat /\ \A j \in 1..0 : FALSE
    OBVIOUS
  <2> QED
    BY <2>1, NoneTells
<1>6. ASSUME NEW v \in UIDs, Clash(u, v), Told(Queue[1], u) # NoPod
      PROVE  podByUID[v] = NoPod
  <2>1. PodAfter(podByUID, Queue, 1, u) # NoPod
    BY <1>1, <1>3, <1>6
  <2>2. PodAfter(podByUID, Queue, 1, v) = NoPod
    BY <2>1, <1>2, <1>6 DEF NoClash
  <2>3. Tells(Queue[1], v) => Told(Queue[1], v) # NoPod
    BY <1>6 DEF Tells, Told
  <2> QED
    BY <2>2, <2>3, <1>3
<1>7. ASSUME NEW v \in UIDs, NEW w \in UIDs, Clash(v, w)
      PROVE  podByUID'[v] = NoPod \/ podByUID'[w] = NoPod
  <2>1. Clash(w, v) /\ v # w
    BY <1>7 DEF Clash, SameKind
  <2>2. CASE v = u
    BY <2>1, <2>2, <1>1, <1>6, <1>7
  <2>3. CASE w = u
    BY <2>1, <2>3, <1>1, <1>6
  <2>4. CASE v # u /\ w # u
    BY <2>4, <1>1, <1>2, <1>5, <1>7 DEF NoClash
  <2> QED
    BY <2>2, <2>3, <2>4
<1>8. NoClash(podByUID', Queue')
  <2> SUFFICES ASSUME NEW k \in 0..Len(Queue), NEW v \in UIDs, NEW w \in UIDs, Clash(v, w)
               PROVE  \/ PodAfter(podByUID', Queue', k, v) = NoPod
                      \/ PodAfter(podByUID', Queue', k, w) = NoPod
    BY <1>1 DEF NoClash
  <2>1. CASE k = 0
    BY <2>1, <1>4, <1>7
  <2>2. CASE k # 0
    <3>1. k \in 1..Len(Queue)
      BY <2>2, <1>2
    <3> QED
      BY <3>1, HandleAfter DEF NoClash
  <2> QED
    BY <2>1, <2>2
<1>9. ASSUME Queue[1].op # "REMOVE"
      PROVE  NameIsFree(u)
  <2>1. Told(Queue[1], u) # NoPod
    BY <1>1, <1>9 DEF Tells, Told
  <2> QED
    BY <2>1, <1>6 DEF NameIsFree, Clash, KnownPod
<1> QED
  BY <1>8, <1>9

LEMMA NextNoClash ==
  ASSUME OneSource
  PROVE  TypeOK /\ TypeOK' /\ OnlyHandled /\ ConfigInv /\ NoClash(podByUID, Queue)
           /\ [Next]_vars => NoClash(podByUID, Queue)'
<1> SUFFICES ASSUME TypeOK, TypeOK', OnlyHandled, ConfigInv, NoClash(podByUID, Queue),
                    [Next]_vars
             PROVE  NoClash(podByUID', Queue')
  OBVIOUS
<1>1. ASSUME NEW u \in UIDs, Discard(u) \/ \E pod \in Pod : Create(u, pod) \/ Edit(u, pod)
      PROVE  podByUID' = podByUID /\ Queue' = Queue
  BY <1>1 DEF Discard, Create, Edit, Change, storageVars, runVars, managerVars, Queue
<1>2. ASSUME Deliver
      PROVE  podByUID' = podByUID /\ Queue' = Queue
  BY <1>2, DeliverMoves DEF Deliver, managerVars
<1>3. ASSUME TakeUpdate
      PROVE  NoClash(podByUID', Queue')
  <2>1. /\ \A k \in 0..Len(Queue'), u \in UIDs :
             PodAfter(podByUID', Queue', k, u) = PodAfter(podByUID, Queue, k + 1, u)
        /\ Len(Queue) = Len(Queue') + 1 /\ Len(Queue') \in Nat
    BY <1>3, TakeAfter, TakeMoves, QueueIsNext DEF QueueFacts
  <2>2. \A k \in 0..Len(Queue') : k + 1 \in 0..Len(Queue)
    BY <2>1
  <2> QED
    BY <2>1, <2>2 DEF NoClash
<1>4. ASSUME Sync
      PROVE  NoClash(podByUID', Queue')
  <2>1. /\ \A k \in 0..Len(Queue), u \in UIDs :
             PodAfter(podByUID', Queue', k, u) = PodAfter(podByUID, Queue, k, u)
        /\ \A u \in UIDs : PodAfter(podByUID', Queue', Len(Queue'), u)
                             = PodAfter(podByUID, Queue, Len(Queue), u)
        /\ Len(Queue') = Len(Queue) + 1 /\ Len(Queue) \in Nat
    BY <1>4, SyncAfter, SyncMoves, QueueIs DEF QueueFacts, ConfigInv
  <2>2. \A k \in 0..Len(Queue') : k \in 0..Len(Queue) \/ k = Len(Queue')
    BY <2>1
  <2>3. Len(Queue) \in 0..Len(Queue)
    BY <2>1
  <2> QED
    BY <2>1, <2>2, <2>3 DEF NoClash
<1>5. ASSUME UNCHANGED vars
      PROVE  podByUID' = podByUID /\ Queue' = Queue
  BY <1>5 DEF vars, storageVars, runVars, managerVars, Queue
<1> QED
  BY <1>1, <1>2, <1>3, <1>4, <1>5, MergeNoClash, HandleNoClash DEF Next, Running

LEMMA ManagerKeeps ==
  TypeOK /\ TypeOK' /\ OnlyHandled /\ ConfigInv /\ NoClash(podByUID, Queue) /\ ManagerInv
    /\ [Next]_vars => ManagerInv'
<1> SUFFICES ASSUME TypeOK, TypeOK', OnlyHandled, ConfigInv, NoClash(podByUID, Queue),
                    ManagerInv, [Next]_vars
             PROVE  ManagerInv'
  OBVIOUS
<1>1. ASSUME NEW u \in UIDs, HandlePod(u)
      PROVE  ManagerInv'
  <2>1. Queue[1] = handling /\ Tells(handling, u) /\ 1 \in 1..Len(Queue)
    BY <1>1, HandleMoves, QueueIs DEF QueueFacts
  <2>2. handling.pods[u] \in Pod
    BY <1>1 DEF TypeOK, HandlePod, Present, PodUpdate, Pods
  <2>3. CASE handling.op = "REMOVE"
    <3>1. DeletePod(u)
      BY <1>1, <2>3 DEF HandlePod
    <3>2. KnownPod(u)
      <4>1. PodAfter(podByUID, Queue, 0, u) = podByUID[u]
        <5>1. 0 \in Nat /\ \A j \in 1..0 : FALSE
          OBVIOUS
        <5> QED
          BY <5>1, NoneTells
      <4>2. PodAfter(podByUID, Queue, 1 - 1, u) # NoPod
        BY <2>1, <2>3 DEF ConfigInv, OpsFit
      <4>3. 1 - 1 = 0
        OBVIOUS
      <4> QED
        BY <4>1, <4>2, <4>3 DEF KnownPod
    <3> QED
      BY <3>1, <3>2, DeleteInv
  <2>4. CASE handling.op # "REMOVE"
    <3>1. UpdatePod(u, handling.pods[u])
      BY <1>1, <2>4 DEF HandlePod
    <3>2. NameIsFree(u)
      BY <1>1, <2>1, <2>4, HandleNoClash
    <3> QED
      BY <3>1, <3>2, <2>2, UpdateInv
  <2> QED
    BY <2>3, <2>4
<1>2. ASSUME \A u \in UIDs : ~HandlePod(u)
      PROVE  UNCHANGED managerVars
  BY <1>2, OnlyRunSpeaks
<1> QED
  BY <1>1, <1>2, ManagerNextInv

\* Behind a Run loop that lags, while names pass from pod to pod at their source: the
\* pod manager is never given a name twice, so that its maps agree, translate to the
\* pod that has the name, and let a pod and its mirror pod find each other.
THEOREM NotifiedMapsAgree == ASSUME OneSource PROVE Spec => []MapsAgree
<1>1. Init => NoClash(podByUID, Queue) /\ ManagerInv
  BY InitKeeps, ManagerInitInv DEF Init
<1>2. Spec => [](NoClash(podByUID, Queue) /\ ManagerInv)
  BY <1>1, NextNoClash, ManagerKeeps, ConfigInvariant, PTL DEF Spec
<1>3. ManagerInv => MapsAgree
  BY InverseIsCurrent, PairsAreCurrent DEF ManagerInv, MapsAgree
<1> QED
  BY <1>2, <1>3, PTL

=============================================================================
