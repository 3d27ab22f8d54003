----------------------------- MODULE PodManager -----------------------------
(***************************************************************************)
(* pkg/kubelet/pod/pod_manager.go: the pods the kubelet knows, indexed by  *)
(* UID and by full name, and the translation of mirror pod UIDs.  Every    *)
(* method holds the manager's lock; the secret and configMap managers it   *)
(* is given are the simple ones, which register nothing.                   *)
(***************************************************************************)
EXTENDS Integers

CONSTANTS
  UIDs, NoUID,
  NameOf,       \* [UIDs -> full names]
  MirrorUIDs,   \* the UIDs of mirror pods; a static pod's has the same full name
  Specs,        \* what a change of which makes an update
  Statuses,     \* contents of pod.Status
  NoPod

ASSUME PodManagerAssumption ==
  /\ NoUID \notin UIDs
  /\ MirrorUIDs \subseteq UIDs

Names == {NameOf[u] : u \in UIDs}
PodUIDs == UIDs \ MirrorUIDs

Pod == [spec : Specs, deleting : BOOLEAN, status : Statuses]
ASSUME NoPodAssumption == NoPod \notin Pod

VARIABLES
  podByUID,              \* [UIDs -> Pod or NoPod], mirrorPodByUID included
  podByFullName,         \* [Names -> the UID of the pod there, or NoUID]
  mirrorPodByFullName,
  translationByUID       \* [UIDs -> UIDs or NoUID]

managerVars == <<podByUID, podByFullName, mirrorPodByFullName, translationByUID>>

ManagerTypeOK ==
  /\ podByUID \in [UIDs -> Pod \union {NoPod}]
  /\ podByFullName \in [Names -> PodUIDs \union {NoUID}]
  /\ mirrorPodByFullName \in [Names -> MirrorUIDs \union {NoUID}]
  /\ translationByUID \in [UIDs -> PodUIDs \union {NoUID}]
  /\ \A u \in PodUIDs : translationByUID[u] = NoUID

ManagerInit ==
  /\ podByUID = [u \in UIDs |-> NoPod]
  /\ podByFullName = [n \in Names |-> NoUID]
  /\ mirrorPodByFullName = [n \in Names |-> NoUID]
  /\ translationByUID = [u \in UIDs |-> NoUID]

KnownPod(u) == podByUID[u] # NoPod

\* GetPods and GetPodsAndMirrorPods
GetPods == {u \in PodUIDs : KnownPod(u)}
GetMirrorPods == {m \in MirrorUIDs : KnownPod(m)}
GetMirrorPodByPod(u) == mirrorPodByFullName[NameOf[u]]
GetPodByMirrorPod(m) == podByFullName[NameOf[m]]

-----------------------------------------------------------------------------
\* Which mirror pod is to be translated to which pod once u is in the manager:
\* a mirror pod may come before or after the pod of its name.
Translated(u, m) ==
  IF u \in MirrorUIDs THEN u = m /\ podByFullName[NameOf[u]] # NoUID
  ELSE mirrorPodByFullName[NameOf[u]] = m

\* updatePodsInternal; AddPod is UpdatePod.
UpdatePod(u, pod) ==
  LET n == NameOf[u]
      target == IF u \in MirrorUIDs THEN podByFullName[n] ELSE u
  IN
  /\ podByUID' = [podByUID EXCEPT ![u] = pod]
  /\ translationByUID' =
       [m \in UIDs |-> IF Translated(u, m) THEN target ELSE translationByUID[m]]
  /\ IF u \in MirrorUIDs
     THEN /\ mirrorPodByFullName' = [mirrorPodByFullName EXCEPT ![n] = u]
          /\ UNCHANGED podByFullName
     ELSE /\ podByFullName' = [podByFullName EXCEPT ![n] = u]
          /\ UNCHANGED mirrorPodByFullName

\* DeletePod clears the name whichever pod has it.
Cleared(index, u) == [index EXCEPT ![NameOf[u]] = NoUID]

DeletePod(u) ==
  /\ podByUID' = [podByUID EXCEPT ![u] = NoPod]
  /\ IF u \in MirrorUIDs
     THEN /\ mirrorPodByFullName' = Cleared(mirrorPodByFullName, u)
          /\ translationByUID' = [translationByUID EXCEPT ![u] = NoUID]
          /\ UNCHANGED podByFullName
     ELSE /\ podByFullName' = Cleared(podByFullName, u)
          /\ UNCHANGED <<mirrorPodByFullName, translationByUID>>

\* SetPods starts the indexes afresh.
SetPods(pods) ==
  LET Holder(S, n) == IF \E u \in S : NameOf[u] = n /\ pods[u] # NoPod
                      THEN CHOOSE u \in S : NameOf[u] = n /\ pods[u] # NoPod
                      ELSE NoUID
  IN
  /\ podByUID' = pods
  /\ podByFullName' = [n \in Names |-> Holder(PodUIDs, n)]
  /\ mirrorPodByFullName' = [n \in Names |-> Holder(MirrorUIDs, n)]
  /\ translationByUID' = [m \in UIDs |->
       IF m \in MirrorUIDs /\ pods[m] # NoPod THEN Holder(PodUIDs, NameOf[m])
       ELSE NoUID]

\* TranslatePodUID
TranslatePodUID(u) ==
  IF translationByUID[u] # NoUID THEN translationByUID[u] ELSE u

\* GetUIDTranslations, podToMirror: "" (here NoUID) for a static pod without mirror
PodToMirror(u) == {m \in MirrorUIDs : translationByUID[m] = u}

\* GetOrphanedMirrorPodNames
OrphanedMirrorPodNames ==
  {n \in Names : mirrorPodByFullName[n] # NoUID /\ podByFullName[n] = NoUID}

-----------------------------------------------------------------------------
(* The manager alone: the Run loop takes a name from one pod before it gives *)
(* it to the next, of either kind                                            *)

SameKind(u, v) == (u \in MirrorUIDs) = (v \in MirrorUIDs)
NameIsFree(u) ==
  \A v \in UIDs \ {u} : SameKind(u, v) /\ NameOf[v] = NameOf[u] => ~KnownPod(v)

ManagerNext ==
  \/ \E u \in UIDs, pod \in Pod : NameIsFree(u) /\ UpdatePod(u, pod)
  \/ \E u \in UIDs : KnownPod(u) /\ DeletePod(u)
  \/ \E S \in SUBSET UIDs :
       /\ \A u, v \in S : SameKind(u, v) /\ NameOf[u] = NameOf[v] => u = v
       /\ \E pod \in Pod : SetPods([u \in UIDs |-> IF u \in S THEN pod ELSE NoPod])

ManagerSpec == ManagerInit /\ [][ManagerNext]_managerVars

-----------------------------------------------------------------------------
(* Safety *)

\* The two indexes agree: a known pod is found by its name, and a name is never
\* left pointing at a pod that is gone.
NamesIndexed ==
  /\ \A u \in PodUIDs : KnownPod(u) <=> podByFullName[NameOf[u]] = u
  /\ \A u \in MirrorUIDs : KnownPod(u) <=> mirrorPodByFullName[NameOf[u]] = u

\* A mirror pod is translated to the pod that has its name now, whichever of the
\* two came first and however often either was replaced.
TranslationIsCurrent ==
  \A m \in MirrorUIDs, u \in PodUIDs :
    KnownPod(m) /\ KnownPod(u) /\ NameOf[m] = NameOf[u] =>
      TranslatePodUID(m) = u /\ PodToMirror(u) = {m}

\* A pod and its mirror pod find each other, and the mirror pods that find none are
\* the orphans.
PairsAgree ==
  /\ \A m \in GetMirrorPods, u \in GetPods :
       NameOf[m] = NameOf[u] => GetMirrorPodByPod(u) = m /\ GetPodByMirrorPod(m) = u
  /\ OrphanedMirrorPodNames =
       {NameOf[m] : m \in GetMirrorPods} \ {NameOf[u] : u \in GetPods}

\* The six maps tell of the same pods.
MapsAgree == NamesIndexed /\ TranslationIsCurrent /\ PairsAgree
=============================================================================
