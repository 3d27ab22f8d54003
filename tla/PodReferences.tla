--------------------------- MODULE PodReferences ---------------------------
(***************************************************************************)
(* The secrets and configmaps a pod spec names: pkg/api/v1/pod/util.go,    *)
(* VisitPodSecretNames and VisitPodConfigmapNames with the visitors of     *)
(* secret_manager.go and configmap_manager.go, which put every name they   *)
(* are shown into a set and never stop the visit.                          *)
(*                                                                         *)
(* A spec is a record: the names of its imagePullSecrets; its init, plain  *)
(* and ephemeral containers, each with the names its envFrom and env take  *)
(* from secrets and from configmaps; its volumes, each with its kind and   *)
(* the secrets and configmaps its source names.  A reference may be the    *)
(* empty name.                                                             *)
(***************************************************************************)
EXTENDS Integers

NoName == ""

Container(secrets, configMaps) == [secrets |-> secrets, configMaps |-> configMaps]
Volume(kind, secrets, configMaps) ==
  [kind |-> kind, secrets |-> secrets, configMaps |-> configMaps]

\* VisitContainers with AllContainers
Visited(spec) ==
  spec.initContainers \union spec.containers \union spec.ephemeralContainers

\* The cases of the switch over the volume's source.  Only one source of a
\* volume is set, so that its kind decides which names are looked at.
SecretVolumes == {"azureFile", "cephFS", "cinder", "flexVolume", "projected",
                  "rbd", "secret", "scaleIO", "iscsi", "storageOS", "csi"}
ConfigMapVolumes == {"projected", "configMap"}

\* The names envFrom and env take from secrets, and from configmaps
visitContainerSecretNames(c) == c.secrets
visitContainerConfigmapNames(c) == c.configMaps

\* skipEmptyNames keeps the empty name from the visitor
VisitPodSecretNames(spec) ==
  (spec.imagePullSecrets
     \union UNION {visitContainerSecretNames(c) : c \in Visited(spec)}
     \union UNION {v.secrets : v \in {w \in spec.volumes : w.kind \in SecretVolumes}})
  \ {NoName}

VisitPodConfigmapNames(spec) ==
  (UNION {visitContainerConfigmapNames(c) : c \in Visited(spec)}
     \union UNION {v.configMaps :
                     v \in {w \in spec.volumes : w.kind \in ConfigMapVolumes}})
  \ {NoName}

\* The visitors only collect: none of them stops the visit
getSecretNames(spec) == VisitPodSecretNames(spec)
getConfigMapNames(spec) == VisitPodConfigmapNames(spec)

\* What NewWatchingSecretManager and NewWatchingConfigMapManager hand to the
\* cache as getReferencedObjects
getReferencedObjects(resource, spec) ==
  IF resource = "secret" THEN getSecretNames(spec) ELSE getConfigMapNames(spec)
=============================================================================
