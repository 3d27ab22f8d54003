--------------------------- MODULE MCObjectCache ---------------------------
EXTENDS ObjectCache

\* A pod that mounts a secret and uses it in a container as well, and one whose
\* references are all to other kinds of objects or to nothing.
Mounts == [imagePullSecrets |-> {NoName}, initContainers |-> {},
           containers |-> {Container({"s"}, {"c"})}, ephemeralContainers |-> {},
           volumes |-> {Volume("secret", {"s"}, {})}]
Plain == [imagePullSecrets |-> {}, initContainers |-> {Container({}, {"s"})},
          containers |-> {}, ephemeralContainers |-> {},
          volumes |-> {Volume("configMap", {}, {"s"}), Volume("emptyDir", {}, {})}]

MCSpecs == {Mounts, Plain}
MCObjects == {"s"}
MCLife == <<"mutable", "immutable">>
=============================================================================
