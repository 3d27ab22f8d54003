------------------------------ MODULE MCProber ------------------------------
EXTENDS Prober

MCContainers == <<"c">>
Probing(policy, probes, again) ==
  [policy |-> policy, probes |-> [n \in {"c"} |-> probes], again |-> again]

\* One probe at a time; only the pod without one lives twice.
MCPodSpecs ==
  {Probing("OnFailure", {"startup"}, FALSE), Probing("Never", {"readiness"}, FALSE),
   Probing("Always", {"liveness"}, FALSE), Probing("OnFailure", {}, TRUE)}

MCFailureThreshold == [t \in ProbeTypes |-> IF t = "liveness" THEN 2 ELSE 1]
MCSuccessThreshold == [t \in ProbeTypes |-> 1]
=============================================================================
