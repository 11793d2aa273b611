--------------------------- MODULE MCAppSetMaster ---------------------------
(***************************************************************************)
(* AppSetMaster for two member clusters (MCAppSetMaster.cfg,               *)
(* MCAppSetRetire.cfg, MCAppSetAsBuilt.cfg) or one (the others).           *)
(***************************************************************************)
EXTENDS AppSetMaster, TLC

CONSTANTS c1, c2

Target(image, zone) == [image |-> image, zone |-> zone, pods |-> 1]

Ask(topo, wait) == [topo |-> topo, wait |-> wait, replicas |-> Pods(topo)]

\* Two clusters of different zones with one image, or the first of them with
\* another image.
TwoClusterSpecs ==
    {Ask(c1 :> Target("v1", "z1") @@ c2 :> Target("v1", "z2"), FALSE),
     Ask(c1 :> Target("v2", "z1"), FALSE)}

\* The cluster with either of two images, or not.
OneClusterSpecs ==
    {Ask(c1 :> Target("v1", "z1"), FALSE), Ask(c1 :> Target("v2", "z1"), FALSE),
     Ask(<<>>, FALSE)}

\* The cluster with one image in either of two zones, or not, and then with or
\* without waiting until all is ready.
LiveSpecs ==
    {Ask(c1 :> Target("v1", "z1"), FALSE), Ask(c1 :> Target("v1", "z2"), FALSE),
     Ask(<<>>, FALSE), Ask(<<>>, TRUE)}

\* The first cluster in either zone, or none.
RetireSpecs ==
    {Ask(c1 :> Target("v1", "z1"), FALSE), Ask(c1 :> Target("v1", "z2"), FALSE),
     Ask(<<>>, FALSE)}

\* Every cluster runs one pod, or an autoscaler can make two of that of the
\* first one.
OnePodEach  == [c \in Clusters |-> {1}]
FirstScaled == [c \in Clusters |-> IF c = c1 THEN {1, 2} ELSE {1}]

NoLeftovers == {}

\* What an earlier release of the controller left running, with its label or
\* without.
Leftover(zone) == [image |-> "v1", zone |-> zone, pods |-> 1, gen |-> 1, obs |-> 1,
                   phase |-> "Running", available |-> 1]

SomeLeftovers   == {Leftover("z1")}
RetireLeftovers == {Leftover("z1"), Leftover(NoLabel)}

\* The users of these runs ask for a replica for each pod, as the theorem about
\* RunningCoversTargets supposes.
ASSUME UsersAssumption == ReplicasCoverTargets
=============================================================================
