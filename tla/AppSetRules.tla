---------------------------- MODULE AppSetRules -----------------------------
(***************************************************************************)
(* The decisions of the master controller that read objects and touch      *)
(* nothing: what AdvDeployment a cluster should have, when two of them     *)
(* differ, what status an AppSet gets, which clusters are no longer wanted *)
(* (controllers/appset/step.go and utils.go).                              *)
(*                                                                         *)
(* An AppSet's topology is a function from the clusters it targets to what *)
(* runs there: how many pods, an image, standing for everything else that  *)
(* an AdvDeployment's spec is built from, and the zone of the cluster's    *)
(* Meta ("" when missing).                                                 *)
(***************************************************************************)
EXTENDS Naturals, Sequences, FiniteSets

Targets(app) == DOMAIN app.topo

\* The sum of a function to numbers, as the size of a set of pairs: proofs have
\* no induction for a sum, and lemmas for sizes.
PairsOf(f) == UNION {{x} \X (1..f[x]) : x \in DOMAIN f}
SumOf(f)   == Cardinality(PairsOf(f))

\* How many pods a topology asks for.
Pods(topo) == SumOf([c \in DOMAIN topo |-> topo[c].pods])

-----------------------------------------------------------------------------
\* The AdvDeployment of a cluster

DefaultLabelValue == "null"

\* makeAdvdeploymentLabel
ZoneLabel(target) == IF target.zone = "" THEN DefaultLabelValue ELSE target.zone

\* The zone of an AdvDeployment without the label: no label reads like this.
NoLabel == "(none)"

\* buildAdvdeploymentWithApp, as the member cluster stores it: generation 1,
\* and no status, which the status subresource drops on a create.
BuildAdvdeployment(app, c) ==
    [image |-> app.topo[c].image, pods |-> app.topo[c].pods,
     zone |-> ZoneLabel(app.topo[c]),
     gen |-> 1, obs |-> 0, phase |-> "", available |-> 0]

\* isAdvdeploymentDifferent: labels, then spec.
SameSpec(old, new) == old.image = new.image /\ old.pods = new.pods
IsAdvdeploymentDifferent(old, new) == old.zone # new.zone \/ ~SameSpec(old, new)

Observed(adv)   == adv.gen = adv.obs
Installing(adv) == ~Observed(adv) \/ adv.phase # "Running"

-----------------------------------------------------------------------------
\* The status of an AppSet

NoStatus == [phase |-> "", obs |-> 0, clusters |-> <<>>]

\* The indices of a list of [name, adv] for which P holds.
Having(list, P(_)) == {i \in DOMAIN list : P(list[i].adv)}

\* What the status says of each cluster that answered, and of all of them.
ClusterStatuses(list) ==
    [i \in DOMAIN list |-> [name |-> list[i].name, available |-> list[i].adv.available]]

AvailablePods(clusters) == SumOf([i \in DOMAIN clusters |-> clusters[i].available])

\* Faulty variant: the replicas of the clusters that answered stand for those
\* of the spec, as if spec.replicas were always nil.
BuildAppsetStatusOfObserved(app, list) ==
    [phase |-> IF Having(list, Installing) = {} THEN "Running" ELSE "Installing",
     obs |-> IF \A i \in DOMAIN list : Observed(list[i].adv)
             THEN app.gen ELSE app.gen - 1,
     clusters |-> ClusterStatuses(list)]

\* buildAppsetStatus over what the clusters answered, in the order they did: a
\* cluster that is unreachable or has no AdvDeployment is not in the list. The
\* pods that are available are summed and compared with spec.replicas; that
\* none is unavailable goes without saying, since the workers write Running
\* only when none is (advdeployment/step.go:488).
BuildAppsetStatus(app, list) ==
    [phase |-> IF /\ Having(list, Installing) = {}
                  /\ AvailablePods(ClusterStatuses(list)) = app.replicas
               THEN "Running" ELSE "Installing",
     obs |-> IF \A i \in DOMAIN list : Observed(list[i].adv)
             THEN app.gen ELSE app.gen - 1,
     clusters |-> ClusterStatuses(list)]

-----------------------------------------------------------------------------
\* The clusters an AppSet no longer wants

\* getUnexpectAdvdeploymentClusterList, over the [name, adv] that were found.
UnexpectClusters(app, found) == {e.name : e \in found} \ Targets(app)

\* Faulty variant: one other cluster of the zone that runs is enough.
UnexpectClustersSyncOnceOneRuns(app, found) ==
    LET others(e) == {o \in found : o.adv.zone = e.adv.zone /\ o.name # e.name}
    IN {e.name : e \in {f \in found :
          /\ f.name \notin Targets(app) /\ f.adv.zone # NoLabel
          /\ others(f) # {} => \E o \in others(f) : ~Installing(o.adv)}}

\* Faulty variant: whether a cluster is still a target is not asked.
UnexpectClustersSyncAnyTarget(app, found) ==
    LET wantedZones == {app.topo[c].zone : c \in Targets(app)}
        others(e)   == {o \in found : o.adv.zone = e.adv.zone /\ o.name # e.name}
    IN {e.name : e \in {f \in found :
          \/ f.adv.zone \notin wantedZones
          \/ \A o \in others(f) : ~Installing(o.adv)}}

\* Faulty variant: a zone that is wanted keeps its clusters, whatever runs.
UnexpectClustersSyncKeepsZones(app, found) ==
    {e.name : e \in {f \in found :
        /\ f.name \notin Targets(app) /\ f.adv.zone # NoLabel
        /\ f.adv.zone \notin {app.topo[c].zone : c \in Targets(app)}}}

\* getUnexpectAdvdeploymentClusterListSync: nothing as soon as a target has no
\* zone, and nothing of what has no zone label. A zone that is still wanted
\* keeps a cluster until the others of the zone all run, if there are others.
SomeZoneUnknown(app) == \E c \in Targets(app) : app.topo[c].zone = ""

UnexpectClustersSync(app, found) ==
    LET wantedZones == {app.topo[c].zone : c \in Targets(app)}
        others(e)   == {o \in found : o.adv.zone = e.adv.zone /\ o.name # e.name}
    IN {e.name : e \in {f \in found :
          /\ f.name \notin Targets(app) /\ f.adv.zone # NoLabel
          /\ \/ f.adv.zone \notin wantedZones
             \/ \A o \in others(f) : ~Installing(o.adv)}}

-----------------------------------------------------------------------------
\* Faulty variants: the finalizer is no reason to reconcile; nor is a deletion
\* that changes nothing else.
PredicateSpecUpdateNoMeta(old, new) ==
    old.topo # new.topo \/ old.replicas # new.replicas \/ new.del

PredicateSpecUpdateNoDeletion(old, new) ==
    \/ old.topo # new.topo \/ old.replicas # new.replicas
    \/ old.wait # new.wait \/ old.fin # new.fin \/ old.del # new.del

\* ObjecteMetaEqual of two AppSets: their finalizers, labels and annotations
\* but the ignored ones. Of these the finalizer and the annotation that asks
\* to wait until all is ready matter here.
ObjecteMetaEqual(old, new) == old.fin = new.fin /\ old.wait = new.wait

\* What a watch event of an AppSet has to change for predicateSpec.Update to
\* let it through; creates and deletes always pass.
PredicateSpecUpdate(old, new) ==
    \/ old.topo # new.topo
    \/ old.replicas # new.replicas
    \/ ~ObjecteMetaEqual(old, new)
    \/ new.del
=============================================================================
