----------------------------- MODULE MCAdvWorker -----------------------------
(***************************************************************************)
(* Instance of AdvWorker for TLC: two workloads, three contents. The       *)
(* charts of Deployments: both at one content; both at the other, so that  *)
(* all of them differ; one of them only, at a content that differs or one  *)
(* that cannot be marshalled, so that the other is unused; and one chart   *)
(* for each flaw. The flaws do not depend on the kind, and of a            *)
(* StatefulSet every content differs. Deployments begin with a chart that  *)
(* can be applied again or with one that cannot; the edit leads to every   *)
(* other.                                                                  *)
(***************************************************************************)
EXTENDS AdvWorker

CONSTANTS w1, w2, c1, c2, c3

Chart(flaw, want) == [flaw |-> flaw, want |-> want]
Both(c)           == Chart("none", [n \in {w1, w2} |-> c])
One(c)            == Chart("none", [n \in {w1} |-> c])

MCCharts == [k \in Kinds |->
    CASE k = "Deployment"  -> {Both(c1), Both(c2), One(c2),
                               One(c3),
                               Chart("kind", [n \in {w1} |-> c2]),
                               Chart("render", [n \in {} |-> c1]),
                               Chart("type", [n \in {} |-> c1])}
      [] k = "StatefulSet" -> {Both(c1)}
      [] k = "Job"         -> {Both(c1), Both(c2)}]

MCInit == Init /\ (kind = "Deployment" => adv.chart \in {Both(c1), One(c3)})
MCSpec == MCInit /\ [][Next]_vars /\ Fairness
=============================================================================
