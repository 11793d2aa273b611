----------------------------- MODULE Decisions -----------------------------
(***************************************************************************)
(* The decisions of the controllers that are neither steps nor recursive:  *)
(* a question is asked, one rule of the code answers it, and each property *)
(* compares the answer with a reference that is defined in another way.    *)
(***************************************************************************)
EXTENDS AppSetRules, WorkerRules

CONSTANTS Surveys,        \* [app, found]: topologies and AdvDeployments found
          VersionLists,   \* the versions of the clusters, in a list
          HpaAsks,        \* [enable, replicas, asks]
          Unanswered

\* A cluster has one AdvDeployment of a name, the API servers refuse negative
\* replicas, an annotation asks for metrics in a list, and a version is a list of
\* tags.
ASSUME DecisionAssumption ==
    /\ \A s \in Surveys : \A d, e \in s.found : d.name = e.name => d = e
    /\ HpaAsks \subseteq
         [enable : BOOLEAN, replicas : 0..MaxInt,
          asks : Seq([resource : STRING, type : STRING, text : Int])]
    /\ VersionLists \subseteq Seq(Seq([text : STRING, num : Int]))

VARIABLES question, answer

DecisionQuestions == [about : {"retire"}, of : Surveys]
                     \cup [about : {"version"}, of : VersionLists]
                     \cup [about : {"hpa"}, of : HpaAsks]

Ask(about)      == question.about = about /\ answer = Unanswered
Answer(a)       == answer' = [is |-> a] /\ UNCHANGED question
Answered(about) == question.about = about /\ answer # Unanswered

\* A target without a zone stops the retirement of all.
Retire ==
    LET app == question.of.app IN
    /\ Ask("retire")
    /\ Answer(IF SomeZoneUnknown(app) THEN {}
              ELSE UnexpectClustersSync(app, question.of.found))

Version == Ask("version") /\ Answer(MergeVersions(question.of))

Autoscale ==
    /\ Ask("hpa")
    /\ Answer(Hpa(question.of.enable, question.of.replicas, question.of.asks))

Decide == Retire \/ Version \/ Autoscale

DecisionInit == question \in DecisionQuestions /\ answer = Unanswered
DecisionSpec == DecisionInit /\ [][Decide]_<<question, answer>>

-----------------------------------------------------------------------------
\* A zone that is wanted, has an AdvDeployment on a target and has one that
\* runs, keeps one that runs, whichever clusters are retired at once.
ZoneStaysServed ==
    Answered("retire") =>
        LET app   == question.of.app
            found == question.of.found
            kept  == {e \in found : e.name \notin answer.is}
            runs(es, z) == \E e \in es : e.adv.zone = z /\ ~Installing(e.adv)
        IN \A c \in Targets(app) :
             LET z == app.topo[c].zone IN
             /\ \E e \in found : e.name \in Targets(app) /\ e.adv.zone = z
             /\ runs(found, z)
             => runs(kept, z)

\* The version of a status does not depend on the order in which the clusters
\* answered: every tag once, by number. This needs tags that are numbers.
VersionsInAnyOrder ==
    Answered("version") =>
        LET tags == UNION {ToSet(v) : v \in ToSet(question.of)}
        IN (\A tag \in tags : tag = Proper(tag.num))
             => /\ ToSet(answer.is) = tags
                /\ \A i \in 1..Len(answer.is) - 1 : answer.is[i].num < answer.is[i + 1].num

\* What the API server demands of an autoscaler: a target to scale by, each
\* utilization at least 1, each average value positive, a minimum of at least 1
\* and no maximum below it. (Without metrics it would take its own default.)
Accepted(hpa) ==
    /\ hpa.metrics # <<>>
    /\ \A i \in DOMAIN hpa.metrics : hpa.metrics[i].value > 0
    /\ hpa.min >= 1
    /\ hpa.max >= hpa.min

\* An annotation asks for an average value that is not positive.
AsksNoQuantity(asks) ==
    \E i \in DOMAIN asks : /\ asks[i].resource \in {"cpu", "memory"}
                           /\ asks[i].type = "AverageValue"
                           /\ asks[i].text <= 0

\* Whatever else the annotations hold, the HPA that would be written is one the
\* API server accepts, but in two cases, and in both it is refused: twice the
\* replicas wraps (step.go:172), which leaves a maximum below the minimum, or
\* an average value is asked for that is not positive, which is passed on as it
\* is (utils.go:302), where a percentage out of range is left out.
HpaAccepted ==
    Answered("hpa") =>
        \A i \in DOMAIN answer.is :
            Accepted(answer.is[i]) <=> /\ 2 * question.of.replicas \in Int32
                                       /\ ~AsksNoQuantity(question.of.asks)
=============================================================================
