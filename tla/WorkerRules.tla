---------------------------- MODULE WorkerRules -----------------------------
(***************************************************************************)
(* Decisions of controllers/advdeployment and of the version merge of      *)
(* controllers/appset that only compute: the HorizontalPodAutoscaler that  *)
(* the annotations ask for, and the versions shown in a status.            *)
(***************************************************************************)
EXTENDS Integers, Sequences, FiniteSets, SequencesExt

CONSTANT MaxInt   \* the largest int32

ASSUME MaxIntAssumption == MaxInt \in Nat /\ MaxInt >= 100

Int32      == -(MaxInt + 1) .. MaxInt
Modulus    == 2 * (MaxInt + 1)
Wrapped(n) == LET m == n % Modulus IN IF m \in Int32 THEN m ELSE m - Modulus

-----------------------------------------------------------------------------
\* The HorizontalPodAutoscaler. An annotation asks for metrics: a resource, a
\* type of target and a text, which is a number, blank or no number at all.

Blank   == MaxInt + 1
Garbage == MaxInt + 2

Metric(resource, type, value) ==
    [resource |-> resource, type |-> type, value |-> value]

Percent(resource, n)      == Metric(resource, "Utilization", n)
Quantity(resource, n)     == Metric(resource, "AverageValue", n)
IsInt32(text)             == text \in Int32
IsQuantity(text)          == text \notin {Blank, Garbage}

\* Faulty variant: a percentage is any number that fits.
CreateResourceMetricUnbounded(ask) ==
    CASE ask.type = "AverageUtilization" /\ IsInt32(ask.text) ->
           <<Percent(ask.resource, ask.text)>>
      [] OTHER -> <<>>

\* createResourceMetric: one metric, or none for what is invalid.
CreateResourceMetric(ask) ==
    CASE ask.type = "AverageUtilization" /\ IsInt32(ask.text) /\ ask.text \in 1..100 ->
           <<Percent(ask.resource, ask.text)>>
      [] ask.type = "AverageValue" /\ IsQuantity(ask.text) ->
           <<Quantity(ask.resource, ask.text)>>
      [] OTHER -> <<>>

\* parseMetrics: the valid ones for the two resources.
ParseMetrics(asks) ==
    FlattenSeq([i \in DOMAIN asks |->
        IF asks[i].resource \in {"cpu", "memory"}
          THEN CreateResourceMetric(asks[i]) ELSE <<>>])

\* getDefaultMetric, with the default configuration.
DefaultMetric == <<Percent("cpu", 70), Percent("memory", 70)>>

\* applyHorizontalPodAutoscaler up to the write; nothing is wanted without
\* the annotation, or for an object without replicas.
Hpa(enable, replicas, asks) ==
    IF ~enable \/ replicas = 0 THEN <<>>
    ELSE LET metrics == ParseMetrics(asks)
         IN <<[metrics |-> IF metrics = <<>> THEN DefaultMetric ELSE metrics,
               min |-> replicas, max |-> Wrapped(replicas * 2)]>>

-----------------------------------------------------------------------------
\* Versions: sequences of tags, joined by "/" in the code. A tag is its text
\* and what Atoi makes of the text without a leading "v", 0 for no number.

Tag(text, num) == [text |-> text, num |-> num]
Proper(n)      == Tag("v" \o ToString(n), n)

\* sort.Ints: each of the tags once, by their numbers.
InOrder(s) == \A i, j \in DOMAIN s : i < j => s[i] # s[j] /\ s[i].num <= s[j].num

SortInts(tags) ==
    CHOOSE s \in [1..Cardinality(tags) -> tags] : ToSet(s) = tags /\ InOrder(s)

\* Faulty variant: the tags are merged in the order they come.
MergeVersionAsTheyCome(v1, v2) ==
    v1 \o SelectSeq(v2, LAMBDA tag : tag \notin ToSet(v1))

\* mergeVersion: the different texts, by their numbers, written as "v" and
\* the number.
MergeVersion(v1, v2) ==
    LET sorted == SortInts(ToSet(v1) \cup ToSet(v2))
    IN [i \in DOMAIN sorted |-> Proper(sorted[i].num)]

\* The versions of a list of clusters: buildAppsetStatus merges each into what
\* it has of those before.
MergeVersions(versions) ==
    LET merged[i \in 0..Len(versions)] ==
          IF i = 0 THEN <<>> ELSE MergeVersion(merged[i - 1], versions[i])
    IN merged[Len(versions)]
=============================================================================
