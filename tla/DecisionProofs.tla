--------------------------- MODULE DecisionProofs ---------------------------
(***************************************************************************)
(* Decisions for every survey of the clusters and every annotation: a zone *)
(* that is served stays served whichever clusters are retired at once,     *)
(* which HPAs the API server accepts of those that annotations ask for,    *)
(* and the version of a status does not depend on the order of any number  *)
(* of answers.                                                             *)
(***************************************************************************)
EXTENDS Decisions, ListLemmas, FiniteSetTheorems, TLAPS

\* A question is one of those that are asked.
QuestionInv == question \in DecisionQuestions

-----------------------------------------------------------------------------
\* Which clusters are retired

\* The heart of the rule: of a zone that is wanted, has an AdvDeployment on a
\* target and has one that runs, one that runs is kept. If one that runs is
\* retired then the others of its zone run, the target's among them, and a
\* target is never retired.
LEMMA ServedZoneIsKept ==
    ASSUME NEW app, NEW found,
           \A d, e \in found : d.name = e.name => d = e,
           NEW c \in Targets(app),
           NEW t \in found, t.name \in Targets(app), t.adv.zone = app.topo[c].zone,
           NEW r \in found, r.adv.zone = app.topo[c].zone, ~Installing(r.adv)
    PROVE  \E e \in found : /\ e.name \notin UnexpectClustersSync(app, found)
                            /\ e.adv.zone = app.topo[c].zone
                            /\ ~Installing(e.adv)
<1> DEFINE retired == UnexpectClustersSync(app, found)
<1>1. \A e \in found : e.name \in retired =>
        /\ e.name \notin Targets(app)
        /\ \/ e.adv.zone \notin {app.topo[d].zone : d \in Targets(app)}
           \/ \A o \in found : o.adv.zone = e.adv.zone /\ o.name # e.name
                                 => ~Installing(o.adv)
  <2>1. ASSUME NEW e \in found, e.name \in retired
        PROVE  /\ e.name \notin Targets(app)
               /\ \/ e.adv.zone \notin {app.topo[d].zone : d \in Targets(app)}
                  \/ \A o \in found : o.adv.zone = e.adv.zone /\ o.name # e.name
                                        => ~Installing(o.adv)
    <3>1. PICK f \in found :
            /\ f.name = e.name /\ f.name \notin Targets(app)
            /\ \/ f.adv.zone \notin {app.topo[d].zone : d \in Targets(app)}
               \/ \A o \in {o \in found : o.adv.zone = f.adv.zone /\ o.name # f.name} :
                    ~Installing(o.adv)
      BY <2>1, Zenon DEF UnexpectClustersSync
    <3>2. f = e
      BY <3>1
    <3>3. QED
      BY <3>1, <3>2
  <2>2. QED
    BY <2>1
<1>2. t.name \notin retired
  BY <1>1
<1> HIDE DEF retired
<1>3. CASE r.name \notin retired
  BY <1>3 DEF retired
<1>4. CASE r.name \in retired
  <2>1. r.name # t.name
    BY <1>2, <1>4
  <2>2. r.adv.zone \in {app.topo[d].zone : d \in Targets(app)}
    OBVIOUS
  <2>3. ~Installing(t.adv)
    BY <1>1, <1>4, <2>1, <2>2
  <2>4. QED
    BY <1>2, <2>3 DEF retired
<1>5. QED
  BY <1>3, <1>4

\* The answer to a survey keeps the zones served, an answer that retires no
\* cluster for want of a target's zone included.
LEMMA RetireServes == QuestionInv /\ Retire => ZoneStaysServed'
<1> SUFFICES ASSUME QuestionInv, Retire PROVE ZoneStaysServed'
  OBVIOUS
<1> DEFINE app   == question.of.app
           found == question.of.found
           z(c)  == app.topo[c].zone
<1>1. question' = question /\ question.of \in Surveys
  BY DEF Retire, Ask, Answer, QuestionInv, DecisionQuestions
<1>2. \A d, e \in found : d.name = e.name => d = e
  BY <1>1, DecisionAssumption
<1>3. answer'.is = {} \/ answer'.is = UnexpectClustersSync(app, found)
  BY DEF Retire, Answer
<1>4. ASSUME NEW c \in Targets(app),
             NEW t \in found, t.name \in Targets(app), t.adv.zone = z(c),
             NEW r \in found, r.adv.zone = z(c), ~Installing(r.adv)
      PROVE  \E e \in found : /\ e.name \notin answer'.is
                              /\ e.adv.zone = z(c) /\ ~Installing(e.adv)
  <2>1. CASE answer'.is = {}
    BY <1>4, <2>1
  <2>2. CASE answer'.is = UnexpectClustersSync(app, found)
    <3>1. \E e \in found : /\ e.name \notin UnexpectClustersSync(app, found)
                           /\ e.adv.zone = z(c) /\ ~Installing(e.adv)
      <4> HIDE DEF app, found
      <4>1. QED
        BY <1>2, <1>4, ServedZoneIsKept
    <3>2. QED
      BY <2>2, <3>1
  <2>3. QED
    BY <1>3, <2>1, <2>2
<1>5. QED
  BY <1>1, <1>4, Zenon DEF ZoneStaysServed

-----------------------------------------------------------------------------
\* What is asked of an HPA

Asks == [resource : STRING, type : STRING, text : Int]

\* The metrics that can be written for the two resources.
Resources == {"cpu", "memory"}
Metrics   == [resource : Resources, type : {"Utilization", "AverageValue"}, value : Int]
Positive  == {m \in Metrics : m.value > 0}

\* A percentage between 1 and 100 is a metric the API server accepts.
LEMMA PercentIsPositive ==
    ASSUME NEW resource \in Resources, NEW n \in 1..100
    PROVE  Percent(resource, n) \in Positive
BY DEF Percent, Metric, Metrics, Positive

\* One ask gives a metric or none, and one the API server accepts unless an
\* average value is asked for that is not positive, which is kept as it is.
LEMMA CreatedMetric ==
    ASSUME NEW ask \in Asks, ask.resource \in Resources
    PROVE  /\ CreateResourceMetric(ask) \in Seq(Metrics)
           /\ ~(ask.type = "AverageValue" /\ ask.text <= 0)
                => CreateResourceMetric(ask) \in Seq(Positive)
           /\ ask.type = "AverageValue" /\ ask.text <= 0
                => CreateResourceMetric(ask) = <<Quantity(ask.resource, ask.text)>>
<1>1. CASE ask.type = "AverageUtilization" /\ IsInt32(ask.text) /\ ask.text \in 1..100
  <2>1. CreateResourceMetric(ask) = <<Percent(ask.resource, ask.text)>>
    BY <1>1 DEF CreateResourceMetric
  <2>2. Percent(ask.resource, ask.text) \in Positive
    BY <1>1, PercentIsPositive DEF Asks
  <2>3. ask.type # "AverageValue"
    BY <1>1
  <2>4. QED
    BY <2>1, <2>2, <2>3 DEF Positive
<1>2. CASE ask.type = "AverageValue" /\ IsQuantity(ask.text)
  <2>1. CreateResourceMetric(ask) = <<Quantity(ask.resource, ask.text)>>
    BY <1>2 DEF CreateResourceMetric
  <2>2. Quantity(ask.resource, ask.text) \in Metrics
    BY <1>2 DEF Quantity, Metric, Metrics, Asks
  <2>3. ask.text > 0 => Quantity(ask.resource, ask.text) \in Positive
    BY <2>2 DEF Quantity, Metric, Positive
  <2>4. ask.text \in Int
    BY DEF Asks
  <2>5. QED
    BY <1>2, <2>1, <2>2, <2>3, <2>4
<1>3. CASE /\ ~(ask.type = "AverageUtilization" /\ IsInt32(ask.text) /\ ask.text \in 1..100)
           /\ ~(ask.type = "AverageValue" /\ IsQuantity(ask.text))
  <2>1. CreateResourceMetric(ask) = <<>>
    BY <1>3 DEF CreateResourceMetric
  <2>2. ask.text <= 0 => IsQuantity(ask.text)
    BY MaxIntAssumption DEF IsQuantity, Blank, Garbage, Asks
  <2>3. QED
    BY <1>3, <2>1, <2>2
<1>4. QED
  BY <1>1, <1>2, <1>3

\* Any list of asks gives a list of metrics, and each of them is accepted if and
\* only if no average value is asked for that is not positive.
LEMMA ParsedMetrics ==
    ASSUME NEW asks \in Seq(Asks)
    PROVE  /\ ParseMetrics(asks) \in Seq(Metrics)
           /\ ~AsksNoQuantity(asks) => ParseMetrics(asks) \in Seq(Positive)
           /\ AsksNoQuantity(asks) =>
                \E i \in DOMAIN ParseMetrics(asks) : ~(ParseMetrics(asks)[i].value > 0)
<1> DEFINE made(i) == IF asks[i].resource \in {"cpu", "memory"}
                        THEN CreateResourceMetric(asks[i]) ELSE <<>>
           lists   == [i \in DOMAIN asks |-> made(i)]
<1>1. /\ DOMAIN asks = 1..Len(asks) /\ Len(asks) \in Nat
      /\ \A i \in 1..Len(asks) : asks[i] \in Asks
  OBVIOUS
<1>2. ParseMetrics(asks) = FlattenSeq(lists)
  BY Zenon DEF ParseMetrics
<1>3. ASSUME NEW i \in 1..Len(asks)
      PROVE  /\ made(i) \in Seq(Metrics)
             /\ ~AsksNoQuantity(asks) => made(i) \in Seq(Positive)
  <2>1. CASE asks[i].resource \in Resources
    <3>1. made(i) = CreateResourceMetric(asks[i])
      BY <2>1 DEF Resources
    <3>2. ~AsksNoQuantity(asks) => ~(asks[i].type = "AverageValue" /\ asks[i].text <= 0)
      BY <1>1, <2>1 DEF AsksNoQuantity, Resources
    <3>3. QED
      BY <1>1, <2>1, <3>1, <3>2, CreatedMetric
  <2>2. CASE asks[i].resource \notin Resources
    BY <2>2 DEF Resources
  <2>3. QED
    BY <2>1, <2>2
<1> HIDE DEF made
<1>4. /\ lists \in Seq(Seq(Metrics)) /\ Len(lists) = Len(asks)
      /\ \A i \in 1..Len(asks) : lists[i] = made(i)
      /\ ~AsksNoQuantity(asks) => lists \in Seq(Seq(Positive))
  BY <1>1, <1>3
<1> HIDE DEF lists
<1>5. AsksNoQuantity(asks) =>
        \E i \in DOMAIN ParseMetrics(asks) : ~(ParseMetrics(asks)[i].value > 0)
  <2> SUFFICES ASSUME AsksNoQuantity(asks)
               PROVE  \E i \in DOMAIN FlattenSeq(lists) : ~(FlattenSeq(lists)[i].value > 0)
    BY <1>2
  <2>1. PICK i \in 1..Len(asks) : /\ asks[i].resource \in Resources
                                  /\ asks[i].type = "AverageValue"
                                  /\ asks[i].text <= 0
    BY <1>1 DEF AsksNoQuantity, Resources
  <2> DEFINE x == Quantity(asks[i].resource, asks[i].text)
  <2>2. CreateResourceMetric(asks[i]) = <<x>>
    BY <1>1, <2>1, CreatedMetric
  <2>3. made(i) = <<x>>
    BY <2>1, <2>2 DEF made, Resources
  <2>4. x.value = asks[i].text
    BY DEF Quantity, Metric
  <2> HIDE DEF x
  <2>5. \E j \in DOMAIN lists[i] : lists[i][j] = x
    <3>1. lists[i] = <<x>>
      BY <1>4, <2>3
    <3>2. 1 \in DOMAIN <<x>> /\ <<x>>[1] = x
      OBVIOUS
    <3>3. QED
      BY <3>1, <3>2
  <2>6. \E k \in DOMAIN FlattenSeq(lists) : FlattenSeq(lists)[k] = x
    BY <1>4, <2>5, FlattenKeeps
  <2>7. ~(x.value > 0)
    BY <1>1, <2>1, <2>4 DEF Asks
  <2>8. QED
    BY <2>6, <2>7
<1>6. QED
  BY <1>2, <1>4, <1>5, FlattenType

\* The double of a number is itself if it is an int32, and negative if not.
LEMMA DoubleWraps ==
    ASSUME NEW n \in 0..MaxInt
    PROVE  /\ 2 * n \in Int32 => Wrapped(n * 2) = 2 * n
           /\ 2 * n \notin Int32 => Wrapped(n * 2) < 0
<1>1. MaxInt \in Nat /\ n \in Nat /\ n <= MaxInt
  BY MaxIntAssumption
<1>2. n * 2 = 2 * n /\ 2 * n \in 0..(Modulus - 1) /\ Modulus \in Nat \ {0}
  BY <1>1 DEF Modulus
<1>3. (2 * n) % Modulus = 2 * n
  BY <1>2
<1>4. Wrapped(n * 2) = IF 2 * n \in Int32 THEN 2 * n ELSE 2 * n - Modulus
  BY <1>2, <1>3 DEF Wrapped
<1>5. 2 * n - Modulus < 0
  BY <1>1 DEF Modulus
<1>6. QED
  BY <1>4, <1>5

\* What applyHorizontalPodAutoscaler would write is accepted, but in the two
\* cases.
LEMMA AskedHpaIsAccepted ==
    ASSUME NEW enable \in BOOLEAN, NEW replicas \in 0..MaxInt,
           NEW asks \in Seq(Asks), NEW i \in DOMAIN Hpa(enable, replicas, asks)
    PROVE  Accepted(Hpa(enable, replicas, asks)[i])
             <=> 2 * replicas \in Int32 /\ ~AsksNoQuantity(asks)
<1> DEFINE parsed  == ParseMetrics(asks)
           metrics == IF parsed = <<>> THEN DefaultMetric ELSE parsed
           hpa     == [metrics |-> metrics, min |-> replicas, max |-> Wrapped(replicas * 2)]
           positive == \A j \in DOMAIN metrics : metrics[j].value > 0
<1>1. enable /\ replicas # 0 /\ Hpa(enable, replicas, asks)[i] = hpa
  <2>1. enable /\ replicas # 0
    BY DEF Hpa
  <2>2. Hpa(enable, replicas, asks) = <<hpa>>
    BY <2>1 DEF Hpa
  <2> HIDE DEF hpa
  <2>3. i = 1 /\ <<hpa>>[1] = hpa
    BY <2>2
  <2>4. QED
    BY <2>1, <2>2, <2>3
<1>2. metrics # <<>> /\ (~AsksNoQuantity(asks) => metrics \in Seq(Positive))
  <2>1. ~AsksNoQuantity(asks) => parsed \in Seq(Positive)
    BY ParsedMetrics
  <2>2. DefaultMetric # <<>> /\ DefaultMetric \in Seq(Positive)
    <3>1. Percent("cpu", 70) \in Positive /\ Percent("memory", 70) \in Positive
      <4>1. 70 \in 1..100
        OBVIOUS
      <4>2. "cpu" \in Resources /\ "memory" \in Resources
        BY DEF Resources
      <4>3. QED
        BY <4>1, <4>2, PercentIsPositive, Zenon
    <3>2. QED
      BY <3>1 DEF DefaultMetric
  <2> HIDE DEF parsed
  <2>3. QED
    BY <2>1, <2>2
<1>3. positive <=> ~AsksNoQuantity(asks)
  <2>1. CASE AsksNoQuantity(asks)
    <3>1. \E j \in DOMAIN parsed : ~(parsed[j].value > 0)
      BY <2>1, ParsedMetrics
    <3> HIDE DEF parsed
    <3>2. parsed # <<>>
      BY <3>1
    <3>3. QED
      BY <2>1, <3>1, <3>2
  <2>2. CASE ~AsksNoQuantity(asks)
    <3> HIDE DEF metrics
    <3>1. \A j \in DOMAIN metrics : metrics[j] \in Positive
      BY <1>2, <2>2
    <3>2. QED
      BY <2>2, <3>1 DEF Positive
  <2>3. QED
    BY <2>1, <2>2
<1>4. replicas >= 1 /\ (Wrapped(replicas * 2) >= replicas <=> 2 * replicas \in Int32)
  <2>1. replicas \in Nat \ {0}
    BY <1>1, MaxIntAssumption
  <2>2. CASE 2 * replicas \in Int32
    BY <2>1, <2>2, DoubleWraps
  <2>3. CASE 2 * replicas \notin Int32
    <3>1. Wrapped(replicas * 2) < 0 /\ Wrapped(replicas * 2) \in Int
      <4>1. Modulus \in Int /\ replicas * 2 \in Int
        BY <2>1, MaxIntAssumption DEF Modulus
      <4>2. (replicas * 2) % Modulus \in Int
        BY <2>1, MaxIntAssumption DEF Modulus
      <4>3. QED
        BY <2>3, <4>1, <4>2, DoubleWraps DEF Wrapped
    <3>2. QED
      BY <2>1, <2>3, <3>1
  <2>4. QED
    BY <2>1, <2>2, <2>3
<1>5. Accepted(hpa) <=> 2 * replicas \in Int32 /\ ~AsksNoQuantity(asks)
  <2> HIDE DEF metrics
  <2>1. hpa.metrics = metrics /\ hpa.min = replicas /\ hpa.max = Wrapped(replicas * 2)
    OBVIOUS
  <2> HIDE DEF hpa
  <2>2. QED
    BY <1>2, <1>3, <1>4, <2>1 DEF Accepted
<1>6. QED
  BY <1>1, <1>5

\* The answer to what is asked of an HPA.
LEMMA AutoscaleIsAccepted == QuestionInv /\ Autoscale => HpaAccepted'
<1> SUFFICES ASSUME QuestionInv, Autoscale PROVE HpaAccepted'
  OBVIOUS
<1> DEFINE q == question.of
<1>1. question' = question /\ q \in HpaAsks
  BY DEF Autoscale, Ask, Answer, QuestionInv, DecisionQuestions
<1>2. answer'.is = Hpa(q.enable, q.replicas, q.asks)
  BY DEF Autoscale, Answer
<1>3. q.enable \in BOOLEAN /\ q.replicas \in 0..MaxInt /\ q.asks \in Seq(Asks)
  BY <1>1, DecisionAssumption DEF Asks
<1> HIDE DEF q
<1>4. \A i \in DOMAIN Hpa(q.enable, q.replicas, q.asks) :
        Accepted(Hpa(q.enable, q.replicas, q.asks)[i])
          <=> 2 * q.replicas \in Int32 /\ ~AsksNoQuantity(q.asks)
  BY <1>3, AskedHpaIsAccepted
<1>5. \A i \in DOMAIN answer'.is :
        Accepted(answer'.is[i]) <=> 2 * q.replicas \in Int32 /\ ~AsksNoQuantity(q.asks)
  BY <1>2, <1>4
<1>6. QED
  BY <1>1, <1>5 DEF HpaAccepted, q

-----------------------------------------------------------------------------
\* The merge of versions

Tags    == [text : STRING, num : Int]
Propers == {t \in Tags : t = Proper(t.num)}

\* s has the tags of S, each once, in the order of their numbers.
Sorts(s, S) == /\ s \in [1..Cardinality(S) -> S]
               /\ ToSet(s) = S /\ InOrder(s)

\* A finite set of tags that is not empty has one with the least number: the
\* one with the fewest below it.
LEMMA LeastTag ==
    ASSUME NEW S \in SUBSET Tags, IsFiniteSet(S), S # {}
    PROVE  \E t \in S : \A u \in S : t.num <= u.num
<1> DEFINE below(t) == {u \in S : u.num < t.num}
           sizes    == {Cardinality(below(t)) : t \in S}
<1>1. ASSUME NEW t \in S PROVE IsFiniteSet(below(t)) /\ Cardinality(below(t)) \in Nat
  <2>1. below(t) \in SUBSET S
    OBVIOUS
  <2>2. QED
    BY <2>1, FS_Subset, FS_CardinalityType
<1>2. PICK m \in sizes : \A k \in sizes : m <= k
  <2>1. sizes \in SUBSET Nat /\ sizes # {}
    BY <1>1
  <2> HIDE DEF sizes
  <2>2. QED
    BY <2>1, LeastMember
<1>3. PICK t \in S : m = Cardinality(below(t))
  OBVIOUS
<1>4. ASSUME NEW u \in S, u.num < t.num PROVE FALSE
  <2>1. below(u) \in SUBSET below(t)
    BY <1>4 DEF Tags
  <2>2. u \in below(t) /\ u \notin below(u)
    BY <1>4 DEF Tags
  <2>3. /\ Cardinality(below(u)) <= Cardinality(below(t))
        /\ Cardinality(below(u)) # Cardinality(below(t))
    <3>1. IsFiniteSet(below(t))
      BY <1>1
    <3> HIDE DEF below
    <3>2. QED
      BY <2>1, <2>2, <3>1, FS_Subset
  <2>4. m <= Cardinality(below(u))
    BY <1>2
  <2>5. Cardinality(below(u)) \in Nat /\ Cardinality(below(t)) \in Nat
    BY <1>1
  <2> HIDE DEF below, sizes
  <2>6. QED
    BY <1>3, <2>3, <2>4, <2>5
<1>5. QED
  BY <1>4 DEF Tags

\* The tag with the least number, and then the others.
LEMMA SortsWithLeast ==
    ASSUME NEW S \in SUBSET Tags, IsFiniteSet(S),
           NEW t \in S, \A u \in S : t.num <= u.num,
           NEW r, Sorts(r, S \ {t})
    PROVE  \E s : Sorts(s, S)
<1> DEFINE n == Cardinality(S)
           s == [i \in 1..n |-> IF i = 1 THEN t ELSE r[i - 1]]
<1>1. n \in Nat \ {0} /\ Cardinality(S \ {t}) = n - 1
  BY FS_CardinalityType, FS_EmptySet, FS_RemoveElement
<1> HIDE DEF n
<1>2. /\ r \in [1..(n - 1) -> S \ {t}]
      /\ \A u \in S \ {t} : \E i \in 1..(n - 1) : r[i] = u
  BY <1>1 DEF Sorts, ToSet
<1>3. \A i \in 1..n : i # 1 => /\ i - 1 \in 1..(n - 1)
                              /\ s[i] = r[i - 1] /\ s[i] \in S \ {t}
  BY <1>1, <1>2
<1>4. s[1] = t
  BY <1>1
<1>5. s \in [1..n -> S]
  BY <1>3, <1>4
<1>6. ToSet(s) = S
  <2>1. ASSUME NEW u \in S PROVE \E i \in 1..n : s[i] = u
    <3>1. CASE u = t
      BY <1>1, <1>4, <3>1
    <3>2. CASE u # t
      <4>1. PICK i \in 1..(n - 1) : r[i] = u
        BY <1>2, <3>2
      <4>2. i + 1 \in 1..n /\ i + 1 # 1 /\ (i + 1) - 1 = i
        BY <1>1
      <4>3. QED
        BY <1>3, <4>1, <4>2
    <3>3. QED
      BY <3>1, <3>2
  <2> HIDE DEF s
  <2>2. QED
    BY <1>5, <2>1 DEF ToSet
<1>7. InOrder(s)
  <2> SUFFICES ASSUME NEW i \in 1..n, NEW j \in 1..n, i < j
               PROVE  s[i] # s[j] /\ s[i].num <= s[j].num
    BY <1>5 DEF InOrder
  <2>1. j # 1 /\ s[j] = r[j - 1] /\ s[j] \in S \ {t} /\ j - 1 \in 1..(n - 1)
    BY <1>1, <1>3
  <2>2. CASE i = 1
    BY <1>4, <2>1, <2>2
  <2>3. CASE i # 1
    <3>1. s[i] = r[i - 1] /\ i - 1 \in 1..(n - 1) /\ i - 1 < j - 1
      BY <1>3, <2>3
    <3>2. QED
      BY <1>2, <2>1, <3>1 DEF Sorts, InOrder
  <2>4. QED
    BY <2>2, <2>3
<1>8. QED
  BY <1>5, <1>6, <1>7 DEF Sorts, n

\* Every finite set of tags can be sorted: a smallest that could not be has a
\* least tag, and the rest can.
LEMMA SortExists ==
    ASSUME NEW S \in SUBSET Tags, IsFiniteSet(S)
    PROVE  \E s : Sorts(s, S)
<1> DEFINE Unsorted(n) == \E U \in SUBSET Tags : /\ IsFiniteSet(U) /\ Cardinality(U) = n
                                               /\ ~\E s : Sorts(s, U)
           T == {n \in Nat : Unsorted(n)}
<1> HIDE DEF Unsorted
<1>1. ASSUME T # {} PROVE FALSE
  <2>1. PICK m \in T : \A k \in T : m <= k
    <3>1. T \in SUBSET Nat
      OBVIOUS
    <3> HIDE DEF T
    <3>2. QED
      BY <1>1, <3>1, LeastMember
  <2>2. PICK U \in SUBSET Tags : /\ IsFiniteSet(U) /\ Cardinality(U) = m
                                 /\ ~\E s : Sorts(s, U)
    BY <2>1 DEF Unsorted
  <2>3. U # {}
    <3>1. SUFFICES ASSUME U = {} PROVE Sorts(<<>>, U)
      BY <2>2
    <3>2. Cardinality(U) = 0
      BY <3>1, FS_EmptySet
    <3>3. <<>> \in [1..0 -> {}] /\ ToSet(<<>>) = {} /\ InOrder(<<>>)
      BY DEF ToSet, InOrder
    <3>4. QED
      BY <3>1, <3>2, <3>3 DEF Sorts
  <2>4. PICK t \in U : \A u \in U : t.num <= u.num
    BY <2>2, <2>3, LeastTag
  <2>5. /\ IsFiniteSet(U \ {t}) /\ Cardinality(U \ {t}) = m - 1
        /\ m - 1 \in Nat /\ m \in Nat
    <3>1. /\ IsFiniteSet(U \ {t})
          /\ Cardinality(U \ {t}) = Cardinality(U) - 1
      BY <2>2, FS_RemoveElement
    <3>2. Cardinality(U \ {t}) \in Nat /\ Cardinality(U) \in Nat
      BY <2>2, <3>1, FS_CardinalityType
    <3>3. QED
      BY <2>2, <3>1, <3>2
  <2>6. m - 1 \notin T
    BY <2>1, <2>5
  <2>7. \E r : Sorts(r, U \ {t})
    <3>1. U \ {t} \in SUBSET Tags
      OBVIOUS
    <3>2. QED
      BY <2>5, <2>6, <3>1 DEF Unsorted
  <2>8. QED
    BY <2>2, <2>4, <2>7, SortsWithLeast
<1>2. Cardinality(S) \in Nat
  BY FS_CardinalityType
<1>3. QED
  BY <1>1, <1>2 DEF Unsorted

\* The members of a list are finitely many.
LEMMA ToSetFinite ==
    ASSUME NEW U, NEW v \in Seq(U)
    PROVE  IsFiniteSet(ToSet(v)) /\ ToSet(v) \in SUBSET U
<1>1. /\ Len(v) \in Nat /\ DOMAIN v = 1..Len(v)
      /\ \A i \in 1..Len(v) : v[i] \in U
  OBVIOUS
<1>2. ToSet(v) = {v[i] : i \in 1..Len(v)}
  BY <1>1 DEF ToSet
<1>3. v \in Surjection(1..Len(v), ToSet(v))
  BY <1>1, <1>2 DEF Surjection
<1>4. IsFiniteSet(1..Len(v))
  BY <1>1, FS_Interval
<1>5. QED
  BY <1>1, <1>2, <1>3, <1>4, FS_Surjection

\* A list whose numbers go up.
Ascending(v) == \A i, j \in DOMAIN v : i < j => v[i].num < v[j].num

\* Of tags that are numbers the merge has each that one of the two has, in
\* ascending order.
LEMMA MergedTwo ==
    ASSUME NEW v1 \in Seq(Propers), NEW v2 \in Seq(Propers)
    PROVE  /\ MergeVersion(v1, v2) \in Seq(Propers)
           /\ ToSet(MergeVersion(v1, v2)) = ToSet(v1) \cup ToSet(v2)
           /\ Ascending(MergeVersion(v1, v2))
<1> DEFINE S == ToSet(v1) \cup ToSet(v2)
           n == Cardinality(S)
           s == SortInts(S)
<1>1. IsFiniteSet(S) /\ S \in SUBSET Propers /\ n \in Nat
  BY ToSetFinite, FS_Union, FS_CardinalityType
<1>2. Sorts(s, S)
  <2>1. S \in SUBSET Tags
    BY <1>1 DEF Propers
  <2> HIDE DEF S
  <2>2. \E q : Sorts(q, S)
    BY <1>1, <2>1, SortExists
  <2>3. \E q \in [1..Cardinality(S) -> S] : ToSet(q) = S /\ InOrder(q)
    BY <2>2 DEF Sorts
  <2>4. QED
    BY <2>3, Zenon DEF SortInts, Sorts
<1>3. MergeVersion(v1, v2) = [i \in DOMAIN s |-> Proper(s[i].num)]
  BY DEF MergeVersion
<1> HIDE DEF S, n, s
<1>4. DOMAIN s = 1..n /\ \A i \in 1..n : s[i] \in S
  BY <1>2 DEF Sorts, n
<1>5. \A i \in 1..n : s[i] \in Propers /\ Proper(s[i].num) = s[i]
  BY <1>1, <1>4 DEF Propers
<1>6. MergeVersion(v1, v2) = s
  <2>1. s = [i \in 1..n |-> s[i]]
    BY <1>2 DEF Sorts, n
  <2>2. [i \in 1..n |-> Proper(s[i].num)] = [i \in 1..n |-> s[i]]
    BY <1>5
  <2>3. QED
    BY <1>3, <1>4, <2>1, <2>2
<1>7. s \in Seq(Propers)
  <2>1. s \in [1..n -> Propers]
    BY <1>2, <1>1 DEF Sorts, n
  <2>2. QED
    BY <1>1, <2>1
<1>8. Ascending(s)
  <2> SUFFICES ASSUME NEW i \in 1..n, NEW j \in 1..n, i < j
               PROVE  s[i].num < s[j].num
    BY <1>4 DEF Ascending
  <2>1. s[i] # s[j] /\ s[i].num <= s[j].num
    BY <1>2, <1>4 DEF Sorts, InOrder
  <2>2. s[i].num # s[j].num
    BY <1>5, <2>1
  <2>3. s[i].num \in Int /\ s[j].num \in Int
    BY <1>5 DEF Propers, Tags
  <2>4. QED
    BY <2>1, <2>2, <2>3
<1>9. QED
  BY <1>2, <1>6, <1>7, <1>8 DEF Sorts, S

\* What MergeVersions defines by recursion, with g for its own values.
Merges(vs, g, n) ==
    [i \in 0..n |-> IF i = 0 THEN <<>> ELSE MergeVersion(g[i - 1], vs[i])]

\* There is a function that satisfies the recursion.
LEMMA MergesExist ==
    ASSUME NEW vs, NEW n \in Nat
    PROVE  \E g : g = Merges(vs, g, n)
<1> DEFINE P(k) == \E g : g = Merges(vs, g, k)
           T    == {k \in Nat : ~P(k)}
<1> HIDE DEF P
<1>1. SUFFICES ASSUME T # {} PROVE FALSE
  BY DEF P
<1>2. PICK m \in T : \A k \in T : m <= k
  <2>1. T \in SUBSET Nat
    OBVIOUS
  <2> HIDE DEF T
  <2>2. QED
    BY <1>1, <2>1, LeastMember
<1>3. m \in Nat /\ ~P(m)
  OBVIOUS
<1>4. CASE m = 0
  <2> DEFINE h == [i \in 0..0 |-> <<>>]
  <2>1. \A i \in 0..0 : i = 0
    OBVIOUS
  <2>2. h = Merges(vs, h, 0)
    BY <2>1 DEF Merges
  <2>3. QED
    BY <1>3, <1>4, <2>2 DEF P
<1>5. CASE m # 0
  <2>1. m - 1 \in Nat /\ ~(m <= m - 1)
    BY <1>3, <1>5
  <2>2. PICK g : g = Merges(vs, g, m - 1)
    BY <1>2, <2>1 DEF P
  <2> DEFINE h == Merges(vs, g, m)
  <2>3. \A i \in 0..(m - 1) : h[i] = g[i]
    <3>1. ASSUME NEW i \in 0..(m - 1) PROVE h[i] = g[i]
      <4>1. h[i] = IF i = 0 THEN <<>> ELSE MergeVersion(g[i - 1], vs[i])
        BY <1>3 DEF Merges
      <4>2. Merges(vs, g, m - 1)[i] = IF i = 0 THEN <<>> ELSE MergeVersion(g[i - 1], vs[i])
        BY DEF Merges
      <4>3. QED
        BY <2>2, <4>1, <4>2
    <3>2. QED
      BY <3>1
  <2>4. \A i \in 0..m : i # 0 => i - 1 \in 0..(m - 1)
    BY <1>3
  <2>5. h = Merges(vs, h, m)
    <3> HIDE DEF h
    <3>1. \A i \in 0..m : (IF i = 0 THEN <<>> ELSE MergeVersion(g[i - 1], vs[i]))
                         = (IF i = 0 THEN <<>> ELSE MergeVersion(h[i - 1], vs[i]))
      BY <2>3, <2>4
    <3>2. Merges(vs, g, m) = Merges(vs, h, m)
      BY <3>1 DEF Merges
    <3>3. QED
      BY <3>2 DEF h
  <2>6. QED
    BY <1>3, <2>5 DEF P
<1>6. QED
  BY <1>4, <1>5

\* Whatever the number of clusters: the merge of their versions has each tag of
\* one of them, in ascending order.
LEMMA MergedAll ==
    ASSUME NEW vs \in Seq(Seq(Propers))
    PROVE  /\ MergeVersions(vs) \in Seq(Propers)
           /\ ToSet(MergeVersions(vs)) = UNION {ToSet(v) : v \in ToSet(vs)}
           /\ Ascending(MergeVersions(vs))
<1> DEFINE n      == Len(vs)
           merged == CHOOSE g : g = Merges(vs, g, n)
           tags(k) == UNION {ToSet(vs[i]) : i \in 1..k}
           Fine(k) == /\ merged[k] \in Seq(Propers)
                      /\ ToSet(merged[k]) = tags(k)
                      /\ Ascending(merged[k])
           T == {k \in 0..n : ~Fine(k)}
<1>1. n \in Nat /\ \A i \in 1..n : vs[i] \in Seq(Propers)
  OBVIOUS
<1>2. merged = Merges(vs, merged, n)
  <2>1. \E g : g = Merges(vs, g, n)
    BY <1>1, MergesExist
  <2> HIDE DEF n
  <2>2. QED
    BY <2>1, Zenon
<1>3. MergeVersions(vs) = merged[n]
  BY Zenon DEF MergeVersions, Merges
<1>4. ToSet(vs) = {vs[i] : i \in 1..n}
  BY DEF ToSet
<1> HIDE DEF n, merged
<1>5. ASSUME T # {} PROVE FALSE
  <2>1. PICK m \in T : \A k \in T : m <= k
    <3>1. T \in SUBSET Nat
      BY <1>1
    <3> HIDE DEF T
    <3>2. QED
      BY <1>5, <3>1, LeastMember
  <2>2. m \in 0..n /\ ~Fine(m)
    OBVIOUS
  <2>3. merged[m] = IF m = 0 THEN <<>> ELSE MergeVersion(merged[m - 1], vs[m])
    BY <1>2, <2>2 DEF Merges
  <2>4. CASE m = 0
    <3>1. merged[m] = <<>> /\ tags(m) = {}
      BY <2>3, <2>4
    <3>2. <<>> \in Seq(Propers) /\ ToSet(<<>>) = {} /\ Ascending(<<>>)
      BY DEF ToSet, Ascending
    <3>3. QED
      BY <2>2, <3>1, <3>2
  <2>5. CASE m # 0
    <3>1. m - 1 \in 0..n /\ m \in 1..n /\ ~(m <= m - 1)
      BY <1>1, <2>2, <2>5
    <3>2. Fine(m - 1)
      BY <2>1, <3>1
    <3>3. vs[m] \in Seq(Propers)
      BY <1>1, <3>1
    <3>4. /\ merged[m] \in Seq(Propers)
          /\ ToSet(merged[m]) = tags(m - 1) \cup ToSet(vs[m])
          /\ Ascending(merged[m])
      BY <2>3, <2>5, <3>2, <3>3, MergedTwo
    <3>5. tags(m) = tags(m - 1) \cup ToSet(vs[m])
      <4>1. 1..m = 1..(m - 1) \cup {m}
        BY <3>1
      <4>2. QED
        BY <4>1
    <3>6. QED
      BY <2>2, <3>4, <3>5
  <2>6. QED
    BY <2>4, <2>5
<1>6. Fine(n)
  <2>1. n \in 0..n
    BY <1>1
  <2> HIDE DEF Fine
  <2>2. QED
    BY <1>5, <2>1
<1>7. tags(n) = UNION {ToSet(v) : v \in ToSet(vs)}
  BY <1>4
<1>8. QED
  BY <1>3, <1>6, <1>7

\* The answer to the question about versions has every tag once, by number.
LEMMA VersionIsSorted == QuestionInv /\ Version => VersionsInAnyOrder'
<1> SUFFICES ASSUME QuestionInv, Version PROVE VersionsInAnyOrder'
  OBVIOUS
<1> DEFINE vs   == question.of
           tags == UNION {ToSet(v) : v \in ToSet(vs)}
<1>1. question' = question /\ answer'.is = MergeVersions(vs) /\ vs \in Seq(Seq(Tags))
  BY DecisionAssumption
  DEF Version, Ask, Answer, QuestionInv, DecisionQuestions, Tags
<1> HIDE DEF vs
<1>2. ASSUME \A tag \in tags : tag = Proper(tag.num)
      PROVE  /\ ToSet(answer'.is) = tags
             /\ \A i \in 1..Len(answer'.is) - 1 : answer'.is[i].num < answer'.is[i + 1].num
  <2>1. ASSUME NEW i \in 1..Len(vs) PROVE vs[i] \in Seq(Propers)
    <3>1. vs[i] \in Seq(Tags) /\ vs[i] \in ToSet(vs)
      BY <1>1, <2>1 DEF ToSet
    <3>2. ASSUME NEW j \in 1..Len(vs[i]) PROVE vs[i][j] \in Propers
      <4>1. vs[i][j] \in ToSet(vs[i]) /\ vs[i][j] \in Tags
        BY <3>1, <3>2 DEF ToSet
      <4>2. QED
        BY <1>2, <3>1, <4>1 DEF Propers
    <3>3. QED
      BY <3>1, <3>2
  <2>2. vs \in Seq(Seq(Propers))
    BY <1>1, <2>1
  <2>3. /\ answer'.is \in Seq(Propers) /\ ToSet(answer'.is) = tags
        /\ Ascending(answer'.is)
    BY <1>1, <2>2, MergedAll
  <2>4. QED
    BY <2>3 DEF Ascending
<1>3. QED
  BY <1>1, <1>2 DEF VersionsInAnyOrder, vs

-----------------------------------------------------------------------------
\* The questions

\* An answer to another question says nothing, and neither does none.
LEMMA OthersSayNothing ==
    /\ DecisionInit => QuestionInv /\ ZoneStaysServed /\ HpaAccepted
    /\ QuestionInv /\ Version => ZoneStaysServed' /\ HpaAccepted'
    /\ QuestionInv /\ Retire => HpaAccepted'
    /\ QuestionInv /\ Autoscale => ZoneStaysServed'
    /\ DecisionInit => VersionsInAnyOrder
    /\ QuestionInv /\ (Retire \/ Autoscale) => VersionsInAnyOrder'
    /\ QuestionInv /\ [Decide]_<<question, answer>> => QuestionInv'
<1>1. DecisionInit => QuestionInv /\ ~Answered("retire") /\ ~Answered("hpa")
  BY DEF DecisionInit, QuestionInv, Answered
<1>2. QuestionInv /\ Version => ~Answered("retire")' /\ ~Answered("hpa")'
  BY DEF Version, Ask, Answer, Answered
<1>3. QuestionInv /\ Retire => ~Answered("hpa")'
  BY DEF Retire, Ask, Answer, Answered
<1>4. QuestionInv /\ Autoscale => ~Answered("retire")'
  BY DEF Autoscale, Ask, Answer, Answered
<1>5. QuestionInv /\ [Decide]_<<question, answer>> => QuestionInv'
  BY DEF Decide, Retire, Version, Autoscale, Answer, QuestionInv
<1>6. /\ DecisionInit => ~Answered("version")
      /\ QuestionInv /\ (Retire \/ Autoscale) => ~Answered("version")'
  BY DEF DecisionInit, Retire, Autoscale, Ask, Answer, Answered
<1>7. QED
  BY <1>1, <1>2, <1>3, <1>4, <1>5, <1>6
  DEF ZoneStaysServed, HpaAccepted, VersionsInAnyOrder

\* Whichever clusters are retired at once, and whatever the other clusters of
\* the zone are doing: a zone with a target that has an AdvDeployment and with
\* a cluster that runs keeps a cluster that runs.
THEOREM ZoneServed == DecisionSpec => []ZoneStaysServed
<1> DEFINE Inv == QuestionInv /\ ZoneStaysServed
<1>1. DecisionInit => Inv
  BY OthersSayNothing
<1>2. Inv /\ [Decide]_<<question, answer>> => Inv'
  <2> SUFFICES ASSUME Inv, [Decide]_<<question, answer>> PROVE Inv'
    OBVIOUS
  <2>1. CASE UNCHANGED <<question, answer>>
    BY <2>1 DEF QuestionInv, ZoneStaysServed, Answered
  <2>2. CASE Decide
    BY <2>2, RetireServes, OthersSayNothing DEF Decide
  <2>3. QED
    BY <2>1, <2>2
<1>3. QED
  BY <1>1, <1>2, PTL DEF DecisionSpec

\* Whatever the annotations ask for, in a list of any length, and whatever the
\* number of replicas and the width of an integer: the HPA that would be written
\* is one the API server accepts if the double of the replicas does not wrap and
\* no average value is asked for that is not positive, and only then.
THEOREM HpaAcceptance == DecisionSpec => []HpaAccepted
<1> DEFINE Inv == QuestionInv /\ HpaAccepted
<1>1. DecisionInit => Inv
  BY OthersSayNothing
<1>2. Inv /\ [Decide]_<<question, answer>> => Inv'
  <2> SUFFICES ASSUME Inv, [Decide]_<<question, answer>> PROVE Inv'
    OBVIOUS
  <2>1. CASE UNCHANGED <<question, answer>>
    BY <2>1 DEF QuestionInv, HpaAccepted, Answered
  <2>2. CASE Decide
    BY <2>2, AutoscaleIsAccepted, OthersSayNothing DEF Decide
  <2>3. QED
    BY <2>1, <2>2
<1>3. QED
  BY <1>1, <1>2, PTL DEF DecisionSpec

\* However many clusters there are and in whatever order they answered: if all
\* tags are numbers, the version of a status has each of them once, ascending.
THEOREM VersionsSorted == DecisionSpec => []VersionsInAnyOrder
<1> DEFINE Inv == QuestionInv /\ VersionsInAnyOrder
<1>1. DecisionInit => Inv
  BY OthersSayNothing
<1>2. Inv /\ [Decide]_<<question, answer>> => Inv'
  <2> SUFFICES ASSUME Inv, [Decide]_<<question, answer>> PROVE Inv'
    OBVIOUS
  <2>1. CASE UNCHANGED <<question, answer>>
    BY <2>1 DEF QuestionInv, VersionsInAnyOrder, Answered
  <2>2. CASE Decide
    BY <2>2, VersionIsSorted, OthersSayNothing DEF Decide
  <2>3. QED
    BY <2>1, <2>2
<1>3. QED
  BY <1>1, <1>2, PTL DEF DecisionSpec
=============================================================================
