-------------------------- MODULE AdvWorkerProofs --------------------------
(***************************************************************************)
(* For every set of workloads, all charts, and any number of edits and     *)
(* faults: the worker's variables keep their types, and a Deployment is    *)
(* retired only by a run that applied the whole chart and found enough     *)
(* pods. The invariant follows what a run knows: the AdvDeployment it has  *)
(* read, the owners of a list, and what was counted over it.               *)
(***************************************************************************)
EXTENDS AdvWorker, FiniteSetTheorems, TLAPS

\* Generations start at 1 and only edits raise them.
Aged(a) == a # Missing => a.gen \in 1..(1 + edits)
GenInv  == Aged(adv) /\ Aged(advCopy) /\ Aged(run.adv)

\* The copy of a workload that has the current version is the workload.
ObjInv == /\ objs \in [Names -> Workloads \cup {Missing}]
          /\ objCopy \in [Names -> Workloads \cup {Missing}]
          /\ objFresh \in [Names -> BOOLEAN]
          /\ \A n \in Names : objFresh[n] => objCopy[n] = objs[n]

\* What RetiresAfterFullApply asks of a run that retires.
FullyApplied ==
    /\ run.owners = DOMAIN run.adv.chart.want /\ run.owners # {}
    /\ run.adv.chart.flaw = "none"
    /\ run.listed \ run.owners # {}
    /\ run.agg.available >= Cardinality(run.listed \cap run.owners)

\* A run that applies has a chart that rendered; a run that lists has either
\* applied all of it or knows no owners.
RunInv ==
    /\ pc \in {"apply", "list", "retire", "write"} => run.adv # Missing
    /\ pc = "apply" => /\ run.todo \subseteq DOMAIN run.adv.chart.want
                       /\ run.adv.chart.flaw \notin {"type", "render"}
    /\ pc = "list" => \/ run.owners = {}
                      \/ /\ run.owners = DOMAIN run.adv.chart.want
                         /\ run.adv.chart.flaw = "none"
    /\ pc = "retire" /\ kind = "Deployment" => FullyApplied

\* A count that may be written: Running only if all have been observed.
Reportable(r) == /\ r.agg.phase \in {"Installing", "Running"}
                 /\ r.agg.phase = "Running" => r.observed

\* What StatusKeepsEdits takes beside: a version that is current is that of
\* what was read, in the copy and in a run that writes.
KnowInv == /\ advFresh => advCopy = adv
           /\ pc = "write" /\ run.fresh => run.adv = adv
           /\ pc \in {"retire", "status", "write"} => Reportable(run)

IInv == TypeOK /\ ObjInv /\ GenInv /\ RunInv

-----------------------------------------------------------------------------
\* Types of what the steps are made of

\* A fault stays within the bound.
LEMMA FaultBound ==
    ASSUME TypeOK, Fault \/ NoFault
    PROVE  faults' \in 0..MaxFaults
<1>1. MaxFaults \in Nat
  BY WorkerAssumption
<1>2. faults \in 0..MaxFaults
  BY DEF TypeOK
<1>3. QED
  BY <1>1, <1>2 DEF Fault, NoFault

\* Nothing is known of a run that has not begun.
LEMMA NoRunType ==
    /\ NoRun \in Runs /\ NoRun.adv = Missing /\ NoRun.owners = {}
    /\ NoAgg \in Aggs
<1>1. 0 \in Pods
  BY WorkerAssumption, FS_CardinalityType DEF Pods
<1>2. NoAgg \in Aggs
  BY <1>1 DEF NoAgg, Aggs, Phases
<1>3. QED
  BY <1>1, <1>2 DEF NoRun, Runs

\* Every number of workloads is a number of pods.
LEMMA Counting ==
    ASSUME NEW S \in SUBSET Names
    PROVE  /\ IsFiniteSet(S) /\ Cardinality(S) \in Pods
           /\ \A T \in SUBSET S : Cardinality(T) <= Cardinality(S)
           /\ Cardinality(S) > 0 => S # {}
<1>1. IsFiniteSet(S) /\ Cardinality(S) <= Cardinality(Names)
  BY WorkerAssumption, FS_Subset
<1>2. Cardinality(S) \in Nat /\ Cardinality(Names) \in Nat
  BY <1>1, WorkerAssumption, FS_CardinalityType
<1>3. ASSUME NEW T \in SUBSET S PROVE Cardinality(T) <= Cardinality(S)
  BY <1>1, FS_Subset
<1>4. QED
  BY <1>1, <1>2, <1>3, FS_EmptySet DEF Pods

\* A write of one workload keeps them.
LEMMA BecomesType ==
    ASSUME ObjInv, NEW n \in Names, NEW o \in Workloads \cup {Missing},
           Becomes(n, o)
    PROVE  ObjInv'
<1> DEFINE b == objFresh[n] /\ o = objs[n]
<1>1. b \in BOOLEAN
  BY DEF ObjInv
<1>2. objFresh' = [objFresh EXCEPT ![n] = b]
  BY DEF Becomes
<1> HIDE DEF b
<1>3. objFresh' \in [Names -> BOOLEAN]
  BY <1>1, <1>2 DEF ObjInv
<1>4. objs' \in [Names -> Workloads \cup {Missing}]
  BY DEF Becomes, ObjInv
<1>5. ASSUME NEW m \in Names, objFresh'[m]
      PROVE  objCopy'[m] = objs'[m]
  <2>1. CASE m = n
    <3>1. b
      BY <1>2, <1>5, <2>1 DEF ObjInv
    <3>2. QED
      BY <2>1, <3>1 DEF b, Becomes, ObjInv
  <2>2. CASE m # n
    BY <1>2, <1>5, <2>2 DEF Becomes, ObjInv
  <2>3. QED
    BY <2>1, <2>2
<1>6. QED
  BY <1>3, <1>4, <1>5 DEF Becomes, ObjInv

\* A run knows nothing of the AdvDeployment it has not read.
LEMMA IdleRun ==
    ASSUME pc' = "idle", run' = NoRun
    PROVE  /\ run' \in Runs
           /\ (pc = "retire")' => FALSE
           /\ Aged(run.adv)'
           /\ RunInv'
BY NoRunType DEF Aged, RunInv

-----------------------------------------------------------------------------
\* The start

\* Nothing has run, and there is an AdvDeployment of the first generation.
THEOREM InitIInv == Init => IInv
<1> SUFFICES ASSUME Init PROVE IInv
  OBVIOUS
<1>1. PICK ch \in Charts[kind] :
         adv = [gen |-> 1, chart |-> ch, hpa |-> FALSE, deleting |-> FALSE,
                obs |-> 0, agg |-> NoAgg]
  BY DEF Init
<1>2. adv \in Advs /\ adv.gen = 1
  <2>1. kind \in Kinds /\ ch \in AllCharts
    BY DEF Init, AllCharts
  <2>2. 0 \in Gens /\ 1 \in Gens
    BY WorkerAssumption DEF Gens
  <2>3. QED
    BY <1>1, <2>1, <2>2, NoRunType DEF Advs
<1>3. TypeOK
  <2>1. edits \in 0..MaxEdits /\ faults \in 0..MaxFaults /\ due \in BOOLEAN
    BY WorkerAssumption DEF Init
  <2>2. ObjInv
    BY DEF Init, ObjInv
  <2>3. run \in Runs
    BY NoRunType DEF Init
  <2>4. QED
    BY <1>2, <2>1, <2>2, <2>3 DEF Init, TypeOK, ObjInv
<1>4. GenInv
  <2>1. 1 \in 1..(1 + edits)
    BY DEF Init
  <2>2. QED
    BY <1>2, <2>1, NoRunType DEF Init, GenInv, Aged
<1>5. RunInv
  BY DEF Init, RunInv
<1>6. QED
  BY <1>3, <1>4, <1>5 DEF IInv, TypeOK, Init, ObjInv

-----------------------------------------------------------------------------
\* The steps of a run

\* A step that ends the run.
LEMMA Ends ==
    ASSUME IInv, UNCHANGED <<kind, advs, edits>>, ObjInv', hpas' \subseteq Names,
           Fault \/ NoFault, Done \/ Failed
    PROVE  IInv'
<1>1. pc' = "idle" /\ run' = NoRun /\ due' \in BOOLEAN
  BY DEF Done, Failed, Goto, IInv, TypeOK
<1>2. TypeOK'
  <2>1. faults' \in 0..MaxFaults
    BY FaultBound DEF IInv
  <2>2. run' \in Runs
    BY <1>1, IdleRun
  <2>3. QED
    BY <1>1, <2>1, <2>2 DEF IInv, TypeOK, ObjInv, advs
<1>3. GenInv'
  BY <1>1, NoRunType DEF IInv, GenInv, Aged, advs
<1>4. RunInv'
  BY <1>1 DEF RunInv
<1>5. QED
  BY <1>2, <1>3, <1>4 DEF IInv

\* A step after which the run goes on.
LEMMA GoesOn ==
    ASSUME IInv, UNCHANGED <<kind, advs, edits>>, ObjInv', hpas' \subseteq Names,
           Fault \/ NoFault, due' \in BOOLEAN,
           pc' \in {"apply", "list", "retire", "status", "write"},
           run' \in Runs, Aged(run'.adv), RunInv',
           pc' = "retire" => /\ run'.unused \in 1..Cardinality(run'.listed)
                             /\ run'.last \in run'.listed
    PROVE  IInv'
<1>1. TypeOK'
  <2>1. faults' \in 0..MaxFaults
    BY FaultBound DEF IInv
  <2>2. QED
    BY <2>1 DEF IInv, TypeOK, ObjInv, advs
<1>2. GenInv'
  BY DEF IInv, GenInv, Aged, advs
<1>3. QED
  BY <1>1, <1>2 DEF IInv

\* The AdvDeployment is read and its chart rendered.
LEMMA BeginIInv == IInv /\ Begin => IInv'
<1> SUFFICES ASSUME IInv, Begin PROVE IInv'
  OBVIOUS
<1>1. ObjInv' /\ hpas' \subseteq Names
  BY DEF Begin, objects, ObjInv, IInv, TypeOK
<1>2. CASE pc' = "idle" /\ run' = run /\ pc = "idle"
  <2>1. TypeOK'
    <3>1. faults' \in 0..MaxFaults
      BY FaultBound DEF Begin, IInv
    <3>2. due' \in BOOLEAN
      BY DEF Begin, IInv, TypeOK
    <3>3. QED
      BY <1>1, <1>2, <3>1, <3>2 DEF Begin, advs, ObjInv, IInv, TypeOK
  <2>2. GenInv' /\ RunInv'
    BY <1>2 DEF Begin, advs, IInv, GenInv, Aged, RunInv
  <2>3. QED
    BY <1>1, <2>1, <2>2 DEF IInv
<1>3. CASE /\ NoFault
           /\ advCopy # Missing /\ advCopy.chart.flaw # "type"
           /\ pc' = IF advCopy.chart.flaw = "render" THEN "list" ELSE "apply"
           /\ run' = [NoRun EXCEPT !.adv = advCopy,
                                   !.todo = DOMAIN advCopy.chart.want]
           /\ due' = FALSE
  <2>1. advCopy \in Advs /\ advCopy.chart \in AllCharts
    BY <1>3 DEF IInv, TypeOK, Advs
  <2>2. DOMAIN advCopy.chart.want \subseteq Names
    BY <2>1, WorkerAssumption
  <2>3. /\ run' \in Runs /\ run'.adv = advCopy /\ run'.owners = {}
        /\ run'.todo = DOMAIN advCopy.chart.want
    BY <1>3, <2>1, <2>2, NoRunType DEF Runs
  <2>4. RunInv' /\ pc' \in {"apply", "list"}
    BY <1>3, <2>3 DEF RunInv
  <2>5. Aged(run'.adv)
    BY <2>3 DEF IInv, GenInv
  <2>6. QED
    BY <1>1, <1>3, <2>3, <2>4, <2>5, GoesOn DEF Begin
<1>4. QED
  BY <1>2, <1>3 DEF Begin

\* One object of the chart is applied, and its HPA.
LEMMA ApplyIInv ==
    ASSUME IInv, NEW n \in Names, Apply(n)
    PROVE  IInv'
<1>1. /\ pc = "apply" /\ n \in run.todo /\ run \in Runs
      /\ UNCHANGED <<kind, advs, edits>>
  BY DEF Apply, IInv, TypeOK
<1>2. /\ run.adv \in Advs /\ run.adv.chart \in AllCharts
      /\ n \in DOMAIN run.adv.chart.want
  BY <1>1 DEF IInv, RunInv, Runs, Advs
<1>3. /\ Created(n) \in Workloads
      /\ objs[n] # Missing => Replaced(n) \in Workloads
  <2>1. run.adv.chart.want[n] \in Contents
    BY <1>2, WorkerAssumption
  <2>2. objs[n] # Missing => objs[n] \in Workloads
    BY DEF IInv, ObjInv
  <2>3. QED
    BY <2>1, <2>2 DEF Created, Replaced, Workloads
<1>4. ObjInv'
  <2>1. CASE UNCHANGED objects
    BY <2>1 DEF objects, IInv, ObjInv
  <2>2. CASE Becomes(n, Created(n)) \/ Becomes(n, Missing)
    BY <2>2, <1>3, BecomesType DEF IInv
  <2>3. CASE objs[n] # Missing /\ Becomes(n, Replaced(n))
    BY <2>3, <1>3, BecomesType DEF IInv
  <2>4. CASE objCopy[n] # Missing /\ Update(n)
    <3>1. objFresh[n] => objs[n] # Missing
      BY <2>4 DEF IInv, ObjInv
    <3>2. QED
      BY <2>2, <2>3, <2>4, <3>1 DEF Update
  <2>5. QED
    BY <2>1, <2>2, <2>4 DEF Apply
<1>5. \/ Failed /\ (Fault \/ NoFault) /\ UNCHANGED hpas
      \/ ApplyHpa(n, TRUE)
      \/ ApplyHpa(n, FALSE)
  BY DEF Apply, Update
<1>6. CASE Failed /\ (Fault \/ NoFault) /\ UNCHANGED hpas
  <2>1. hpas' \subseteq Names
    BY <1>6 DEF IInv, TypeOK
  <2>2. QED
    BY <1>1, <1>4, <1>6, <2>1, Ends
<1>7. ASSUME NEW t \in BOOLEAN, ApplyHpa(n, t)
      PROVE  IInv'
  <2>1. hpas' \subseteq Names /\ (Fault \/ NoFault)
    BY <1>7 DEF ApplyHpa, IInv, TypeOK
  <2>2. PICK e \in BOOLEAN :
           Goto("apply", [run EXCEPT !.todo = @ \ {n}, !.err = e,
                                     !.touched = @ \/ t])
    <3>1. run.adv.hpa \in BOOLEAN
      BY <1>2 DEF Advs
    <3>2. QED
      BY <1>7, <3>1, Zenon DEF ApplyHpa
  <2>3. pc' = "apply" /\ due' = due
    BY <2>2 DEF Goto
  <2>4. /\ run' \in Runs /\ run'.adv = run.adv /\ run'.todo \subseteq run.todo
    <3> DEFINE b == run.touched \/ t
    <3>1. b \in BOOLEAN
      OBVIOUS
    <3>2. run' = [run EXCEPT !.todo = @ \ {n}, !.err = e, !.touched = b]
      BY <2>2 DEF Goto
    <3> HIDE DEF b
    <3>3. QED
      BY <1>1, <3>1, <3>2 DEF Runs
  <2>5. RunInv'
    BY <1>1, <2>3, <2>4 DEF IInv, RunInv
  <2>6. Aged(run'.adv) /\ due' \in BOOLEAN
    BY <2>3, <2>4 DEF IInv, GenInv, TypeOK
  <2>7. QED
    BY <1>1, <1>4, <2>1, <2>3, <2>4, <2>5, <2>6, GoesOn
<1>8. QED
  BY <1>5, <1>6, <1>7

\* The end of the apply, or its stop at an object that is not supported.
LEMMA EndApplyIInv ==
    ASSUME IInv, Unsupported \/ EndApply
    PROVE  IInv'
<1>1. /\ pc = "apply" /\ UNCHANGED <<kind, advs, objects, hpas, edits>> /\ NoFault
  BY DEF Unsupported, EndApply, bounds, NoFault
<1>2. ObjInv' /\ hpas' \subseteq Names
  BY <1>1 DEF objects, IInv, ObjInv, TypeOK
<1>3. run.adv \in Advs /\ Aged(run.adv) /\ run.adv # Missing
  BY <1>1 DEF IInv, RunInv, GenInv, TypeOK, Runs
<1>4. CASE Done \/ Failed
  BY <1>1, <1>2, <1>4, Ends
<1>5. CASE Goto("list", [NoRun EXCEPT !.adv = run.adv])
  <2>1. /\ pc' = "list" /\ due' = due
        /\ run' \in Runs /\ run'.adv = run.adv /\ run'.owners = {}
    BY <1>3, <1>5, NoRunType DEF Goto, Runs
  <2>2. RunInv' /\ Aged(run'.adv) /\ due' \in BOOLEAN
    BY <1>3, <2>1 DEF RunInv, IInv, TypeOK
  <2>3. QED
    BY <1>1, <1>2, <2>1, <2>2, GoesOn
<1>6. CASE /\ run.adv.chart.flaw # "kind"
           /\ Goto("list", [NoRun EXCEPT !.adv = run.adv,
                                       !.owners = DOMAIN run.adv.chart.want])
  <2>1. /\ run.adv.chart.flaw = "none"
        /\ DOMAIN run.adv.chart.want \subseteq Names
    <3>1. run.adv.chart \in AllCharts
      BY <1>3 DEF Advs
    <3>2. QED
      BY <1>1, <1>6, <3>1, WorkerAssumption DEF IInv, RunInv, Flaws
  <2>2. /\ pc' = "list" /\ due' = due
        /\ run' \in Runs /\ run'.adv = run.adv
        /\ run'.owners = DOMAIN run.adv.chart.want
    BY <1>3, <1>6, <2>1, NoRunType DEF Goto, Runs
  <2>3. RunInv' /\ Aged(run'.adv) /\ due' \in BOOLEAN
    BY <1>3, <2>1, <2>2 DEF RunInv, IInv, TypeOK
  <2>4. QED
    BY <1>1, <1>2, <2>2, <2>3, GoesOn
<1>7. QED
  BY <1>4, <1>5, <1>6 DEF Unsupported, EndApply

\* Owner references are written over the current version only.
LEMMA AdoptInv ==
    ASSUME IInv, Adopt(Listed)
    PROVE  ObjInv' /\ (Fault \/ NoFault)
<1>1. PICK ns \in SUBSET {n \in Listed : objFresh[n] /\ ~objCopy[n].owned} :
         /\ objs' = [n \in Names |-> IF n \in ns
                        THEN [objs[n] EXCEPT !.owned = TRUE] ELSE objs[n]]
         /\ objFresh' = [n \in Names |-> objFresh[n] /\ n \notin ns]
         /\ objCopy' = objCopy
         /\ Fault \/ NoFault
  BY DEF Adopt
<1>2. ASSUME NEW n \in Names
      PROVE  /\ objs'[n] \in Workloads \cup {Missing}
             /\ objFresh'[n] \in BOOLEAN
             /\ objFresh'[n] => objCopy'[n] = objs'[n]
  <2>1. CASE n \in ns
    <3>1. objs[n] \in Workloads
      BY <1>1, <2>1 DEF Listed, IInv, ObjInv
    <3>2. [objs[n] EXCEPT !.owned = TRUE] \in Workloads
      BY <3>1 DEF Workloads
    <3>3. QED
      BY <1>1, <2>1, <3>2
  <2>2. CASE n \notin ns
    <3>1. objs'[n] = objs[n] /\ objFresh'[n] = objFresh[n]
      BY <1>1, <2>2 DEF IInv, ObjInv
    <3>2. QED
      BY <1>1, <3>1 DEF IInv, ObjInv
  <2>3. QED
    BY <2>1, <2>2
<1>3. objFresh' = [n \in Names |-> objFresh'[n]]
  BY <1>1, Zenon
<1>4. QED
  BY <1>1, <1>2, <1>3 DEF IInv, ObjInv

\* What the recalculation makes of a list: it counts.
LEMMA Counted ==
    ASSUME IInv, NEW last \in Listed, NEW observed \in BOOLEAN
    PROVE  LET r      == Recalculated(Listed, last, observed)
               unused == {n \in Listed : IsUnused(n)}
               ready  == {n \in Listed \ unused : objCopy[n].ready}
           IN /\ r \in Runs /\ r.adv = run.adv /\ r.owners = run.owners
              /\ r.listed = Listed /\ r.last = last
              /\ r.unused = Cardinality(unused)
              /\ r.agg.desired = Cardinality(Listed \ unused)
              /\ r.agg.available = Cardinality(ready)
              /\ Reportable(r)
<1> DEFINE unused == {n \in Listed : IsUnused(n)}
           used   == Listed \ unused
           ready  == {n \in used : objCopy[n].ready}
           all    == used = ready
           b      == observed \/ all
           agg    == [phase |-> IF all THEN "Running" ELSE "Installing",
                      desired |-> Cardinality(used),
                      available |-> Cardinality(ready),
                      owners |-> run.owners]
<1>1. /\ run \in Runs /\ run.owners \in SUBSET Names
      /\ Listed \in SUBSET Names /\ last \in Names
  BY DEF IInv, TypeOK, Runs, Listed
<1>2. /\ Cardinality(unused) \in Pods /\ Cardinality(used) \in Pods
      /\ Cardinality(ready) \in Pods
  <2>1. /\ unused \in SUBSET Names /\ used \in SUBSET Names
        /\ ready \in SUBSET Names
    BY <1>1
  <2>2. QED
    BY <2>1, Counting
<1>3. Recalculated(Listed, last, observed) =
        [run EXCEPT !.listed = Listed, !.last = last,
           !.unused = Cardinality(unused), !.observed = b, !.agg = agg]
  BY DEF Recalculated
<1>4. all \in BOOLEAN /\ b \in BOOLEAN
  OBVIOUS
<1> HIDE DEF unused, used, ready, all
<1>5. agg \in Aggs
  BY <1>1, <1>2, <1>4 DEF Aggs, Phases
<1>6. /\ agg.desired = Cardinality(used) /\ agg.available = Cardinality(ready)
      /\ agg.phase \in {"Installing", "Running"}
      /\ agg.phase = "Running" => b
  BY <1>4
<1> HIDE DEF agg, b
<1>7. QED
  <2> DEFINE r == [run EXCEPT !.listed = Listed, !.last = last,
                     !.unused = Cardinality(unused), !.observed = b, !.agg = agg]
  <2>1. /\ r \in Runs /\ r.adv = run.adv /\ r.owners = run.owners
        /\ r.listed = Listed /\ r.last = last /\ r.unused = Cardinality(unused)
        /\ r.agg = agg /\ r.observed = b
    BY <1>1, <1>2, <1>4, <1>5 DEF Runs
  <2>2. QED
    BY <1>3, <1>6, <2>1 DEF unused, used, ready, Reportable

\* The status step starts with what was counted and nothing else.
LEMMA StatusRun ==
    ASSUME NEW r \in Runs
    PROVE  /\ ToStatus(r) \in Runs /\ ToStatus(r).adv = Missing
           /\ ToStatus(r).agg = r.agg /\ ToStatus(r).observed = r.observed
<1>1. r.agg \in Aggs /\ r.observed \in BOOLEAN
  BY DEF Runs
<1>2. QED
  BY <1>1, NoRunType DEF ToStatus, Runs

\* The list is made and counted.
LEMMA RecalculateIInv ==
    ASSUME IInv, Recalculate
    PROVE  IInv'
<1>1. pc = "list" /\ UNCHANGED <<kind, advs, hpas, edits>> /\ run \in Runs
  BY DEF Recalculate, IInv, TypeOK
<1>2. hpas' \subseteq Names
  BY <1>1 DEF IInv, TypeOK
<1>3. CASE Failed /\ UNCHANGED objects /\ (Fault \/ NoFault)
  <2>1. ObjInv'
    BY <1>3 DEF objects, IInv, ObjInv
  <2>2. QED
    BY <1>1, <1>2, <1>3, <2>1, Ends
<1>4. ASSUME NEW last \in Listed, NEW observed \in BOOLEAN, Adopt(Listed),
             LET r == Recalculated(Listed, last, observed) IN
               IF r.unused > 0 /\ r.agg.desired <= r.agg.available
                 THEN Goto("retire", r) ELSE Goto("status", ToStatus(r))
      PROVE  IInv'
  <2> DEFINE r      == Recalculated(Listed, last, observed)
             unused == {n \in Listed : IsUnused(n)}
             ready  == {n \in Listed \ unused : objCopy[n].ready}
  <2>1. ObjInv' /\ (Fault \/ NoFault)
    BY <1>4, AdoptInv
  <2>2. /\ r \in Runs /\ r.adv = run.adv /\ r.owners = run.owners
        /\ r.listed = Listed /\ r.last = last
        /\ r.unused = Cardinality(unused)
        /\ r.agg.desired = Cardinality(Listed \ unused)
        /\ r.agg.available = Cardinality(ready)
    BY Counted
  <2>3. \/ r.unused > 0 /\ r.agg.desired <= r.agg.available /\ Goto("retire", r)
        \/ Goto("status", ToStatus(r))
    BY <1>4
  <2> HIDE DEF r
  <2>4. CASE r.unused > 0 /\ r.agg.desired <= r.agg.available /\ Goto("retire", r)
    <3>1. pc' = "retire" /\ run' = r /\ due' = due
      BY <2>4 DEF Goto
    <3>2. Listed \in SUBSET Names /\ unused \in SUBSET Listed
      BY DEF Listed
    <3>3. /\ Cardinality(unused) \in Nat /\ unused # {}
          /\ Cardinality(unused) <= Cardinality(Listed)
          /\ Cardinality(Listed) \in Nat
      BY <2>2, <2>4, <3>2, Counting, FS_CardinalityType
    <3>4. r.unused \in 1..Cardinality(Listed)
      BY <2>2, <2>4, <3>3
    <3>5. kind = "Deployment" => FullyApplied'
      <4> SUFFICES ASSUME kind = "Deployment" PROVE FullyApplied'
        OBVIOUS
      <4>1. run.owners # {} /\ unused = Listed \ run.owners
        BY <3>3 DEF IsUnused
      <4>2. /\ run.owners = DOMAIN run.adv.chart.want
            /\ run.adv.chart.flaw = "none"
        BY <1>1, <4>1 DEF IInv, RunInv
      <4>3. Listed \ unused = Listed \cap run.owners
        BY <4>1
      <4>4. r.agg.available >= Cardinality(Listed \cap run.owners)
        BY <2>2, <2>4, <4>3
      <4>5. QED
        BY <2>2, <3>1, <3>3, <4>1, <4>2, <4>4 DEF FullyApplied
    <3>6. RunInv'
      BY <1>1, <2>2, <3>1, <3>5 DEF IInv, RunInv
    <3>7. Aged(run'.adv) /\ due' \in BOOLEAN
      BY <2>2, <3>1 DEF IInv, GenInv, TypeOK
    <3>8. QED
      BY <1>1, <1>2, <2>1, <2>2, <3>1, <3>4, <3>6, <3>7, GoesOn
  <2>5. CASE Goto("status", ToStatus(r))
    <3>1. /\ pc' = "status" /\ due' = due
          /\ run' \in Runs /\ run'.adv = Missing
      BY <2>2, <2>5, StatusRun DEF Goto
    <3>2. RunInv' /\ Aged(run'.adv) /\ due' \in BOOLEAN
      BY <3>1 DEF RunInv, Aged, IInv, TypeOK
    <3>3. QED
      BY <1>1, <1>2, <2>1, <3>1, <3>2, GoesOn
  <2>6. QED
    BY <2>3, <2>4, <2>5
<1>5. QED
  BY <1>3, <1>4 DEF Recalculate, NoFault

\* One deletion, of the workload listed last.
LEMMA RetireIInv ==
    ASSUME IInv, Retire
    PROVE  IInv'
<1>1. /\ pc = "retire" /\ UNCHANGED <<kind, advs, hpas, edits>> /\ run \in Runs
      /\ run.last \in run.listed /\ run.unused \in 1..Cardinality(run.listed)
      /\ Fault \/ NoFault
  BY DEF Retire, IInv, TypeOK
<1>2. hpas' \subseteq Names
  BY <1>1 DEF IInv, TypeOK
<1>3. run.listed \in SUBSET Names /\ run.last \in Names
  BY <1>1 DEF Runs
<1>4. ObjInv'
  <2>1. CASE Becomes(run.last, Missing)
    BY <1>3, <2>1, BecomesType DEF IInv
  <2>2. CASE UNCHANGED objects
    BY <2>2 DEF objects, IInv, ObjInv
  <2>3. QED
    BY <2>1, <2>2 DEF Retire
<1>5. CASE run.unused = 1 /\ Goto("status", ToStatus(run))
  <2>1. /\ pc' = "status" /\ due' = due
        /\ run' \in Runs /\ run'.adv = Missing
    BY <1>1, <1>5, StatusRun DEF Goto
  <2>2. RunInv' /\ Aged(run'.adv) /\ due' \in BOOLEAN
    BY <2>1 DEF RunInv, Aged, IInv, TypeOK
  <2>3. QED
    BY <1>1, <1>2, <1>4, <2>1, <2>2, GoesOn
<1>6. CASE run.unused # 1 /\ Goto("retire", [run EXCEPT !.unused = @ - 1])
  <2>1. /\ pc' = "retire" /\ due' = due
        /\ run' = [run EXCEPT !.unused = run.unused - 1]
    BY <1>6 DEF Goto
  <2>2. /\ run.unused - 1 \in 1..Cardinality(run.listed)
        /\ run.unused - 1 \in Pods
    <3>1. Cardinality(run.listed) \in Pods /\ Cardinality(Names) \in Nat
      BY <1>3, Counting, WorkerAssumption, FS_CardinalityType
    <3>2. QED
      BY <1>1, <1>6, <3>1 DEF Pods
  <2>3. /\ run' \in Runs /\ run'.adv = run.adv /\ run'.listed = run.listed
        /\ run'.last = run.last /\ run'.unused = run.unused - 1
        /\ run'.owners = run.owners /\ run'.agg = run.agg
    BY <1>1, <2>1, <2>2 DEF Runs
  <2>4. RunInv'
    BY <1>1, <2>1, <2>3 DEF IInv, RunInv, FullyApplied
  <2>5. Aged(run'.adv) /\ due' \in BOOLEAN
    BY <2>1, <2>3 DEF IInv, GenInv, TypeOK
  <2>6. QED
    BY <1>1, <1>2, <1>4, <2>1, <2>2, <2>3, <2>4, <2>5, GoesOn
<1>7. QED
  BY <1>5, <1>6 DEF Retire

\* The run reads the copy of the AdvDeployment to write its status.
LEMMA ToWrite ==
    ASSUME IInv, UNCHANGED <<kind, advs, objects, hpas, edits>>, NoFault,
           pc \in {"status", "write"}, advCopy # Missing,
           Goto("write", [run EXCEPT !.adv = advCopy, !.fresh = advFresh])
    PROVE  IInv'
<1>1. ObjInv' /\ hpas' \subseteq Names
  BY DEF objects, IInv, ObjInv, TypeOK
<1>2. /\ pc' = "write" /\ due' = due /\ run' \in Runs /\ run'.adv = advCopy
  BY DEF Goto, IInv, TypeOK, Runs
<1>3. RunInv' /\ Aged(run'.adv) /\ due' \in BOOLEAN
  BY <1>2 DEF RunInv, IInv, GenInv, TypeOK
<1>4. QED
  BY <1>1, <1>2, <1>3, GoesOn

\* The status that is written has the generation of the AdvDeployment read,
\* or the one before.
LEMMA StatusIInv ==
    ASSUME IInv, ReadStatus \/ WriteStatus
    PROVE  IInv'
<1>1. /\ pc \in {"status", "write"} /\ UNCHANGED <<kind, objects, hpas, edits>>
  BY DEF ReadStatus, WriteStatus
<1>2. ObjInv' /\ hpas' \subseteq Names
  BY <1>1 DEF objects, IInv, ObjInv, TypeOK
<1>3. CASE (Done \/ Failed) /\ (Fault \/ NoFault) /\ UNCHANGED advs
  BY <1>1, <1>2, <1>3, Ends
<1>4. CASE /\ NoFault /\ UNCHANGED advs /\ advCopy # Missing
           /\ Goto("write", [run EXCEPT !.adv = advCopy, !.fresh = advFresh])
  BY <1>1, <1>4, ToWrite
<1>5. CASE /\ pc = "write" /\ NoFault /\ Done
           /\ adv' = [run.adv EXCEPT !.agg = run.agg,
                        !.obs = IF run.observed THEN run.adv.gen
                                                ELSE run.adv.gen - 1]
           /\ advFresh' = FALSE /\ UNCHANGED advCopy
  <2>1. /\ run.adv \in Advs /\ run.agg \in Aggs
        /\ run.adv.gen \in 1..(1 + edits) /\ run.adv.gen \in Gens
    BY <1>5 DEF IInv, RunInv, GenInv, Aged, TypeOK, Runs, Advs
  <2>2. run.adv.gen - 1 \in Gens
    BY <2>1, WorkerAssumption DEF Gens, IInv, TypeOK
  <2>3. adv' \in Advs /\ adv'.gen = run.adv.gen
    BY <1>5, <2>1, <2>2 DEF Advs
  <2>4. pc' = "idle" /\ run' = NoRun /\ due' = due
    BY <1>5 DEF Done, Goto
  <2>5. faults' \in 0..MaxFaults
    BY <1>5, FaultBound DEF IInv
  <2>6. TypeOK'
    BY <1>1, <1>2, <1>5, <2>3, <2>4, <2>5, NoRunType
    DEF IInv, TypeOK, ObjInv
  <2>7. GenInv' /\ RunInv'
    BY <1>1, <1>5, <2>1, <2>3, <2>4, IdleRun DEF IInv, GenInv, Aged
  <2>8. QED
    BY <1>2, <2>6, <2>7 DEF IInv
<1>6. QED
  BY <1>3, <1>4, <1>5 DEF ReadStatus, WriteStatus

-----------------------------------------------------------------------------
\* Steps outside the run

\* A run whose version goes stale is otherwise the same.
LEMMA Unfresh ==
    ASSUME IInv, run' = [run EXCEPT !.fresh = FALSE] \/ run' = run,
           UNCHANGED <<kind, pc>>
    PROVE  /\ run' \in Runs /\ run'.adv = run.adv /\ RunInv'
           /\ pc' = "retire" => /\ run'.unused \in 1..Cardinality(run'.listed)
                                /\ run'.last \in run'.listed
<1>1. /\ run' \in Runs /\ run'.adv = run.adv /\ run'.owners = run.owners
      /\ run'.todo = run.todo /\ run'.listed = run.listed /\ run'.agg = run.agg
      /\ run'.unused = run.unused /\ run'.last = run.last
  BY DEF IInv, TypeOK, Runs
<1>2. QED
  BY <1>1 DEF IInv, TypeOK, RunInv, FullyApplied

\* An edit makes the next generation, or none.
LEMMA EditIInv ==
    ASSUME IInv, Edit
    PROVE  IInv'
<1>1. /\ UNCHANGED <<kind, advCopy, objects, hpas, due, pc, faults>>
      /\ run' = [run EXCEPT !.fresh = FALSE] /\ advFresh' = FALSE
      /\ edits' = edits + 1 /\ edits < MaxEdits /\ adv # Missing
  BY DEF Edit
<1>2. edits \in Nat /\ edits' \in 0..MaxEdits
  BY <1>1, WorkerAssumption DEF IInv, TypeOK
<1>3. adv \in Advs /\ adv.gen \in 1..(1 + edits) /\ adv.gen + 1 \in Gens
  <2>1. adv \in Advs /\ adv.gen \in 1..(1 + edits)
    BY <1>1 DEF IInv, TypeOK, GenInv, Aged
  <2>2. QED
    BY <1>1, <1>2, <2>1, WorkerAssumption DEF Gens
<1>4. adv' = Missing \/ (adv' \in Advs /\ adv'.gen \in {adv.gen, adv.gen + 1})
  <2>1. ASSUME NEW ch \in Charts[kind],
               adv' = [adv EXCEPT !.chart = ch, !.gen = @ + 1]
        PROVE  adv' \in Advs /\ adv'.gen = adv.gen + 1
    <3>1. ch \in AllCharts
      BY DEF AllCharts, IInv, TypeOK
    <3>2. QED
      BY <1>3, <2>1, <3>1 DEF Advs
  <2>2. CASE adv' = [adv EXCEPT !.hpa = ~@]
    BY <1>3, <2>2 DEF Advs
  <2>3. CASE adv' = [adv EXCEPT !.deleting = TRUE, !.gen = @ + 1]
    BY <1>3, <2>3 DEF Advs
  <2>4. QED
    BY <2>1, <2>2, <2>3 DEF Edit
<1>5. GenInv'
  BY <1>1, <1>2, <1>3, <1>4, Unfresh DEF IInv, GenInv, Aged
<1>6. ObjInv'
  BY <1>1 DEF objects, IInv, ObjInv
<1>7. TypeOK'
  BY <1>1, <1>2, <1>4, <1>6, Unfresh DEF IInv, TypeOK, ObjInv
<1>8. QED
  BY <1>1, <1>5, <1>6, <1>7, Unfresh DEF IInv

\* The garbage collector and the controllers of the workloads.
LEMMA ClusterIInv ==
    ASSUME IInv, Collect \/ (\E n \in Names : Progress(n))
    PROVE  IInv'
<1>1. /\ UNCHANGED <<kind, advCopy, hpas, due, pc, bounds>>
      /\ run' = [run EXCEPT !.fresh = FALSE] \/ run' = run
      /\ adv' = Missing \/ adv' = adv
      /\ advFresh' = FALSE \/ advFresh' = advFresh
      /\ \/ UNCHANGED objects
         \/ \E n \in Names : Becomes(n, Missing)
         \/ \E n \in Names : /\ objs[n] # Missing
                              /\ \E b \in BOOLEAN :
                                   Becomes(n, [objs[n] EXCEPT !.ready = TRUE,
                                                              !.noted = b])
  BY DEF Collect, Progress, advs
<1>2. ObjInv'
  <2>1. CASE UNCHANGED objects
    BY <2>1 DEF objects, IInv, ObjInv
  <2>2. ASSUME NEW n \in Names, Becomes(n, Missing) PROVE ObjInv'
    BY <2>2, BecomesType DEF IInv
  <2>3. ASSUME NEW n \in Names, objs[n] # Missing, NEW b \in BOOLEAN,
               Becomes(n, [objs[n] EXCEPT !.ready = TRUE, !.noted = b])
        PROVE  ObjInv'
    <3>1. [objs[n] EXCEPT !.ready = TRUE, !.noted = b] \in Workloads
      BY <2>3 DEF IInv, ObjInv, Workloads
    <3>2. QED
      BY <2>3, <3>1, BecomesType DEF IInv
  <2>4. QED
    BY <1>1, <2>1, <2>2, <2>3
<1>3. GenInv'
  BY <1>1, Unfresh DEF bounds, IInv, GenInv, Aged
<1>4. TypeOK'
  BY <1>1, <1>2, Unfresh DEF bounds, IInv, TypeOK, ObjInv
<1>5. QED
  BY <1>1, <1>2, <1>3, <1>4, Unfresh DEF IInv

\* The watches bring the current version; a restart lists everything.
LEMMA SyncIInv ==
    ASSUME IInv, Sync \/ Crash \/ UNCHANGED vars
    PROVE  IInv'
<1>1. CASE SyncAdv
  <2>1. /\ UNCHANGED <<kind, adv, objects, hpas, pc, run, bounds>>
        /\ advCopy' = adv /\ advFresh' = TRUE
    BY <1>1 DEF SyncAdv
  <2>2. due' \in BOOLEAN
    BY <1>1, WorkerAssumption DEF SyncAdv, IInv, TypeOK
  <2>3. ObjInv'
    BY <2>1 DEF objects, IInv, ObjInv
  <2>4. TypeOK'
    BY <2>1, <2>2, <2>3 DEF bounds, IInv, TypeOK, ObjInv
  <2>5. GenInv' /\ RunInv'
    BY <2>1, Unfresh DEF bounds, IInv, GenInv, Aged
  <2>6. QED
    BY <2>3, <2>4, <2>5 DEF IInv
<1>2. ASSUME NEW n \in Names, SyncObj(n) PROVE IInv'
  <2>1. /\ UNCHANGED <<kind, advs, objs, hpas, pc, run, bounds>>
    BY <1>2 DEF SyncObj
  <2>2. due' \in BOOLEAN
    BY <1>2, WorkerAssumption DEF SyncObj, IInv, TypeOK
  <2>3. ObjInv'
    BY <1>2 DEF SyncObj, IInv, ObjInv
  <2>4. TypeOK'
    BY <2>1, <2>2, <2>3 DEF advs, bounds, IInv, TypeOK, ObjInv
  <2>5. GenInv' /\ RunInv'
    BY <2>1, Unfresh DEF advs, bounds, IInv, GenInv, Aged
  <2>6. QED
    BY <2>3, <2>4, <2>5 DEF IInv
<1>3. CASE Crash
  <2>1. faults' \in 0..MaxFaults /\ due' \in BOOLEAN
    BY <1>3, FaultBound, WorkerAssumption DEF Crash, IInv
  <2>2. ObjInv'
    BY <1>3 DEF Crash, IInv, ObjInv
  <2>3. TypeOK'
    BY <1>3, <2>1, <2>2, IdleRun DEF Crash, IInv, TypeOK, ObjInv
  <2>4. GenInv' /\ RunInv'
    BY <1>3, IdleRun DEF Crash, IInv, GenInv, Aged
  <2>5. QED
    BY <2>2, <2>3, <2>4 DEF IInv
<1>4. CASE UNCHANGED vars
  <2>1. ObjInv' /\ TypeOK'
    BY <1>4 DEF vars, advs, objects, bounds, IInv, ObjInv, TypeOK
  <2>2. GenInv' /\ RunInv'
    BY <1>4, Unfresh DEF vars, advs, bounds, IInv, GenInv, Aged
  <2>3. QED
    BY <2>1, <2>2 DEF IInv
<1>5. QED
  BY <1>1, <1>2, <1>3, <1>4 DEF Sync

\* No step breaks the inductive invariant.
THEOREM NextIInv == IInv /\ [Next]_vars => IInv'
BY BeginIInv, ApplyIInv, EndApplyIInv, RecalculateIInv, RetireIInv, StatusIInv,
   EditIInv, ClusterIInv, SyncIInv
DEF Next, Step

\* The inductive invariant holds in every reachable state.
THEOREM InvariantHolds == Spec => []IInv
BY InitIInv, NextIInv, PTL DEF Spec

-----------------------------------------------------------------------------
\* What a run knows of the AdvDeployment

\* At the start the copy is current.
LEMMA InitKnow == Init => KnowInv
BY DEF Init, KnowInv

\* What a run has counted stays until it is written.
LEMMA RunKnow ==
    ASSUME IInv, KnowInv, Step
    PROVE  KnowInv'
<1>1. run \in Runs
  BY DEF IInv, TypeOK
<1>2. CASE pc' \in {"idle", "apply", "list"} /\ UNCHANGED advs
  BY <1>2 DEF KnowInv, advs
<1>3. CASE Begin \/ Unsupported \/ EndApply \/ (\E n \in Names : Apply(n))
  <2>1. pc' \in {"idle", "apply", "list"} /\ UNCHANGED advs
    BY <1>3 DEF Begin, Unsupported, EndApply, Apply, Update, ApplyHpa, Goto, Done, Failed
  <2>2. QED
    BY <1>2, <2>1
<1>4. CASE Recalculate
  <2>1. UNCHANGED advs
    BY <1>4 DEF Recalculate
  <2>2. CASE Failed
    BY <1>2, <2>1, <2>2 DEF Failed
  <2>3. ASSUME NEW last \in Listed, NEW observed \in BOOLEAN,
               LET r == Recalculated(Listed, last, observed)
               IN Goto("retire", r) \/ Goto("status", ToStatus(r))
        PROVE  KnowInv'
    <3> DEFINE r == Recalculated(Listed, last, observed)
    <3>1. r \in Runs /\ Reportable(r)
      BY Counted
    <3>2. pc' \in {"retire", "status"} /\ run' \in {r, ToStatus(r)}
      BY <2>3 DEF Goto
    <3> HIDE DEF r
    <3>3. Reportable(run')
      BY <3>1, <3>2, StatusRun DEF Reportable
    <3>4. QED
      BY <2>1, <3>2, <3>3 DEF KnowInv, advs, Reportable
  <2>4. QED
    BY <1>4, <2>2, <2>3 DEF Recalculate
<1>5. CASE Retire
  <2>1. pc = "retire" /\ pc' \in {"retire", "status"} /\ UNCHANGED advs
    BY <1>5 DEF Retire, Goto
  <2>2. run'.agg = run.agg /\ run'.observed = run.observed
    BY <1>1, <1>5, StatusRun DEF Retire, Goto, Runs
  <2>3. QED
    BY <2>1, <2>2 DEF KnowInv, Reportable, advs
<1>6. CASE ReadStatus \/ WriteStatus
  <2>1. CASE pc' = "idle" /\ (UNCHANGED advs \/ ~advFresh')
    BY <2>1 DEF KnowInv, advs
  <2>2. CASE /\ pc \in {"status", "write"} /\ UNCHANGED advs
             /\ Goto("write", [run EXCEPT !.adv = advCopy, !.fresh = advFresh])
    <3>1. /\ pc' = "write" /\ run'.adv = advCopy /\ run'.fresh = advFresh
          /\ run'.agg = run.agg /\ run'.observed = run.observed
      BY <1>1, <2>2 DEF Goto, Runs
    <3>2. QED
      BY <2>2, <3>1 DEF KnowInv, Reportable, advs
  <2>3. QED
    BY <1>6, <2>1, <2>2 DEF ReadStatus, WriteStatus, Done, Failed, Goto
<1>7. QED
  BY <1>3, <1>4, <1>5, <1>6 DEF Step

\* Who changes the AdvDeployment makes the versions read before old; a copy
\* that is brought is current.
LEMMA NextKnow == IInv /\ KnowInv /\ [Next]_vars => KnowInv'
<1> SUFFICES ASSUME IInv, KnowInv, [Next]_vars PROVE KnowInv'
  OBVIOUS
<1>1. run \in Runs
  BY DEF IInv, TypeOK
<1>2. CASE /\ UNCHANGED pc /\ ~advFresh'
           /\ run' = [run EXCEPT !.fresh = FALSE]
  <2>1. /\ ~run'.fresh
        /\ run'.agg = run.agg /\ run'.observed = run.observed
    BY <1>1, <1>2 DEF Runs
  <2>2. QED
    BY <1>2, <2>1 DEF KnowInv, Reportable
<1>3. CASE UNCHANGED <<adv, run, pc>> /\ (UNCHANGED advs \/ advCopy' = adv)
  BY <1>3 DEF KnowInv, Reportable, advs
<1>4. CASE Edit \/ Collect
  BY <1>2, <1>3, <1>4 DEF Edit, Collect, advs
<1>5. CASE \/ \E n \in Names : Progress(n) \/ SyncObj(n)
           \/ SyncAdv \/ UNCHANGED vars
  BY <1>3, <1>5 DEF Progress, SyncObj, SyncAdv, vars, advs
<1>6. CASE Crash
  BY <1>6 DEF Crash, KnowInv
<1>7. QED
  BY <1>4, <1>5, <1>6, RunKnow DEF Next, Sync

-----------------------------------------------------------------------------
\* What follows

\* Every variable keeps its type, for all workloads, charts and bounds: no
\* generation, no counter of a run leaves its range.
THEOREM TypeCorrect == Spec => []TypeOK
<1>1. IInv => TypeOK
  BY DEF IInv
<1>2. QED
  BY <1>1, InvariantHolds, PTL

\* Whatever fails, whoever edits meanwhile: a Deployment is deleted only by a
\* run that applied a whole chart, of an object the chart does not name, with
\* as many pods available as the chart wants of those listed.
THEOREM RetiresSafely == Spec => RetiresAfterFullApply
<1>1. IInv /\ [Next]_vars =>
        [pc = "retire" /\ kind = "Deployment" /\ objs' # objs
           => /\ run.owners = DOMAIN run.adv.chart.want /\ run.owners # {}
              /\ run.adv.chart.flaw = "none"
              /\ run.listed \ run.owners # {}
              /\ run.agg.available >= Cardinality(run.listed \cap run.owners)]_vars
  BY DEF IInv, RunInv, FullyApplied
<1>2. QED
  BY <1>1, InvariantHolds, PTL DEF Spec, RetiresAfterFullApply

\* For any lag, faults and edits: the status write of the worker is to the
\* AdvDeployment that is stored, changes nothing of it but the status, and
\* says Running of its generation only.
THEOREM StatusWritesKeepEdits == Spec => StatusKeepsEdits
<1> DEFINE Keeps == adv' # adv /\ adv' # Missing /\ edits' = edits
                      => /\ adv # Missing
                         /\ [adv' EXCEPT !.agg = adv.agg, !.obs = adv.obs] = adv
                         /\ MayReport(adv.gen, adv'.obs, adv'.agg.phase)
<1>1. IInv /\ KnowInv /\ [Next]_vars => [Keeps]_vars
  <2> SUFFICES ASSUME IInv, KnowInv, Next,
                      adv' # adv, adv' # Missing, edits' = edits
               PROVE  Keeps
    BY DEF vars
  <2>1. WriteStatus
    <3>1. ~Edit
      <4>1. edits \in Int
        BY WorkerAssumption DEF IInv, TypeOK
      <4>2. Edit => edits' = edits + 1
        BY DEF Edit
      <4>3. QED
        BY <4>1, <4>2
    <3>2. QED
      BY <3>1 DEF Next, Step, Sync, Begin, Unsupported, EndApply, Recalculate,
                  Retire, ReadStatus, Apply, SyncAdv, SyncObj, Collect, Crash,
                  Progress, advs
  <2>2. /\ pc = "write" /\ run.fresh /\ run.adv = adv /\ adv # Missing
        /\ adv' = [adv EXCEPT !.agg = run.agg,
                      !.obs = IF run.observed THEN adv.gen ELSE adv.gen - 1]
    BY <2>1 DEF WriteStatus, KnowInv, IInv, RunInv, advs
  <2>3. adv \in Advs /\ Reportable(run)
    BY <2>2 DEF IInv, TypeOK, KnowInv
  <2>4. /\ adv'.agg = run.agg
        /\ adv'.obs = IF run.observed THEN adv.gen ELSE adv.gen - 1
        /\ [adv' EXCEPT !.agg = adv.agg, !.obs = adv.obs] = adv
    BY <2>2, <2>3 DEF Advs
  <2>5. QED
    <3>1. adv.gen \in Gens
      BY <2>3 DEF Advs
    <3>2. adv.gen - 1 + 1 = adv.gen
      BY <3>1, WorkerAssumption DEF Gens
    <3>3. QED
      BY <2>2, <2>3, <2>4, <3>2 DEF Reportable, MayReport
<1>2. Spec => [](IInv /\ KnowInv)
  BY InitIInv, NextIInv, InitKnow, NextKnow, PTL DEF Spec
<1>3. QED
  BY <1>1, <1>2, PTL DEF Spec, StatusKeepsEdits
=============================================================================
