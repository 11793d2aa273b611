------------------------------ MODULE AdvWorker ------------------------------
(***************************************************************************)
(* controllers/advdeployment: the worker of one cluster and the runs of    *)
(* Reconcile for one AdvDeployment, with the steps in the order they are   *)
(* registered: deletion, type, apply, recalculate, status.                 *)
(*                                                                         *)
(* The workloads of a behaviour are of one kind and have one pod each.     *)
(* resource.Reconcile is one step here (ResourceApply has its inside): it  *)
(* creates what the copy does not show, puts what is in sync, leaves alone *)
(* what differs and fails on what cannot be marshalled. Reads and lists    *)
(* come from lagging copies; a version matters only for being current,     *)
(* which the fresh variables tell.                                         *)
(*                                                                         *)
(* Errors travel as in the code: a step that stops hands its error to the  *)
(* queue, which brings the key back; the error of a step that does not     *)
(* stop is only logged, unless the step is the last one. The delay that    *)
(* the steps ask for is a time.Duration read as an int64, so it is lost.   *)
(***************************************************************************)
EXTENDS Integers, FiniteSets, StatusContract

CONSTANTS Names,      \* names of workloads
          Contents,   \* what their spec can be
          Numbered,   \* those that cannot be marshalled (PatchRules)
          Charts,     \* the charts an AdvDeployment can have, by kind
          HpaKinds,   \* the kinds for which the HPA annotation is edited
          Watching,   \* has watchResource been called?
          MaxEdits,   \* bound of the edits of the AdvDeployment
          MaxFaults,  \* bound of failing calls and crashes
          Missing

Kinds == {"Deployment", "StatefulSet", "Job"}

\* A chart renders, for some names, a content; a template that does not
\* parse is skipped, so a name may be missing for that too. The flaws: a
\* spec that is no helm chart, a chart that does not render, an object of a
\* kind the worker does not convert.
Flaws == {"none", "type", "render", "kind"}

AllCharts == UNION {Charts[k] : k \in Kinds}

Phases == {"", "Installing", "Running"}
Pods   == 0..Cardinality(Names)
Gens   == 0..(1 + MaxEdits)

\* AdvDeploymentAggrStatus
Aggs  == [phase : Phases, desired : Pods, available : Pods, owners : SUBSET Names]
NoAgg == [phase |-> "", desired |-> 0, available |-> 0, owners |-> {}]

\* ready: the generation is observed and the pod available. noted: it has the
\* annotation its controller keeps on it, the revision of a Deployment.
Workloads == [spec : Contents, owned : BOOLEAN, noted : BOOLEAN, ready : BOOLEAN]
Advs      == [gen : Gens, chart : AllCharts, hpa : BOOLEAN, deleting : BOOLEAN,
              obs : Gens, agg : Aggs]

ASSUME WorkerAssumption ==
    /\ IsFiniteSet(Names) /\ Numbered \subseteq Contents
    /\ MaxEdits \in Nat /\ MaxFaults \in Nat /\ Watching \in BOOLEAN
    /\ HpaKinds \subseteq Kinds
    /\ DOMAIN Charts = Kinds
    /\ \A ch \in AllCharts :
                          /\ ch.flaw \in Flaws
                          /\ DOMAIN ch.want \subseteq Names
                          /\ \A n \in DOMAIN ch.want : ch.want[n] \in Contents
    /\ Missing \notin Workloads /\ Missing \notin Advs /\ Missing \notin Names

VARIABLES kind,               \* the kind of the workloads
          adv, advCopy, advFresh,
          objs, objCopy, objFresh,
          hpas,               \* the names that have a HorizontalPodAutoscaler
          due, pc, run,       \* the queue and the running reconcile
          edits, faults

objects == <<objs, objCopy, objFresh>>
advs    == <<adv, advCopy, advFresh>>
bounds  == <<edits, faults>>
vars    == <<kind, advs, objects, hpas, due, pc, run, bounds>>

Runs == [adv : Advs \cup {Missing}, fresh : BOOLEAN, todo : SUBSET Names,
         owners : SUBSET Names, listed : SUBSET Names, touched : BOOLEAN,
         err : BOOLEAN, last : Names \cup {Missing}, unused : Pods,
         observed : BOOLEAN, agg : Aggs]

NoRun == [adv |-> Missing, fresh |-> FALSE, todo |-> {}, owners |-> {},
          listed |-> {}, touched |-> FALSE, err |-> FALSE, last |-> Missing,
          unused |-> 0, observed |-> TRUE, agg |-> NoAgg]

TypeOK == /\ kind \in Kinds
          /\ adv \in Advs \cup {Missing} /\ advCopy \in Advs \cup {Missing}
          /\ objs \in [Names -> Workloads \cup {Missing}]
          /\ objCopy \in [Names -> Workloads \cup {Missing}]
          /\ advFresh \in BOOLEAN /\ objFresh \in [Names -> BOOLEAN]
          /\ hpas \subseteq Names /\ due \in BOOLEAN
          /\ pc \in {"idle", "apply", "list", "retire",
                    "status", "write"}
          /\ run \in Runs
          /\ pc = "retire" => /\ run.unused \in 1..Cardinality(run.listed)
                              /\ run.last \in run.listed
          /\ edits \in 0..MaxEdits /\ faults \in 0..MaxFaults

Init == /\ kind \in Kinds
        /\ \E ch \in Charts[kind] :
              adv = [gen |-> 1, chart |-> ch, hpa |-> FALSE, deleting |-> FALSE,
                     obs |-> 0, agg |-> NoAgg]
        /\ advCopy = adv /\ advFresh = TRUE
        /\ objs = [n \in Names |-> Missing]
        /\ objCopy = objs /\ objFresh = [n \in Names |-> TRUE]
        /\ hpas = {} /\ due = Watching
        /\ pc = "idle" /\ run = NoRun
        /\ edits = 0 /\ faults = 0

-----------------------------------------------------------------------------
Fault   == faults < MaxFaults /\ faults' = faults + 1
NoFault == UNCHANGED faults

\* The object becomes o; a new version makes the copy old.
Becomes(n, o) == /\ objs' = [objs EXCEPT ![n] = o]
                 /\ objFresh' = [objFresh EXCEPT ![n] = @ /\ o = objs[n]]
                 /\ UNCHANGED objCopy

\* Reconcile goes on at p with its variables as in r.
Goto(p, r) == pc' = p /\ run' = r /\ UNCHANGED due

\* Reconcile returns nil; it returns an error, which requeues the key.
Done   == Goto("idle", NoRun)
Failed == pc' = "idle" /\ run' = NoRun /\ due' = TRUE

-----------------------------------------------------------------------------
\* Get of the AdvDeployment, stepCheckDeletionTime and stepCheckType: what is
\* gone or going is left alone. What is no helm chart fails, which brings the
\* key back to fail again: no step. Then stepApplyResources renders the chart:
\* an error there is assigned to a variable of the loop, which the deferred
\* function does not see, so the run goes on to the status, having applied
\* nothing.
Begin == /\ pc = "idle" /\ due
         /\ UNCHANGED <<kind, advs, objects, hpas, edits>>
         /\ \/ /\ Fault /\ pc' = "idle" /\ UNCHANGED <<run, due>>
            \/ /\ NoFault
               /\ advCopy # Missing => advCopy.deleting
               /\ due' = FALSE /\ UNCHANGED <<pc, run>>
            \/ /\ NoFault
               /\ advCopy # Missing /\ ~advCopy.deleting
               /\ advCopy.chart.flaw # "type"
               /\ pc' = IF advCopy.chart.flaw = "render" THEN "list" ELSE "apply"
               /\ run' = [NoRun EXCEPT !.adv = advCopy, !.todo = DOMAIN advCopy.chart.want]
               /\ due' = FALSE

\* What resource.Reconcile finds in sync with what it has just rendered: the
\* patch between the two is empty, which takes no account of what others added
\* (noted, owned). The fields of volumeClaimTemplates that the server fills in
\* are compared, since the option that leaves them out is not passed: a
\* StatefulSet, which has them here, always differs.
InSync(n) == kind # "StatefulSet" /\ objCopy[n].spec = run.adv.chart.want[n]

\* To compare, what is there and what is rendered are marshalled; Calculate
\* fails on a number in an IntOrString. A create marshals too, but only logs.
CalculateFails(n) == /\ objCopy[n] # Missing
                     /\ {objCopy[n].spec, run.adv.chart.want[n]} \cap Numbered # {}

Created(n) == [spec  |-> run.adv.chart.want[n],
               owned |-> FALSE, noted |-> FALSE, ready |-> FALSE]

\* An update replaces the object by what was rendered: the owner reference and
\* what others noted on it are gone. The status is not part of it.
Replaced(n) == [objs[n] EXCEPT !.spec = run.adv.chart.want[n],
                               !.owned = FALSE, !.noted = FALSE]

\* applyHorizontalPodAutoscaler for what was just applied: the error of an
\* update stays in err, that of a removal is dropped. Jobs have none.
ApplyHpa(n, touched) ==
    LET then(err) == Goto("apply", [run EXCEPT !.todo = @ \ {n}, !.err = err,
                                               !.touched = @ \/ touched])
    IN \/ /\ NoFault /\ then(FALSE)
          /\ hpas' = IF kind = "Job" THEN hpas
                     ELSE IF run.adv.hpa THEN hpas \cup {n} ELSE hpas \ {n}
       \/ kind # "Job" /\ Fault /\ UNCHANGED hpas /\ then(run.adv.hpa)

\* Faulty variant: the error of resource.Reconcile is logged and forgotten.
ApplySwallowed(n) ==
    /\ pc = "apply" /\ n \in run.todo
    /\ UNCHANGED <<kind, advs, edits>>
    /\ \/ Fault /\ Done /\ UNCHANGED <<objects, hpas>>
       \/ /\ IF objs[n] = Missing THEN Becomes(n, Created(n)) ELSE UNCHANGED objects
          /\ ApplyHpa(n, TRUE)

\* An update of what is in sync. That of a Job asks for no version; where the
\* server finds it invalid, the template of a Job being immutable, the Job is
\* deleted and created, and is gone when the create fails.
Update(n) ==
    /\ IF kind = "Job" THEN objs[n] # Missing ELSE objFresh[n]
    /\ \/ Becomes(n, Replaced(n)) /\ ApplyHpa(n, TRUE)
       \/ /\ kind = "Job"
          /\ \/ Becomes(n, Created(n)) /\ ApplyHpa(n, TRUE)
             \/ Becomes(n, Missing) /\ Fault /\ Failed /\ UNCHANGED hpas

\* The create or the update that a lagging copy leads to: the object is there
\* already, or it is gone or has another version.
Refused(n) == IF objCopy[n] = Missing THEN objs[n] # Missing
              ELSE IF kind = "Job" THEN objs[n] = Missing ELSE ~objFresh[n]

\* One object of the chart, in the random order of the rendered map, through
\* resource.Reconcile.
Apply(n) ==
    /\ pc = "apply" /\ n \in run.todo
    /\ UNCHANGED <<kind, advs, edits>>
    /\ \/ Fault /\ Failed /\ UNCHANGED <<objects, hpas>>
       \/ /\ CalculateFails(n)
          /\ NoFault /\ Failed /\ UNCHANGED <<objects, hpas>>
       \/ /\ objCopy[n] = Missing /\ objs[n] = Missing
          /\ Becomes(n, Created(n))
          /\ \/ ApplyHpa(n, TRUE)
             \/ Fault /\ Failed /\ UNCHANGED hpas
       \/ /\ objCopy[n] # Missing /\ ~CalculateFails(n)
          /\ IF InSync(n) THEN Update(n)
                          ELSE UNCHANGED objects /\ ApplyHpa(n, FALSE)
       \/ /\ ~CalculateFails(n) /\ Refused(n)
          /\ objCopy[n] # Missing => InSync(n)
          /\ NoFault /\ Failed /\ UNCHANGED <<objects, hpas>>

\* An object of a kind that is not supported comes up: its error is returned
\* but not in the variable the deferred function looks at, which only holds
\* that of an HPA.
Unsupported == /\ pc = "apply" /\ run.adv.chart.flaw = "kind"
               /\ IF run.err THEN Failed
                  ELSE Goto("list", [NoRun EXCEPT !.adv = run.adv])
               /\ UNCHANGED <<kind, advs, objects, hpas, bounds>>

\* The end of stepApplyResources: a run that changed something stops, and so
\* does one whose last HPA failed, both without an error.
EndApply == /\ pc = "apply" /\ run.todo = {} /\ run.adv.chart.flaw # "kind"
            /\ IF run.touched \/ run.err
                 THEN Done
                 ELSE Goto("list", [NoRun EXCEPT !.adv = run.adv,
                                             !.owners = DOMAIN run.adv.chart.want])
            /\ UNCHANGED <<kind, advs, objects, hpas, bounds>>

-----------------------------------------------------------------------------
\* Faulty variant: no owners means that nothing is in use.
IsUnusedWithoutOwners(n) == n \notin run.owners

\* isUnunseObject: an object that the chart did not render in this run. The
\* name is built with the kind of a Deployment, which no StatefulSet has.
IsUnused(n) == run.owners # {} /\ (kind = "Deployment" => n \notin run.owners)

\* setControllerReference for the objects listed: a write over the version in
\* the copy, whose conflict or failure is only logged.
Adopt(listed) ==
    LET ours == {n \in listed : objFresh[n] /\ ~objCopy[n].owned}
        write(ns) == /\ objs' = [n \in Names |-> IF n \in ns
                                    THEN [objs[n] EXCEPT !.owned = TRUE] ELSE objs[n]]
                     /\ objFresh' = [n \in Names |-> objFresh[n] /\ n \notin ns]
                     /\ UNCHANGED objCopy
    IN \/ write(ours) /\ NoFault
       \/ Fault /\ \E n \in ours : write(ours \ {n})

\* loopDeploys and loopStatefulSet over the objects in use, dealAggreStatus up
\* to the deletions. Unavailable replicas are desired ones that are not
\* available, and those updated are those available: nobody changes a spec.
\* observed is generationEqual: pods can be missing of generations that the
\* controllers have all observed, but one not observed is never ready.
Recalculated(listed, last, observed) ==
    LET unused    == {n \in listed : IsUnused(n)}
        used      == listed \ unused
        ready     == {n \in used : objCopy[n].ready}
    IN [run EXCEPT !.listed = listed, !.last = last,
          !.unused = Cardinality(unused),
          !.observed = observed \/ used = ready,
          !.agg = [phase     |-> IF used = ready THEN "Running" ELSE "Installing",
                   desired   |-> Cardinality(used),
                   available |-> Cardinality(ready),
                   owners    |-> run.owners]]

\* What the last step uses of all this.
ToStatus(r) == [NoRun EXCEPT !.agg = r.agg, !.observed = r.observed]

\* The lists of Deployments, StatefulSets and Jobs with the label of the
\* AdvDeployment: of the kind that there is.
Listed == {n \in Names : objCopy[n] # Missing}

\* stepRecalculateStatus: Deployments if two or more are listed, else
\* StatefulSets if two or more are. Jobs are guarded by the number of
\* StatefulSets, so they are never looked at. Without a list there is no
\* status, and stepUpdateStatus fails. The order of the list is random.
Recalculate ==
    /\ pc = "list"
    /\ UNCHANGED <<kind, advs, hpas, edits>>
    /\ \/ Fault /\ Failed /\ UNCHANGED objects
       \/ /\ kind = "Job" \/ Cardinality(Listed) < 2
          /\ Failed /\ UNCHANGED <<objects, faults>>
       \/ /\ kind # "Job" /\ Cardinality(Listed) > 1
          /\ Adopt(Listed)
          /\ \E last \in Listed, observed \in BOOLEAN :
                LET r == Recalculated(Listed, last, observed) IN
                IF r.unused > 0 /\ r.agg.desired <= r.agg.available
                  THEN Goto("retire", r)
                  ELSE Goto("status", ToStatus(r))

\* Faulty variant: one deletion too many.
RetireOneMore == LET n == run.last IN
    /\ pc = "retire"
    /\ UNCHANGED <<kind, advs, hpas, edits>>
    /\ IF run.unused = 0 THEN Goto("status", ToStatus(run))
                         ELSE Goto("retire", [run EXCEPT !.unused = @ - 1])
    /\ \/ NoFault /\ Becomes(n, Missing)
       \/ Fault /\ UNCHANGED objects

\* Every unused object is deleted through the one address they share: what
\* goes is the object that was listed last, and no version is asked for.
Retire == LET n == run.last IN
    /\ pc = "retire"
    /\ UNCHANGED <<kind, advs, hpas, edits>>
    /\ IF run.unused = 1 THEN Goto("status", ToStatus(run))
                         ELSE Goto("retire", [run EXCEPT !.unused = @ - 1])
    /\ \/ NoFault /\ Becomes(n, Missing)
       \/ Fault /\ UNCHANGED objects

-----------------------------------------------------------------------------
\* stepUpdateStatus

\* The status is what was computed: not, when the owners happen to be listed
\* in another order than last time.
Reported(a) == a.obs = a.gen /\ a.agg = run.agg
MayReorder  == Cardinality(run.agg.owners) > 1

\* The AdvDeployment is read again; an equal status is not written.
ReadStatus == /\ pc = "status"
              /\ UNCHANGED <<kind, advs, objects, hpas, edits>>
              /\ \/ Fault /\ Failed
                 \/ NoFault /\ advCopy = Missing /\ Failed
                 \/ NoFault /\ advCopy # Missing /\ Reported(advCopy) /\ Done
                 \/ /\ NoFault /\ advCopy # Missing
                    /\ Reported(advCopy) => MayReorder
                    /\ Goto("write", [run EXCEPT !.adv = advCopy,
                                                 !.fresh = advFresh])

\* Faulty variant: the write takes no notice of versions.
WriteStatusBlindly ==
    /\ pc = "write"
    /\ UNCHANGED <<kind, objects, hpas, edits>>
    /\ \/ /\ NoFault /\ Done
          /\ adv' = [run.adv EXCEPT !.agg = run.agg,
                       !.obs = IF run.observed THEN run.adv.gen
                                               ELSE run.adv.gen - 1]
          /\ advFresh' = FALSE /\ UNCHANGED advCopy
       \/ Fault /\ Failed /\ UNCHANGED advs

\* StatusUpdate of what was read, which gets the generation it has now if the
\* workloads listed had observed theirs. A conflict reads again and retries,
\* a few times.
WriteStatus ==
    LET a == run.adv
        written == [a EXCEPT !.agg = run.agg,
                             !.obs = IF run.observed THEN a.gen ELSE a.gen - 1]
    IN /\ pc = "write"
       /\ UNCHANGED <<kind, objects, hpas, edits>>
       /\ \/ /\ NoFault /\ run.fresh /\ Done
             /\ adv' = written /\ advFresh' = FALSE /\ UNCHANGED advCopy
          \/ /\ NoFault /\ ~run.fresh /\ UNCHANGED advs
             /\ IF advCopy = Missing THEN Failed
                ELSE IF Reported(advCopy) THEN Done
                ELSE \/ Failed
                     \/ Goto("write", [run EXCEPT !.adv = advCopy,
                                                  !.fresh = advFresh])
          \/ Fault /\ Failed /\ UNCHANGED advs

-----------------------------------------------------------------------------
\* The cluster around the worker

\* Somebody changes the chart or the HPA annotation, or deletes.
Edit == /\ edits < MaxEdits /\ edits' = edits + 1
        /\ adv # Missing /\ ~adv.deleting
        /\ \/ \E ch \in Charts[kind] \ {adv.chart} :
                adv' = [adv EXCEPT !.chart = ch, !.gen = @ + 1]
           \/ kind \in HpaKinds /\ adv' = [adv EXCEPT !.hpa = ~@]
           \/ adv' = [adv EXCEPT !.deleting = TRUE, !.gen = @ + 1]
           \/ adv' = Missing
        /\ advFresh' = FALSE /\ run' = [run EXCEPT !.fresh = FALSE]
        /\ UNCHANGED <<kind, advCopy, objects, hpas, due, pc, faults>>

\* The garbage collector removes what a deleted AdvDeployment owns, and the
\* AdvDeployment once it does.
Collect == \/ /\ adv # Missing /\ adv.deleting
              /\ \A n \in Names : objs[n] # Missing => ~objs[n].owned
              /\ adv' = Missing /\ advFresh' = FALSE
              /\ run' = [run EXCEPT !.fresh = FALSE]
              /\ UNCHANGED <<kind, advCopy, objects, hpas, due, pc, bounds>>
           \/ /\ adv # Missing => adv.deleting
              /\ \E n \in Names : /\ objs[n] # Missing /\ objs[n].owned
                                  /\ Becomes(n, Missing)
              /\ UNCHANGED <<kind, advs, hpas, due, pc, run, bounds>>

\* The controller of the workload observes it and makes its pod available; that
\* of a Deployment notes the revision on it.
Progress(n) == LET o == [objs[n] EXCEPT !.ready = TRUE, !.noted = kind = "Deployment"]
               IN
               /\ objs[n] # Missing /\ objs[n] # o
               /\ Becomes(n, o)
               /\ UNCHANGED <<kind, advs, hpas, due, pc, run, bounds>>


\* The watch of AdvDeployments; predicateSpec drops an update that leaves the
\* spec and the metadata as they were, the HPA annotations not compared.
SyncAdv == /\ ~advFresh
           /\ advCopy' = adv /\ advFresh' = TRUE
           /\ due' = (due \/ (Watching /\
                  \/ adv = Missing
                  \/ advCopy # Missing /\ adv.chart # advCopy.chart))
           /\ UNCHANGED <<kind, adv, objects, hpas, pc, run, bounds>>

\* The watches of workloads bring the key of the AdvDeployment they are
\* labelled with, for every event.
SyncObj(n) == /\ ~objFresh[n]
              /\ objCopy' = [objCopy EXCEPT ![n] = objs[n]]
              /\ objFresh' = [objFresh EXCEPT ![n] = TRUE]
              /\ due' = (due \/ Watching)
              /\ UNCHANGED <<kind, advs, objs, hpas, pc, run, bounds>>

\* The process is restarted: the informers list everything again.
Crash == /\ Fault
         /\ pc' = "idle" /\ run' = NoRun /\ due' = Watching
         /\ advCopy' = adv /\ advFresh' = TRUE
         /\ objCopy' = objs /\ objFresh' = [n \in Names |-> TRUE]
         /\ UNCHANGED <<kind, adv, objs, hpas, edits>>

-----------------------------------------------------------------------------
Step == \/ Begin \/ Unsupported \/ EndApply
        \/ Recalculate \/ Retire \/ ReadStatus \/ WriteStatus
        \/ \E n \in Names : Apply(n)

Sync == SyncAdv \/ \E n \in Names : SyncObj(n)

Next == \/ Step \/ Sync \/ Edit \/ Collect \/ Crash
        \/ \E n \in Names : Progress(n)

\* The queue's thread, the watches and the controllers of the workloads go on.
Fairness == /\ WF_vars(Step) /\ WF_vars(SyncAdv)
            /\ \A n \in Names : WF_vars(SyncObj(n)) /\ WF_vars(Progress(n))

Spec == Init /\ [][Next]_vars /\ Fairness

-----------------------------------------------------------------------------
\* A Deployment is deleted only by a run that rendered and applied the whole
\* chart and found, beside as many available pods as it wants, one the chart
\* does not name: a chart that fails to render, or an object that cannot be
\* applied, retires nothing, although the run goes on to the status.
RetiresAfterFullApply ==
    [][pc = "retire" /\ kind = "Deployment" /\ objs' # objs
         => /\ run.owners = DOMAIN run.adv.chart.want /\ run.owners # {}
            /\ run.adv.chart.flaw = "none"
            /\ run.listed \ run.owners # {}
            /\ run.agg.available >= Cardinality(run.listed \cap run.owners)]_vars

\* However far its copy is behind, the worker's status write brings back no
\* AdvDeployment and undoes no edit of one; what it reports, and of which
\* generation, is what the master builds its own status on (AppSetMaster).
StatusKeepsEdits ==
    [][adv' # adv /\ adv' # Missing /\ edits' = edits
         => /\ adv # Missing
            /\ [adv' EXCEPT !.agg = adv.agg, !.obs = adv.obs] = adv
            /\ MayReport(adv.gen, adv'.obs, adv'.agg.phase)]_vars

\* Whatever calls fail, whatever the worker deletes itself: a time comes when
\* a workload of the chart is there, or there is no such chart any more. Not of
\* a chart with an object that cannot be marshalled, as rendered or as it is:
\* once that is there it fails every run, at any place of the random order.
Marshals(ch) == \A n \in DOMAIN ch.want :
                   /\ ch.want[n] \notin Numbered
                   /\ objs[n] # Missing => objs[n].spec \notin Numbered

Lacking(n) == /\ adv # Missing /\ ~adv.deleting /\ adv.chart.flaw = "none"
              /\ Marshals(adv.chart)
              /\ n \in DOMAIN adv.chart.want /\ objs[n] = Missing

EveryObjectComes == \A n \in Names : Watching /\ Lacking(n) ~> ~Lacking(n)

\* The worker keeps itself busy with StatefulSets, which it looks up as if they
\* were Deployments, never finds in use, deletes and creates again
\* (utils.go:350-363), and with every Deployment or Job that is in sync: it is
\* put as rendered in each run, without its owner reference and what its
\* controller noted on it, and both are put back, each time a new version that
\* brings the key.
Busy == \/ kind = "StatefulSet"
        \/ /\ adv # Missing
           /\ \E n \in DOMAIN adv.chart.want :
                 objs[n] # Missing /\ objs[n].spec = adv.chart.want[n]

=============================================================================
