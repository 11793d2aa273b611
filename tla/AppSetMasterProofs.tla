------------------------ MODULE AppSetMasterProofs ------------------------
(***************************************************************************)
(* For every finite set of clusters, every set of AppSets users may ask    *)
(* for, every number of edits and failures and with the step loop or       *)
(* without it: AdvDeployments are created under the finalizer's protection *)
(* only, the finalizer goes only from a clean slate, and the controller    *)
(* overwrites nobody. The invariant compares the copies of the AppSet that *)
(* are around, the informer's and the thread's, with the stored one: of    *)
(* one incarnation, what an older copy says of the finalizer and of the    *)
(* deletion holds of a newer one as well.                                  *)
(* From this, and from whom a step of the thread works for, it follows     *)
(* that the master implements AppSetAbs, and that, while nothing fails, no *)
(* cluster keeps what has no AppSet.                                       *)
(***************************************************************************)
EXTENDS AppSetMaster, SequenceTheorems, TLAPS

\* A goroutine of stepApplySpec works for a cluster the AppSet targets.
GoInv ==
    pc = "apply" =>
      \A c \in Clusters : go[c] \in {"todo", "create", "update"} =>
                            c \in Targets(loc)

TypeInv == TypeOK /\ GoInv

\* A copy with the finalizer and without a deletion: the stored AppSet is of
\* its incarnation and has the finalizer too.
Protected(a) ==
    a # NoApp /\ a.fin /\ ~a.del =>
      app # NoApp /\ app.fin /\ app.uid = a.uid

\* A deletion that an older copy shows is known to the newer one.
DelOrder(older, newer) ==
    older # NoApp /\ newer # NoApp /\ older.uid = newer.uid /\ older.del =>
      newer.del

\* The thread's AppSet is a copy of the informer's copy of the stored one.
CopiesInv ==
    /\ Protected(cache)
    /\ pc = "apply" => Protected(loc)
    /\ DelOrder(loc, cache) /\ DelOrder(loc, app) /\ DelOrder(cache, app)

\* No incarnation has the uid of the next one.
UidInv == \A a \in {app, cache, loc} : a # NoApp => a.uid <= edits

\* What the thread's AppSet is like in the steps that write for good.
StepInv ==
    /\ pc \in {"sweep", "removeFinalizer"} /\ loc # NoApp => loc.del
    /\ pc = "apply" => loc.fin /\ ~loc.del

AppInv == CopiesInv /\ UidInv /\ StepInv

\* What the goroutines of a sweep found still holds when it is over.
SweepInv ==
    pc \in {"sweep", "removeFinalizer"} =>
      /\ \A c \in Clusters : /\ go[c] = "absent" => adv[c] = NoAdv
                             /\ go[c] = "deleted" => changed
      /\ pc = "removeFinalizer" => ~changed

Sweeping == {"sweep", "removeFinalizer"}

\* The steps that work on the clusters for an AppSet that stays.
Working == {"apply", "readStatus", "writeStatus", "unuse", "survey", "retire"}

\* The informer knows the incarnation that is stored, as soon as it has the
\* finalizer or the thread knows it.
SyncedInv ==
    app # NoApp /\ (app.fin \/ (loc # NoApp /\ loc.uid = app.uid)) =>
      cache # NoApp /\ cache.uid = app.uid

\* What the thread works for is there, with its finalizer.
Held == pc \in Working => app # NoApp /\ app.fin /\ app.uid = loc.uid

\* What has the finalizer while the thread sweeps is what it sweeps for.
SweptInv == pc \in Sweeping /\ app # NoApp /\ app.fin =>
              loc # NoApp /\ loc.uid = app.uid

HoldInv == SyncedInv /\ Held /\ SweptInv

\* What the step of the thread says of its AppSet, its goroutines and the
\* clusters to be cleared.
PlaceInv ==
    /\ pc = "addFinalizer" => ~loc.fin /\ ~loc.del
    /\ pc = "removeFinalizer" => loc.fin /\ \A c \in Clusters : go[c] # "todo"
    /\ pc = "retire" => todo \cap Targets(loc) = {}

\* Until something goes wrong, all clusters are there and answer the sweep.
CalmInv ==
    troubles = 0 =>
      /\ conn = Clusters
      /\ pc \in Sweeping =>
           \A c \in Clusters : go[c] \in {"todo", "absent", "deleted"}

IInv == TypeInv /\ AppInv /\ SweepInv /\ HoldInv /\ PlaceInv /\ CalmInv

-----------------------------------------------------------------------------
\* Types of what the steps compute

\* A context stays one when a step sets a key, and the steps set values.
LEMMA ContextType ==
    ASSUME NEW cx \in Contexts, NEW k \in Keys, NEW v \in Values
    PROVE  WithValue(cx, k, v) \in Contexts
BY DEF Contexts, WithValue

\* The new context is a context, and so is what a step leaves in it: the stop
\* mark, a requeue time, the status it wrote.
LEMMA StepContexts ==
    /\ NewContext \in Contexts
    /\ ctx \in Contexts =>
         /\ Stopped \in Contexts
         /\ StoppedAfter(RequeueAfterTimeError) \in Contexts
         /\ StoppedAfter(RequeueAfterTimeGrace) \in Contexts
         /\ status \in Statuses => StatusWritten \in Contexts
<1>1. /\ Unset \in Values
      /\ TrueValue \in Values
      /\ RequeueAfterTimeError \in Values
      /\ RequeueAfterTimeGrace \in Values
      /\ status \in Statuses => AppStatusValue(status.phase) \in Values
  BY DEF Values, Value, Unset, TrueValue, RequeueAfterTimeError,
         RequeueAfterTimeGrace, AppStatusValue, Statuses, Phases
<1>2. NewContext \in Contexts
  BY <1>1 DEF NewContext, Contexts
<1>3. /\ "StepStop" \in Keys
      /\ "RequeueAfter" \in Keys
      /\ "AppsetStatus" \in Keys
  BY DEF Keys
<1>4. ctx \in Contexts => Stopped \in Contexts
  BY <1>1, <1>3, ContextType DEF Stopped
<1>5. QED
  BY <1>1, <1>2, <1>3, <1>4, ContextType DEF StoppedAfter, StatusWritten

\* No status is a status.
LEMMA NoStatusType == NoStatus \in Statuses
BY DEF NoStatus, Statuses, Phases

\* An empty list is a list of entries.
LEMMA EmptyListType == <<>> \in Seq(Entries)
OBVIOUS

\* What buildAppsetStatus makes of the AppSet and of any list of answers.
LEMMA BuildStatusType ==
    ASSUME NEW a \in AppSets, NEW l \in Seq(Entries)
    PROVE  BuildAppsetStatus(a, l) \in Statuses
<1>1. ClusterStatuses(l) \in Seq([name : Clusters, available : Nat])
  <2>1. PICK n \in Nat : l \in [1..n -> Entries]
    BY SeqDef
  <2>2. ClusterStatuses(l) \in [1..n -> [name : Clusters, available : Nat]]
    <3>1. \A i \in 1..n : /\ l[i].name \in Clusters
                           /\ l[i].adv.available \in Nat
      BY <2>1 DEF Entries, AdvDeployments
    <3>2. DOMAIN l = 1..n
      BY <2>1
    <3>3. ClusterStatuses(l) = [i \in 1..n |-> [name |-> l[i].name,
                                                available |-> l[i].adv.available]]
      BY <3>2, Zenon DEF ClusterStatuses
    <3>4. QED
      BY <3>1, <3>3
  <2>3. \A S : [1..n -> S] \subseteq Seq(S)
    BY <2>1, SeqDef
  <2>4. QED
    BY <2>2, <2>3, Zenon
<1>2. a.gen \in Nat /\ a.gen - 1 \in Nat
  BY DEF AppSets
<1>3. QED
  BY <1>1, <1>2, Zenon DEF BuildAppsetStatus, Statuses, Phases

\* What is built for a target is an AdvDeployment.
LEMMA BuildAdvdeploymentType ==
    ASSUME NEW a \in AppSets, NEW c \in Targets(a)
    PROVE  BuildAdvdeployment(a, c) \in AdvDeployments
<1>1. a.topo \in [DOMAIN a.topo -> [image : STRING, zone : STRING, pods : Nat]]
  BY MasterAssumption DEF AppSets, Topologies
<1>2. a.topo[c] \in [image : STRING, zone : STRING, pods : Nat]
  BY <1>1 DEF Targets
<1>3. 1 \in Nat \ {0} /\ 0 \in Nat
  OBVIOUS
<1>4. QED
  BY <1>2, <1>3
  DEF BuildAdvdeployment, ZoneLabel, DefaultLabelValue, AdvDeployments, Phases

-----------------------------------------------------------------------------
\* Types are kept

\* A reconcile that ends leaves the thread as it was at the start.
LEMMA FinishType ==
    ASSUME NEW cx \in Contexts, NEW err \in BOOLEAN, queued \in BOOLEAN,
           Finish(cx, err)
    PROVE  ThreadOK' /\ GoInv'
<1>1. AsksRequeue(cx, err) \in BOOLEAN
  BY DEF AsksRequeue, GetValueBool
<1>2. Idle \in [Clusters -> GoPcs]
  BY DEF Idle, GoPcs
<1>3. queued' \in BOOLEAN
  BY <1>1 DEF Finish
<1>4. QED
  BY <1>2, <1>3, NoStatusType, EmptyListType, StepContexts
  DEF Finish, Reset, ThreadOK, GoInv, Pcs

\* What an answered call adds to the faults.
LEMMA CountFaultType ==
    ASSUME NEW r, troubles \in Nat, CountFault(r)
    PROVE  troubles' \in Nat
BY DEF CountFault

\* Starting one goroutine per cluster gives every cluster a program counter.
LEMMA FanOutType == \A S : FanOut(S) \in [Clusters -> GoPcs]
BY DEF FanOut, GoPcs

\* With no goroutine running every cluster has a program counter too.
LEMMA IdleType == Idle \in [Clusters -> GoPcs]
BY DEF Idle, GoPcs

\* The operator starts with well-typed state.
THEOREM TypeInit == Init => TypeInv
<1> SUFFICES ASSUME Init PROVE TypeInv
  OBVIOUS
<1>1. WorldOK
  BY MasterAssumption DEF Init, WorldOK
<1>2. ThreadOK
  BY NoStatusType, StepContexts, IdleType, EmptyListType DEF Init, ThreadOK, Pcs
<1>3. GoInv
  BY DEF Init, GoInv
<1>4. QED
  BY <1>1, <1>2, <1>3 DEF TypeInv, TypeOK

\* The run of the thread outside its fan-outs.
LEMMA TypeThread ==
    ASSUME TypeInv,
           \/ Dequeue \/ GetAppSet \/ EndSweep \/ RemoveFinalizer
           \/ AddFinalizer \/ EndApply \/ DecideStatus \/ WriteStatus
           \/ DecideUnuse \/ EndSurvey \/ EndRetire
    PROVE  TypeInv'
<1> USE DEF TypeInv, TypeOK
<1>1. CASE Dequeue
  BY <1>1 DEF Dequeue, world, copies, bounds, WorldOK, ThreadOK, GoInv, Pcs
<1>2. CASE GetAppSet
  <2>1. WorldOK'
    <3>1. troubles' \in Nat
      <4>1. Trouble \/ UNCHANGED troubles
        BY <1>2, Zenon DEF GetAppSet
      <4>2. QED
        BY <4>1 DEF Trouble, WorldOK
    <3>2. UNCHANGED <<app, adv, conn, cache, seen, edits>>
      BY <1>2, Zenon DEF GetAppSet, world, copies
    <3>3. QED
      BY <3>1, <3>2 DEF WorldOK
  <2>2. ASSUME NEW err \in BOOLEAN, Finish(ctx, err) PROVE ThreadOK' /\ GoInv'
    BY <2>2, FinishType DEF ThreadOK
  <2>3. ASSUME Begin(cache), UNCHANGED queued PROVE ThreadOK' /\ GoInv'
    <3>1. cache \in AppSets \cup {NoApp} /\ conn \in SUBSET Clusters
      BY DEF WorldOK
    <3>2. go' \in [Clusters -> GoPcs]
      BY <2>3, FanOutType, IdleType DEF Begin
    <3>3. ctx' \in Contexts
      BY <2>3, StepContexts DEF Begin, ThreadOK
    <3>4. GoInv'
      BY <2>3 DEF Begin, FanOut, GoInv
    <3>5. QED
      BY <2>3, <3>1, <3>2, <3>3, <3>4 DEF Begin, ThreadOK, Pcs
  <2>4. QED
    BY <1>2, <2>1, <2>2, <2>3 DEF GetAppSet
<1>3. CASE EndSweep
  <2>1. WorldOK'
    BY <1>3 DEF EndSweep, world, copies, bounds, WorldOK
  <2>2. ASSUME Finish(ctx, FALSE) PROVE ThreadOK' /\ GoInv'
    BY <2>2, FinishType DEF ThreadOK
  <2>3. QED
    BY <1>3, <2>1, <2>2 DEF EndSweep, ThreadOK, GoInv, Pcs
<1>4. CASE RemoveFinalizer
  <2>1. PICK r \in Replies :
           LET taken == app = loc /\ TakesEffect(r)
           IN /\ app' = IF taken THEN NoApp ELSE app
              /\ Finish(IF taken /\ r = "ok" THEN ctx
                        ELSE StoppedAfter(RequeueAfterTimeError), FALSE)
              /\ CountFault(r)
    BY <1>4 DEF RemoveFinalizer
  <2>2. ThreadOK' /\ GoInv'
    BY <2>1, FinishType, StepContexts DEF ThreadOK
  <2>3. WorldOK'
    BY <1>4, <2>1, CountFaultType DEF RemoveFinalizer, copies, WorldOK
  <2>4. QED
    BY <2>2, <2>3
<1>5. CASE AddFinalizer
  <2>1. PICK r \in Replies :
           LET taken == app = loc /\ TakesEffect(r)
           IN /\ app' = IF taken THEN [loc EXCEPT !.fin = TRUE] ELSE app
              /\ Finish(ctx, ~(taken /\ r = "ok"))
              /\ CountFault(r)
    BY <1>5 DEF AddFinalizer
  <2>2. ThreadOK' /\ GoInv'
    BY <2>1, FinishType, StepContexts DEF ThreadOK
  <2>3. loc \in AppSets
    BY <1>5 DEF AddFinalizer, ThreadOK
  <2>4. [loc EXCEPT !.fin = TRUE] \in AppSets
    BY <2>3 DEF AppSets
  <2>5. WorldOK'
    BY <1>5, <2>1, <2>4, CountFaultType DEF AddFinalizer, copies, WorldOK
  <2>6. QED
    BY <2>2, <2>5
<1>6. CASE EndApply
  <2>1. WorldOK'
    BY <1>6 DEF EndApply, world, copies, bounds, WorldOK
  <2>2. ASSUME Finish(StoppedAfter(RequeueAfterTimeGrace), FALSE)
        PROVE  ThreadOK' /\ GoInv'
    BY <2>2, FinishType, StepContexts DEF ThreadOK
  <2>3. QED
    BY <1>6, <2>1, <2>2, FanOutType DEF EndApply, ThreadOK, GoInv, Pcs
<1>7. CASE DecideStatus
  <2>1. loc \in AppSets /\ list \in Seq(Entries)
    BY <1>7 DEF DecideStatus, ThreadOK
  <2>2. BuildAppsetStatus(loc, list) \in Statuses
    BY <2>1, BuildStatusType
  <2>3. WorldOK'
    BY <1>7 DEF DecideStatus, world, copies, bounds, WorldOK
  <2>4. /\ go' = Idle /\ changed' = FALSE /\ list' = <<>>
        /\ pc' \in {"unuse", "writeStatus"}
        /\ status' \in Statuses
        /\ UNCHANGED <<queued, loc, ctx, found, todo, tries>>
    BY <1>7, <2>2 DEF DecideStatus, Continue, ThreadOK
  <2>5. QED
    BY <2>1, <2>3, <2>4, IdleType, EmptyListType, MasterAssumption
    DEF ThreadOK, GoInv, Pcs
<1>8. CASE WriteStatus
  <2>1. loc \in AppSets /\ status \in Statuses
    BY <1>8 DEF WriteStatus, ThreadOK
  <2>2. [loc EXCEPT !.status = status] \in AppSets
    BY <2>1 DEF AppSets
  <2>3. PICK r \in Replies :
           /\ app' = IF (app # NoApp /\ app = loc /\ TakesEffect(r))
                     THEN [loc EXCEPT !.status = status] ELSE app
           /\ CountFault(r)
    BY <1>8 DEF WriteStatus
  <2>4. WorldOK'
    BY <1>8, <2>2, <2>3, CountFaultType DEF WriteStatus, copies, WorldOK
  <2>5. ASSUME Finish(Stopped, TRUE) PROVE ThreadOK' /\ GoInv'
    BY <2>5, FinishType, StepContexts DEF ThreadOK
  <2>6. ASSUME NEW a \in AppSets,
               loc' = a, ctx' = StatusWritten, Continue("unuse"),
               status' = NoStatus, tries' = 0,
               UNCHANGED <<queued, list, found, todo>>
        PROVE  ThreadOK' /\ GoInv'
    BY <2>1, <2>6, StepContexts, NoStatusType, IdleType, MasterAssumption
    DEF ThreadOK, GoInv, Continue, Pcs
  <2>7. ASSUME cache # NoApp, loc' = cache, tries' = tries + 1,
               UNCHANGED <<queued, pc, ctx, go, changed, list, found, todo,
                           status>>
        PROVE  ThreadOK' /\ GoInv'
    <3>1. loc' \in AppSets
      BY <2>7 DEF WorldOK
    <3>2. QED
      BY <1>8, <2>7, <3>1, MasterAssumption
      DEF WriteStatus, ThreadOK, GoInv, Pcs
  <2>8. CASE Finish(Stopped, TRUE)
    BY <2>4, <2>5, <2>8
  <2>9. CASE \E a \in {app', cache} :
               /\ a # NoApp
               /\ loc' = a /\ ctx' = StatusWritten /\ Continue("unuse")
               /\ status' = NoStatus /\ tries' = 0
               /\ UNCHANGED <<queued, list, found, todo>>
    <3>1. app' \in AppSets \cup {NoApp} /\ cache \in AppSets \cup {NoApp}
      BY <2>4 DEF WorldOK
    <3>2. QED
      BY <2>4, <2>6, <2>9, <3>1
  <2>10. CASE /\ cache # NoApp /\ loc' = cache /\ tries' = tries + 1
              /\ UNCHANGED <<queued, pc, ctx, go, changed, list, found, todo,
                             status>>
    BY <2>4, <2>7, <2>10
  <2>11. QED
    BY <1>8, <2>1, <2>2, <2>8, <2>9, <2>10, MasterAssumption DEF WriteStatus
<1>9. CASE DecideUnuse
  <2>1. WorldOK'
    BY <1>9 DEF DecideUnuse, world, copies, bounds, WorldOK
  <2>2. ASSUME Finish(ctx, FALSE) PROVE ThreadOK' /\ GoInv'
    BY <2>2, FinishType DEF ThreadOK
  <2>3. QED
    BY <1>9, <2>1, <2>2, FanOutType DEF DecideUnuse, ThreadOK, GoInv, Pcs
<1>10. CASE EndSurvey
  <2>1. WorldOK'
    BY <1>10 DEF EndSurvey, world, copies, bounds, WorldOK
  <2>2. UnexpectClusters(loc, found) \subseteq Clusters
    BY DEF UnexpectClusters, ThreadOK, Entries
  <2>3. UnexpectClustersSync(loc, found) \subseteq Clusters
    BY DEF UnexpectClustersSync, ThreadOK, Entries
  <2>4. QED
    BY <1>10, <2>1, <2>2, <2>3, IdleType
    DEF EndSurvey, Continue, ThreadOK, GoInv, Pcs
<1>11. CASE EndRetire
  <2>1. WorldOK'
    BY <1>11 DEF EndRetire, world, copies, bounds, WorldOK
  <2>2. QED
    BY <1>11, <2>1, FinishType DEF EndRetire, ThreadOK
<1>12. QED
  BY <1>1, <1>2, <1>3, <1>4, <1>5, <1>6, <1>7, <1>8, <1>9, <1>10, <1>11

\* The goroutines of the fan-outs, and the retirement of one cluster.
LEMMA TypeGoroutine ==
    ASSUME TypeInv, NEW c \in Clusters, Goroutine(c)
    PROVE  TypeInv'
<1> USE DEF TypeInv, TypeOK
<1>1. [adv EXCEPT ![c] = NoAdv] \in [Clusters -> AdvDeployments \cup {NoAdv}]
  BY DEF WorldOK
<1>2. \A p \in GoPcs : [go EXCEPT ![c] = p] \in [Clusters -> GoPcs]
  BY DEF ThreadOK
<1>3. seen[c] # NoAdv => Entry(c) \in Entries
  BY DEF WorldOK, Entry, Entries
<1>4. CASE SweepCluster(c)
  <2>1. PICK r \in Replies :
           /\ adv' \in {adv, [adv EXCEPT ![c] = NoAdv]}
           /\ changed' \in BOOLEAN
           /\ \E p \in GoPcs : go' = [go EXCEPT ![c] = p]
           /\ CountFault(r)
    BY <1>4 DEF SweepCluster, GoPcs
  <2>2. WorldOK'
    BY <1>1, <1>4, <2>1, CountFaultType DEF SweepCluster, copies, WorldOK
  <2>3. QED
    BY <1>2, <1>4, <2>1, <2>2 DEF SweepCluster, ThreadOK, GoInv
<1>5. CASE ApplyRead(c)
  <2>1. WorldOK'
    BY <1>5 DEF ApplyRead, world, copies, bounds, WorldOK
  <2>2. \E p \in GoPcs : go' = [go EXCEPT ![c] = p]
    BY <1>5 DEF ApplyRead, GoPcs
  <2>3. QED
    BY <1>2, <1>5, <2>1, <2>2 DEF ApplyRead, ThreadOK, GoInv
<1>6. CASE ApplyCreate(c)
  <2>1. loc \in AppSets /\ c \in Targets(loc)
    BY <1>6 DEF ApplyCreate, ThreadOK, GoInv
  <2>2. BuildAdvdeployment(loc, c) \in AdvDeployments
    BY <2>1, BuildAdvdeploymentType
  <2>3. PICK r \in Replies :
           /\ adv' \in {adv, [adv EXCEPT ![c] = BuildAdvdeployment(loc, c)]}
           /\ CountFault(r)
    BY <1>6 DEF ApplyCreate
  <2>4. WorldOK'
    BY <1>6, <2>2, <2>3, CountFaultType DEF ApplyCreate, copies, WorldOK
  <2>5. changed' \in BOOLEAN
    BY <1>6 DEF ApplyCreate, ThreadOK
  <2>6. QED
    BY <1>2, <1>6, <2>4, <2>5
    DEF ApplyCreate, Return, ThreadOK, GoInv, GoPcs
<1>7. CASE ApplyUpdate(c)
  <2>1. WorldOK'
    BY <1>7 DEF ApplyUpdate, world, copies, bounds, WorldOK
  <2>2. changed' \in BOOLEAN
    BY <1>7 DEF ApplyUpdate, ThreadOK
  <2>3. QED
    BY <1>2, <1>7, <2>1, <2>2
    DEF ApplyUpdate, Return, ThreadOK, GoInv, GoPcs
<1>8. CASE ReadStatus(c)
  <2>1. WorldOK'
    BY <1>8 DEF ReadStatus, world, copies, bounds, WorldOK
  <2>2. list' \in Seq(Entries)
    BY <1>3, <1>8 DEF ReadStatus, ThreadOK
  <2>3. QED
    BY <1>2, <1>8, <2>1, <2>2
    DEF ReadStatus, Return, ThreadOK, GoInv, GoPcs
<1>9. CASE Survey(c)
  <2>1. WorldOK'
    BY <1>9 DEF Survey, world, copies, bounds, WorldOK
  <2>2. found' \in SUBSET Entries
    BY <1>3, <1>9 DEF Survey, ThreadOK
  <2>3. QED
    BY <1>2, <1>9, <2>1, <2>2 DEF Survey, Return, ThreadOK, GoInv, GoPcs
<1>10. CASE Retire(c)
  <2>1. PICK r \in Replies :
           /\ adv' \in {adv, [adv EXCEPT ![c] = NoAdv]}
           /\ CountFault(r)
    BY <1>10 DEF Retire
  <2>2. WorldOK'
    BY <1>1, <1>10, <2>1, CountFaultType DEF Retire, copies, WorldOK
  <2>3. QED
    BY <1>10, <2>2 DEF Retire, ThreadOK, GoInv
<1>11. QED
  BY <1>4, <1>5, <1>6, <1>7, <1>8, <1>9, <1>10, Goroutine(c) DEF Goroutine

\* An edit keeps the incarnation, the finalizer and the deletion.
LEMMA EditType ==
    ASSUME TypeInv, UserEdits
    PROVE  /\ app \in AppSets /\ app' \in AppSets
           /\ app'.uid = app.uid
           /\ app'.fin = app.fin
           /\ app'.del = app.del
<1>1. app \in AppSets
  BY DEF UserEdits, TypeInv, TypeOK, WorldOK
<1>2. PICK s \in UserSpecs, g \in {app.gen, app.gen + 1} :
         app' = [app EXCEPT !.topo = s.topo, !.replicas = s.replicas,
                            !.wait = s.wait, !.gen = g]
  BY <1>1 DEF UserEdits, AppSets
<1>3. g \in Nat \ {0}
  BY <1>1 DEF AppSets
<1>4. s.topo \in Topologies /\ s.replicas \in Nat /\ s.wait \in BOOLEAN
  BY MasterAssumption
<1>5. QED
  BY <1>1, <1>2, <1>3, <1>4 DEF AppSets

\* A delete removes an AppSet without the finalizer, and marks one with it.
LEMMA DeleteType ==
    ASSUME TypeInv, UserDeletes
    PROVE  /\ app \in AppSets
           /\ \/ app' = NoApp /\ ~app.fin
              \/ /\ app' \in AppSets
                 /\ app'.uid = app.uid
                 /\ app'.fin = app.fin
                 /\ app'.del = TRUE
<1>1. app \in AppSets
  BY DEF UserDeletes, TypeInv, TypeOK, WorldOK
<1>2. app.gen + 1 \in Nat \ {0}
  BY <1>1 DEF AppSets
<1>3. CASE app.fin
  <2>1. app' = [app EXCEPT !.del = TRUE, !.gen = app.gen + 1]
    BY <1>3 DEF UserDeletes
  <2>2. QED
    BY <1>1, <1>2, <2>1 DEF AppSets
<1>4. CASE ~app.fin
  BY <1>1, <1>4 DEF UserDeletes
<1>5. QED
  BY <1>3, <1>4

\* Users, informers, clusters and crashes.
LEMMA TypeEnvironment ==
    ASSUME TypeInv, Environment
    PROVE  TypeInv'
<1> USE DEF TypeInv, TypeOK
<1>1. CASE Users
  <2>1. app' \in AppSets \cup {NoApp}
    <3>1. \A s \in UserSpecs : /\ s.topo \in Topologies
                               /\ s.replicas \in Nat
                               /\ s.wait \in BOOLEAN
      BY MasterAssumption
    <3>2. CASE UserCreates
      <4>1. PICK s \in UserSpecs :
               app' = [uid |-> edits + 1, gen |-> 1, topo |-> s.topo,
                       replicas |-> s.replicas, wait |-> s.wait,
                       fin |-> FALSE, del |-> FALSE, status |-> NoStatus]
        BY <3>2 DEF UserCreates
      <4>2. edits + 1 \in Nat
        BY DEF WorldOK
      <4>3. QED
        BY <3>1, <4>1, <4>2, NoStatusType DEF AppSets
    <3>3. CASE UserEdits
      BY <3>3, EditType
    <3>4. CASE UserDeletes
      BY <3>4, DeleteType
    <3>5. QED
      BY <1>1, <3>2, <3>3, <3>4 DEF Users
  <2>2. edits' \in Nat
    <3>1. Edit
      BY <1>1 DEF Users, UserCreates, UserEdits, UserDeletes
    <3>2. QED
      BY <3>1 DEF Edit, WorldOK
  <2>3. Unattended
    BY <1>1 DEF Users, UserCreates, UserEdits, UserDeletes
  <2>4. QED
    BY <2>1, <2>2, <2>3
    DEF Unattended, copies, thread, WorldOK, ThreadOK, GoInv
<1>2. CASE SyncApp
  <2>1. queued' \in BOOLEAN
    BY <1>2 DEF SyncApp
  <2>2. troubles' \in Nat
    BY <1>2 DEF SyncApp, Trouble, WorldOK
  <2>3. QED
    BY <1>2, <2>1, <2>2
    DEF SyncApp, world, thread, WorldOK, ThreadOK, GoInv
<1>3. CASE Resync
  BY <1>3 DEF Resync, world, copies, thread, bounds, WorldOK, ThreadOK, GoInv
<1>4. CASE Crash
  <2>1. queued' \in BOOLEAN
    BY <1>4 DEF Crash
  <2>2. WorldOK'
    BY <1>4 DEF Crash, Trouble, world, WorldOK
  <2>3. QED
    BY <1>4, <2>1, <2>2, StepContexts, NoStatusType, EmptyListType, IdleType
    DEF Crash, Reset, ThreadOK, GoInv, Pcs
<1>5. ASSUME NEW c \in Clusters,
             SyncAdv(c) \/ Disconnect(c) \/ Reconnect(c) \/ Report(c)
      PROVE  TypeInv'
  <2>1. CASE SyncAdv(c)
    BY <2>1 DEF SyncAdv, world, thread, bounds, WorldOK, ThreadOK, GoInv
  <2>2. CASE Disconnect(c)
    BY <2>2 DEF Disconnect, Trouble, copies, thread, WorldOK, ThreadOK, GoInv
  <2>3. CASE Reconnect(c)
    <3>1. queued' \in BOOLEAN
      BY <2>3 DEF Reconnect, ThreadOK
    <3>2. QED
      BY <2>3, <3>1 DEF Reconnect, thread, bounds, WorldOK, ThreadOK, GoInv
  <2>4. CASE Report(c)
    <3>1. PICK p \in {"Installing", "Running"}, lag \in {0, 1}, pods \in Nat :
             adv' = [adv EXCEPT ![c] = [@ EXCEPT !.phase = p,
                                                 !.obs = adv[c].gen - lag,
                                                 !.available = pods]]
      BY <2>4, MasterAssumption DEF Report
    <3>2. adv[c] \in AdvDeployments
      BY <2>4 DEF Report, WorldOK
    <3>3. [adv[c] EXCEPT !.phase = p, !.obs = adv[c].gen - lag, !.available = pods]
             \in AdvDeployments
      <4>1. adv[c].gen \in Nat /\ adv[c].gen - lag \in Nat
        BY <3>2 DEF AdvDeployments
      <4>2. QED
        BY <3>2, <4>1 DEF AdvDeployments, Phases
    <3>4. adv' \in [Clusters -> AdvDeployments \cup {NoAdv}]
      BY <3>1, <3>3 DEF WorldOK
    <3>5. troubles' \in Nat
      <4>1. Trouble \/ UNCHANGED troubles
        BY <2>4, Zenon DEF Report
      <4>2. QED
        BY <4>1 DEF Trouble, WorldOK
    <3>6. UNCHANGED <<app, conn, copies, queued, thread, edits>>
      BY <2>4 DEF Report
    <3>7. QED
      BY <3>4, <3>5, <3>6 DEF copies, thread, WorldOK, ThreadOK, GoInv
  <2>5. QED
    BY <1>5, <2>1, <2>2, <2>3, <2>4
<1>6. QED
  BY <1>1, <1>2, <1>3, <1>4, <1>5 DEF Environment

\* Every step of the reconcile thread, of its goroutines and of the
\* environment keeps the types.
THEOREM TypeNext == TypeInv /\ [Next]_vars => TypeInv'
<1>1. ASSUME TypeInv, UNCHANGED vars PROVE TypeInv'
  BY <1>1 DEF vars, TypeInv, TypeOK, WorldOK, ThreadOK, GoInv
<1>2. QED
  BY <1>1, TypeThread, TypeGoroutine, TypeEnvironment DEF Next, Master

\* Every variable stays in its range and the thread has an AppSet exactly in
\* the steps that use one: no step of the pipeline meets a nil AppSet.
THEOREM TypeCorrect == Safety => []TypeOK
<1>1. TypeInv => TypeOK
  BY DEF TypeInv
<1>2. QED
  BY <1>1, TypeInit, TypeNext, PTL DEF Safety

-----------------------------------------------------------------------------
\* The copies of the AppSet

\* A step that leaves the AppSets alone, or drops the thread's, and does not
\* begin a sweep or an apply.
LEMMA AppFrame ==
    ASSUME TypeInv, AppInv, UNCHANGED <<app, cache, edits>>,
           \/ UNCHANGED <<loc, pc>>
           \/ loc' = NoApp /\ pc' = "idle"
           \/ loc' = loc /\ pc' \notin {"sweep", "removeFinalizer", "apply"}
           \/ loc' = loc /\ pc = "sweep" /\ pc' = "removeFinalizer"
    PROVE  AppInv'
BY DEF AppInv, CopiesInv, Protected, DelOrder, UidInv, StepInv

\* A step that replaces the stored AppSet by one of the same incarnation with
\* no less of finalizer and deletion.
LEMMA AppGrows ==
    ASSUME TypeInv, AppInv, app # NoApp, app' # NoApp, app'.uid = app.uid,
           app.fin => app'.fin, app.del => app'.del, edits' \in Nat,
           edits <= edits', UNCHANGED cache,
           \/ UNCHANGED <<loc, pc>>
           \/ /\ \/ loc' \in {NoApp, loc, cache}
                 \/ loc' = app' /\ app = loc /\ app'.del = app.del
              /\ pc' \notin {"sweep", "removeFinalizer", "apply"}
    PROVE  AppInv'
<1>1. \A a \in {app, cache, loc} : a # NoApp => a.uid \in Nat
  BY DEF TypeInv, TypeOK, WorldOK, ThreadOK, AppSets
<1>2. edits \in Nat
  BY DEF TypeInv, TypeOK, WorldOK
<1>3. UidInv'
  <2>1. \A a \in {app, cache, loc} : a # NoApp => a.uid <= edits'
    BY <1>1, <1>2 DEF AppInv, UidInv
  <2>2. QED
    BY <2>1 DEF UidInv
<1>4. CopiesInv'
  BY DEF AppInv, CopiesInv, Protected, DelOrder
<1>5. StepInv'
  BY DEF AppInv, StepInv
<1>6. QED
  BY <1>3, <1>4, <1>5 DEF AppInv

\* The facts about the AppSet and its copies hold before the first event.
THEOREM AppInit == Init => AppInv
BY DEF Init, AppInv, CopiesInv, Protected, DelOrder, UidInv, StepInv

\* A step of the reconcile thread keeps the facts about the AppSet and the
\* copies the informer and the reconcile hold of it.
LEMMA AppThread ==
    ASSUME TypeInv, AppInv,
           \/ Dequeue \/ GetAppSet \/ EndSweep \/ RemoveFinalizer
           \/ AddFinalizer \/ EndApply \/ DecideStatus \/ WriteStatus
           \/ DecideUnuse \/ EndSurvey \/ EndRetire
    PROVE  AppInv'
<1>1. CASE Dequeue
  BY <1>1, AppFrame
  DEF Dequeue, world, copies, bounds, TypeInv, TypeOK, ThreadOK
<1>2. CASE GetAppSet
  <2>1. UNCHANGED <<app, cache, edits>>
    BY <1>2 DEF GetAppSet, world, copies
  <2>2. ASSUME NEW err \in BOOLEAN, Finish(ctx, err) PROVE AppInv'
    BY <2>1, <2>2, AppFrame DEF Finish, Reset
  <2>3. ASSUME Begin(cache) PROVE AppInv'
    BY <2>1, <2>3
    DEF Begin, AppInv, CopiesInv, Protected, DelOrder, UidInv, StepInv
  <2>4. QED
    BY <1>2, <2>2, <2>3 DEF GetAppSet
<1>3. CASE EndSweep
  BY <1>3, AppFrame DEF EndSweep, Finish, Reset, world, copies, bounds
<1>4. CASE RemoveFinalizer
  <2>1. /\ app' = app \/ (app = loc /\ app' = NoApp)
        /\ loc' = NoApp /\ pc' = "idle"
        /\ UNCHANGED <<cache, edits>>
        /\ pc = "removeFinalizer" /\ loc # NoApp
    BY <1>4
    DEF RemoveFinalizer, Finish, Reset, copies, TypeInv, TypeOK, ThreadOK
  <2>2. CASE app' = app
    BY <2>1, <2>2, AppFrame
  <2>3. CASE app = loc /\ app' = NoApp
    <3>1. cache # NoApp /\ cache.uid = loc.uid => cache.del
      BY <2>1 DEF AppInv, CopiesInv, StepInv, DelOrder
    <3>2. Protected(cache)'
      BY <2>1, <2>3, <3>1 DEF AppInv, CopiesInv, Protected
    <3>3. QED
      BY <2>1, <2>3, <3>2 DEF AppInv, CopiesInv, DelOrder, UidInv, StepInv
  <2>4. QED
    BY <2>1, <2>2, <2>3
<1>5. CASE AddFinalizer
  <2>1. /\ \/ app' = app
           \/ app = loc /\ app' = [loc EXCEPT !.fin = TRUE]
        /\ loc' = NoApp /\ pc' = "idle"
        /\ UNCHANGED <<cache, edits>>
        /\ loc \in AppSets /\ edits \in Nat
    BY <1>5
    DEF AddFinalizer, Finish, Reset, copies, TypeInv, TypeOK, ThreadOK,
        WorldOK
  <2>2. CASE app' = app
    BY <2>1, <2>2, AppFrame
  <2>3. CASE app = loc /\ app' = [loc EXCEPT !.fin = TRUE]
    <3>1. /\ app'.uid = app.uid /\ app' \in AppSets
          /\ (app.fin => app'.fin) /\ (app.del => app'.del)
      BY <2>1, <2>3 DEF AppSets
    <3>2. app # NoApp /\ app' # NoApp
      BY <2>1, <2>3, <3>1, MasterAssumption
    <3>3. edits' \in Nat /\ edits <= edits'
      BY <2>1
    <3>4. QED
      BY <2>1, <3>1, <3>2, <3>3, AppGrows
  <2>4. QED
    BY <2>1, <2>2, <2>3
<1>6. CASE EndApply
  BY <1>6, AppFrame DEF EndApply, Finish, Reset, world, copies, bounds
<1>7. CASE DecideStatus
  BY <1>7, AppFrame DEF DecideStatus, Continue, world, copies, bounds
<1>8. CASE WriteStatus
  <2>1. /\ \/ app' = app
           \/ app = loc /\ app' = [loc EXCEPT !.status = status]
        /\ UNCHANGED <<cache, edits>>
        /\ loc \in AppSets /\ edits \in Nat /\ status \in Statuses
    BY <1>8
    DEF WriteStatus, copies, TypeInv, TypeOK, ThreadOK, WorldOK
  <2>2. /\ \/ loc' \in {NoApp, cache}
           \/ loc' = app' /\ app = loc
        /\ pc' \in {"idle", "unuse", "writeStatus"}
    BY <1>8, Zenon DEF WriteStatus, Finish, Reset, Continue
  <2>3. [loc EXCEPT !.status = status] \in AppSets
    BY <2>1 DEF AppSets
  <2>4. CASE app = loc
    <3>1. /\ app'.uid = app.uid /\ app'.fin = app.fin /\ app'.del = app.del
          /\ app' \in AppSets
      BY <2>1, <2>3, <2>4 DEF AppSets
    <3>2. QED
      BY <2>1, <2>2, <2>4, <3>1, AppGrows, MasterAssumption
  <2>5. CASE app # loc
    <3>1. UNCHANGED <<app, cache, edits>> /\ loc' \in {NoApp, cache}
      BY <2>1, <2>2, <2>5
    <3>2. QED
      BY <2>2, <3>1
      DEF AppInv, CopiesInv, Protected, DelOrder, UidInv, StepInv
  <2>6. QED
    BY <2>4, <2>5
<1>9. CASE DecideUnuse
  BY <1>9, AppFrame DEF DecideUnuse, Finish, Reset, world, copies, bounds
<1>10. CASE EndSurvey
  BY <1>10, AppFrame DEF EndSurvey, Continue, world, copies, bounds
<1>11. CASE EndRetire
  BY <1>11, AppFrame DEF EndRetire, Finish, Reset, world, copies, bounds
<1>12. QED
  BY <1>1, <1>2, <1>3, <1>4, <1>5, <1>6, <1>7, <1>8, <1>9, <1>10, <1>11

\* So do the user's edits and deletions, the informers and a crash, which may
\* come between any two steps of the reconcile.
LEMMA AppEnvironment ==
    ASSUME TypeInv, AppInv, Environment
    PROVE  AppInv'
<1> USE DEF TypeInv, TypeOK
<1>1. CASE UserCreates
  <2>1. PICK s \in UserSpecs :
           app' = [uid |-> edits + 1, gen |-> 1, topo |-> s.topo,
                   replicas |-> s.replicas, wait |-> s.wait,
                   fin |-> FALSE, del |-> FALSE, status |-> NoStatus]
    BY <1>1 DEF UserCreates
  <2>2. app = NoApp /\ edits' = edits + 1 /\ UNCHANGED <<cache, loc, pc>>
    BY <1>1 DEF UserCreates, Edit, Unattended, copies, thread
  <2>3. \A a \in {app, cache, loc} : a # NoApp => a.uid \in Nat
    BY DEF WorldOK, ThreadOK, AppSets
  <2>4. app'.uid = edits + 1 /\ edits \in Nat
    BY <2>1 DEF WorldOK
  <2>5. \A a \in {cache, loc} :
          a # NoApp => a.uid <= edits /\ a.uid \in Nat
    BY <2>3 DEF AppInv, UidInv
  <2>6. UidInv'
    BY <2>2, <2>4, <2>5 DEF UidInv
  <2>7. \A a \in {cache, loc} : a # NoApp => a.uid # app'.uid
    BY <2>4, <2>5
  <2>8. CopiesInv'
    BY <2>2, <2>7 DEF AppInv, CopiesInv, Protected, DelOrder
  <2>9. QED
    BY <2>2, <2>6, <2>8 DEF AppInv, StepInv
<1>2. CASE UserEdits \/ UserDeletes
  <2>1. /\ edits \in Nat /\ edits' \in Nat /\ edits <= edits'
        /\ UNCHANGED <<cache, loc, pc>>
    <3>1. Edit /\ Unattended
      BY <1>2, Zenon DEF UserEdits, UserDeletes
    <3>2. QED
      BY <3>1 DEF Edit, Unattended, copies, thread, WorldOK
  <2>2. CASE app' = NoApp /\ ~app.fin
    <3>1. CopiesInv'
      BY <2>1, <2>2 DEF AppInv, CopiesInv, Protected, DelOrder
    <3>2. \A a \in {cache, loc} : a # NoApp => a.uid \in Nat /\ a.uid <= edits
      BY DEF WorldOK, ThreadOK, AppSets, AppInv, UidInv
    <3>3. UidInv'
      BY <2>1, <2>2, <3>2 DEF UidInv
    <3>4. QED
      BY <2>1, <3>1, <3>3 DEF AppInv, StepInv
  <2>3. CASE /\ app \in AppSets /\ app' \in AppSets
             /\ app'.uid = app.uid /\ app'.fin = app.fin
             /\ app'.del = app.del \/ app'.del = TRUE
    <3>1. app # NoApp /\ app' # NoApp
      BY <2>3, MasterAssumption
    <3>2. (app.fin => app'.fin) /\ (app.del => app'.del)
      BY <2>3
    <3>3. QED
      BY <2>1, <2>3, <3>1, <3>2, AppGrows
  <2>4. QED
    BY <1>2, <2>2, <2>3, EditType, DeleteType
<1>3. CASE SyncApp
  BY <1>3
  DEF SyncApp, world, thread, bounds, AppInv, CopiesInv, Protected, DelOrder,
      UidInv, StepInv
<1>4. CASE Crash
  BY <1>4
  DEF Crash, Reset, world, AppInv, CopiesInv, Protected, DelOrder, UidInv,
      StepInv
<1>5. CASE Resync
  BY <1>5, AppFrame DEF Resync, world, copies, thread, bounds
<1>6. ASSUME NEW c \in Clusters,
             SyncAdv(c) \/ Disconnect(c) \/ Reconnect(c) \/ Report(c)
      PROVE  AppInv'
  <2>1. UNCHANGED <<app, cache, loc, pc, edits>>
    BY <1>6, Zenon
    DEF SyncAdv, Disconnect, Reconnect, Report, world, copies, thread, bounds
  <2>2. QED
    BY <2>1, AppFrame
<1>7. QED
  BY <1>1, <1>2, <1>3, <1>4, <1>5, <1>6 DEF Environment, Users

\* Hence every step keeps the facts about the AppSet and its copies.
THEOREM AppNext == TypeInv /\ AppInv /\ [Next]_vars => AppInv'
<1>1. ASSUME TypeInv, AppInv, NEW c \in Clusters, Goroutine(c) PROVE AppInv'
  <2>1. UNCHANGED <<app, cache, loc, pc, edits>>
    BY <1>1, Zenon
    DEF Goroutine, SweepCluster, ApplyRead, ApplyCreate, ApplyUpdate,
        ReadStatus, Survey, Retire, world, copies, bounds
  <2>2. QED
    BY <1>1, <2>1, AppFrame
<1>2. ASSUME TypeInv, AppInv, UNCHANGED vars PROVE AppInv'
  BY <1>2, AppFrame DEF vars
<1>3. QED
  BY <1>1, <1>2, AppThread, AppEnvironment DEF Next, Master

-----------------------------------------------------------------------------
\* The sweep

\* No sweep of the clusters is under way at the start.
THEOREM SweepInit == Init => SweepInv
BY DEF Init, SweepInv

\* Every step keeps what the finalizer sweep found: what it saw absent stays
\* absent, and what it deleted holds the finalizer back.
THEOREM SweepNext == TypeInv /\ SweepInv /\ [Next]_vars => SweepInv'
<1> SUFFICES ASSUME TypeInv, SweepInv, [Next]_vars PROVE SweepInv'
  OBVIOUS
<1>1. CASE GetAppSet
  <2>1. ASSUME NEW err, Finish(ctx, err) PROVE SweepInv'
    BY <2>1 DEF Finish, SweepInv
  <2>2. ASSUME Begin(cache) PROVE SweepInv'
    BY <2>2 DEF Begin, FanOut, SweepInv
  <2>3. QED
    BY <1>1, <2>1, <2>2 DEF GetAppSet
<1>2. CASE EndSweep
  <2>1. ASSUME Finish(ctx, FALSE) PROVE SweepInv'
    BY <2>1 DEF Finish, SweepInv
  <2>2. QED
    BY <1>2, <2>1 DEF EndSweep, world, SweepInv
<1>3. CASE Dequeue \/ RemoveFinalizer \/ AddFinalizer \/ EndApply
             \/ DecideStatus \/ WriteStatus \/ DecideUnuse \/ EndSurvey
             \/ EndRetire \/ Crash
  <2>1. pc' \notin Sweeping
    BY <1>3, Zenon
    DEF Dequeue, RemoveFinalizer, AddFinalizer, EndApply, DecideStatus,
        WriteStatus, DecideUnuse, EndSurvey, EndRetire, Crash, Finish, Continue,
        Sweeping
  <2>2. QED
    BY <2>1 DEF SweepInv, Sweeping
<1>4. ASSUME NEW c \in Clusters, SweepCluster(c) PROVE SweepInv'
  <2>1. /\ go \in [Clusters -> GoPcs]
        /\ adv \in [Clusters -> AdvDeployments \cup {NoAdv}]
    BY DEF TypeInv, TypeOK, WorldOK, ThreadOK
  <2>2. PICK r \in Replies :
           LET reached  == c \in conn /\ TakesEffect(r)
               answered == c \in conn /\ r = "ok"
           IN /\ adv' = IF reached THEN [adv EXCEPT ![c] = NoAdv] ELSE adv
              /\ changed' = (changed \/ (answered /\ adv[c] # NoAdv))
              /\ go' = [go EXCEPT ![c] = CASE ~answered -> "failed"
                                           [] answered /\ adv[c] = NoAdv -> "absent"
                                           [] OTHER -> "deleted"]
    BY <1>4 DEF SweepCluster
  <2>3. pc = "sweep" /\ pc' = "sweep"
    BY <1>4 DEF SweepCluster
  <2>4. \A d \in Clusters : adv[d] = NoAdv => adv'[d] = NoAdv
    BY <2>1, <2>2
  <2>5. changed => changed'
    BY <2>2
  <2>6. \A d \in Clusters \ {c} : go'[d] = go[d]
    BY <2>1, <2>2
  <2>7. /\ go'[c] = "absent" => adv'[c] = NoAdv
        /\ go'[c] = "deleted" => changed'
    BY <2>1, <2>2
  <2>8. QED
    BY <2>3, <2>4, <2>5, <2>6, <2>7 DEF SweepInv
<1>5. ASSUME NEW c \in Clusters,
             ApplyRead(c) \/ ApplyCreate(c) \/ ApplyUpdate(c)
               \/ ReadStatus(c) \/ Survey(c) \/ Retire(c)
      PROVE  SweepInv'
  <2>1. pc' \notin Sweeping
    BY <1>5
    DEF ApplyRead, ApplyCreate, ApplyUpdate, ReadStatus, Survey, Retire,
        Sweeping
  <2>2. QED
    BY <2>1 DEF SweepInv, Sweeping
<1>6. ASSUME NEW c \in Clusters, Report(c) PROVE SweepInv'
  <2>1. UNCHANGED <<pc, go, changed>> /\ adv[c] # NoAdv
    BY <1>6, Zenon DEF Report, thread
  <2>2. \A d \in Clusters : adv[d] = NoAdv => adv'[d] = NoAdv
    <3>1. PICK a : adv' = [adv EXCEPT ![c] = a]
      BY <1>6, Zenon DEF Report
    <3>2. QED
      BY <2>1, <3>1 DEF TypeInv, TypeOK, WorldOK
  <2>3. QED
    BY <2>1, <2>2 DEF SweepInv
<1>7. CASE Users \/ SyncApp \/ Resync \/ UNCHANGED vars
             \/ \E c \in Clusters :
                   SyncAdv(c) \/ Disconnect(c) \/ Reconnect(c)
  <2>1. UNCHANGED <<pc, go, changed, adv>>
    BY <1>7, Zenon
    DEF Users, UserCreates, UserEdits, UserDeletes, Unattended, SyncApp,
        Resync, SyncAdv, Disconnect, Reconnect, world, thread, vars
  <2>2. QED
    BY <2>1 DEF SweepInv, Sweeping
<1>8. QED
  BY <1>1, <1>2, <1>3, <1>4, <1>5, <1>6, <1>7
  DEF Next, Master, Environment, Goroutine

-----------------------------------------------------------------------------
\* Whom the thread works for

\* At the start there is no AppSet, and the thread is idle.
THEOREM HoldInit == Init => HoldInv /\ PlaceInv /\ CalmInv
BY DEF Init, HoldInv, SyncedInv, Held, SweptInv, PlaceInv, CalmInv, Working,
       Sweeping

\* A step that leaves the stored AppSet and the informer's copy alone, and
\* does not begin to work or to sweep.
LEMMA HoldFrame ==
    ASSUME HoldInv, UNCHANGED <<app, cache>>,
           \/ loc' = NoApp /\ pc' = "idle"
           \/ /\ loc' = loc
              /\ pc' \in Working => pc \in Working
              /\ pc' \in Sweeping => pc \in Sweeping
    PROVE  HoldInv'
BY DEF HoldInv, SyncedInv, Held, SweptInv, Working, Sweeping

\* A step that leaves the copies alone and keeps, of the stored AppSet, the
\* incarnation and the finalizer, if it keeps it at all.
LEMMA HoldSame ==
    ASSUME HoldInv, UNCHANGED <<cache, loc, pc>>,
           \/ app # NoApp /\ ~app.fin /\ app' = NoApp
           \/ /\ app # NoApp /\ app' # NoApp
              /\ app'.uid = app.uid /\ app'.fin = app.fin
    PROVE  HoldInv'
BY DEF HoldInv, SyncedInv, Held, SweptInv, Working, Sweeping

\* The thread begins to work for an AppSet that is there and protected, and
\* to sweep for one that is going, or when none is there that is protected.
LEMMA HoldThread ==
    ASSUME TypeInv, AppInv, HoldInv,
           \/ Dequeue \/ GetAppSet \/ EndSweep \/ RemoveFinalizer
           \/ AddFinalizer \/ EndApply \/ DecideStatus \/ WriteStatus
           \/ DecideUnuse \/ EndSurvey \/ EndRetire
    PROVE  HoldInv'
<1>1. CASE Dequeue \/ EndSweep \/ EndApply \/ DecideStatus \/ DecideUnuse
             \/ EndSurvey \/ EndRetire
  <2>1. UNCHANGED <<app, cache>>
    BY <1>1, Zenon
    DEF Dequeue, EndSweep, EndApply, DecideStatus, DecideUnuse, EndSurvey,
        EndRetire, world, copies
  <2>2. \/ loc' = NoApp /\ pc' = "idle"
        \/ /\ loc' = loc
           /\ pc' \in Working => pc \in Working
           /\ pc' \in Sweeping => pc \in Sweeping
    BY <1>1
    DEF Dequeue, EndSweep, EndApply, DecideStatus, DecideUnuse, EndSurvey,
        EndRetire, Finish, Reset, Continue, Working, Sweeping
  <2>3. QED
    BY <2>1, <2>2, HoldFrame
<1>2. CASE GetAppSet
  <2>1. UNCHANGED <<app, cache>>
    BY <1>2 DEF GetAppSet, world, copies
  <2>2. ASSUME NEW err, Finish(ctx, err) PROVE HoldInv'
    BY <2>1, <2>2, HoldFrame DEF Finish, Reset
  <2>3. ASSUME Begin(cache) PROVE HoldInv'
    BY <2>1, <2>3
    DEF Begin, AppInv, CopiesInv, Protected, HoldInv, SyncedInv, Held,
        SweptInv, Working, Sweeping
  <2>4. QED
    BY <1>2, <2>2, <2>3 DEF GetAppSet
<1>3. CASE RemoveFinalizer
  BY <1>3
  DEF RemoveFinalizer, Finish, Reset, copies, HoldInv, SyncedInv, Held,
      SweptInv, Working, Sweeping
<1>4. CASE AddFinalizer
  <2>1. /\ \/ app' = app
           \/ app = loc /\ app' = [loc EXCEPT !.fin = TRUE]
        /\ loc' = NoApp /\ pc' = "idle"
        /\ UNCHANGED cache
        /\ loc \in AppSets /\ loc # NoApp
    BY <1>4
    DEF AddFinalizer, Finish, Reset, copies, TypeInv, TypeOK, ThreadOK
  <2>2. CASE app' = app
    BY <2>1, <2>2, HoldFrame
  <2>3. CASE app = loc /\ app' = [loc EXCEPT !.fin = TRUE]
    <3>1. app'.uid = loc.uid
      BY <2>1, <2>3 DEF AppSets
    <3>2. QED
      BY <2>1, <2>3, <3>1
      DEF HoldInv, SyncedInv, Held, SweptInv, Working, Sweeping
  <2>4. QED
    BY <2>1, <2>2, <2>3
<1>5. CASE WriteStatus
  <2>1. /\ \/ app' = app
           \/ app = loc /\ app' = [loc EXCEPT !.status = status]
        /\ UNCHANGED cache
        /\ loc \in AppSets /\ loc # NoApp /\ pc = "writeStatus"
    BY <1>5 DEF WriteStatus, copies, TypeInv, TypeOK, ThreadOK
  <2>2. \/ loc' = NoApp /\ pc' = "idle"
        \/ cache # NoApp /\ loc' = cache /\ pc' = "unuse"
        \/ cache # NoApp /\ loc' = cache /\ pc' = pc
        \/ app = loc /\ loc' = app' /\ pc' = "unuse"
    BY <1>5, Zenon DEF WriteStatus, Finish, Reset, Continue
  <2>3. app # NoApp /\ app.fin /\ app.uid = loc.uid /\ cache.uid = app.uid
    BY <2>1 DEF HoldInv, Held, SyncedInv, Working
  <2>4. app'.uid = app.uid /\ app'.fin = app.fin
    BY <2>1 DEF AppSets
  <2>5. app' # NoApp
    <3>1. [loc EXCEPT !.status = status] \in AppSets
      BY <2>1 DEF TypeInv, TypeOK, ThreadOK, AppSets
    <3>2. QED
      BY <2>1, <2>3, <3>1, MasterAssumption
  <2>6. QED
    BY <2>1, <2>2, <2>3, <2>4, <2>5
    DEF HoldInv, SyncedInv, Held, SweptInv, Working, Sweeping
<1>6. QED
  BY <1>1, <1>2, <1>3, <1>4, <1>5

\* A user who deletes and creates an AppSet again makes another incarnation
\* of it, without the finalizer, which no copy is of.
LEMMA HoldEnvironment ==
    ASSUME TypeInv, AppInv, HoldInv, Environment
    PROVE  HoldInv'
<1>1. CASE Users
  <2>1. UNCHANGED <<cache, loc, pc>>
    <3>1. Unattended
      BY <1>1, Zenon DEF Users, UserCreates, UserEdits, UserDeletes
    <3>2. QED
      BY <3>1 DEF Unattended, copies, thread
  <2>2. CASE UserCreates
    <3>1. PICK s \in UserSpecs :
             app' = [uid |-> edits + 1, gen |-> 1, topo |-> s.topo,
                     replicas |-> s.replicas, wait |-> s.wait,
                     fin |-> FALSE, del |-> FALSE, status |-> NoStatus]
      BY <2>2 DEF UserCreates
    <3>2. app = NoApp /\ app'.uid = edits + 1 /\ ~app'.fin
      BY <2>2, <3>1 DEF UserCreates
    <3>3. loc # NoApp => loc.uid # app'.uid
      <4>1. edits \in Nat /\ (loc # NoApp => loc.uid \in Nat /\ loc.uid <= edits)
        BY DEF TypeInv, TypeOK, WorldOK, ThreadOK, AppSets, AppInv, UidInv
      <4>2. QED
        BY <3>2, <4>1
    <3>4. QED
      BY <2>1, <3>2, <3>3
      DEF HoldInv, SyncedInv, Held, SweptInv, Working, Sweeping
  <2>3. CASE UserEdits \/ UserDeletes
    <3>1. \/ app' = NoApp /\ ~app.fin
          \/ /\ app \in AppSets /\ app' \in AppSets
             /\ app'.uid = app.uid /\ app'.fin = app.fin
      BY <2>3, EditType, DeleteType
    <3>2. app # NoApp
      BY <2>3 DEF UserEdits, UserDeletes
    <3>3. QED
      BY <2>1, <3>1, <3>2, HoldSame, MasterAssumption
  <2>4. QED
    BY <1>1, <2>2, <2>3 DEF Users
<1>2. CASE SyncApp
  BY <1>2
  DEF SyncApp, world, thread, HoldInv, SyncedInv, Held, SweptInv, Working,
      Sweeping
<1>3. CASE Crash
  BY <1>3
  DEF Crash, Reset, world, HoldInv, SyncedInv, Held, SweptInv, Working,
      Sweeping
<1>4. CASE Resync
  BY <1>4, HoldFrame DEF Resync, world, copies, thread
<1>5. ASSUME NEW c \in Clusters,
             SyncAdv(c) \/ Disconnect(c) \/ Reconnect(c) \/ Report(c)
      PROVE  HoldInv'
  <2>1. UNCHANGED <<app, cache, loc, pc>>
    BY <1>5, Zenon
    DEF SyncAdv, Disconnect, Reconnect, Report, world, copies, thread
  <2>2. QED
    BY <2>1, HoldFrame
<1>6. QED
  BY <1>1, <1>2, <1>3, <1>4, <1>5 DEF Environment

\* Every step keeps what is known of the AppSet the thread works for.
THEOREM HoldNext == TypeInv /\ AppInv /\ HoldInv /\ [Next]_vars => HoldInv'
<1>1. ASSUME HoldInv, NEW c \in Clusters, Goroutine(c) PROVE HoldInv'
  <2>1. UNCHANGED <<app, cache, loc, pc>>
    BY <1>1, Zenon
    DEF Goroutine, SweepCluster, ApplyRead, ApplyCreate, ApplyUpdate,
        ReadStatus, Survey, Retire, world, copies
  <2>2. QED
    BY <1>1, <2>1, HoldFrame
<1>2. ASSUME HoldInv, UNCHANGED vars PROVE HoldInv'
  BY <1>2, HoldFrame DEF vars
<1>3. QED
  BY <1>1, <1>2, HoldThread, HoldEnvironment DEF Next, Master

\* Every step keeps what the places of the reconcile take for granted.
THEOREM PlaceNext == TypeInv /\ PlaceInv /\ [Next]_vars => PlaceInv'
<1> SUFFICES ASSUME TypeInv, PlaceInv, [Next]_vars PROVE PlaceInv'
  OBVIOUS
<1> DEFINE Places == {"addFinalizer", "removeFinalizer", "retire"}
<1>1. CASE GetAppSet
  BY <1>1 DEF GetAppSet, Begin, Finish, PlaceInv
<1>2. CASE EndSweep
  BY <1>2 DEF EndSweep, Finish, Joined, PlaceInv
<1>3. CASE EndSurvey
  BY <1>3
  DEF EndSurvey, Continue, PlaceInv, UnexpectClusters, UnexpectClustersSync
<1>4. CASE \/ Dequeue \/ RemoveFinalizer \/ AddFinalizer \/ EndApply
           \/ DecideStatus \/ WriteStatus \/ DecideUnuse \/ EndRetire \/ Crash
           \/ \E c \in Clusters :
                 \/ SweepCluster(c) \/ ApplyRead(c) \/ ApplyCreate(c)
                 \/ ApplyUpdate(c) \/ ReadStatus(c) \/ Survey(c)
  <2>1. pc' \notin Places
    BY <1>4, Zenon
    DEF Dequeue, RemoveFinalizer, AddFinalizer, EndApply, DecideStatus,
        WriteStatus, DecideUnuse, EndRetire, Crash, Finish, Continue,
        SweepCluster, ApplyRead, ApplyCreate, ApplyUpdate, ReadStatus, Survey
  <2>2. QED
    BY <2>1 DEF PlaceInv
<1>5. ASSUME NEW c \in Clusters, Retire(c) PROVE PlaceInv'
  BY <1>5 DEF Retire, PlaceInv
<1>6. CASE Users \/ SyncApp \/ Resync \/ UNCHANGED vars
             \/ \E c \in Clusters :
                   SyncAdv(c) \/ Disconnect(c) \/ Reconnect(c) \/ Report(c)
  <2>1. UNCHANGED <<pc, loc, go, todo>>
    BY <1>6, Zenon
    DEF Users, UserCreates, UserEdits, UserDeletes, Unattended, SyncApp,
        Resync, SyncAdv, Disconnect, Reconnect, Report, thread, vars
  <2>2. QED
    BY <2>1 DEF PlaceInv
<1>7. QED
  BY <1>1, <1>2, <1>3, <1>4, <1>5, <1>6
  DEF Next, Master, Environment, Goroutine

\* A failed call, a cluster that goes down and a crash are troubles; without
\* them a sweep reaches every cluster.
THEOREM CalmNext == TypeInv /\ CalmInv /\ [Next]_vars => CalmInv'
<1> SUFFICES ASSUME TypeInv, CalmInv, [Next]_vars, troubles' = 0 PROVE CalmInv'
  BY DEF CalmInv
<1>1. troubles \in Nat
  BY DEF TypeInv, TypeOK, WorldOK
<1>2. CASE GetAppSet
  <2>1. troubles = 0 /\ UNCHANGED conn
    <3>1. (Trouble \/ UNCHANGED troubles) /\ UNCHANGED world
      BY <1>2, Zenon DEF GetAppSet
    <3>2. QED
      BY <1>1, <3>1 DEF Trouble, world
  <2>2. ASSUME Begin(cache) PROVE CalmInv'
    BY <2>1, <2>2 DEF Begin, FanOut, CalmInv, Sweeping
  <2>3. ASSUME NEW err, Finish(ctx, err) PROVE CalmInv'
    BY <2>1, <2>3 DEF Finish, CalmInv, Sweeping
  <2>4. QED
    BY <1>2, <2>2, <2>3, Zenon DEF GetAppSet
<1>3. CASE EndSweep
  BY <1>3 DEF EndSweep, Finish, world, bounds, CalmInv, Sweeping
<1>4. ASSUME NEW c \in Clusters, SweepCluster(c) PROVE CalmInv'
  <2>1. PICK r \in Replies :
           LET reached  == c \in conn /\ TakesEffect(r)
               answered == c \in conn /\ r = "ok"
           IN /\ go' = [go EXCEPT ![c] = CASE ~answered -> "failed"
                                           [] answered /\ adv[c] = NoAdv -> "absent"
                                           [] OTHER -> "deleted"]
              /\ CountFault(r)
    BY <1>4 DEF SweepCluster
  <2>2. r = "ok" /\ troubles = 0
    BY <1>1, <2>1 DEF CountFault
  <2>3. /\ conn = Clusters /\ UNCHANGED <<conn, pc>> /\ pc \in Sweeping
        /\ go \in [Clusters -> GoPcs]
    BY <1>4, <2>2
    DEF SweepCluster, CalmInv, Sweeping, TypeInv, TypeOK, ThreadOK
  <2>4. go'[c] \in {"absent", "deleted"}
    BY <2>1, <2>2, <2>3
  <2>5. \A d \in Clusters \ {c} : go'[d] = go[d]
    BY <2>1, <2>3
  <2>6. QED
    BY <2>2, <2>3, <2>4, <2>5 DEF CalmInv
<1>5. CASE \/ Dequeue \/ RemoveFinalizer \/ AddFinalizer \/ EndApply
           \/ DecideStatus \/ WriteStatus \/ DecideUnuse \/ EndSurvey
           \/ EndRetire
           \/ \E c \in Clusters :
                 \/ ApplyRead(c) \/ ApplyCreate(c) \/ ApplyUpdate(c)
                 \/ ReadStatus(c) \/ Survey(c) \/ Retire(c)
  <2>1. pc' \notin Sweeping
    BY <1>5, Zenon
    DEF Dequeue, RemoveFinalizer, AddFinalizer, EndApply, DecideStatus,
        WriteStatus, DecideUnuse, EndSurvey, EndRetire, Finish, Continue,
        ApplyRead, ApplyCreate, ApplyUpdate, ReadStatus, Survey, Retire,
        Sweeping
  <2>2. conn' = conn /\ \/ UNCHANGED troubles
                        \/ \E r \in Replies : CountFault(r)
    BY <1>5, Zenon
    DEF Dequeue, RemoveFinalizer, AddFinalizer, EndApply, DecideStatus,
        WriteStatus, DecideUnuse, EndSurvey, EndRetire, ApplyRead,
        ApplyCreate, ApplyUpdate, ReadStatus, Survey, Retire, world, bounds
  <2>3. troubles = 0
    BY <1>1, <2>2 DEF CountFault
  <2>4. QED
    BY <2>1, <2>2, <2>3 DEF CalmInv
<1>6. ASSUME NEW c \in Clusters, Reconnect(c) PROVE CalmInv'
  BY <1>6 DEF Reconnect, thread, bounds, CalmInv
<1>7. CASE Crash \/ \E c \in Clusters : Disconnect(c)
  <2>1. Trouble
    BY <1>7, Zenon DEF Crash, Disconnect
  <2>2. QED
    BY <1>1, <2>1 DEF Trouble
<1>8. CASE Users \/ SyncApp \/ Resync \/ UNCHANGED vars
             \/ \E c \in Clusters : SyncAdv(c) \/ Report(c)
  <2>1. UNCHANGED <<conn, pc, go>> /\ (UNCHANGED troubles \/ Trouble)
    BY <1>8, Zenon
    DEF Users, UserCreates, UserEdits, UserDeletes, Unattended, SyncApp,
        Resync, SyncAdv, Report, world, thread, bounds, vars
  <2>2. troubles = 0
    BY <1>1, <2>1 DEF Trouble
  <2>3. QED
    BY <2>1, <2>2 DEF CalmInv
<1>9. QED
  BY <1>2, <1>3, <1>4, <1>5, <1>6, <1>7, <1>8
  DEF Next, Master, Environment, Goroutine

-----------------------------------------------------------------------------
\* What follows

\* The inductive invariant holds in every reachable state, for any set of
\* clusters and any number of edits and failures.
THEOREM InvariantHolds == Safety => []IInv
<1>1. Init => IInv
  BY TypeInit, AppInit, SweepInit, HoldInit DEF IInv
<1>2. IInv /\ [Next]_vars => IInv'
  BY TypeNext, AppNext, SweepNext, HoldNext, PlaceNext, CalmNext DEF IInv
<1>3. QED
  BY <1>1, <1>2, PTL DEF Safety

\* Only a step that creates makes an AdvDeployment appear.
LEMMA OnlyCreates ==
    ASSUME TypeInv, Next, NEW c \in Clusters, adv[c] = NoAdv,
           adv'[c] # NoAdv
    PROVE  ApplyCreate(c)
<1>1. adv \in [Clusters -> AdvDeployments \cup {NoAdv}]
  BY DEF TypeInv, TypeOK, WorldOK
<1>2. ASSUME NEW d \in Clusters, SweepCluster(d) \/ Retire(d) PROVE FALSE
  <2>1. adv' \in {adv, [adv EXCEPT ![d] = NoAdv]}
    BY <1>2, Zenon DEF SweepCluster, Retire
  <2>2. QED
    BY <1>1, <2>1
<1>3. ASSUME NEW d \in Clusters, Report(d) PROVE FALSE
  <2>1. PICK a : adv' = [adv EXCEPT ![d] = a]
    BY <1>3, Zenon DEF Report
  <2>2. adv[d] # NoAdv
    BY <1>3, Zenon DEF Report
  <2>3. QED
    BY <1>1, <2>1, <2>2
<1>4. ASSUME NEW d \in Clusters, ApplyCreate(d), d # c PROVE FALSE
  <2>1. adv' \in {adv, [adv EXCEPT ![d] = BuildAdvdeployment(loc, d)]}
    BY <1>4, Zenon DEF ApplyCreate
  <2>2. QED
    BY <1>1, <1>4, <2>1
<1>5. ASSUME \/ Dequeue \/ GetAppSet \/ EndSweep \/ RemoveFinalizer
             \/ AddFinalizer \/ EndApply \/ DecideStatus \/ WriteStatus
             \/ DecideUnuse \/ EndSurvey \/ EndRetire
             \/ Users \/ SyncApp \/ Resync \/ Crash
             \/ \E d \in Clusters :
                   \/ ApplyRead(d) \/ ApplyUpdate(d) \/ ReadStatus(d)
                   \/ Survey(d) \/ SyncAdv(d) \/ Disconnect(d)
                   \/ Reconnect(d)
      PROVE  FALSE
  <2>1. UNCHANGED adv
    BY <1>5, Zenon
    DEF Dequeue, GetAppSet, EndSweep, RemoveFinalizer, AddFinalizer, EndApply,
        DecideStatus, WriteStatus, DecideUnuse, EndSurvey, EndRetire, Users,
        UserCreates, UserEdits, UserDeletes, Unattended, SyncApp, Resync,
        Crash, ApplyRead, ApplyUpdate, ReadStatus, Survey, SyncAdv,
        Disconnect, Reconnect, world
  <2>2. QED
    BY <2>1
<1>6. QED
  BY <1>2, <1>3, <1>4, <1>5 DEF Next, Master, Environment, Goroutine

\* An AdvDeployment is created only for the AppSet that was read, while it
\* exists and the finalizer keeps it: whatever is edited, deleted, created
\* again, lost or stale between the read and the create.
THEOREM CreationProtected == Safety => CreateOnlyProtected
<1>1. IInv /\ [Next]_vars =>
        [\A c \in Clusters : adv[c] = NoAdv /\ adv'[c] # NoAdv
           => app # NoApp /\ app.fin /\ app.uid = loc.uid]_vars
  <2> SUFFICES ASSUME IInv, Next, NEW c \in Clusters,
                      adv[c] = NoAdv, adv'[c] # NoAdv
               PROVE  app # NoApp /\ app.fin /\ app.uid = loc.uid
    OBVIOUS
  <2>1. pc = "apply"
    BY OnlyCreates DEF IInv, ApplyCreate
  <2>2. loc # NoApp
    BY <2>1 DEF IInv, TypeInv, TypeOK, ThreadOK
  <2>3. QED
    BY <2>1, <2>2 DEF IInv, AppInv, CopiesInv, StepInv, Protected
<1>2. QED
  BY <1>1, InvariantHolds, PTL DEF Safety, CreateOnlyProtected

\* When the finalizer goes, every cluster that answered the sweep is still
\* clean and none had anything to delete.
THEOREM FinalizerClean == Safety => FinalizedClean
<1>1. IInv /\ [Next]_vars =>
        [pc = "removeFinalizer" /\ app # NoApp /\ app' = NoApp
           => \A c \in Clusters : /\ go[c] # "deleted"
                                  /\ go[c] = "absent" => adv[c] = NoAdv]_vars
  <2> SUFFICES ASSUME IInv, pc = "removeFinalizer", NEW c \in Clusters
               PROVE  /\ go[c] # "deleted"
                      /\ go[c] = "absent" => adv[c] = NoAdv
    OBVIOUS
  <2> QED
    BY DEF IInv, SweepInv
<1>2. QED
  BY <1>1, InvariantHolds, PTL DEF Safety, FinalizedClean

\* What the controller writes to an AppSet keeps everything a user or an
\* earlier run put there, and never brings an AppSet back.
THEOREM NothingOverwritten == Safety => NoLostUpdate
<1>1. IInv /\ [Next]_vars =>
        [pc # "idle" /\ app' # app /\ edits' = edits /\ app' # NoApp
           => /\ app # NoApp
              /\ app'.uid = app.uid /\ app'.gen = app.gen
              /\ app'.topo = app.topo /\ app'.wait = app.wait
              /\ app'.del = app.del
              /\ app.fin => app'.fin]_vars
  <2> SUFFICES ASSUME IInv, Next, app' # app, edits' = edits, app' # NoApp
               PROVE  /\ app # NoApp
                      /\ app'.uid = app.uid /\ app'.gen = app.gen
                      /\ app'.topo = app.topo /\ app'.wait = app.wait
                      /\ app'.del = app.del
                      /\ app.fin => app'.fin
    OBVIOUS
  <2> USE DEF IInv, TypeInv, TypeOK
  <2>1. CASE AddFinalizer
    <3>1. /\ app = loc /\ loc \in AppSets
          /\ app' = [loc EXCEPT !.fin = TRUE]
      BY <2>1 DEF AddFinalizer, ThreadOK
    <3>2. QED
      BY <3>1, MasterAssumption DEF AppSets
  <2>2. CASE WriteStatus
    <3>1. /\ app = loc /\ loc \in AppSets
          /\ app' = [loc EXCEPT !.status = status]
      BY <2>2 DEF WriteStatus, ThreadOK
    <3>2. QED
      BY <3>1, MasterAssumption DEF AppSets
  <2>3. CASE RemoveFinalizer
    BY <2>3 DEF RemoveFinalizer
  <2>4. CASE Users
    <3>1. Edit
      BY <2>4, Zenon DEF Users, UserCreates, UserEdits, UserDeletes
    <3>2. QED
      BY <3>1 DEF Edit, WorldOK
  <2>5. CASE \/ Dequeue \/ GetAppSet \/ EndSweep \/ EndApply
             \/ DecideStatus \/ DecideUnuse \/ EndSurvey \/ EndRetire
             \/ SyncApp \/ Resync \/ Crash
             \/ \E c \in Clusters :
                   \/ Goroutine(c) \/ SyncAdv(c) \/ Disconnect(c)
                   \/ Reconnect(c) \/ Report(c)
    <3>1. UNCHANGED app
      BY <2>5, Zenon
      DEF Dequeue, GetAppSet, EndSweep, EndApply, DecideStatus, DecideUnuse,
          EndSurvey, EndRetire, SyncApp, Resync, Crash, Goroutine,
          SweepCluster, ApplyRead, ApplyCreate, ApplyUpdate, ReadStatus,
          Survey, Retire, SyncAdv, Disconnect, Reconnect, Report, world
    <3>2. QED
      BY <3>1
  <2>6. QED
    BY <2>1, <2>2, <2>3, <2>4, <2>5 DEF Next, Master, Environment
<1>2. QED
  BY <1>1, InvariantHolds, PTL DEF Safety, NoLostUpdate

-----------------------------------------------------------------------------
\* The refinement

\* What of an AppSet users and clusters rely on is what its record says.
LEMMA BareType ==
    /\ Bare(NoApp) = NoApp
    /\ \A a \in AppSets :
         /\ a # NoApp /\ Bare(a) # NoApp
         /\ Bare(a) = [uid |-> a.uid, topo |-> a.topo, fin |-> a.fin, del |-> a.del]
<1>1. ASSUME NEW a \in AppSets
      PROVE  /\ a # NoApp
             /\ [uid |-> a.uid, topo |-> a.topo, fin |-> a.fin, del |-> a.del]
                  \in BareAppSets
  BY MasterAssumption DEF AppSets, BareAppSets
<1>2. QED
  BY <1>1, MasterAssumption DEF Bare

\* The stored AppSet, and both copies of it, are AppSets or none.
LEMMA AppTypes ==
    ASSUME TypeInv
    PROVE  \A a \in {app, cache, loc} : a \in AppSets \/ a = NoApp
BY DEF TypeInv, TypeOK, WorldOK, ThreadOK

\* The thread takes the informer's copy, or drops its own.
LEMMA Looks ==
    ASSUME UNCHANGED <<app, cache, adv, edits>>, loc' \in {cache, NoApp}
    PROVE  Abs!Look
BY DEF Abs!Look, Bare

\* A step that users and clusters do not see.
LEMMA Unseen ==
    ASSUME UNCHANGED <<app, cache, loc, adv, edits>>
    PROVE  Abs!Trouble
BY DEF Abs!Trouble, Bare

\* What goes wrong has gone wrong for good.
LEMMA CalmEnds ==
    ASSUME TypeInv, [Next]_vars
    PROVE  troubles' = 0 => troubles = 0
<1>1. troubles \in Nat
  BY DEF TypeInv, TypeOK, WorldOK
<1>2. UNCHANGED troubles \/ Trouble \/ \E r \in Replies : CountFault(r)
  BY Zenon
  DEF Next, Master, Environment, Goroutine, vars, bounds, Dequeue, GetAppSet,
      EndSweep, RemoveFinalizer, AddFinalizer, EndApply, DecideStatus,
      WriteStatus, DecideUnuse, EndSurvey, EndRetire, SweepCluster, ApplyRead,
      ApplyCreate, ApplyUpdate, ReadStatus, Survey, Retire, Users, UserCreates,
      UserEdits, UserDeletes, Unattended, SyncApp, Resync, Crash, SyncAdv,
      Disconnect, Reconnect, Report
<1>3. QED
  BY <1>1, <1>2 DEF Trouble, CountFault

\* One step of the abstract life of an AppSet.
AbsStep ==
    \/ Abs!Trouble
    \/ Abs!Observe \/ Abs!Look \/ Abs!Protect \/ Abs!Release
    \/ Abs!Create \/ Abs!Edit \/ Abs!Delete
    \/ \E c \in Clusters :
         Abs!Deploy(c) \/ Abs!Sweep(c) \/ Abs!Retire(c) \/ Abs!Report(c)

\* The finalizer is put on what the thread looked at, and taken from it when
\* it is going and, if nothing went wrong, every cluster is clean.
LEMMA FinalizerRefines ==
    ASSUME IInv, AddFinalizer \/ RemoveFinalizer
    PROVE  AbsStep
<1>1. /\ UNCHANGED <<cache, adv, edits>> /\ loc' = NoApp
      /\ loc \in AppSets
  BY DEF AddFinalizer, RemoveFinalizer, Finish, Reset, copies, IInv, TypeInv,
         TypeOK, ThreadOK
<1>2. CASE app' = app
  BY <1>1, <1>2, Looks DEF AbsStep
<1>3. CASE AddFinalizer /\ app' # app
  <2>1. /\ app = loc /\ app' = [loc EXCEPT !.fin = TRUE]
        /\ ~loc.fin /\ ~loc.del
    BY <1>3 DEF AddFinalizer, IInv, PlaceInv
  <2>2. app' \in AppSets
    BY <1>1, <2>1 DEF AppSets
  <2>3. /\ app \in AppSets
        /\ app'.uid = app.uid /\ app'.topo = app.topo /\ app'.del = app.del
        /\ app'.fin = TRUE
    BY <1>1, <2>1 DEF AppSets
  <2>4. Bare(app)' = [Bare(app) EXCEPT !.fin = TRUE]
    BY <2>2, <2>3, BareType
  <2>5. Abs!Protect
    BY <1>1, <2>1, <2>4, BareType DEF Abs!Protect
  <2>6. QED
    BY <2>5 DEF AbsStep
<1>4. CASE RemoveFinalizer /\ app' # app
  <2>1. /\ app = loc /\ app' = NoApp /\ pc = "removeFinalizer"
        /\ loc.fin /\ loc.del
    BY <1>1, <1>4, BareType
    DEF RemoveFinalizer, IInv, PlaceInv, AppInv, StepInv
  <2>2. troubles = 0 => \A c \in Clusters : adv[c] = NoAdv
    <3>1. SUFFICES ASSUME troubles = 0, NEW c \in Clusters
                   PROVE  adv[c] = NoAdv
      OBVIOUS
    <3>2. go[c] \in {"todo", "absent", "deleted"} /\ go[c] # "todo"
      BY <2>1, <3>1 DEF IInv, CalmInv, PlaceInv, Sweeping
    <3>3. QED
      BY <2>1, <3>2 DEF IInv, SweepInv
  <2>3. Abs!Release
    BY <1>1, <2>1, <2>2, BareType DEF Abs!Release
  <2>4. QED
    BY <2>3 DEF AbsStep
<1>5. QED
  BY <1>2, <1>3, <1>4

\* The rest of the thread looks at the AppSet and writes its status.
LEMMA ThreadRefines ==
    ASSUME IInv,
           \/ Dequeue \/ GetAppSet \/ EndSweep \/ RemoveFinalizer
           \/ AddFinalizer \/ EndApply \/ DecideStatus \/ WriteStatus
           \/ DecideUnuse \/ EndSurvey \/ EndRetire
    PROVE  AbsStep
<1>1. CASE \/ Dequeue \/ GetAppSet \/ EndSweep \/ EndApply \/ DecideStatus
           \/ DecideUnuse \/ EndSurvey \/ EndRetire
  <2>1. UNCHANGED <<app, cache, adv, edits>>
    BY <1>1, Zenon
    DEF Dequeue, GetAppSet, EndSweep, EndApply, DecideStatus, DecideUnuse,
        EndSurvey, EndRetire, world, copies, bounds
  <2>2. loc' \in {loc, cache, NoApp}
    BY <1>1, Zenon
    DEF Dequeue, GetAppSet, Begin, EndSweep, EndApply, DecideStatus,
        DecideUnuse, EndSurvey, EndRetire, Finish, Reset
  <2>3. QED
    BY <2>1, <2>2, Looks, Unseen DEF AbsStep
<1>2. CASE WriteStatus
  <2>1. /\ UNCHANGED <<cache, adv, edits>>
        /\ \/ app' = app
           \/ app = loc /\ app' = [loc EXCEPT !.status = status]
        /\ \/ loc' \in {cache, NoApp}
           \/ loc' = app' /\ app = loc
        /\ loc \in AppSets /\ status \in Statuses
    BY <1>2 DEF WriteStatus, Finish, Reset, copies, IInv, TypeInv, TypeOK, ThreadOK
  <2>2. Bare(app)' = Bare(app)
    <3>1. CASE app' = app
      BY <3>1 DEF Bare
    <3>2. CASE app = loc /\ app' = [loc EXCEPT !.status = status]
      <4>1. app' \in AppSets
        BY <2>1, <3>2 DEF AppSets
      <4>2. /\ app'.uid = app.uid /\ app'.topo = app.topo
            /\ app'.fin = app.fin /\ app'.del = app.del
        BY <2>1, <3>2 DEF AppSets
      <4>3. /\ Bare(app') = [uid |-> app'.uid, topo |-> app'.topo,
                             fin |-> app'.fin, del |-> app'.del]
            /\ Bare(app) = [uid |-> app.uid, topo |-> app.topo,
                            fin |-> app.fin, del |-> app.del]
        BY <2>1, <3>2, <4>1, BareType
      <4>4. QED
        BY <4>2, <4>3 DEF Bare
    <3>3. QED
      BY <2>1, <3>1, <3>2
  <2>3. CASE loc' \in {cache, NoApp}
    BY <2>1, <2>2, <2>3 DEF AbsStep, Abs!Look, Bare
  <2>4. CASE loc' = app' /\ app = loc
    BY <2>1, <2>2, <2>4 DEF AbsStep, Abs!Trouble, Bare
  <2>5. QED
    BY <2>1, <2>3, <2>4
<1>3. QED
  BY <1>1, <1>2, FinalizerRefines

\* What a goroutine does to a cluster is what the AppSet that is stored allows,
\* however old the copy is that it works with.
LEMMA GoroutineRefines ==
    ASSUME IInv, NEW c \in Clusters, Goroutine(c)
    PROVE  AbsStep
<1> USE DEF IInv, TypeInv, TypeOK
<1>1. /\ UNCHANGED <<app, cache, loc, edits>>
      /\ \A a \in {app, cache, loc} : a \in AppSets \/ a = NoApp
  BY AppTypes, Zenon
  DEF Goroutine, SweepCluster, ApplyRead, ApplyCreate, ApplyUpdate, ReadStatus,
      Survey, Retire, world, copies, bounds
<1>2. UNCHANGED <<Bare(app), Bare(cache), Bare(loc), edits>>
  BY <1>1 DEF Bare
<1>3. CASE UNCHANGED adv
  BY <1>1, <1>3, Unseen DEF AbsStep
<1>4. CASE SweepCluster(c) /\ adv' # adv
  <2>1. pc = "sweep" /\ adv' = [adv EXCEPT ![c] = NoAdv]
    BY <1>4, Zenon DEF SweepCluster
  <2>2. app = NoApp \/ app.del \/ ~app.fin
    BY <2>1 DEF HoldInv, SweptInv, Sweeping, AppInv, StepInv, CopiesInv, DelOrder
  <2>3. Abs!Sweep(c)
    BY <1>1, <1>2, <2>1, <2>2, BareType DEF Abs!Sweep
  <2>4. QED
    BY <2>3 DEF AbsStep
<1>5. CASE ApplyCreate(c) /\ adv' # adv
  <2>1. /\ pc = "apply" /\ go[c] = "create" /\ adv[c] = NoAdv
        /\ adv' = [adv EXCEPT ![c] = BuildAdvdeployment(loc, c)]
    BY <1>5, Zenon DEF ApplyCreate
  <2>2. /\ loc \in AppSets /\ app \in AppSets
        /\ app.fin /\ app.uid = loc.uid /\ ~loc.del /\ c \in Targets(loc)
    BY <1>1, <2>1
    DEF ThreadOK, GoInv, HoldInv, Held, Working, AppInv, StepInv
  <2>3. /\ BuildAdvdeployment(loc, c) = Abs!BuildAdvdeployment(Bare(loc), c)
        /\ Targets(loc) = Abs!Targets(Bare(loc))
    <3>1. Bare(loc).topo = loc.topo
      BY <2>2, BareType
    <3>2. QED
      BY <3>1, Zenon
      DEF BuildAdvdeployment, Abs!BuildAdvdeployment, ZoneLabel, Abs!ZoneLabel,
          DefaultLabelValue, Abs!DefaultLabelValue, Targets, Abs!Targets
  <2>4. Abs!Deploy(c)
    BY <1>2, <2>1, <2>2, <2>3, BareType DEF Abs!Deploy
  <2>5. QED
    BY <2>4 DEF AbsStep
<1>6. CASE Retire(c) /\ adv' # adv
  <2>1. pc = "retire" /\ c \in todo /\ adv' = [adv EXCEPT ![c] = NoAdv]
    BY <1>6, Zenon DEF Retire
  <2>2. /\ loc \in AppSets /\ app \in AppSets
        /\ app.uid = loc.uid /\ c \notin Targets(loc)
    BY <1>1, <2>1 DEF ThreadOK, HoldInv, Held, Working, PlaceInv
  <2>3. Abs!Retire(c)
    BY <1>2, <2>1, <2>2, BareType DEF Abs!Retire, Targets, Abs!Targets
  <2>4. QED
    BY <2>3 DEF AbsStep
<1>7. QED
  BY <1>3, <1>4, <1>5, <1>6, Zenon
  DEF Goroutine, ApplyRead, ApplyUpdate, ReadStatus, Survey, world

\* What users do, what the informers and the workers bring, and what a crash
\* leaves, is what the abstract life allows of them.
LEMMA EnvironmentRefines ==
    ASSUME IInv, Environment
    PROVE  AbsStep
<1> USE DEF IInv, TypeInv, TypeOK
<1>1. CASE Users
  <2>1. /\ Edit /\ UNCHANGED <<cache, loc, adv>>
    <3>1. Edit /\ Unattended
      BY <1>1, Zenon DEF Users, UserCreates, UserEdits, UserDeletes
    <3>2. QED
      BY <3>1 DEF Unattended, copies, thread
  <2>2. Abs!Act
    BY <2>1 DEF Abs!Act, Edit, Bare
  <2>3. CASE UserCreates
    <3>1. PICK s \in UserSpecs :
             app' = [uid |-> edits + 1, gen |-> 1, topo |-> s.topo,
                     replicas |-> s.replicas, wait |-> s.wait,
                     fin |-> FALSE, del |-> FALSE, status |-> NoStatus]
      BY <2>3 DEF UserCreates
    <3>2. s.topo \in Topologies /\ app = NoApp
      BY <2>3 DEF UserCreates, Topologies
    <3>3. app' \in AppSets
      <4>1. s.replicas \in Nat /\ s.wait \in BOOLEAN /\ edits + 1 \in Nat
        BY MasterAssumption DEF WorldOK
      <4>2. QED
        BY <3>1, <3>2, <4>1, NoStatusType DEF AppSets
    <3>4. Bare(app)' = [uid |-> edits + 1, topo |-> s.topo, fin |-> FALSE,
                        del |-> FALSE]
      BY <3>1, <3>3, BareType
    <3>5. Abs!Create
      BY <2>2, <3>2, <3>4, BareType DEF Abs!Create
    <3>6. QED
      BY <3>5 DEF AbsStep
  <2>4. CASE UserEdits
    <3>1. /\ app \in AppSets /\ app' \in AppSets /\ ~app.del
          /\ app'.uid = app.uid /\ app'.fin = app.fin /\ app'.del = app.del
      BY <2>4, EditType DEF UserEdits
    <3>2. app'.topo \in Topologies
      BY <3>1 DEF AppSets
    <3>3. Bare(app)' = [Bare(app) EXCEPT !.topo = app'.topo]
      BY <3>1, BareType
    <3>4. Abs!Edit
      BY <2>2, <3>1, <3>2, <3>3, BareType DEF Abs!Edit
    <3>5. QED
      BY <3>4 DEF AbsStep
  <2>5. CASE UserDeletes
    <3>1. app \in AppSets /\ ~app.del
      BY <2>5, DeleteType DEF UserDeletes
    <3>2. CASE ~app.fin
      <4>1. app' = NoApp
        BY <2>5, <3>2 DEF UserDeletes
      <4>2. Abs!Delete
        BY <2>2, <3>1, <3>2, <4>1, BareType DEF Abs!Delete
      <4>3. QED
        BY <4>2 DEF AbsStep
    <3>3. CASE app.fin
      <4>1. app' = [app EXCEPT !.del = TRUE, !.gen = app.gen + 1]
        BY <2>5, <3>3 DEF UserDeletes
      <4>2. /\ app' \in AppSets
            /\ app'.uid = app.uid /\ app'.topo = app.topo
            /\ app'.fin = app.fin /\ app'.del = TRUE
        <5>1. app.gen + 1 \in Nat \ {0}
          BY <3>1 DEF AppSets
        <5>2. QED
          BY <3>1, <4>1, <5>1 DEF AppSets
      <4>3. Bare(app)' = [Bare(app) EXCEPT !.del = TRUE]
        BY <3>1, <4>2, BareType
      <4>4. Abs!Delete
        BY <2>2, <3>1, <3>3, <4>3, BareType DEF Abs!Delete
      <4>5. QED
        BY <4>4 DEF AbsStep
    <3>4. QED
      BY <3>2, <3>3
  <2>6. QED
    BY <1>1, <2>3, <2>4, <2>5 DEF Users
<1>2. CASE SyncApp \/ Crash
  <2>1. cache' = app /\ UNCHANGED <<app, adv, edits>> /\ loc' \in {loc, NoApp}
    BY <1>2, Zenon DEF SyncApp, Crash, Reset, world, thread, bounds
  <2>2. Abs!Observe
    BY <2>1 DEF Abs!Observe, Bare
  <2>3. QED
    BY <2>2 DEF AbsStep
<1>3. CASE Resync \/ \E c \in Clusters :
                        SyncAdv(c) \/ Disconnect(c) \/ Reconnect(c)
  <2>1. UNCHANGED <<app, cache, loc, adv, edits>>
    BY <1>3, Zenon
    DEF Resync, SyncAdv, Disconnect, Reconnect, world, copies, thread, bounds
  <2>2. QED
    BY <2>1, Unseen DEF AbsStep
<1>4. ASSUME NEW c \in Clusters, Report(c) PROVE AbsStep
  <2>1. /\ adv[c] # NoAdv
        /\ UNCHANGED <<app, cache, loc, edits>>
    BY <1>4, Zenon DEF Report, copies, thread
  <2>2. PICK phase \in {"Installing", "Running"}, lag \in {0, 1},
             pods \in {0} \cup PodCounts[c] :
           LET obs == adv[c].gen - lag
           IN /\ MayReport(adv[c].gen, obs, phase)
              /\ adv' = [adv EXCEPT ![c] = [@ EXCEPT !.phase = phase, !.obs = obs,
                                                     !.available = pods]]
    BY <1>4, MasterAssumption DEF Report
  <2>3. adv[c].gen - lag \in 0..adv[c].gen
    BY <2>1 DEF WorldOK, AdvDeployments
  <2>4. Abs!Report(c)
    BY <2>1, <2>2, <2>3 DEF Abs!Report, MayReport, Abs!MayReport, Bare
  <2>5. QED
    BY <2>4 DEF AbsStep
<1>5. QED
  BY <1>1, <1>2, <1>3, <1>4 DEF Environment

\* For every number of clusters, edits and failures: whatever the master does
\* is a life of the AppSet and of its AdvDeployments as users and the owners of
\* the clusters may expect it.
THEOREM MasterImplementsAbs == Safety => ImplementsAbs
<1>1. Init => Abs!Init
  BY BareType DEF Init, Abs!Init
<1>2. IInv /\ [Next]_vars => [Abs!Next]_(Abs!vars)
  <2> SUFFICES ASSUME IInv, [Next]_vars PROVE [Abs!Next]_(Abs!vars)
    OBVIOUS
  <2>1. (troubles = 0)' \in {troubles = 0, FALSE}
    <3>1. troubles' = 0 => troubles = 0
      BY CalmEnds DEF IInv
    <3>2. QED
      BY <3>1
  <2>2. AbsStep
    <3>1. ASSUME UNCHANGED vars PROVE AbsStep
      BY <3>1, Unseen DEF vars, AbsStep
    <3>2. QED
      BY <3>1, ThreadRefines, GoroutineRefines, EnvironmentRefines
      DEF Next, Master
  <2>3. Abs!Next
    BY <2>1, <2>2 DEF AbsStep, Abs!Next
  <2>4. QED
    BY <2>3
<1>3. QED
  BY <1>1, <1>2, InvariantHolds, PTL DEF Safety, ImplementsAbs, Abs!Spec

\* In that life, while all goes well, nothing is left behind: what is on a
\* cluster has an AppSet with the finalizer, which goes from a clean slate only.
THEOREM AbsLeavesNothing == ImplementsAbs => []NoOrphans
<1> DEFINE Calm  == troubles = 0 /\ Leftovers = {}
           Fin   == Bare(app) # NoApp /\ Bare(app).fin
           Typed == Bare(app) \in BareAppSets \cup {NoApp} /\ edits \in Nat
           Clean == /\ adv = [c \in Clusters |-> adv[c]]
                    /\ Calm => \A c \in Clusters : adv[c] # NoAdv => Fin
<1>1. Abs!Init => Typed /\ Clean
  BY DEF Abs!Init
<1>2. Typed /\ [Abs!Next]_(Abs!vars) => Typed'
  <2> SUFFICES ASSUME Typed, Abs!Next PROVE Typed'
    BY DEF Abs!vars
  <2>1. CASE Abs!Create \/ Abs!Edit \/ Abs!Delete
    <3>1. edits' \in Nat /\ edits + 1 \in Nat
      BY <2>1 DEF Abs!Create, Abs!Edit, Abs!Delete, Abs!Act
    <3>2. CASE Abs!Create
      BY <3>1, <3>2 DEF Abs!Create, BareAppSets
    <3>3. CASE Abs!Edit
      BY <3>1, <3>3 DEF Abs!Edit, BareAppSets
    <3>4. CASE Abs!Delete
      BY <3>1, <3>4 DEF Abs!Delete, BareAppSets
    <3>5. QED
      BY <2>1, <3>2, <3>3, <3>4
  <2>2. CASE Abs!Protect \/ Abs!Release
    BY <2>2 DEF Abs!Protect, Abs!Release, BareAppSets
  <2>3. CASE \/ Abs!Trouble \/ Abs!Observe \/ Abs!Look
             \/ \E c \in Clusters :
                  Abs!Deploy(c) \/ Abs!Sweep(c) \/ Abs!Retire(c) \/ Abs!Report(c)
    <3>1. UNCHANGED <<Bare(app), edits>>
      BY <2>3, Zenon
      DEF Abs!Trouble, Abs!Observe, Abs!Look, Abs!Deploy, Abs!Sweep,
          Abs!Retire, Abs!Report
    <3>2. QED
      BY <3>1
  <2>4. QED
    BY <2>1, <2>2, <2>3 DEF Abs!Next
<1>3. Typed /\ Clean /\ [Abs!Next]_(Abs!vars) => Clean'
  <2> SUFFICES ASSUME Typed, Clean, Abs!Next PROVE Clean'
    BY DEF Abs!vars
  <2>1. (Calm' => Calm) /\ NoApp \notin BareAppSets /\ Typed'
    BY <1>2, MasterAssumption DEF Abs!Next
  <2>2. CASE Abs!Trouble \/ Abs!Observe \/ Abs!Look
    BY <2>1, <2>2 DEF Abs!Trouble, Abs!Observe, Abs!Look
  <2>3. CASE Abs!Protect \/ Abs!Edit \/ Abs!Delete
    <3>1. Fin => Fin'
      BY <2>1, <2>3
      DEF Abs!Protect, Abs!Edit, Abs!Delete, Abs!Act, BareAppSets
    <3>2. UNCHANGED adv
      BY <2>3 DEF Abs!Protect, Abs!Edit, Abs!Delete, Abs!Act
    <3>3. QED
      BY <2>1, <3>1, <3>2
  <2>4. CASE Abs!Create \/ Abs!Release
    BY <2>1, <2>4 DEF Abs!Create, Abs!Release, Abs!Act
  <2>5. ASSUME NEW c \in Clusters,
               Abs!Deploy(c) \/ Abs!Sweep(c) \/ Abs!Retire(c) \/ Abs!Report(c)
        PROVE  Clean'
    <3>1. \E a : /\ adv' = [adv EXCEPT ![c] = a]
                 /\ a # NoAdv => adv[c] # NoAdv \/ Fin
      BY <2>5, Zenon DEF Abs!Deploy, Abs!Sweep, Abs!Retire, Abs!Report
    <3>2. Bare(app)' = Bare(app)
      BY <2>5 DEF Abs!Deploy, Abs!Sweep, Abs!Retire, Abs!Report
    <3>3. /\ adv' = [d \in Clusters |-> adv'[d]]
          /\ \A d \in Clusters : adv'[d] # NoAdv => adv[d] # NoAdv \/ Fin
      BY <3>1
    <3>4. QED
      BY <2>1, <3>2, <3>3
  <2>6. QED
    BY <2>2, <2>3, <2>4, <2>5 DEF Abs!Next
<1>4. Clean => NoOrphans
  BY DEF Bare, NoOrphans
<1>5. QED
  BY <1>1, <1>2, <1>3, <1>4, PTL DEF ImplementsAbs, Abs!Spec

\* While no call fails, no cluster goes down and the process stays up, an
\* AdvDeployment exists only together with an AppSet that has the finalizer.
THEOREM NothingOrphaned == Safety => []NoOrphans
BY MasterImplementsAbs, AbsLeavesNothing, PTL
=============================================================================
