---------------------------- MODULE AppSetMaster ----------------------------
(***************************************************************************)
(* The master controller (controllers/appset) reconciling one AppSet onto  *)
(* its member clusters, with everything that runs beside it: the users who *)
(* create, edit and delete the AppSet, the API servers that store the      *)
(* objects, the informers whose copies lag behind them, the clusters that  *)
(* disconnect, the controllers that report the status of AdvDeployments,   *)
(* calls that fail or whose answer is lost, and crashes of the process.    *)
(*                                                                         *)
(* The work queue gives one key to one thread at a time, so the thread is  *)
(* the program counter pc; the goroutines of a fan-out over the clusters   *)
(* are the program counters go[c]. Fanout shows that a fan-out answers     *)
(* once, with what all its goroutines found.                               *)
(*                                                                         *)
(* StepLoop: the loop over the registered steps is commented out in        *)
(* Reconcile (reconcile.go:135-148), so what is built today only sweeps    *)
(* the AdvDeployments of AppSets that are gone (StepLoop = FALSE). With    *)
(* StepLoop = TRUE the module is the controller its steps are written for. *)
(*                                                                         *)
(* An update carries the object it was read as. The server takes it when   *)
(* the resourceVersion is the stored one, modelled as: when the object it  *)
(* was read as is the stored one.                                          *)
(***************************************************************************)
EXTENDS AppSetRules, SymContext, StatusContract

CONSTANTS Clusters,      \* the member clusters of the configuration
          UserSpecs,     \* what users may ask for: [topo, replicas, wait]
          Leftovers,     \* AdvDeployments that may exist at the start
          FirstReports,  \* what a controller says first of an AdvDeployment
          ReportLags,    \* generations an "Installing" may be behind
          PodCounts,     \* per cluster, the pods it may run: those asked for,
                         \* or as many as an autoscaler makes of them
          StepLoop,      \* does Reconcile run the registered steps?
          RetrySteps,    \* attempts of retry.RetryOnConflict
          NoApp, NoAdv,  \* an object that does not exist
          MaxEdits,      \* bound: what users do to the AppSet
          MaxTroubles    \* bound: failed calls, disconnections, pods that go
                         \* down and crashes of the controller, together

-----------------------------------------------------------------------------
\* The objects

Phases == {"", "Installing", "Running"}

AdvDeployments == [image : STRING, pods : Nat, zone : STRING \cup {DefaultLabelValue},
                   gen : Nat \ {0}, obs : Nat, phase : Phases, available : Nat]

\* An AdvDeployment of a cluster, as the loops over the clusters collect it.
Entries == [name : Clusters, adv : AdvDeployments]

Statuses == [phase : Phases, obs : Nat,
             clusters : Seq([name : Clusters, available : Nat])]

Topologies == {s.topo : s \in UserSpecs}

AppSets == [uid : Nat, gen : Nat \ {0}, topo : Topologies, replicas : Nat,
            wait : BOOLEAN, fin : BOOLEAN, del : BOOLEAN, status : Statuses]

\* What of an AppSet decides about its AdvDeployments.
BareAppSets == [uid : Nat, topo : Topologies, fin : BOOLEAN, del : BOOLEAN]

ASSUME MasterAssumption ==
    /\ IsFiniteSet(Clusters)
    /\ \A s \in UserSpecs :
         /\ s \in [topo : Topologies, replicas : Nat, wait : BOOLEAN]
         /\ DOMAIN s.topo \subseteq Clusters
         /\ s.topo \in [DOMAIN s.topo -> [image : STRING, zone : STRING, pods : Nat]]
    /\ Leftovers \subseteq AdvDeployments
    /\ FirstReports \subseteq {"Installing", "Running"}
    /\ ReportLags \subseteq {0, 1}
    /\ PodCounts \in [Clusters -> SUBSET Nat]
    /\ StepLoop \in BOOLEAN
    /\ NoApp \notin AppSets \cup BareAppSets
    /\ NoAdv \notin AdvDeployments

-----------------------------------------------------------------------------
VARIABLES
    \* the world
    app,      \* the AppSet the API server stores
    adv,      \* per cluster, the AdvDeployment its API server stores
    conn,     \* the connected clusters
    \* the copies of the informers and the work queue
    cache,    \* of the AppSet
    seen,     \* per cluster, of the AdvDeployment
    queued,   \* is the key in the queue, or due again after this run?
    \* the reconciling thread
    pc,
    loc,      \* its AppSet
    ctx,      \* the context of the steps
    go,       \* per cluster, the goroutine of the fan-out
    changed,  \* did a goroutine of the fan-out change something?
    list,     \* what the goroutines read of the clusters, in order
    found,    \* what the loop over all clusters found
    todo,     \* the unexpected clusters still to be cleared
    status,   \* the status to be written
    tries,    \* conflicts met by that write
    \* bounds
    edits, troubles

world   == <<app, adv, conn>>
copies  == <<cache, seen>>
thread  == <<pc, loc, ctx, go, changed, list, found, todo, status, tries>>
bounds  == <<edits, troubles>>
vars    == <<app, adv, conn, cache, seen, queued, pc, loc, ctx, go, changed,
             list, found, todo, status, tries, edits, troubles>>

Idle == [c \in Clusters |-> "idle"]

FanOut(S) == [c \in Clusters |-> IF c \in S THEN "todo" ELSE "idle"]

\* wg.Wait(): every goroutine of the fan-out has returned.
Joined == \A c \in Clusters : go[c] \notin {"todo", "create", "update"}

-----------------------------------------------------------------------------
(***************************************************************************)
(* A call of an API server: it is answered, refused without effect, or     *)
(* takes effect and loses its answer.                                      *)
(***************************************************************************)
Replies == {"ok"} \cup IF troubles < MaxTroubles THEN {"refused", "lost"} ELSE {}

TakesEffect(r) == r # "refused"

CountFault(r) == troubles' = IF r = "ok" THEN troubles ELSE troubles + 1

Trouble == troubles < MaxTroubles /\ troubles' = troubles + 1

-----------------------------------------------------------------------------
(***************************************************************************)
(* The end of a reconcile. The queue adds the key again when the reconcile *)
(* returned an error, asked for a requeue or for one after a delay.        *)
(***************************************************************************)
AsksRequeue(cx, err) == \/ err
                        \/ GetValueBool(cx, "NeedRequeue")
                        \/ GetValueInt64(cx, "RequeueAfter") # "0"

\* The thread as a reconcile leaves it.
Reset == /\ loc' = NoApp
         /\ go' = Idle
         /\ changed' = FALSE
         /\ list' = <<>>
         /\ found' = {}
         /\ todo' = {}
         /\ status' = NoStatus
         /\ tries' = 0

Finish(cx, err) == /\ pc' = "idle"
                   /\ ctx' = NewContext
                   /\ queued' = (queued \/ AsksRequeue(cx, err))
                   /\ Reset

\* On to the next step, with no goroutine running.
Continue(p) == /\ pc' = p
               /\ go' = Idle
               /\ changed' = FALSE

Stopped == WithValue(ctx, "StepStop", TrueValue)

StoppedAfter(delay) == WithValue(Stopped, "RequeueAfter", delay)

-----------------------------------------------------------------------------
(***************************************************************************)
(* Reconcile                                                               *)
(***************************************************************************)
\* A thread of the queue takes the key.
Dequeue == /\ pc = "idle"
           /\ queued
           /\ queued' = FALSE
           /\ pc' = "get"
           /\ UNCHANGED <<world, copies, loc, ctx, go, changed, list, found, todo, status,
                          tries, bounds>>

\* Faulty variant: stepApplySpec runs whether or not there is a finalizer.
BeginUnprotected(a) ==
    /\ loc' = a
    /\ ctx' = ctx
    /\ changed' = FALSE
    /\ UNCHANGED <<list, found, todo, status, tries>>
    /\ pc' = IF a # NoApp /\ ~a.del THEN "apply" ELSE "sweep"
    /\ go' = FanOut(IF a # NoApp /\ ~a.del THEN Targets(a) ELSE conn)

\* What the first steps of the pipeline do with the AppSet just read:
\* stepCheckDeletionTime and stepAddFinalizer stop the loop, or leave it to
\* stepApplySpec. Without the loop Reconcile is done.
Begin(a) ==
    /\ loc' = a
    /\ changed' = FALSE
    /\ UNCHANGED <<list, found, todo, status, tries>>
    /\ \/ /\ a # NoApp => a.del
          /\ pc' = "sweep"
          /\ go' = FanOut(conn)
          /\ ctx' = IF a = NoApp THEN ctx ELSE Stopped
       \/ /\ a # NoApp /\ ~a.del /\ ~a.fin
          /\ pc' = "addFinalizer"
          /\ go' = Idle
          /\ ctx' = Stopped
       \/ /\ a # NoApp /\ ~a.del /\ a.fin
          /\ pc' = "apply"
          /\ go' = FanOut(Targets(a))
          /\ ctx' = ctx

\* Faulty variant: an AppSet that is not found is nobody's business.
GetAppSetIgnoresNotFound ==
    /\ pc = "get"
    /\ IF cache # NoApp /\ StepLoop THEN Begin(cache) /\ UNCHANGED queued
                                    ELSE Finish(ctx, FALSE)
    /\ UNCHANGED <<world, copies, bounds>>

\* Reconcile reads the AppSet from the informer's copy. With NotFound it
\* sweeps the member clusters whatever the loop does.
GetAppSet ==
    /\ pc = "get"
    /\ \/ /\ cache # NoApp => StepLoop
          /\ Begin(cache)
          /\ UNCHANGED <<queued, troubles>>
       \/ /\ ~StepLoop /\ cache # NoApp
          /\ Finish(ctx, FALSE)
          /\ UNCHANGED troubles
       \/ Trouble /\ Finish(ctx, TRUE)
    /\ UNCHANGED <<world, copies, edits>>

-----------------------------------------------------------------------------
(***************************************************************************)
(* deleteAllClusterAdvdeployment: delete on every connected cluster, and   *)
(* take the finalizer off once there was nothing left to delete.           *)
(***************************************************************************)
\* Faulty variant: an error of the delete counts as NotFound.
SweepClusterSwallowed(c) ==
    /\ pc = "sweep" /\ go[c] = "todo"
    /\ \E r \in Replies :
         LET reached == c \in conn /\ TakesEffect(r)
         IN /\ adv' = IF reached THEN [adv EXCEPT ![c] = NoAdv] ELSE adv
            /\ changed' = (changed \/ (r = "ok" /\ reached /\ adv[c] # NoAdv))
            /\ go' = [go EXCEPT ![c] = IF r = "ok" /\ reached /\ adv[c] # NoAdv
                                       THEN "deleted" ELSE "absent"]
            /\ CountFault(r)
    /\ UNCHANGED <<app, conn, copies, queued, pc, loc, ctx, list, found, todo, status,
                   tries, edits>>

\* deleteAdvdeploymentWithClusterClient: deleted, NotFound or an error.
SweepCluster(c) ==
    /\ pc = "sweep" /\ go[c] = "todo"
    /\ \E r \in Replies :
         LET reached  == c \in conn /\ TakesEffect(r)
             answered == c \in conn /\ r = "ok"
         IN /\ adv' = IF reached THEN [adv EXCEPT ![c] = NoAdv] ELSE adv
            /\ changed' = (changed \/ (answered /\ adv[c] # NoAdv))
            /\ go' = [go EXCEPT ![c] = CASE ~answered -> "failed"
                                         [] answered /\ adv[c] = NoAdv -> "absent"
                                         [] OTHER -> "deleted"]
            /\ CountFault(r)
    /\ UNCHANGED <<app, conn, copies, queued, pc, loc, ctx, list, found, todo, status,
                   tries, edits>>

\* Faulty variant: nobody thinks of the AppSet that is gone (app == nil).
EndSweepOfNil ==
    /\ pc = "sweep" /\ Joined
    /\ IF changed
       THEN Finish(ctx, FALSE)
       ELSE /\ pc' = "removeFinalizer"
            /\ UNCHANGED <<queued, loc, ctx, go, changed, list, found, todo,
                           status, tries>>
    /\ UNCHANGED <<world, copies, bounds>>

\* Faulty variant: nobody waits for the goroutines.
EndSweepEarly ==
    /\ pc = "sweep"
    /\ IF changed \/ loc = NoApp \/ ~loc.fin
       THEN Finish(ctx, FALSE)
       ELSE /\ pc' = "removeFinalizer"
            /\ UNCHANGED <<queued, loc, ctx, go, changed, list, found, todo,
                           status, tries>>
    /\ UNCHANGED <<world, copies, bounds>>

\* The errors of the fan-out are only logged. go is kept for the finalizer.
EndSweep ==
    /\ pc = "sweep" /\ Joined
    /\ \/ /\ (loc # NoApp /\ loc.fin) => changed
          /\ Finish(ctx, FALSE)
       \/ /\ ~changed /\ loc # NoApp /\ loc.fin
          /\ pc' = "removeFinalizer"
          /\ UNCHANGED <<queued, loc, ctx, go, changed, list, found, todo, status, tries>>
    /\ UNCHANGED <<world, copies, bounds>>

\* The last finalizer of an AppSet that is being deleted goes: so does the
\* AppSet. stepCheckDeletionTime returns no error when the update fails, and
\* asks for a requeue after 10 seconds instead.
RemoveFinalizer ==
    /\ pc = "removeFinalizer"
    /\ \E r \in Replies :
         LET taken == app = loc /\ TakesEffect(r)
         IN /\ app' = IF taken THEN NoApp ELSE app
            /\ Finish(IF taken /\ r = "ok" THEN ctx
                      ELSE StoppedAfter(RequeueAfterTimeError), FALSE)
            /\ CountFault(r)
    /\ UNCHANGED <<adv, conn, copies, edits>>

-----------------------------------------------------------------------------
(***************************************************************************)
(* stepAddFinalizer                                                        *)
(***************************************************************************)
\* Faulty variant: the update replaces whatever is stored.
AddFinalizerBlindly ==
    /\ pc = "addFinalizer"
    /\ \E r \in Replies :
         LET taken == app # NoApp /\ TakesEffect(r)
         IN /\ app' = IF taken THEN [loc EXCEPT !.fin = TRUE] ELSE app
            /\ Finish(ctx, ~(taken /\ r = "ok"))
            /\ CountFault(r)
    /\ UNCHANGED <<adv, conn, copies, edits>>

AddFinalizer ==
    /\ pc = "addFinalizer"
    /\ \E r \in Replies :
         LET taken == app = loc /\ TakesEffect(r)
         IN /\ app' = IF taken THEN [loc EXCEPT !.fin = TRUE] ELSE app
            /\ Finish(ctx, ~(taken /\ r = "ok"))
            /\ CountFault(r)
    /\ UNCHANGED <<adv, conn, copies, edits>>

-----------------------------------------------------------------------------
(***************************************************************************)
(* stepApplySpec: one goroutine per target cluster                         *)
(***************************************************************************)
Return(c) == go' = [go EXCEPT ![c] = "done"]

\* GetConnectedWithName, then applyAdvdeployment's read of the informer's
\* copy and what follows from it.
ApplyRead(c) ==
    /\ pc = "apply" /\ go[c] = "todo"
    /\ go' = [go EXCEPT ![c] =
                 CASE c \notin conn -> "done"
                   [] c \in conn /\ seen[c] = NoAdv -> "create"
                   [] OTHER ->
                        IF IsAdvdeploymentDifferent(seen[c], BuildAdvdeployment(loc, c))
                        THEN "update" ELSE "done"]
    /\ UNCHANGED <<world, copies, queued, pc, loc, ctx, changed, list, found, todo,
                   status, tries, bounds>>

\* The copy may be behind: the create then meets an AlreadyExists.
ApplyCreate(c) ==
    /\ pc = "apply" /\ go[c] = "create"
    /\ \E r \in Replies :
         LET taken == c \in conn /\ adv[c] = NoAdv /\ TakesEffect(r)
         IN /\ adv' = IF taken
                      THEN [adv EXCEPT ![c] = BuildAdvdeployment(loc, c)]
                      ELSE adv
            /\ changed' = (changed \/ (taken /\ r = "ok"))
            /\ Return(c)
            /\ CountFault(r)
    /\ UNCHANGED <<app, conn, copies, queued, pc, loc, ctx, list, found, todo, status,
                   tries, edits>>

\* The update is built from scratch and carries no resourceVersion: the server
\* refuses it as invalid, which is no conflict, so it is not tried again. The
\* object is then read again. The labels were copied from what was read first,
\* so only the spec can still differ; and when it is not found, the old object
\* keeps the spec that was just copied into it and nothing differs. One copy
\* stands for both reads: labels that differ because the object was deleted and
\* created with others in between are left out.
ApplyUpdate(c) ==
    /\ pc = "apply" /\ go[c] = "update"
    /\ LET same == \/ seen[c] = NoAdv
                   \/ SameSpec(seen[c], BuildAdvdeployment(loc, c))
       IN changed' = (changed \/ same)
    /\ Return(c)
    /\ UNCHANGED <<world, copies, queued, pc, loc, ctx, list, found, todo, status,
                   tries, bounds>>

\* Errors are only logged. A change ends the reconcile.
EndApply ==
    /\ pc = "apply" /\ Joined
    /\ \/ /\ changed
          /\ Finish(StoppedAfter(RequeueAfterTimeGrace), FALSE)
       \/ /\ ~changed
          /\ pc' = "readStatus"
          /\ go' = FanOut(Targets(loc))
          /\ UNCHANGED <<queued, loc, ctx, changed, list, found, todo, status, tries>>
    /\ UNCHANGED <<world, copies, bounds>>

-----------------------------------------------------------------------------
(***************************************************************************)
(* stepApplyStatus                                                         *)
(***************************************************************************)
Entry(c) == [name |-> c, adv |-> seen[c]]

\* getAllClusterComplexAdvdeployment: the answers arrive in any order.
ReadStatus(c) ==
    /\ pc = "readStatus" /\ go[c] = "todo"
    /\ list' = IF c \in conn /\ seen[c] # NoAdv THEN Append(list, Entry(c)) ELSE list
    /\ Return(c)
    /\ UNCHANGED <<world, copies, queued, pc, loc, ctx, changed, found, todo,
                   status, tries, bounds>>

\* Faulty variant: a status for the same generation is taken as the same.
DecideStatusOfGeneration ==
    /\ pc = "readStatus" /\ Joined
    /\ LET as == BuildAppsetStatus(loc, list)
       IN /\ Continue(IF as.obs = loc.status.obs THEN "unuse" ELSE "writeStatus")
          /\ status' = IF as.obs = loc.status.obs THEN status ELSE as
    /\ list' = <<>>
    /\ UNCHANGED <<world, copies, queued, loc, ctx, found, todo, tries, bounds>>

\* A status that is already there is not written, and not put in the context.
DecideStatus ==
    /\ pc = "readStatus" /\ Joined
    /\ LET as == BuildAppsetStatus(loc, list)
       IN \/ /\ as = loc.status
             /\ Continue("unuse")
             /\ UNCHANGED status
          \/ /\ as # loc.status
             /\ Continue("writeStatus")
             /\ status' = as
    /\ list' = <<>>
    /\ UNCHANGED <<world, copies, queued, loc, ctx, found, todo, tries, bounds>>

StatusWritten == WithValue(ctx, "AppsetStatus", AppStatusValue(status.phase))

\* The status update is taken, or the AppSet is read again: then the status
\* may be there already, a conflict is tried again with what was read, and
\* anything else ends the reconcile with an error.
WriteStatus ==
    /\ pc = "writeStatus"
    /\ \E r \in Replies :
         LET taken    == app # NoApp /\ app = loc /\ TakesEffect(r)
             conflict == r = "ok" /\ app # NoApp /\ app # loc
             written(a) == /\ loc' = a
                           /\ ctx' = StatusWritten
                           /\ Continue("unuse")
                           /\ status' = NoStatus
                           /\ tries' = 0
                           /\ UNCHANGED <<queued, list, found, todo>>
         IN /\ app' = IF taken THEN [loc EXCEPT !.status = status] ELSE app
            /\ CountFault(r)
            /\ \/ /\ taken /\ r = "ok"
                  /\ written(app')
               \/ /\ ~(taken /\ r = "ok")
                  /\ cache # NoApp /\ cache.status = status
                  /\ written(cache)
               \/ /\ conflict
                  /\ cache # NoApp /\ cache.status # status
                  /\ tries + 1 < RetrySteps
                  /\ loc' = cache
                  /\ tries' = tries + 1
                  /\ UNCHANGED <<queued, pc, ctx, go, changed, list, found, todo, status>>
               \/ /\ ~(taken /\ r = "ok")
                  /\ cache # NoApp => cache.status # status
                  /\ (conflict /\ cache # NoApp) => tries + 1 >= RetrySteps
                  /\ Finish(Stopped, TRUE)
    /\ UNCHANGED <<adv, conn, copies, edits>>

-----------------------------------------------------------------------------
(***************************************************************************)
(* stepDeleteUnuseAdvDeployment                                            *)
(***************************************************************************)
\* Only the string "Running" would mean that all is ready.
AllReady == GetValueString(ctx, "AppsetStatus") = "Running"

\* Faulty variant: an AppSet that does not wait is cleared like one that does.
DecideUnuseWhenReady ==
    /\ pc = "unuse"
    /\ IF AllReady
       THEN /\ pc' = "survey"
            /\ go' = FanOut(Clusters)
            /\ UNCHANGED <<queued, loc, ctx, changed, list, found, todo, status, tries>>
       ELSE Finish(ctx, FALSE)
    /\ UNCHANGED <<world, copies, bounds>>

\* stepDeleteUnuseAdvDeployment up to the loop over all clusters.
DecideUnuse ==
    /\ pc = "unuse"
    /\ \/ /\ AllReady \/ (~loc.wait /\ ~SomeZoneUnknown(loc))
          /\ pc' = "survey"
          /\ go' = FanOut(Clusters)
          /\ UNCHANGED <<queued, loc, ctx, changed, list, found, todo, status, tries>>
       \/ /\ ~AllReady
          /\ loc.wait \/ SomeZoneUnknown(loc)
          /\ Finish(ctx, FALSE)
    /\ UNCHANGED <<world, copies, bounds>>

\* The loop over all clusters reads the copies, of disconnected clusters too.
Survey(c) ==
    /\ pc = "survey" /\ go[c] = "todo"
    /\ found' = IF seen[c] # NoAdv THEN found \cup {Entry(c)} ELSE found
    /\ Return(c)
    /\ UNCHANGED <<world, copies, queued, pc, loc, ctx, changed, list, todo,
                   status, tries, bounds>>

EndSurvey ==
    /\ pc = "survey" /\ Joined
    /\ todo' = IF AllReady THEN UnexpectClusters(loc, found)
                           ELSE UnexpectClustersSync(loc, found)
    /\ found' = {}
    /\ Continue("retire")
    /\ UNCHANGED <<world, copies, queued, loc, ctx, list, status, tries, bounds>>

\* deleteUnexpectClusterAdv: one cluster after the other, errors only logged.
Retire(c) ==
    /\ pc = "retire" /\ c \in todo
    /\ \E r \in Replies :
         /\ adv' = IF c \in conn /\ TakesEffect(r)
                   THEN [adv EXCEPT ![c] = NoAdv] ELSE adv
         /\ CountFault(r)
    /\ todo' = todo \ {c}
    /\ UNCHANGED <<app, conn, copies, queued, pc, loc, ctx, go, changed, list,
                   found, status, tries, edits>>

EndRetire ==
    /\ pc = "retire" /\ todo = {}
    /\ Finish(ctx, FALSE)
    /\ UNCHANGED <<world, copies, bounds>>

-----------------------------------------------------------------------------
Goroutine(c) == \/ SweepCluster(c)
                \/ ApplyRead(c) \/ ApplyCreate(c) \/ ApplyUpdate(c)
                \/ ReadStatus(c)
                \/ Survey(c) \/ Retire(c)

Master == \/ Dequeue \/ GetAppSet
          \/ EndSweep \/ RemoveFinalizer \/ AddFinalizer
          \/ EndApply \/ DecideStatus \/ WriteStatus
          \/ DecideUnuse \/ EndSurvey \/ EndRetire
          \/ \E c \in Clusters : Goroutine(c)

-----------------------------------------------------------------------------
(***************************************************************************)
(* Users                                                                   *)
(***************************************************************************)
Edit == edits < MaxEdits /\ edits' = edits + 1

Unattended == UNCHANGED <<adv, conn, copies, queued, thread, troubles>>

\* uid tells an AppSet from an earlier one of the same name.
UserCreates ==
    /\ Edit /\ app = NoApp
    /\ \E s \in UserSpecs :
         app' = [uid |-> edits + 1, gen |-> 1, topo |-> s.topo,
                 replicas |-> s.replicas, wait |-> s.wait,
                 fin |-> FALSE, del |-> FALSE, status |-> NoStatus]
    /\ Unattended

UserEdits ==
    /\ Edit /\ app # NoApp /\ ~app.del
    /\ \E s \in UserSpecs :
         LET sameSpec == s.topo = app.topo /\ s.replicas = app.replicas
         IN /\ ~(sameSpec /\ s.wait = app.wait)
            /\ app' = [app EXCEPT !.topo = s.topo, !.replicas = s.replicas,
                                  !.wait = s.wait,
                                  !.gen = IF sameSpec THEN @ ELSE @ + 1]
    /\ Unattended

\* With a finalizer a delete only marks the AppSet.
UserDeletes ==
    /\ Edit /\ app # NoApp /\ ~app.del
    /\ app' = IF app.fin THEN [app EXCEPT !.del = TRUE, !.gen = @ + 1] ELSE NoApp
    /\ Unattended

-----------------------------------------------------------------------------
(***************************************************************************)
(* Informers, connections and the controllers of the member clusters       *)
(***************************************************************************)
\* A watch event of the AppSet, several changes possibly in one, through
\* predicateSpec into the queue. Of an AppSet that was deleted and created
\* again the watch brings both; when it broke in between, the list that
\* replaces it shows an update.
SyncApp ==
    LET reborn == cache # NoApp /\ app # NoApp /\ cache.uid # app.uid
        asks   == cache # NoApp /\ app # NoApp => PredicateSpecUpdate(cache, app)
    IN /\ cache # app
       /\ cache' = app
       /\ \/ queued' = (queued \/ reborn \/ asks) /\ UNCHANGED troubles
          \/ reborn /\ Trouble /\ queued' = (queued \/ asks)
       /\ UNCHANGED <<world, seen, thread, edits>>

\* A watch event of a member cluster; every one is enqueued.
SyncAdv(c) ==
    /\ c \in conn /\ seen[c] # adv[c]
    /\ seen' = [seen EXCEPT ![c] = adv[c]]
    /\ queued' = TRUE
    /\ UNCHANGED <<world, cache, thread, bounds>>

\* The periodic resync replays every object of the copies as an update that
\* changes nothing: predicateSpec drops it unless the AppSet is being deleted.
Resync ==
    /\ ~queued
    /\ \/ cache # NoApp /\ PredicateSpecUpdate(cache, cache)
       \/ \E c \in conn : seen[c] # NoAdv
    /\ queued' = TRUE
    /\ UNCHANGED <<world, copies, thread, bounds>>

Disconnect(c) ==
    /\ Trouble /\ c \in conn
    /\ conn' = conn \ {c}
    /\ UNCHANGED <<app, adv, copies, queued, thread, edits>>

\* A reconnected cluster gets a new client: its informer lists the cluster and
\* reports what exists.
Reconnect(c) ==
    /\ c \notin conn
    /\ conn' = conn \cup {c}
    /\ seen' = [seen EXCEPT ![c] = adv[c]]
    /\ queued' = (queued \/ adv[c] # NoAdv)
    /\ UNCHANGED <<app, adv, cache, thread, bounds>>

\* The controller of cluster c reports what its workload does, as its contract
\* with the master allows. How many pods are available while not all are decides
\* nothing and is taken as none. A pod that goes down is a trouble, and so is an
\* autoscaler that comes in late.
Report(c) ==
    /\ adv[c] # NoAdv
    /\ \E phase \in IF adv[c].phase = "" THEN FirstReports
                   ELSE {"Installing", "Running"}, lag \in ReportLags :
       \E pods \in IF phase = "Running" THEN PodCounts[c] ELSE {0} :
         LET obs == adv[c].gen - lag
         IN /\ MayReport(adv[c].gen, obs, phase)
            /\ adv' = [adv EXCEPT ![c] = [@ EXCEPT !.phase = phase, !.obs = obs,
                                                  !.available = pods]]
    /\ adv' # adv
    /\ IF adv[c].phase = "Running" THEN Trouble ELSE UNCHANGED troubles
    /\ UNCHANGED <<app, conn, copies, queued, thread, edits>>

\* The process dies and is started again: the informers list everything and
\* every listed object is enqueued.
Crash ==
    /\ Trouble
    /\ pc' = "idle" /\ ctx' = NewContext /\ Reset
    /\ cache' = app
    /\ seen' = [c \in Clusters |-> IF c \in conn THEN adv[c] ELSE NoAdv]
    /\ queued' = (app # NoApp \/ \E c \in conn : adv[c] # NoAdv)
    /\ UNCHANGED <<world, edits>>

Users == UserCreates \/ UserEdits \/ UserDeletes

Environment == \/ Users \/ SyncApp \/ Resync \/ Crash
               \/ \E c \in Clusters : \/ SyncAdv(c) \/ Disconnect(c)
                                      \/ Reconnect(c) \/ Report(c)

-----------------------------------------------------------------------------
Init ==
    /\ app = NoApp /\ cache = NoApp
    /\ adv \in [Clusters -> Leftovers \cup {NoAdv}]
    /\ seen = [c \in Clusters |-> NoAdv]
    /\ conn = Clusters
    /\ queued = FALSE
    /\ pc = "idle" /\ ctx = NewContext
    /\ loc = NoApp /\ go = Idle /\ changed = FALSE
    /\ list = <<>> /\ found = {} /\ todo = {} /\ status = NoStatus /\ tries = 0
    /\ edits = 0 /\ troubles = 0

Next == Master \/ Environment

\* The thread runs, watch events of connected clusters arrive and resyncs come
\* round. Nobody owes an edit, a failure, a reconnection or a status report.
Fairness == /\ WF_vars(Master)
            /\ WF_vars(SyncApp)
            /\ WF_vars(Resync)
            /\ \A c \in Clusters : WF_vars(SyncAdv(c))

Safety == Init /\ [][Next]_vars
Spec   == Safety /\ Fairness

-----------------------------------------------------------------------------
(***************************************************************************)
(* Properties                                                              *)
(***************************************************************************)
Pcs == {"idle", "get", "sweep", "removeFinalizer", "addFinalizer", "apply",
        "readStatus", "writeStatus", "unuse", "survey", "retire"}

GoPcs == {"idle", "todo", "create", "update", "done", "absent", "deleted",
          "failed"}

WorldOK ==
    /\ app \in AppSets \cup {NoApp} /\ cache \in AppSets \cup {NoApp}
    /\ adv \in [Clusters -> AdvDeployments \cup {NoAdv}]
    /\ seen \in [Clusters -> AdvDeployments \cup {NoAdv}]
    /\ conn \in SUBSET Clusters
    /\ edits \in Nat /\ troubles \in Nat

ThreadOK ==
    /\ queued \in BOOLEAN
    /\ pc \in Pcs
    /\ loc \in AppSets \cup {NoApp}
    /\ pc \in {"idle", "get"} => loc = NoApp
    /\ loc = NoApp => pc \in {"idle", "get", "sweep"}
    /\ ctx \in Contexts
    /\ go \in [Clusters -> GoPcs]
    /\ changed \in BOOLEAN
    /\ list \in Seq(Entries)
    /\ found \in SUBSET Entries
    /\ todo \in SUBSET Clusters
    /\ status \in Statuses
    /\ tries \in Nat

\* Every variable stays in its range, and the thread has an AppSet exactly in
\* the steps that use one.
TypeOK == WorldOK /\ ThreadOK

\* An AdvDeployment is created only for an AppSet that still exists, is the
\* one that was read, and is protected by the finalizer: otherwise a delete of
\* the AppSet could leave it behind for good (stepAddFinalizer before
\* stepApplySpec, and every write between the read and the create).
CreateOnlyProtected ==
    [][\A c \in Clusters : adv[c] = NoAdv /\ adv'[c] # NoAdv
         => app # NoApp /\ app.fin /\ app.uid = loc.uid]_vars

\* The finalizer goes only when no cluster that answered still has the
\* AdvDeployment, in a run that itself found nothing to delete.
FinalizedClean ==
    [][pc = "removeFinalizer" /\ app # NoApp /\ app' = NoApp
         => \A c \in Clusters : /\ go[c] # "deleted"
                                /\ go[c] = "absent" => adv[c] = NoAdv]_vars

\* What the controller writes to an AppSet never undoes what a user did to it
\* meanwhile, nor brings back an AppSet that is gone.
NoLostUpdate ==
    [][pc # "idle" /\ app' # app /\ edits' = edits /\ app' # NoApp
         => /\ app # NoApp
            /\ app'.uid = app.uid /\ app'.gen = app.gen
            /\ app'.topo = app.topo /\ app'.wait = app.wait
            /\ app'.del = app.del
            /\ app.fin => app'.fin]_vars

\* What a status says of the targets of an AppSet a: the pods that are listed
\* add up to spec.replicas. Only a sum is compared, so a cluster with more pods
\* than its share, which an autoscaler can make, may stand for one that was
\* never heard; where there is none, every target is listed with its share.
Share(a, c) == IF c \in Targets(a) THEN a.topo[c].pods ELSE 0

Covers(s, a) ==
    /\ AvailablePods(s.clusters) = a.replicas
    /\ (\A i \in DOMAIN s.clusters :
          s.clusters[i].available <= Share(a, s.clusters[i].name))
         => \A c \in Targets(a) : a.topo[c].pods > 0 =>
              \E i \in DOMAIN s.clusters :
                s.clusters[i] = [name |-> c, available |-> a.topo[c].pods]

\* An AppSet whose status says Running for its own generation had as many pods
\* available as its spec asks for, and unless one cluster had too many, each
\* target had its own: none was left out because it could not be reached, and
\* no older topology stands behind the newer generation.
RunningCoversTargets ==
    app # NoApp /\ app.status.phase = "Running" /\ app.status.obs = app.gen
      => Covers(app.status, app)

\* While no call fails, no cluster goes down and the process stays up: an
\* AdvDeployment exists only together with an AppSet that has the finalizer, so
\* that whoever deletes the AppSet takes everything along.
NoOrphans ==
    troubles = 0 /\ Leftovers = {} =>
      \A c \in Clusters : adv[c] # NoAdv => app # NoApp /\ app.fin

\* What RunningCoversTargets takes of users: a replica for every pod.
ReplicasCoverTargets ==
    \A s \in UserSpecs : s.replicas >= Pods(s.topo)

-----------------------------------------------------------------------------
(***************************************************************************)
(* What users and clusters may rely on. The thread's AppSet is the copy    *)
(* that the abstract master works with.                                    *)
(***************************************************************************)
Bare(a) == IF a = NoApp THEN NoApp
           ELSE [uid |-> a.uid, topo |-> a.topo, fin |-> a.fin, del |-> a.del]

Abs == INSTANCE AppSetAbs WITH app   <- Bare(app),
                               copy  <- Bare(cache),
                               view  <- Bare(loc),
                               clock <- edits,
                               calm  <- troubles = 0

\* Whatever fails, lags or is done meanwhile, the steps, goroutines, retries
\* and restarts of the master come to a life of the AppSet and of its
\* AdvDeployments as AppSetAbs describes it: in particular a cluster loses its
\* AdvDeployment only with the AppSet or because an edit left the cluster out.
ImplementsAbs == Abs!Spec

-----------------------------------------------------------------------------
\* Liveness

\* A deleted AppSet goes, whatever calls fail and even if a cluster stays
\* down: errors of the sweep do not hold the finalizer, and a failed update of
\* the AppSet is made up for by the next resync, which predicateSpec lets
\* through for an AppSet that is being deleted.
DeletionCompletes == (app # NoApp /\ app.del) ~> (app = NoApp \/ ~app.del)

\* What an AppSet that is gone left on a cluster is deleted there in the end,
\* also when the cluster was down or the delete failed at the time: "when the
\* cluster reconnected, will re-reconcile" (step.go:44-45).
OrphansCleaned ==
    \A c \in Clusters :
      (app = NoApp /\ adv[c] # NoAdv)
        ~> (app # NoApp \/ adv[c] = NoAdv \/ c \notin conn)

Wanted(c) == app # NoApp /\ ~app.del /\ c \in Targets(app)

\* Every connected cluster an AppSet targets gets its AdvDeployment.
Deployed ==
    \A c \in Clusters :
      Wanted(c) ~> (~Wanted(c) \/ adv[c] # NoAdv \/ c \notin conn)

\* The same, as long as no call failed, no cluster went down and the process
\* stayed up: the finalizer's own event, the create's and those of the users
\* are enough to bring the thread to stepApplySpec as often as it is needed.
DeployedUndisturbed ==
    \A c \in Clusters :
      Wanted(c) ~> (~Wanted(c) \/ adv[c] # NoAdv \/ troubles > 0)

Running(c) == /\ adv[c] # NoAdv /\ ~Installing(adv[c])
              /\ adv[c].available = app.topo[c].pods
              /\ adv[c].zone = ZoneLabel(app.topo[c])

AllRunning == /\ app # NoApp /\ ~app.del
              /\ app.replicas = Pods(app.topo)
              /\ \A c \in Targets(app) : c \in conn /\ Running(c)

\* When every target runs its share, the AppSet says so in the end, for the
\* generation it has, whatever calls fail and conflicts are met: what it reports
\* brings the key, and a status that was not written is an error. It takes
\* that the labels are those wanted: while they differ, each run believes its
\* refused update to be a change and stops before the status (step.go:171).
StatusFollows ==
    AllRunning
      ~> (AllRunning => app.status.phase = "Running" /\ app.status.obs = app.gen)

\* Does stepApplySpec reach its end? A target whose labels are not those wanted
\* stops every run there (step.go:171).
Labelled == \A t \in Targets(app) \cap conn :
              adv[t] # NoAdv => adv[t].zone = ZoneLabel(app.topo[t])

\* Is c kept for its zone? The zone is wanted, and another cluster where the
\* AppSet was last seen in this zone does not run.
KeptForZone(c) ==
    /\ \E t \in Targets(app) : app.topo[t].zone = adv[c].zone
    /\ \E d \in Clusters \ {c} : /\ seen[d] # NoAdv /\ seen[d].zone = adv[c].zone
                                /\ Installing(seen[d])

Unwanted(c) == /\ app # NoApp /\ ~app.del /\ ~app.wait /\ ~SomeZoneUnknown(app)
               /\ c \notin Targets(app) /\ adv[c] # NoAdv
               /\ Labelled /\ adv[c].zone # NoLabel /\ ~KeptForZone(c)

\* What an AppSet has on a cluster that it no longer targets goes, also when a
\* delete fails, because the cluster's own resync brings the key back. This is
\* for AppSets that do not wait: the others never see that all is ready, since
\* the phase is put in the context as another type than it is read with. And
\* it is for what carries a zone label and is not kept for its zone, as long
\* as no target has labels that stop the run before.
UnwantedRetired ==
    \A c \in Clusters : Unwanted(c) ~> (~Unwanted(c) \/ c \notin conn)

-----------------------------------------------------------------------------
\* What the code says of itself and does not do

\* "ObservedGeneration is the most recent generation observed" (api/v1beta1/
\* appset_types.go:128): a status that says Running for the AppSet's own
\* generation stands for what that generation asks for.
RunningMeansApplied ==
    app # NoApp /\ app.status.phase = "Running" /\ app.status.obs = app.gen
      => \A c \in Targets(app) :
           adv[c] # NoAdv => adv[c].image = app.topo[c].image
=============================================================================
