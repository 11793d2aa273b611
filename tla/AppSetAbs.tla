------------------------------ MODULE AppSetAbs ------------------------------
(***************************************************************************)
(* What the users of an AppSet and the owners of the member clusters may   *)
(* rely on: the life of one AppSet and of its AdvDeployments, without      *)
(* queue, steps, goroutines, conflicts or status. The master looks at a    *)
(* copy of the AppSet that may be old, and yet:                            *)
(*   - only users change what is asked for; the master adds the finalizer  *)
(*     to an AppSet that stays and takes it from one that goes;            *)
(*   - a cluster gets an AdvDeployment only for an AppSet that is there,   *)
(*     with its finalizer, as some edit of this very AppSet asked for it;  *)
(*   - what a cluster has is changed only in its status, and goes only     *)
(*     with the AppSet or because some edit of it left out the cluster;    *)
(*   - and while no call fails, no cluster goes down and the process stays *)
(*     up, a finalized AppSet leaves nothing behind.                       *)
(***************************************************************************)
EXTENDS AppSetRules, StatusContract

CONSTANTS Clusters, Topologies, Leftovers, PodCounts, NoApp, NoAdv

VARIABLES app,    \* the AppSet that is stored: [uid, topo, fin, del]
          copy,   \* the copy of the informer
          view,   \* the copy a reconcile works with
          adv,    \* per cluster, its AdvDeployment
          clock,  \* how often users have done something
          calm    \* has nothing gone wrong so far?

vars == <<app, copy, view, adv, clock, calm>>

Init == /\ app = NoApp /\ copy = NoApp /\ view = NoApp
        /\ adv \in [Clusters -> Leftovers \cup {NoAdv}]
        /\ clock = 0 /\ calm = TRUE

-----------------------------------------------------------------------------
\* Users

Act == clock' = clock + 1 /\ UNCHANGED <<copy, view, adv>>

Create == /\ Act /\ app = NoApp
          /\ \E t \in Topologies :
               app' = [uid |-> clock + 1, topo |-> t, fin |-> FALSE, del |-> FALSE]

Edit == /\ Act /\ app # NoApp /\ ~app.del
        /\ \E t \in Topologies : app' = [app EXCEPT !.topo = t]

Delete == /\ Act /\ app # NoApp /\ ~app.del
          /\ app' = IF app.fin THEN [app EXCEPT !.del = TRUE] ELSE NoApp

-----------------------------------------------------------------------------
\* The master

\* The informer catches up; so does, after a restart, all at once.
Observe == /\ copy' = app /\ view' \in {view, NoApp}
           /\ UNCHANGED <<app, adv, clock>>

\* A reconcile takes the copy there is, or ends.
Look == /\ view' \in {copy, NoApp}
        /\ UNCHANGED <<app, copy, adv, clock>>

Protect == /\ app # NoApp /\ ~app.del /\ ~app.fin /\ app = view
           /\ app' = [app EXCEPT !.fin = TRUE]
           /\ view' = NoApp
           /\ UNCHANGED <<copy, adv, clock>>

Release == /\ app # NoApp /\ app.del /\ app.fin /\ app = view
           /\ calm => \A c \in Clusters : adv[c] = NoAdv
           /\ app' = NoApp /\ view' = NoApp
           /\ UNCHANGED <<copy, adv, clock>>

Deploy(c) == /\ app # NoApp /\ app.fin
             /\ view # NoApp /\ view.uid = app.uid /\ ~view.del
             /\ c \in Targets(view) /\ adv[c] = NoAdv
             /\ adv' = [adv EXCEPT ![c] = BuildAdvdeployment(view, c)]
             /\ UNCHANGED <<app, copy, view, clock>>

\* The AppSet is gone or going, or never had anything here.
Sweep(c) == /\ app = NoApp \/ app.del \/ ~app.fin
            /\ adv' = [adv EXCEPT ![c] = NoAdv]
            /\ UNCHANGED <<app, copy, view, clock>>

Retire(c) == /\ app # NoApp /\ view # NoApp /\ view.uid = app.uid
             /\ c \notin Targets(view)
             /\ adv' = [adv EXCEPT ![c] = NoAdv]
             /\ UNCHANGED <<app, copy, view, clock>>

-----------------------------------------------------------------------------
\* The workers of the clusters, and what goes wrong

Report(c) == /\ adv[c] # NoAdv
             /\ \E phase \in {"Installing", "Running"}, obs \in 0..adv[c].gen,
                   pods \in {0} \cup PodCounts[c] :
                  /\ MayReport(adv[c].gen, obs, phase)
                  /\ adv' = [adv EXCEPT ![c] = [@ EXCEPT !.phase = phase, !.obs = obs,
                                                        !.available = pods]]
             /\ UNCHANGED <<app, copy, view, clock>>

Trouble == UNCHANGED <<app, copy, view, adv, clock>>

-----------------------------------------------------------------------------
\* Any step may be one in which something goes wrong as well.
Next == /\ calm' \in {calm, FALSE}
        /\ \/ Trouble
           \/ Observe \/ Look \/ Protect \/ Release
           \/ Create \/ Edit \/ Delete
           \/ \E c \in Clusters : Deploy(c) \/ Sweep(c) \/ Retire(c) \/ Report(c)

Spec == Init /\ [][Next]_vars
=============================================================================
