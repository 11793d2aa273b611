------------------------ MODULE AppSetStatusProofs ------------------------
(***************************************************************************)
(* What an AppSet's status says when it says Running, for every finite set *)
(* of clusters, any number of pods on each, every number of edits,         *)
(* failures and crashes, and users who ask for at least as many replicas   *)
(* as pods: so many pods were available, and each target had its share     *)
(* unless a cluster had more than its own. The invariant follows the       *)
(* status from the answers of the clusters through the retries of its      *)
(* write, while users edit the AppSet and delete it, to the stored object  *)
(* and on.                                                                 *)
(***************************************************************************)
EXTENDS AppSetMasterProofs, FiniteSetTheorems

\* Whatever copy of the AppSet is around asks for a replica for every pod.
Sized ==
    \A a \in {app, cache, loc} : a # NoApp => a.replicas >= Pods(a.topo)

\* What is asked for in a is asked for in b too.
AsksSame(a, b) == a.topo = b.topo /\ a.replicas = b.replicas

\* Of one incarnation, a copy of the same generation asks for the same, and
\* none has a later generation than what is stored.
Older(a) ==
    a # NoApp /\ app # NoApp /\ a.uid = app.uid =>
      /\ a.gen <= app.gen
      /\ a.gen = app.gen => AsksSame(a, app)

GenInv == Older(cache) /\ (pc \in {"apply", "readStatus"} => Older(loc))

\* The list of the answers: of targets only, and of each one at most once.
ListInv ==
    /\ pc # "readStatus" => list = <<>>
    /\ pc = "readStatus" =>
         /\ \A c \in Clusters : go[c] = "todo" => c \in Targets(loc)
         /\ \A i \in DOMAIN list : /\ list[i].name \in Targets(loc)
                                   /\ go[list[i].name] = "done"
         /\ \A i, j \in DOMAIN list : list[i].name = list[j].name => i = j

\* A status that says Running is of no later generation than the AppSet a, and
\* covers the targets of a if it is of its own.
Backed(s, a) ==
    s.phase = "Running" =>
      /\ s.obs <= a.gen
      /\ s.obs = a.gen => Covers(s, a)

StatusInv == /\ app # NoApp => Backed(app.status, app)
             /\ pc = "writeStatus" => Backed(status, app)

CoverInv == Sized /\ GenInv /\ ListInv /\ StatusInv

-----------------------------------------------------------------------------
\* Sums

\* The sum of a function over a finite set counts the pairs of a finite set.
LEMMA PairsFinite ==
    ASSUME NEW D, IsFiniteSet(D), NEW f \in [D -> Nat]
    PROVE  IsFiniteSet(PairsOf(f))
<1> DEFINE column == [x \in D |-> {x} \X (1..f[x])]
           Columns == {{x} \X (1..f[x]) : x \in D}
<1>1. column \in Surjection(D, Columns)
  BY DEF Surjection
<1>2. IsFiniteSet(Columns)
  BY <1>1, FS_Surjection
<1>3. ASSUME NEW x \in D PROVE IsFiniteSet({x} \X (1..f[x]))
  <2>1. IsFiniteSet({x})
    BY FS_Singleton
  <2>2. IsFiniteSet(1..f[x])
    BY FS_Interval
  <2>3. QED
    BY <2>1, <2>2, FS_Product
<1>4. IsFiniteSet(UNION Columns)
  BY <1>2, <1>3, FS_UNION
<1>5. QED
  BY <1>4 DEF PairsOf

\* What is in the pairs of a function.
LEMMA InPairs ==
    ASSUME NEW D, NEW f \in [D -> Nat]
    PROVE  /\ \A x \in D : \A k \in 1..f[x] : <<x, k>> \in PairsOf(f)
           /\ \A p \in PairsOf(f) : /\ p = <<p[1], p[2]>>
                                     /\ p[1] \in D
                                     /\ p[2] \in 1..f[p[1]]
BY DEF PairsOf

\* Numbers g of different things, none above its share, that add up to no less
\* than all the shares f: each share is there, and in full.
LEMMA FullShares ==
    ASSUME NEW D, IsFiniteSet(D), NEW f \in [D -> Nat],
           NEW I, NEW g \in [I -> Nat], NEW name \in Injection(I, D),
           \A i \in I : g[i] <= f[name[i]],
           SumOf(g) >= SumOf(f)
    PROVE  \A c \in D : f[c] > 0 => \E i \in I : name[i] = c /\ g[i] = f[c]
<1> DEFINE place == [p \in PairsOf(g) |-> <<name[p[1]], p[2]>>]
<1>1. name \in [I -> D] /\ \A i, j \in I : name[i] = name[j] => i = j
  BY DEF Injection, IsInjective
<1>2. ASSUME NEW p \in PairsOf(g)
      PROVE  place[p] \in PairsOf(f)
  <2>1. p[1] \in I /\ p[2] \in 1..g[p[1]]
    BY InPairs
  <2>2. name[p[1]] \in D /\ p[2] \in 1..f[name[p[1]]]
    BY <1>1, <2>1
  <2>3. QED
    BY <2>2, InPairs
<1>3. ASSUME NEW p \in PairsOf(g), NEW q \in PairsOf(g), place[p] = place[q]
      PROVE  p = q
  <2>1. /\ p = <<p[1], p[2]>> /\ p[1] \in I
        /\ q = <<q[1], q[2]>> /\ q[1] \in I
    BY InPairs
  <2>2. name[p[1]] = name[q[1]] /\ p[2] = q[2]
    BY <1>3
  <2>3. QED
    BY <1>1, <2>1, <2>2
<1>4. place \in Injection(PairsOf(g), PairsOf(f))
  BY <1>2, <1>3 DEF Injection, IsInjective
<1>5. IsFiniteSet(PairsOf(f))
  BY PairsFinite
<1>6. /\ IsFiniteSet(PairsOf(g))
      /\ Cardinality(PairsOf(g)) <= Cardinality(PairsOf(f))
      /\ Cardinality(PairsOf(g)) = Cardinality(PairsOf(f))
            => place \in Surjection(PairsOf(g), PairsOf(f))
  BY <1>4, <1>5, FS_Injection
<1>7. Cardinality(PairsOf(g)) = Cardinality(PairsOf(f))
  BY <1>5, <1>6, FS_CardinalityType DEF SumOf
<1>8. \A t \in PairsOf(f) : \E p \in PairsOf(g) : place[p] = t
  BY <1>6, <1>7 DEF Surjection
<1>9. ASSUME NEW c \in D, f[c] > 0
      PROVE  \E i \in I : name[i] = c /\ g[i] = f[c]
  <2>1. <<c, f[c]>> \in PairsOf(f)
    BY <1>9, InPairs
  <2>2. PICK p \in PairsOf(g) : place[p] = <<c, f[c]>>
    BY <1>8, <2>1
  <2>3. name[p[1]] = c /\ p[2] = f[c]
    BY <2>2
  <2>4. p[1] \in I /\ p[2] \in 1..g[p[1]]
    BY InPairs
  <2>5. g[p[1]] = f[c]
    BY <1>1, <2>3, <2>4
  <2>6. QED
    BY <2>3, <2>4, <2>5
<1>10. QED
  BY <1>9

-----------------------------------------------------------------------------
\* What the answers make of a status

\* If buildAppsetStatus says Running over answers of different targets, these
\* answers cover the AppSet and the generation is the AppSet's.
LEMMA RunningCovers ==
    ASSUME NEW a \in AppSets, NEW l \in Seq(Entries), IsFiniteSet(Targets(a)),
           a.replicas >= Pods(a.topo),
           \A i \in DOMAIN l : l[i].name \in Targets(a),
           \A i, j \in DOMAIN l : l[i].name = l[j].name => i = j,
           BuildAppsetStatus(a, l).phase = "Running"
    PROVE  /\ BuildAppsetStatus(a, l).obs = a.gen
           /\ Covers(BuildAppsetStatus(a, l), a)
<1> DEFINE s      == BuildAppsetStatus(a, l)
           share  == [c \in Targets(a) |-> a.topo[c].pods]
           counts == [i \in DOMAIN l |-> l[i].adv.available]
           name   == [i \in DOMAIN l |-> l[i].name]
<1>1. /\ Having(l, Installing) = {}
      /\ AvailablePods(ClusterStatuses(l)) = a.replicas
  BY DEF BuildAppsetStatus
<1>2. s.obs = a.gen
  BY <1>1 DEF BuildAppsetStatus, Having, Installing
<1>3. s.clusters = [i \in DOMAIN l |-> [name |-> l[i].name,
                                        available |-> l[i].adv.available]]
  BY DEF BuildAppsetStatus, ClusterStatuses
<1>4. SumOf(counts) = a.replicas
  BY <1>1 DEF AvailablePods, ClusterStatuses
<1>5. SumOf(counts) >= SumOf(share)
  BY <1>4 DEF Pods, Targets
<1>6. counts \in [DOMAIN l -> Nat]
  <2>1. \A i \in DOMAIN l : l[i] \in Entries
    OBVIOUS
  <2>2. QED
    BY <2>1 DEF Entries, AdvDeployments
<1>7. share \in [Targets(a) -> Nat]
  <2>1. a.topo \in [DOMAIN a.topo -> [image : STRING, zone : STRING, pods : Nat]]
    BY MasterAssumption DEF AppSets, Topologies
  <2>2. QED
    BY <2>1 DEF Targets
<1>8. name \in Injection(DOMAIN l, Targets(a))
  BY DEF Injection, IsInjective
<1>9. ASSUME \A i \in DOMAIN s.clusters :
                s.clusters[i].available <= Share(a, s.clusters[i].name),
             NEW c \in Targets(a), a.topo[c].pods > 0
      PROVE  \E i \in DOMAIN s.clusters :
                s.clusters[i] = [name |-> c, available |-> a.topo[c].pods]
  <2>1. \A i \in DOMAIN l : counts[i] <= share[name[i]]
    BY <1>3, <1>9 DEF Share
  <2>2. share[c] > 0
    BY <1>9
  <2> HIDE DEF share, counts, name
  <2>3. PICK i \in DOMAIN l : name[i] = c /\ counts[i] = share[c]
    <3>1. \A d \in Targets(a) : share[d] > 0 =>
             \E i \in DOMAIN l : name[i] = d /\ counts[i] = share[d]
      BY <1>5, <1>6, <1>7, <1>8, <2>1, FullShares, SMTT(60)
    <3>2. QED
      BY <2>2, <3>1
  <2>4. l[i].name = c /\ l[i].adv.available = a.topo[c].pods
    BY <2>3 DEF share, counts, name
  <2>5. QED
    BY <1>3, <2>4
<1>10. Covers(s, a)
  BY <1>1, <1>3, <1>9 DEF Covers, BuildAppsetStatus
<1>11. QED
  BY <1>2, <1>10

\* Whether a status covers or is backed hangs on what the AppSet asks for, and
\* on its generation.
LEMMA BackedSame ==
    ASSUME NEW s, NEW a, NEW b, AsksSame(a, b)
    PROVE  /\ Covers(s, a) => Covers(s, b)
           /\ a.gen = b.gen /\ Backed(s, a) => Backed(s, b)
BY DEF AsksSame, Covers, Share, Targets, Backed

\* The targets of an AppSet are some of the member clusters.
LEMMA TargetsFinite ==
    ASSUME NEW a \in AppSets
    PROVE  Targets(a) \subseteq Clusters /\ IsFiniteSet(Targets(a))
<1>1. Targets(a) \subseteq Clusters
  BY MasterAssumption DEF AppSets, Topologies, Targets
<1>2. QED
  BY <1>1, MasterAssumption, FS_Subset

-----------------------------------------------------------------------------
\* Steps that leave the AppSet alone

\* What a step that keeps the AppSet, its copies, the place in the reconcile
\* and what was gathered keeps, keeps the invariant.
LEMMA CoverFrame ==
    ASSUME CoverInv,
           UNCHANGED <<app, cache, loc, pc, list, status>>,
           pc # "readStatus" \/ UNCHANGED go
    PROVE  CoverInv'
<1>1. Sized' /\ GenInv'
  BY DEF CoverInv, Sized, GenInv, Older
<1>2. ListInv' /\ StatusInv'
  BY DEF CoverInv, ListInv, StatusInv, Backed
<1>3. QED
  BY <1>1, <1>2 DEF CoverInv

\* So does one to a place where no status is in the making.
LEMMA CoverAway ==
    ASSUME CoverInv,
           UNCHANGED <<app, cache>>,
           loc' \in {loc, cache, NoApp},
           pc' \notin {"apply", "readStatus", "writeStatus"},
           list' = <<>>
    PROVE  CoverInv'
<1>1. Sized' /\ GenInv'
  BY DEF CoverInv, Sized, GenInv, Older
<1>2. ListInv' /\ StatusInv'
  BY DEF CoverInv, ListInv, StatusInv, Backed
<1>3. QED
  BY <1>1, <1>2 DEF CoverInv

\* A reconcile that ends, without having written the AppSet.
LEMMA CoverFinish ==
    ASSUME CoverInv, UNCHANGED <<app, cache>>, NEW cx, NEW err, Finish(cx, err)
    PROVE  CoverInv'
BY CoverAway DEF Finish, Reset

\* At the start there is no AppSet.
THEOREM CoverInit == Init => CoverInv
BY DEF Init, CoverInv, Sized, GenInv, Older, ListInv, StatusInv

-----------------------------------------------------------------------------
\* The thread

\* An AppSet on its way to stepApplySpec is the one that is stored.
LEMMA CoverBegin ==
    ASSUME TypeInv, AppInv, HoldInv, CoverInv, pc = "get", UNCHANGED <<app, cache>>,
           Begin(cache)
    PROVE  CoverInv'
<1>1. loc' = cache /\ UNCHANGED <<list, status>> /\ list = <<>>
  BY DEF Begin, CoverInv, ListInv
<1>2. CASE pc' = "apply"
  <2>1. cache # NoApp /\ cache.fin /\ ~cache.del
    BY <1>2 DEF Begin
  <2>2. app # NoApp /\ app.fin /\ app.uid = cache.uid
    BY <2>1 DEF AppInv, CopiesInv, Protected
  <2>3. QED
    BY <1>1, <1>2, <2>1, <2>2
    DEF CoverInv, Sized, GenInv, Older, ListInv, StatusInv, Backed
<1>3. CASE pc' # "apply"
  <2>1. pc' \notin {"apply", "readStatus", "writeStatus"}
    BY <1>3 DEF Begin
  <2>2. QED
    BY <1>1, <2>1, CoverAway
<1>4. QED
  BY <1>2, <1>3

\* What the answers make of the status stands for the stored generation, or
\* for an earlier one.
LEMMA CoverDecide ==
    ASSUME TypeInv, HoldInv, CoverInv, DecideStatus
    PROVE  CoverInv'
<1>1. /\ UNCHANGED <<app, cache, loc>> /\ list' = <<>>
      /\ pc = "readStatus" /\ pc' \in {"unuse", "writeStatus"}
      /\ pc' = "writeStatus" => status' = BuildAppsetStatus(loc, list)
  BY DEF DecideStatus, Continue, world, copies
<1>2. CASE pc' = "unuse"
  BY <1>1, <1>2, CoverAway
<1>3. CASE pc' = "writeStatus"
  <2> DEFINE as == BuildAppsetStatus(loc, list)
  <2>1. loc # NoApp /\ loc \in AppSets /\ list \in Seq(Entries)
    BY <1>1 DEF TypeInv, TypeOK, ThreadOK
  <2>2. app # NoApp /\ app.uid = loc.uid /\ Older(loc)
    BY <1>1 DEF CoverInv, GenInv, HoldInv, SyncedInv, Held, Working
  <2>3. loc.gen <= app.gen /\ (loc.gen = app.gen => AsksSame(loc, app))
    BY <2>1, <2>2 DEF Older
  <2>4. ASSUME as.phase = "Running"
        PROVE  as.obs = loc.gen /\ Covers(as, loc)
    <3>1. IsFiniteSet(Targets(loc)) /\ loc.replicas >= Pods(loc.topo)
      BY <2>1, TargetsFinite DEF CoverInv, Sized
    <3>2. /\ \A i \in DOMAIN list : list[i].name \in Targets(loc)
          /\ \A i, j \in DOMAIN list : list[i].name = list[j].name => i = j
      BY <1>1 DEF CoverInv, ListInv
    <3>3. QED
      BY <2>1, <2>4, <3>1, <3>2, RunningCovers
  <2> HIDE DEF as
  <2>5. Backed(as, app)
    BY <2>3, <2>4, BackedSame DEF Backed
  <2>6. StatusInv'
    <3>1. status' = as
      BY <1>1, <1>3 DEF as
    <3>2. Backed(status, app)'
      BY <1>1, <2>5, <3>1
    <3>3. app' # NoApp => Backed(app.status, app)'
      BY <1>1 DEF CoverInv, StatusInv
    <3>4. QED
      BY <3>2, <3>3 DEF StatusInv
  <2>7. QED
    BY <1>1, <1>3, <2>6
    DEF CoverInv, Sized, GenInv, Older, ListInv
<1>4. QED
  BY <1>1, <1>2, <1>3

\* The write of a status: it is taken by the AppSet it is about, of whatever
\* generation that is by now, or made again for what the informer shows.
LEMMA CoverWrite ==
    ASSUME TypeInv, HoldInv, CoverInv, WriteStatus
    PROVE  CoverInv'
<1>1. /\ pc = "writeStatus" /\ UNCHANGED cache
      /\ loc \in AppSets /\ loc # NoApp /\ cache \in AppSets \cup {NoApp}
  BY DEF WriteStatus, copies, TypeInv, TypeOK, WorldOK, ThreadOK
<1>2. app' = app \/ (app = loc /\ app' = [loc EXCEPT !.status = status])
  BY DEF WriteStatus
<1>3. /\ loc' \in {NoApp, cache, app'} /\ list' \in {list, <<>>}
      /\ \/ pc' \in {"idle", "unuse"}
         \/ pc' = "writeStatus" /\ loc' = cache /\ cache # NoApp /\ UNCHANGED status
  BY <1>1, Zenon DEF WriteStatus, Finish, Reset, Continue
<1>4. /\ app' = NoApp <=> app = NoApp
      /\ app # NoApp => /\ app'.uid = app.uid /\ app'.gen = app.gen
                        /\ app'.topo = app.topo /\ app'.fin = app.fin
                        /\ app'.replicas = app.replicas
                        /\ app'.status \in {app.status, status}
  <2>1. CASE app' = app
    BY <2>1
  <2>2. CASE app = loc /\ app' = [loc EXCEPT !.status = status]
    <3>1. app' \in AppSets
      BY <1>1, <2>2 DEF AppSets, TypeInv, TypeOK, ThreadOK
    <3>2. app' # NoApp
      BY <3>1, MasterAssumption
    <3>3. QED
      BY <1>1, <2>2, <3>2 DEF AppSets
  <2>3. QED
    BY <1>2, <2>1, <2>2
<1>5. list = <<>> /\ list' = <<>>
  BY <1>1, <1>3 DEF CoverInv, ListInv
<1>6. Sized' /\ GenInv' /\ ListInv'
  BY <1>1, <1>3, <1>4, <1>5
  DEF CoverInv, Sized, GenInv, Older, AsksSame, ListInv
<1>7. app # NoApp => Backed(app.status, app) /\ Backed(status, app)
  BY <1>1 DEF CoverInv, StatusInv
<1>8. app # NoApp => AsksSame(app, app') /\ app.gen = app'.gen
  BY <1>4 DEF AsksSame
<1>9. app' # NoApp => Backed(app.status, app)' /\ Backed(status, app')
  BY <1>4, <1>7, <1>8, BackedSame
<1>10. pc' = "writeStatus" => Backed(status, app)'
  BY <1>1, <1>3, <1>4, <1>9
  DEF CoverInv, HoldInv, SyncedInv, Held, Working
<1>11. QED
  BY <1>6, <1>9, <1>10 DEF CoverInv, StatusInv

\* Every step of the thread outside its fan-outs keeps the invariant.
LEMMA CoverThread ==
    ASSUME TypeInv, AppInv, HoldInv, CoverInv,
           \/ Dequeue \/ GetAppSet \/ EndSweep \/ RemoveFinalizer
           \/ AddFinalizer \/ EndApply \/ DecideStatus \/ WriteStatus
           \/ DecideUnuse \/ EndSurvey \/ EndRetire
    PROVE  CoverInv'
<1>1. ASSUME NEW cx, NEW err, Finish(cx, err), UNCHANGED <<world, copies>>
      PROVE  CoverInv'
  <2>1. UNCHANGED <<app, cache>>
    BY <1>1 DEF world, copies
  <2>2. QED
    BY <1>1, <2>1, CoverFinish
<1>2. CASE Dequeue
  <2>1. /\ UNCHANGED <<app, cache, loc>> /\ list' = <<>> /\ pc' = "get"
    BY <1>2 DEF Dequeue, world, copies, CoverInv, ListInv
  <2>2. QED
    BY <2>1, CoverAway
<1>3. CASE GetAppSet
  <2>1. ASSUME Begin(cache) PROVE CoverInv'
    BY <1>3, <2>1, CoverBegin DEF GetAppSet, world, copies
  <2>2. QED
    BY <1>1, <1>3, <2>1 DEF GetAppSet
<1>4. CASE EndSweep
  <2>1. CASE pc' = "removeFinalizer"
    <3>1. UNCHANGED <<app, cache, loc>> /\ list' = <<>>
      BY <1>4, <2>1 DEF EndSweep, Finish, world, copies, CoverInv, ListInv
    <3>2. QED
      BY <2>1, <3>1, CoverAway
  <2>2. CASE pc' # "removeFinalizer"
    BY <1>1, <1>4, <2>2 DEF EndSweep
  <2>3. QED
    BY <2>1, <2>2
<1>5. CASE RemoveFinalizer
  <2>1. /\ UNCHANGED cache /\ app' \in {app, NoApp}
        /\ pc' = "idle" /\ loc' = NoApp /\ list' = <<>>
    BY <1>5, Zenon DEF RemoveFinalizer, Finish, Reset, copies
  <2>2. CASE app' = app
    BY <2>1, <2>2, CoverAway
  <2>3. CASE app' = NoApp
    BY <2>1, <2>3
    DEF CoverInv, Sized, GenInv, Older, ListInv, StatusInv
  <2>4. QED
    BY <2>1, <2>2, <2>3
<1>6. CASE AddFinalizer
  <2>1. /\ UNCHANGED cache
        /\ app' = app \/ (app = loc /\ app' = [loc EXCEPT !.fin = TRUE])
        /\ pc' = "idle" /\ loc' = NoApp /\ list' = <<>>
    BY <1>6, Zenon DEF AddFinalizer, Finish, Reset, copies
  <2>2. CASE app' = app
    BY <2>1, <2>2, CoverAway
  <2>3. CASE app = loc /\ app' = [loc EXCEPT !.fin = TRUE]
    <3>1. loc \in AppSets /\ loc # NoApp
      BY <1>6 DEF AddFinalizer, TypeInv, TypeOK, ThreadOK
    <3>2. /\ app'.uid = app.uid /\ app'.gen = app.gen /\ app'.topo = app.topo
          /\ app'.replicas = app.replicas /\ app'.status = app.status
      BY <2>3, <3>1 DEF AppSets
    <3>3. app # NoApp
      BY <2>3, <3>1
    <3>4. Backed(app'.status, app')
      BY <3>2, <3>3, BackedSame DEF CoverInv, StatusInv, AsksSame
    <3>5. QED
      BY <2>1, <3>2, <3>3, <3>4
      DEF CoverInv, Sized, GenInv, Older, AsksSame, ListInv, StatusInv
  <2>4. QED
    BY <2>1, <2>2, <2>3
<1>7. CASE EndApply
  <2>1. CASE pc' = "readStatus"
    <3>1. /\ UNCHANGED <<app, cache, loc, list, status>> /\ pc = "apply"
          /\ go' = FanOut(Targets(loc)) /\ list = <<>>
      BY <1>7, <2>1 DEF EndApply, Finish, world, copies, CoverInv, ListInv
    <3>2. ListInv'
      BY <2>1, <3>1 DEF ListInv, FanOut
    <3>3. QED
      BY <2>1, <3>1, <3>2
      DEF CoverInv, Sized, GenInv, Older, StatusInv, Backed
  <2>2. CASE pc' # "readStatus"
    BY <1>1, <1>7, <2>2 DEF EndApply
  <2>3. QED
    BY <2>1, <2>2
<1>8. CASE DecideUnuse \/ EndSurvey
  <2>1. CASE pc' \in {"survey", "retire"}
    <3>1. UNCHANGED <<app, cache, loc>> /\ list' = <<>>
      BY <1>8, <2>1
      DEF DecideUnuse, EndSurvey, Finish, world, copies, CoverInv, ListInv
    <3>2. QED
      BY <2>1, <3>1, CoverAway
  <2>2. CASE pc' \notin {"survey", "retire"}
    BY <1>1, <1>8, <2>2 DEF DecideUnuse, EndSurvey, Continue
  <2>3. QED
    BY <2>1, <2>2
<1>9. CASE EndRetire
  BY <1>1, <1>9 DEF EndRetire
<1>10. QED
  BY <1>2, <1>3, <1>4, <1>5, <1>6, <1>7, <1>8, <1>9, CoverDecide, CoverWrite

-----------------------------------------------------------------------------
\* The goroutines and the environment

\* Of the goroutines only those that read the status matter: each appends its
\* cluster's answer once and is done.
LEMMA CoverGoroutine ==
    ASSUME TypeInv, HoldInv, CoverInv, NEW c \in Clusters, Goroutine(c)
    PROVE  CoverInv'
<1>1. CASE ReadStatus(c)
  <2>1. /\ UNCHANGED <<app, cache, loc, pc, status>>
        /\ pc = "readStatus" /\ go[c] = "todo"
        /\ go' = [go EXCEPT ![c] = "done"]
        /\ list' \in {list, Append(list, Entry(c))}
    BY <1>1 DEF ReadStatus, Return, world, copies
  <2>2. go \in [Clusters -> GoPcs] /\ list \in Seq(Entries)
    BY DEF TypeInv, TypeOK, ThreadOK
  <2>3. c \in Targets(loc) /\ \A i \in DOMAIN list : list[i].name # c
    BY <2>1 DEF CoverInv, ListInv
  <2>4. /\ \A d \in Clusters : go'[d] = "todo" => go[d] = "todo"
        /\ \A d \in Clusters : go[d] = "done" => go'[d] = "done"
        /\ go'[c] = "done"
    BY <2>1, <2>2
  <2>5. \A i \in DOMAIN list : list[i].name \in Clusters
    <3>1. \A i \in DOMAIN list : list[i] \in Entries
      BY <2>2
    <3>2. QED
      BY <3>1 DEF Entries
  <2>6. CASE list' = list
    BY <2>1, <2>4, <2>5, <2>6
    DEF CoverInv, Sized, GenInv, Older, ListInv, StatusInv, Backed
  <2>7. CASE list' = Append(list, Entry(c))
    <3>1. /\ DOMAIN list' = 1..(Len(list) + 1) /\ DOMAIN list = 1..Len(list)
          /\ \A i \in 1..Len(list) : list'[i] = list[i]
          /\ list'[Len(list) + 1].name = c
          /\ Len(list) \in Nat
      BY <2>2, <2>7 DEF Entry
    <3>2. \A i \in DOMAIN list' : i \in DOMAIN list \/ i = Len(list) + 1
      BY <3>1
    <3>3. \A i \in DOMAIN list' : /\ list'[i].name \in Targets(loc)
                                  /\ go'[list'[i].name] = "done"
      BY <2>1, <2>3, <2>4, <2>5, <3>1, <3>2 DEF CoverInv, ListInv
    <3>4. \A i, j \in DOMAIN list' : list'[i].name = list'[j].name => i = j
      BY <2>1, <2>3, <3>1, <3>2 DEF CoverInv, ListInv
    <3>5. ListInv'
      BY <2>1, <2>4, <3>3, <3>4 DEF CoverInv, ListInv
    <3>6. QED
      BY <2>1, <3>5
      DEF CoverInv, Sized, GenInv, Older, StatusInv, Backed
  <2>8. QED
    BY <2>1, <2>6, <2>7
<1>2. CASE SweepCluster(c) \/ ApplyRead(c) \/ ApplyCreate(c)
             \/ ApplyUpdate(c) \/ Survey(c) \/ Retire(c)
  <2>1. UNCHANGED <<app, cache, loc, pc, list, status>> /\ pc # "readStatus"
    BY <1>2, Zenon
    DEF SweepCluster, ApplyRead, ApplyCreate, ApplyUpdate, Survey, Retire,
        world, copies
  <2>2. QED
    BY <2>1, CoverFrame
<1>3. QED
  BY <1>1, <1>2 DEF Goroutine

\* A change of the stored AppSet that keeps the incarnation, the finalizer and
\* the status, and makes a new generation if it changes what is asked for.
LEMMA NewGeneration ==
    ASSUME HoldInv, CoverInv, app \in AppSets, app # NoApp, app' # NoApp,
           UNCHANGED <<cache, loc, pc, list, go, status>>,
           app'.uid = app.uid, app'.fin = app.fin, app'.status = app.status,
           app'.replicas >= Pods(app'.topo),
           \/ app'.gen = app.gen /\ AsksSame(app, app')
           \/ app'.gen = app.gen + 1,
           WorldOK, ThreadOK
    PROVE  CoverInv'
<1>1. Sized' /\ ListInv'
  BY DEF CoverInv, Sized, ListInv
<1>2. \A a \in {cache, loc} : a # NoApp => a.gen \in Nat
  BY DEF WorldOK, ThreadOK, AppSets
<1>3. app.gen \in Nat /\ app.status.obs \in Nat /\ status.obs \in Nat
  BY DEF AppSets, Statuses, ThreadOK
<1>4. GenInv'
  BY <1>2, <1>3 DEF CoverInv, GenInv, Older, AsksSame
<1>5. ASSUME NEW s, s.obs \in Nat, Backed(s, app) PROVE Backed(s, app')
  <2>1. CASE app'.gen = app.gen /\ AsksSame(app, app')
    BY <1>5, <2>1, BackedSame
  <2>2. CASE app'.gen = app.gen + 1
    BY <1>3, <1>5, <2>2 DEF Backed
  <2>3. QED
    BY <2>1, <2>2
<1>6. StatusInv'
  BY <1>3, <1>5 DEF CoverInv, StatusInv
<1>7. QED
  BY <1>1, <1>4, <1>6 DEF CoverInv

\* An edit that changes what is targeted makes a new generation, which no
\* status stands for, and a deletion waits for the finalizer.
LEMMA CoverUsers ==
    ASSUME ReplicasCoverTargets, TypeInv, AppInv, HoldInv,
           CoverInv, Users
    PROVE  CoverInv'
<1>1. Unattended
  BY Zenon DEF Users, UserCreates, UserEdits, UserDeletes
<1>2. UNCHANGED <<cache, loc, pc, go, list, status>>
  BY <1>1 DEF Unattended, copies, thread
<1>3. ListInv'
  BY <1>2 DEF CoverInv, ListInv
<1>4. CASE UserCreates
  <2>1. PICK s \in UserSpecs :
           app' = [uid |-> edits + 1, gen |-> 1, topo |-> s.topo,
                   replicas |-> s.replicas, wait |-> s.wait,
                   fin |-> FALSE, del |-> FALSE, status |-> NoStatus]
    BY <1>4 DEF UserCreates
  <2>2. app = NoApp
    BY <1>4 DEF UserCreates
  <2>3. \A a \in {cache, loc} : a # NoApp => a.uid # app'.uid
    <3>1. \A a \in {cache, loc} : a # NoApp => a.uid \in Nat /\ a.uid <= edits
      BY DEF TypeInv, TypeOK, WorldOK, ThreadOK, AppSets, AppInv, UidInv
    <3>2. app'.uid = edits + 1 /\ edits \in Nat
      BY <2>1 DEF TypeInv, TypeOK, WorldOK
    <3>3. QED
      BY <3>1, <3>2
  <2>4. app'.replicas >= Pods(app'.topo)
    BY <2>1 DEF ReplicasCoverTargets
  <2>5. Backed(app.status, app)'
    BY <2>1 DEF Backed, NoStatus
  <2>6. QED
    BY <1>2, <1>3, <2>2, <2>3, <2>4, <2>5
    DEF CoverInv, Sized, GenInv, Older, StatusInv, HoldInv, Held, Working
<1>5. CASE UserEdits
  <2>1. app # NoApp /\ app \in AppSets
    BY <1>5 DEF UserEdits, TypeInv, TypeOK, WorldOK
  <2>2. PICK s \in UserSpecs :
           app' = [app EXCEPT !.topo = s.topo, !.replicas = s.replicas,
                              !.wait = s.wait,
                              !.gen = IF s.topo = app.topo /\ s.replicas = app.replicas
                                        THEN app.gen ELSE app.gen + 1]
    BY <1>5 DEF UserEdits
  <2>3. /\ app'.uid = app.uid /\ app'.fin = app.fin /\ app'.status = app.status
        /\ app'.replicas >= Pods(app'.topo)
    BY <2>1, <2>2 DEF AppSets, ReplicasCoverTargets
  <2>4. \/ app'.gen = app.gen /\ AsksSame(app, app')
        \/ app'.gen = app.gen + 1
    BY <2>1, <2>2 DEF AppSets, AsksSame
  <2>5. app' # NoApp
    BY <1>5, EditType, MasterAssumption
  <2>6. QED
    BY <1>2, <1>3, <2>1, <2>3, <2>4, <2>5, NewGeneration
    DEF TypeInv, TypeOK
<1>6. CASE UserDeletes
  <2>1. app # NoApp /\ app \in AppSets
    BY <1>6 DEF UserDeletes, TypeInv, TypeOK, WorldOK
  <2>2. CASE app.fin
    <3>1. app' = [app EXCEPT !.del = TRUE, !.gen = app.gen + 1]
      BY <1>6, <2>2 DEF UserDeletes
    <3>2. /\ app'.uid = app.uid /\ app'.fin = app.fin /\ app'.status = app.status
          /\ app'.topo = app.topo /\ app'.replicas = app.replicas
          /\ app'.gen = app.gen + 1
      BY <2>1, <3>1 DEF AppSets
    <3>3. app' # NoApp
      BY <1>6, <2>2, DeleteType, MasterAssumption
    <3>4. app'.replicas >= Pods(app'.topo)
      BY <2>1, <3>2 DEF CoverInv, Sized
    <3>5. QED
      BY <1>2, <1>3, <2>1, <3>2, <3>3, <3>4, NewGeneration
      DEF TypeInv, TypeOK
  <2>3. CASE ~app.fin
    <3>1. app' = NoApp
      BY <1>6, <2>3 DEF UserDeletes
    <3>2. QED
      BY <1>2, <1>3, <2>3, <3>1
      DEF CoverInv, Sized, GenInv, Older, StatusInv, HoldInv, Held, Working
  <2>4. QED
    BY <2>2, <2>3
<1>7. QED
  BY <1>4, <1>5, <1>6 DEF Users

\* Informers, clusters and crashes neither change what is stored nor what is
\* on its way to be.
LEMMA CoverEnvironment ==
    ASSUME ReplicasCoverTargets, TypeInv, AppInv, HoldInv,
           CoverInv, Environment
    PROVE  CoverInv'
<1>1. CASE SyncApp
  <2>1. /\ cache' = app
        /\ UNCHANGED <<app, loc, pc, go, list, status>>
    BY <1>1 DEF SyncApp, world, thread
  <2>2. app # NoApp => app.gen <= app.gen
    BY DEF TypeInv, TypeOK, WorldOK, AppSets
  <2>3. QED
    BY <2>1, <2>2
    DEF CoverInv, Sized, GenInv, Older, AsksSame, ListInv, StatusInv
<1>2. CASE Crash
  <2>1. /\ UNCHANGED app /\ cache' = app /\ loc' = NoApp
        /\ pc' = "idle" /\ list' = <<>>
    BY <1>2 DEF Crash, Reset, world
  <2>2. app # NoApp => app.gen <= app.gen
    BY DEF TypeInv, TypeOK, WorldOK, AppSets
  <2>3. QED
    BY <2>1, <2>2
    DEF CoverInv, Sized, GenInv, Older, AsksSame, ListInv, StatusInv
<1>3. CASE Resync
  BY <1>3, CoverFrame DEF Resync, world, copies, thread
<1>4. ASSUME NEW c \in Clusters,
             SyncAdv(c) \/ Disconnect(c) \/ Reconnect(c) \/ Report(c)
      PROVE  CoverInv'
  <2>1. UNCHANGED <<app, cache, loc, pc, list, status, go>>
    BY <1>4, Zenon
    DEF SyncAdv, Disconnect, Reconnect, Report, world, copies, thread
  <2>2. QED
    BY <2>1, CoverFrame
<1>5. QED
  BY <1>1, <1>2, <1>3, <1>4, CoverUsers DEF Environment

-----------------------------------------------------------------------------
\* What follows

\* Every step keeps what the status rests on.
THEOREM CoverNext ==
    ASSUME ReplicasCoverTargets
    PROVE  TypeInv /\ AppInv /\ HoldInv /\ CoverInv /\ [Next]_vars => CoverInv'
<1>1. ASSUME CoverInv, UNCHANGED vars PROVE CoverInv'
  BY <1>1, CoverFrame DEF vars
<1>2. QED
  BY <1>1, CoverThread, CoverGoroutine, CoverEnvironment DEF Next, Master

\* An AppSet whose status says Running for its own generation had as many pods
\* as it asks for, and every target its share of them unless a cluster had more
\* than its own, however late the status was written, and whatever was edited,
\* lost or retried before and after. It supposes users who ask for no fewer
\* replicas than pods, which nothing in the code makes sure of.
THEOREM RunningIsCovered ==
    ASSUME ReplicasCoverTargets
    PROVE  Safety => []RunningCoversTargets
<1>1. IInv /\ CoverInv /\ [Next]_vars => CoverInv'
  BY CoverNext DEF IInv
<1>2. CoverInv => RunningCoversTargets
  BY DEF CoverInv, StatusInv, Backed, RunningCoversTargets
<1>3. QED
  BY <1>1, <1>2, CoverInit, InvariantHolds, PTL DEF Safety
=============================================================================
