---------------------------- MODULE GatherProofs ----------------------------
(***************************************************************************)
(* For every finite set of clusters, all events and lists of any length:   *)
(* the gathering is a call of Fanout, nobody sends on eventCh after it is  *)
(* closed, and the caller is given one event for each of the reasons the   *)
(* clusters that were heard end with. What is proved of Fanout is used as  *)
(* it stands, with ReturnOnError TRUE; the invariant here adds what the    *)
(* second channel and its collector know.                                  *)
(***************************************************************************)
EXTENDS Gather, ListLemmas, TLAPS

FP == INSTANCE FanoutProofs WITH ReturnOnError <- TRUE

\* Is the cluster in the list of the second collector?
Sent(c) == \E i \in DOMAIN eventList : eventList[i] = c

\* Has the loop over the events of the cluster passed one of ours?
PassedOurs(c) == /\ listed[c] # NotListed
                 /\ \E i \in 1..(at[c] - 1) : listed[c][i].ours

\* The loop is at its start until there is a list and at its end when the
\* handler has returned, and every event of ours it has passed is sent.
LoopInv ==
    \A c \in Clusters :
      /\ listed[c] = NotListed => at[c] = 1
      /\ listed[c] # NotListed /\ goPc[c] \notin {"new", "handler"} =>
           at[c] = Len(listed[c]) + 1
      /\ Sent(c) <=> PassedOurs(c)

\* What comes after the call is done in order, each part of what is there.
EndInv ==
    /\ eventCh = "closed" => mainPc = "returned"
    /\ evDone => eventCh = "closed" /\ shown = RemoveDuplicatesEvent(eventList)
    /\ given # NoAnswer => evDone /\ given = shown

IInv == FP!IInv /\ TypeOK /\ LoopInv /\ EndInv

-----------------------------------------------------------------------------
\* The call in the gathering is a call of Fanout

\* What the gathering assumes is what Fanout does.
LEMMA CallAssumption ==
    /\ FP!IsFiniteSet(Clusters)
    /\ Pending \notin FP!Abs!Outcomes
    /\ NoAnswer \notin FP!Abs!Answers
<1>1. FP!IsFiniteSet(Clusters)
  BY GatherAssumption DEF FP!IsFiniteSet, IsFiniteSet
<1>2. QED
  BY <1>1, GatherAssumption
  DEF F!Abs!Outcomes, F!Abs!Answers, FP!Abs!Outcomes, FP!Abs!Answers

\* The two instances of Fanout, here and in Gather, are the same module.
LEMMA SameCall ==
    /\ F!Init => FP!Init
    /\ [F!Next]_(F!vars) => [FP!Next]_(FP!vars)
BY DEF F!Init, F!Next, F!Main, F!Worker, F!Collector, F!Returned, F!EndLoop,
       F!Wait, F!CloseErrCh, F!Return, F!Spawn, F!Handle, F!SendErr, F!Count,
       F!WgDone, F!Append, F!EndRange, F!vars, F!Abs!Outcomes,
       FP!Init, FP!Next, FP!Main, FP!Worker, FP!Collector, FP!Returned,
       FP!EndLoop, FP!Wait, FP!CloseErrCh, FP!Return, FP!Spawn, FP!Handle,
       FP!SendErr, FP!Count, FP!WgDone, FP!Append, FP!EndRange, FP!vars,
       FP!Abs!Outcomes

\* Whatever the gathering does is a step of the call or leaves it alone.
LEMMA StepOfCall == [Next]_vars => [F!Next]_(F!vars)
<1> SUFFICES ASSUME [Next]_vars PROVE [F!Next]_(F!vars)
  OBVIOUS
<1>1. CASE F!Main \/ F!Collector
  BY <1>1 DEF F!Next
<1>2. ASSUME NEW c \in Clusters,
             \/ F!Spawn(c) \/ F!SendErr(c) \/ F!Count(c) \/ F!WgDone(c)
             \/ F!Handle(c)
      PROVE  F!Next
  BY <1>2 DEF F!Next, F!Worker
<1>3. CASE UNCHANGED callVars
  BY <1>3 DEF callVars, F!vars
<1>4. ASSUME NEW c \in Clusters, Worker(c)
      PROVE  [F!Next]_(F!vars)
  BY <1>2, <1>3, <1>4
  DEF Worker, Unreachable, EndOfEvents, HandlerReturns, ListEvents, SendEvent,
      SkipEvent
<1>5. QED
  BY <1>1, <1>3, <1>4
  DEF Next, Main, Errors, CloseEventCh, Give, EndEvents, Given, vars

\* So everything Fanout guarantees of its call holds of the call in the
\* gathering. (That it ends is left to TLC.)
THEOREM ImplementsSafely ==
    Spec => F!Init /\ [][F!Next]_(F!vars)
<1>1. Init => F!Init
  BY DEF Init
<1>2. QED
  BY <1>1, StepOfCall, PTL DEF Spec

\* A step of the call does not disturb the invariant of Fanout.
LEMMA CallIInv ==
    ASSUME FP!IInv, [Next]_vars
    PROVE  FP!IInv'
BY StepOfCall, SameCall, CallAssumption, FP!NextIInv

\* When the call has returned every goroutine of it is gone.
LEMMA AllGone ==
    ASSUME FP!IInv, mainPc = "returned"
    PROVE  \A c \in Clusters : goPc[c] = "gone"
BY DEF FP!IInv, FP!PhaseInv

-----------------------------------------------------------------------------
\* The start and the steps

\* A list of events is a sequence, and is not the mark of no list.
LEMMA ListIsSeq ==
    ASSUME NEW es \in Lists
    PROVE  /\ es \in Seq(Events)
           /\ Len(es) \in 0..MaxEvents
           /\ DOMAIN es = 1..Len(es)
           /\ es # NotListed
BY GatherAssumption DEF Lists

\* Nothing is listed, sent or given when the call starts.
THEOREM InitIInv == Init => IInv
<1> SUFFICES ASSUME Init PROVE IInv
  OBVIOUS
<1>1. FP!IInv
  BY SameCall, CallAssumption, FP!InitIInv DEF Init
<1>2. TypeOK
  <2>1. /\ listed \in [Clusters -> Lists \cup {NotListed}]
        /\ \A c \in Clusters : listed[c] = NotListed
    BY DEF Init
  <2>2. at \in [Clusters -> 1..(MaxEvents + 1)]
    BY GatherAssumption DEF Init
  <2>3. eventList \in Seq(Clusters)
    BY DEF Init
  <2>4. QED
    BY <2>1, <2>2, <2>3 DEF Init, TypeOK
<1>3. LoopInv
  BY DEF Init, LoopInv, Sent, PassedOurs
<1>4. EndInv
  BY DEF Init, EndInv
<1>5. QED
  BY <1>1, <1>2, <1>3, <1>4 DEF IInv

\* The steps of the call alone: no handler returns in them, and a call that
\* has returned stays so.
LEMMA CallStep ==
    ASSUME IInv, UNCHANGED gatherVars,
           \/ F!Main \/ F!Collector
           \/ \E c \in Clusters : F!Spawn(c) \/ F!SendErr(c) \/ F!Count(c)
                                  \/ F!WgDone(c)
    PROVE  TypeOK' /\ LoopInv' /\ EndInv'
<1>1. goPc \in [Clusters -> FP!GoPcs]
  BY DEF IInv, FP!IInv, FP!TypeOK
<1>2. \A c \in Clusters : goPc'[c] \notin {"new", "handler"} =>
         goPc[c] \notin {"new", "handler"}
  BY <1>1
  DEF F!Main, F!EndLoop, F!Wait, F!CloseErrCh, F!Return, F!Collector, F!Append,
      F!EndRange, F!Spawn, F!SendErr, F!Count, F!WgDone, FP!GoPcs
<1>3. mainPc = "returned" => mainPc' = "returned"
  BY DEF F!Main, F!EndLoop, F!Wait, F!CloseErrCh, F!Return, F!Collector,
         F!Append, F!EndRange, F!Spawn, F!SendErr, F!Count, F!WgDone
<1>4. TypeOK'
  BY DEF gatherVars, IInv, TypeOK
<1>5. LoopInv'
  BY <1>2 DEF gatherVars, IInv, LoopInv, Sent, PassedOurs
<1>6. EndInv'
  BY <1>3 DEF gatherVars, IInv, EndInv, RemoveDuplicatesEvent, At
<1>7. QED
  BY <1>4, <1>5, <1>6

\* A handler returns with its loop at the end, or without a list.
LEMMA HandlerStep ==
    ASSUME IInv, NEW c \in Clusters, Unreachable(c) \/ EndOfEvents(c)
    PROVE  TypeOK' /\ LoopInv' /\ EndInv'
<1>1. goPc \in [Clusters -> FP!GoPcs]
  BY DEF IInv, FP!IInv, FP!TypeOK
<1>2. /\ goPc[c] = "handler" /\ UNCHANGED <<mainPc, gatherVars>>
      /\ \A d \in Clusters \ {c} : goPc'[d] = goPc[d]
  BY <1>1 DEF Unreachable, EndOfEvents, HandlerReturns, F!Handle
<1>3. listed[c] # NotListed => at[c] = Len(listed[c]) + 1
  <2> SUFFICES ASSUME listed[c] # NotListed
               PROVE  at[c] = Len(listed[c]) + 1
    OBVIOUS
  <2>1. ~(at[c] <= Len(listed[c])) /\ at[c] <= Len(listed[c]) + 1
    BY <1>2 DEF Unreachable, EndOfEvents, Looping, IInv, TypeOK
  <2>2. listed[c] \in Lists /\ at[c] \in 1..(MaxEvents + 1)
    BY DEF IInv, TypeOK
  <2>3. QED
    BY <2>1, <2>2, ListIsSeq, GatherAssumption
<1>4. TypeOK'
  BY <1>2 DEF gatherVars, IInv, TypeOK
<1>5. LoopInv'
  BY <1>2, <1>3 DEF gatherVars, IInv, LoopInv, Sent, PassedOurs
<1>6. EndInv'
  BY <1>2 DEF gatherVars, IInv, EndInv, RemoveDuplicatesEvent, At
<1>7. QED
  BY <1>4, <1>5, <1>6

\* A running handler shows that eventCh is still open.
LEMMA StillOpen ==
    ASSUME IInv, NEW c \in Clusters, goPc[c] = "handler"
    PROVE  eventCh = "open" /\ ~evDone /\ given = NoAnswer
<1>1. eventCh # "closed"
  BY AllGone DEF IInv, EndInv
<1>2. QED
  BY <1>1 DEF IInv, TypeOK, EndInv

\* A handler gets its list, and passes over the events in it.
LEMMA LoopStep ==
    ASSUME IInv, NEW c \in Clusters,
           ListEvents(c) \/ SendEvent(c) \/ SkipEvent(c)
    PROVE  TypeOK' /\ LoopInv' /\ EndInv'
<1>1. goPc[c] = "handler" /\ UNCHANGED <<goPc, mainPc>>
  BY DEF ListEvents, SendEvent, SkipEvent, Looping, callVars
<1>2. eventCh = "open" /\ ~evDone /\ given = NoAnswer
  BY <1>1, StillOpen
<1>3. EndInv'
  BY <1>2 DEF ListEvents, SendEvent, SkipEvent, EndInv
<1>4. CASE ListEvents(c)
  <2>1. PICK es \in Lists : listed' = [listed EXCEPT ![c] = es]
    BY <1>4 DEF ListEvents
  <2>2. listed[c] = NotListed /\ at[c] = 1 /\ ~PassedOurs(c)
    BY <1>4 DEF ListEvents, IInv, LoopInv, PassedOurs
  <2>3. TypeOK'
    BY <1>4, <2>1, <2>2, ListIsSeq DEF ListEvents, IInv, TypeOK
  <2>4. LoopInv'
    <3> SUFFICES ASSUME NEW d \in Clusters
                 PROVE  /\ listed'[d] = NotListed => at'[d] = 1
                        /\ /\ listed'[d] # NotListed
                           /\ goPc'[d] \notin {"new", "handler"}
                           => at'[d] = Len(listed'[d]) + 1
                        /\ Sent(d)' <=> PassedOurs(d)'
      BY DEF LoopInv
    <3>1. CASE d = c
      <4>1. ~PassedOurs(c)' /\ ~Sent(c)'
        BY <1>4, <2>2 DEF ListEvents, IInv, LoopInv, Sent, PassedOurs
      <4>2. QED
        BY <1>1, <1>4, <2>2, <3>1, <4>1 DEF ListEvents
    <3>2. CASE d # c
      BY <1>1, <1>4, <2>1, <3>2
      DEF ListEvents, IInv, TypeOK, LoopInv, Sent, PassedOurs
    <3>3. QED
      BY <3>1, <3>2
  <2>5. QED
    BY <1>3, <2>3, <2>4
<1>5. CASE SendEvent(c) \/ SkipEvent(c)
  <2>1. /\ listed[c] \in Lists /\ listed[c] # NotListed /\ at[c] \in Nat
        /\ at[c] \in 1..Len(listed[c])
    BY <1>5 DEF SendEvent, SkipEvent, Looping, IInv, TypeOK
  <2>2. at' = [at EXCEPT ![c] = @ + 1] /\ listed' = listed
    BY <1>5 DEF SendEvent, SkipEvent
  <2>3. \/ listed[c][at[c]].ours /\ eventList' = Append(eventList, c)
        \/ ~listed[c][at[c]].ours /\ eventList' = eventList
    BY <1>5 DEF SendEvent, SkipEvent, OneOfOurs
  <2>4. TypeOK'
    <3>1. at' \in [Clusters -> 1..(MaxEvents + 1)]
      BY <2>1, <2>2, ListIsSeq, GatherAssumption DEF IInv, TypeOK
    <3>2. \A d \in Clusters :
             listed'[d] # NotListed => at'[d] <= Len(listed'[d]) + 1
      BY <2>1, <2>2 DEF IInv, TypeOK
    <3>3. eventList' \in Seq(Clusters)
      <4>1. eventList' = Append(eventList, c) \/ eventList' = eventList
        BY <2>3
      <4>2. eventList \in Seq(Clusters)
        BY DEF IInv, TypeOK
      <4>3. QED
        BY <4>1, <4>2
    <3>4. QED
      BY <1>5, <2>2, <3>1, <3>2, <3>3 DEF SendEvent, SkipEvent, IInv, TypeOK
  <2>5. ASSUME NEW d \in Clusters
        PROVE  Sent(d)' <=> Sent(d) \/ (d = c /\ listed[c][at[c]].ours)
    <3> DEFINE ours == listed[c][at[c]].ours
    <3>1. eventList \in Seq(Clusters)
      BY DEF IInv, TypeOK
    <3>2. \/ ours /\ eventList' = Append(eventList, c)
          \/ ~ours /\ eventList' = eventList
      BY <2>3
    <3> HIDE DEF ours
    <3>3. CASE ours /\ eventList' = Append(eventList, c)
      <4>1. /\ DOMAIN eventList' = DOMAIN eventList \cup {Len(eventList) + 1}
            /\ \A i \in DOMAIN eventList : eventList'[i] = eventList[i]
            /\ eventList'[Len(eventList) + 1] = c
        BY <3>1, <3>3
      <4>2. Sent(d)' <=> Sent(d) \/ d = c
        BY <4>1 DEF Sent
      <4>3. QED
        BY <3>3, <4>2 DEF ours
    <3>4. CASE ~ours /\ eventList' = eventList
      BY <3>4 DEF Sent, ours
    <3>5. QED
      BY <3>2, <3>3, <3>4
  <2>6. ASSUME NEW d \in Clusters
        PROVE  PassedOurs(d)' <=>
                 PassedOurs(d) \/ (d = c /\ listed[c][at[c]].ours)
    BY <2>1, <2>2 DEF IInv, TypeOK, PassedOurs
  <2>7. LoopInv'
    BY <1>1, <2>1, <2>2, <2>5, <2>6 DEF IInv, TypeOK, LoopInv
  <2>8. QED
    BY <1>3, <2>4, <2>7
<1>6. QED
  BY <1>4, <1>5

\* What is shown is an event at the end of a list, one for each reason.
LEMMA ShownType ==
    ASSUME IInv
    PROVE  RemoveDuplicatesEvent(eventList) \subseteq Events
<1> SUFFICES ASSUME NEW i \in DOMAIN eventList
             PROVE  At(eventList[i]) \in Events
  BY DEF RemoveDuplicatesEvent
<1> DEFINE c == eventList[i]
<1>1. c \in Clusters
  BY DEF IInv, TypeOK
<1>2. PassedOurs(c)
  BY <1>1 DEF IInv, LoopInv, Sent
<1>3. /\ listed[c] \in Lists
      /\ at[c] \in 1..(MaxEvents + 1) /\ at[c] <= Len(listed[c]) + 1
      /\ at[c] - 1 >= 1
  BY <1>1, <1>2, GatherAssumption DEF PassedOurs, IInv, TypeOK
<1>4. Len(listed[c]) \in DOMAIN listed[c] /\ listed[c] \in Seq(Events)
  BY <1>3, ListIsSeq, GatherAssumption
<1>5. QED
  BY <1>4 DEF At

\* The end: eventCh is closed, its collector makes its list, the caller is
\* given it. The call has returned, so no handler runs any more.
LEMMA EndStep ==
    ASSUME IInv, CloseEventCh \/ EndEvents \/ Give \/ UNCHANGED vars
    PROVE  TypeOK' /\ LoopInv' /\ EndInv'
<1>1. UNCHANGED <<goPc, mainPc, listed, at, eventList>>
  BY DEF CloseEventCh, EndEvents, Give, vars, callVars, gatherVars
<1>2. TypeOK'
  <2>1. CASE EndEvents
    BY <2>1, <1>1, ShownType DEF EndEvents, IInv, TypeOK
  <2>2. CASE CloseEventCh \/ Give \/ UNCHANGED vars
    BY <2>2, <1>1 DEF CloseEventCh, Give, vars, gatherVars, IInv, TypeOK
  <2>3. QED
    BY <2>1, <2>2
<1>3. LoopInv'
  BY <1>1 DEF IInv, LoopInv, Sent, PassedOurs
<1>4. EndInv'
  BY <1>1
  DEF CloseEventCh, EndEvents, Give, vars, gatherVars, IInv, EndInv,
      RemoveDuplicatesEvent, At
<1>5. QED
  BY <1>2, <1>3, <1>4

\* No step breaks the inductive invariant.
THEOREM NextIInv == IInv /\ [Next]_vars => IInv'
<1> SUFFICES ASSUME IInv, [Next]_vars PROVE IInv'
  OBVIOUS
<1>1. FP!IInv'
  BY CallIInv DEF IInv
<1>2. TypeOK' /\ LoopInv' /\ EndInv'
  BY CallStep, HandlerStep, LoopStep, EndStep
  DEF Next, Main, Errors, Worker, Given
<1>3. QED
  BY <1>1, <1>2 DEF IInv

\* The inductive invariant holds in every reachable state.
THEOREM InvariantHolds == Spec => []IInv
BY InitIInv, NextIInv, PTL DEF Spec

\* The variables of the gathering keep their types, for lists of any length.
THEOREM TypeCorrect == Spec => []TypeOK
<1>1. IInv => TypeOK
  BY DEF IInv
<1>2. QED
  BY <1>1, InvariantHolds, PTL

-----------------------------------------------------------------------------
\* What follows

\* No handler can panic on a closed eventCh.
THEOREM ChannelSafe == Spec => []NoEventOnClosed
<1>1. IInv => NoEventOnClosed
  BY AllGone DEF IInv, EndInv, NoEventOnClosed
<1>2. QED
  BY <1>1, InvariantHolds, PTL

\* The first of each reason are all the reasons, each of them once.
LEMMA OneOfEachReason ==
    ASSUME NEW list \in Seq(Clusters)
    PROVE  LET kept == RemoveDuplicatesEvent(list)
               all  == {list[i] : i \in DOMAIN list}
           IN /\ {e.reason : e \in kept} = {At(c).reason : c \in all}
              /\ \A d, e \in kept : d.reason = e.reason => d = e
<1> DEFINE kept  == RemoveDuplicatesEvent(list)
           first(j) == \A k \in 1..(j - 1) : At(list[k]).reason # At(list[j]).reason
<1>1. DOMAIN list = 1..Len(list) /\ Len(list) \in Nat
  OBVIOUS
<1>2. kept = {At(list[i]) : i \in {j \in DOMAIN list : first(j)}}
  BY DEF RemoveDuplicatesEvent
<1> HIDE DEF kept
<1>3. ASSUME NEW e \in kept
      PROVE  \E i \in DOMAIN list : e = At(list[i]) /\ first(i)
  BY <1>2
<1>4. ASSUME NEW i \in DOMAIN list
      PROVE  \E e \in kept : e.reason = At(list[i]).reason
  <2> DEFINE T == {j \in DOMAIN list : At(list[j]).reason = At(list[i]).reason}
  <2>1. T \in SUBSET Nat /\ i \in T
    BY <1>1
  <2> HIDE DEF T
  <2>2. PICK m \in T : \A k \in T : m <= k
    BY <2>1, LeastMember
  <2>3. m \in DOMAIN list /\ At(list[m]).reason = At(list[i]).reason
    BY <2>2 DEF T
  <2>4. first(m)
    <3> SUFFICES ASSUME NEW k \in 1..(m - 1),
                        At(list[k]).reason = At(list[m]).reason
                 PROVE  FALSE
      OBVIOUS
    <3>1. k \in DOMAIN list /\ k < m
      BY <1>1, <2>3
    <3>2. k \in T
      BY <2>3, <3>1 DEF T
    <3>3. m <= k /\ m \in Nat /\ k \in Nat
      BY <1>1, <2>2, <2>3, <3>1, <3>2
    <3>4. QED
      BY <3>1, <3>3
  <2>5. At(list[m]) \in kept
    BY <1>2, <2>3, <2>4
  <2>6. QED
    BY <2>3, <2>5
<1>5. ASSUME NEW d \in kept, NEW e \in kept, d.reason = e.reason
      PROVE  d = e
  <2>1. PICK i \in DOMAIN list : d = At(list[i]) /\ first(i)
    BY <1>3
  <2>2. PICK j \in DOMAIN list : e = At(list[j]) /\ first(j)
    BY <1>3
  <2>3. ~(i < j) /\ ~(j < i)
    BY <1>1, <1>5, <2>1, <2>2
  <2>4. i = j
    BY <1>1, <2>3
  <2>5. QED
    BY <2>1, <2>2, <2>4
<1>6. {e.reason : e \in kept} = {At(c).reason : c \in {list[i] : i \in DOMAIN list}}
  BY <1>3, <1>4
<1>7. QED
  BY <1>5, <1>6 DEF kept

\* Whatever the order of the goroutines, the caller is given the reasons the
\* clusters that were heard end with, and one event for each.
THEOREM EveryReasonOnce == Spec => []EveryClusterHeard
<1>1. IInv => EveryClusterHeard
  <2> SUFFICES ASSUME IInv, given # NoAnswer PROVE EveryClusterHeard
    BY DEF EveryClusterHeard
  <2> DEFINE heard == {c \in Clusters :
                         /\ listed[c] # NotListed
                         /\ \E i \in DOMAIN listed[c] : listed[c][i].ours}
  <2>1. /\ given = RemoveDuplicatesEvent(eventList)
        /\ \A c \in Clusters : goPc[c] = "gone"
    BY AllGone DEF IInv, EndInv
  <2>2. eventList \in Seq(Clusters)
    BY DEF IInv, TypeOK
  <2>3. ASSUME NEW c \in Clusters PROVE c \in heard <=> Sent(c)
    <3>1. CASE listed[c] = NotListed
      BY <3>1 DEF IInv, LoopInv, PassedOurs
    <3>2. CASE listed[c] # NotListed
      <4>1. at[c] = Len(listed[c]) + 1 /\ listed[c] \in Lists
        BY <2>1, <3>2 DEF IInv, LoopInv, TypeOK
      <4>2. 1..(at[c] - 1) = DOMAIN listed[c]
        BY <4>1, ListIsSeq
      <4>3. QED
        BY <3>2, <4>2 DEF IInv, LoopInv, PassedOurs
    <3>3. QED
      BY <3>1, <3>2
  <2>4. heard = {eventList[i] : i \in DOMAIN eventList}
    <3>1. ASSUME NEW i \in DOMAIN eventList PROVE eventList[i] \in Clusters
      BY <2>2
    <3>2. QED
      BY <2>3, <3>1 DEF Sent
  <2>5. QED
    BY <2>1, <2>2, <2>4, OneOfEachReason DEF EveryClusterHeard
<1>2. QED
  BY <1>1, InvariantHolds, PTL
=============================================================================
