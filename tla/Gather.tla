------------------------------- MODULE Gather -------------------------------
(***************************************************************************)
(* getAllClusterWorkloadEnvet of controllers/appset/step.go: the warning   *)
(* events of the clusters of an AppSet, gathered by handlers that send     *)
(* them over a second channel, eventCh, while Fanout runs the handlers and *)
(* collects their errors. getAllClusterComplexAdvdeployment is the same    *)
(* with at most one item per cluster, no filter and no duplicates.         *)
(*                                                                         *)
(* What is sent is the address of the range variable of the handler's      *)
(* loop, one per cluster, and nothing is read through it before eventCh is *)
(* closed: an entry of the list is a cluster, and stands for whatever item *)
(* the loop of this cluster ended with. The order by name of the answer is *)
(* left out.                                                               *)
(***************************************************************************)
EXTENDS Integers, Sequences, FiniteSets

CONSTANTS Clusters, Pending, NoAnswer,
          Events,     \* [reason, ours]: ours if it is about the AppSet
          MaxEvents,  \* bound of the length of a list of events
          NotListed

VARIABLES mainPc, goPc, wg, outcome, changed, errCh, colPc, inbox, errMsg,
          done, answer,
          listed,     \* per cluster, the events listed
          at,         \* per cluster, the index of the loop over them
          eventCh,    \* open or closed
          eventList,  \* what the second collector has: clusters
          shown,      \* what it makes of it
          evDone,     \* is its channel done closed?
          given       \* what the caller of the whole is given

F == INSTANCE Fanout WITH ReturnOnError <- TRUE

Lists == UNION {[1..n -> Events] : n \in 0..MaxEvents}

ASSUME GatherAssumption == /\ IsFiniteSet(Clusters)
                           /\ MaxEvents \in Nat
                           /\ Pending \notin F!Abs!Outcomes
                           /\ NoAnswer \notin F!Abs!Answers
                           /\ \A es \in SUBSET Events : es # NoAnswer
                           /\ \A es \in Lists : es # NotListed

callVars   == <<mainPc, goPc, wg, outcome, changed, errCh, colPc, inbox, errMsg,
                done, answer>>
gatherVars == <<listed, at, eventCh, eventList, shown, evDone, given>>
vars       == <<callVars, gatherVars>>

Init == /\ F!Init
        /\ listed = [c \in Clusters |-> NotListed]
        /\ at = [c \in Clusters |-> 1]
        /\ eventCh = "open" /\ eventList = <<>>
        /\ shown = {} /\ evDone = FALSE /\ given = NoAnswer

-----------------------------------------------------------------------------
\* The handler of cluster c, which never reports a change

HandlerReturns(c, err) == /\ F!Handle(c)
                          /\ outcome'[c] = [err |-> err, changed |-> FALSE]
                          /\ UNCHANGED gatherVars

\* Faulty variant: the error of a cluster that does not answer is not sent.
UnreachableUnsent(c) ==
    /\ goPc[c] = "handler" /\ listed[c] = NotListed
    /\ outcome' = [outcome EXCEPT ![c] = [err |-> TRUE, changed |-> FALSE]]
    /\ goPc' = [goPc EXCEPT ![c] = "count"]
    /\ UNCHANGED <<mainPc, wg, changed, errCh, colPc, inbox, errMsg, done, answer>>
    /\ UNCHANGED gatherVars

\* The cluster is not connected, or its list fails.
Unreachable(c) == listed[c] = NotListed /\ HandlerReturns(c, TRUE)

\* Faulty variant: a list that was just made may be made again.
ListEventsAgain(c) == /\ goPc[c] = "handler" /\ at[c] = 1
                      /\ \E es \in Lists : listed' = [listed EXCEPT ![c] = es]
                      /\ UNCHANGED <<callVars, at, eventCh, eventList, shown, evDone, given>>

ListEvents(c) == /\ goPc[c] = "handler" /\ listed[c] = NotListed
                 /\ \E es \in Lists : listed' = [listed EXCEPT ![c] = es]
                 /\ UNCHANGED <<callVars, at, eventCh, eventList, shown, evDone, given>>

Looping(c)  == goPc[c] = "handler" /\ listed[c] # NotListed /\ at[c] <= Len(listed[c])
OneOfOurs(c) == listed[c][at[c]].ours

\* Faulty variant: the loop goes on two events after one that is sent.
SendEventSkipsNext(c) ==
    /\ Looping(c) /\ OneOfOurs(c)
    /\ eventCh = "open" /\ ~evDone
    /\ eventList' = Append(eventList, c)
    /\ at' = [at EXCEPT ![c] = @ + 2]
    /\ UNCHANGED <<callVars, listed, eventCh, shown, evDone, given>>

\* eventCh <- &event meets the receive of the collector, which appends it.
SendEvent(c) == /\ Looping(c) /\ OneOfOurs(c)
                /\ eventCh = "open" /\ ~evDone
                /\ eventList' = Append(eventList, c)
                /\ at' = [at EXCEPT ![c] = @ + 1]
                /\ UNCHANGED <<callVars, listed, eventCh, shown, evDone, given>>

\* An event of another application or of a kind that does not count.
SkipEvent(c) == /\ Looping(c) /\ ~OneOfOurs(c)
                /\ at' = [at EXCEPT ![c] = @ + 1]
                /\ UNCHANGED <<callVars, listed, eventCh, eventList, shown, evDone, given>>

EndOfEvents(c) == /\ listed[c] # NotListed /\ ~Looping(c)
                  /\ HandlerReturns(c, FALSE)

-----------------------------------------------------------------------------
\* The caller once concurrentExecStepForAppsetSpecifyCluster has returned, and
\* the second collector

\* Faulty variant: closed before the goroutines have been waited for.
CloseEventChEarly == /\ mainPc = "wait" /\ eventCh = "open"
                     /\ eventCh' = "closed"
                     /\ UNCHANGED <<callVars, listed, at, eventList, shown, evDone, given>>

CloseEventCh == /\ mainPc = "returned" /\ eventCh = "open"
                /\ eventCh' = "closed"
                /\ UNCHANGED <<callVars, listed, at, eventList, shown, evDone, given>>

\* What an address in the list is by now: the last event of the cluster.
At(c) == listed[c][Len(listed[c])]

\* removeDuplicatesEvent: the first of each reason, in the order they came.
RemoveDuplicatesEvent(list) ==
    {At(list[i]) : i \in {j \in DOMAIN list :
        \A k \in 1..(j - 1) : At(list[k]).reason # At(list[j]).reason}}

EndEvents == /\ eventCh = "closed" /\ ~evDone
             /\ shown' = RemoveDuplicatesEvent(eventList)
             /\ evDone' = TRUE
             /\ UNCHANGED <<callVars, listed, at, eventCh, eventList, given>>

\* Faulty variant: the caller does not wait for the second collector.
GiveUndrained == /\ eventCh = "closed" /\ given = NoAnswer
                 /\ given' = shown
                 /\ UNCHANGED <<callVars, listed, at, eventCh, eventList, shown, evDone>>

Give == /\ evDone /\ given = NoAnswer
        /\ given' = shown
        /\ UNCHANGED <<callVars, listed, at, eventCh, eventList, shown, evDone>>

-----------------------------------------------------------------------------
Main    == (F!Main /\ UNCHANGED gatherVars) \/ CloseEventCh \/ Give
Errors  == F!Collector /\ UNCHANGED gatherVars
Worker(c) == \/ (F!Spawn(c) \/ F!SendErr(c) \/ F!Count(c) \/ F!WgDone(c))
                /\ UNCHANGED gatherVars
             \/ Unreachable(c) \/ ListEvents(c) \/ SendEvent(c) \/ SkipEvent(c)
             \/ EndOfEvents(c)

Given == given # NoAnswer /\ UNCHANGED vars

Next == Main \/ Errors \/ EndEvents \/ (\E c \in Clusters : Worker(c)) \/ Given

\* The Go scheduler runs every goroutine that can run, and lists return.
Fairness == /\ WF_vars(Main) /\ WF_vars(Errors) /\ WF_vars(EndEvents)
            /\ \A c \in Clusters : WF_vars(Worker(c))

Spec == Init /\ [][Next]_vars /\ Fairness

-----------------------------------------------------------------------------
\* The variables of the gathering stay in their ranges; no index runs past the
\* end of a list by more than the loop does.
TypeOK == /\ listed \in [Clusters -> Lists \cup {NotListed}]
          /\ at \in [Clusters -> 1..(MaxEvents + 1)]
          /\ \A c \in Clusters : listed[c] # NotListed => at[c] <= Len(listed[c]) + 1
          /\ eventCh \in {"open", "closed"}
          /\ eventList \in Seq(Clusters)
          /\ shown \subseteq Events /\ evDone \in BOOLEAN
          /\ given \in {NoAnswer} \cup SUBSET Events

\* eventCh is never closed while a handler may still send on it, which would
\* panic: close(eventCh) relies on the inner fan-out having waited for all.
NoEventOnClosed ==
    eventCh = "closed" => \A c \in Clusters : goPc[c] \notin {"new", "handler"}

\* Whatever the order of the goroutines: there is one event for each reason,
\* and these are the reasons the lists of the clusters that have an event of
\* ours end with.
EveryClusterHeard ==
    given # NoAnswer =>
        LET heard == {c \in Clusters : /\ listed[c] # NotListed
                                       /\ \E i \in DOMAIN listed[c] : listed[c][i].ours}
        IN /\ {e.reason : e \in given} = {At(c).reason : c \in heard}
           /\ \A d, e \in given : d.reason = e.reason => d = e

\* The status is built in the end, whatever fails: two channels without a
\* buffer and two collectors do not block each other.
ComesBack == <>(given # NoAnswer)

\* To the fan-out the gathering is a handler like any other: everything that
\* is said and proved of Fanout holds of the call in it.
ImplementsFanout == F!Spec
=============================================================================
