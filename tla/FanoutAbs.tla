----------------------------- MODULE FanoutAbs -----------------------------
(***************************************************************************)
(* What concurrentExecStepForEachCluster and                               *)
(* concurrentExecStepForAppsetSpecifyCluster (controllers/appset/utils.go) *)
(* promise to the step that calls them, with no goroutine in sight: the    *)
(* handler settles once on every cluster, in any order, and afterwards the *)
(* caller is answered once, with every failure and with "something         *)
(* changed" exactly when a handler that counts reported a change.          *)
(***************************************************************************)
CONSTANTS Clusters,       \* the clusters the call ranges over
          ReturnOnError,  \* TRUE: a failing handler's change is not counted
          Pending,        \* the outcome of a handler that has not returned
          NoAnswer        \* the answer of a call that has not returned

VARIABLES outcome,        \* per cluster, what the handler returned
          answer          \* what the caller was given

absVars == <<outcome, answer>>

Outcomes == [err : BOOLEAN, changed : BOOLEAN]
Answers  == [changed : BOOLEAN, errs : SUBSET Clusters]

Settled(c) == outcome[c] # Pending

\* Did the handler of c report a change that the call counts?
Counts(c) == /\ Settled(c)
             /\ outcome[c].changed
             /\ ReturnOnError => ~outcome[c].err

Failures == {c \in Clusters : Settled(c) /\ outcome[c].err}

Aggregate == [changed |-> \E c \in Clusters : Counts(c), errs |-> Failures]

AbsInit == /\ outcome = [c \in Clusters |-> Pending]
           /\ answer = NoAnswer

Settle(c) == /\ ~Settled(c)
             /\ \E o \in Outcomes : outcome' = [outcome EXCEPT ![c] = o]
             /\ UNCHANGED answer

Reply == /\ answer = NoAnswer
         /\ \A c \in Clusters : Settled(c)
         /\ answer' = Aggregate
         /\ UNCHANGED outcome

AbsNext == (\E c \in Clusters : Settle(c)) \/ Reply

AbsSpec == AbsInit /\ [][AbsNext]_absVars /\ WF_absVars(AbsNext)
=============================================================================
