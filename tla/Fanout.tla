------------------------------- MODULE Fanout -------------------------------
(***************************************************************************)
(* One call of concurrentExecStepForEachCluster (ReturnOnError = FALSE) or *)
(* concurrentExecStepForAppsetSpecifyCluster (ReturnOnError = TRUE) of     *)
(* controllers/appset/utils.go.                                            *)
(*                                                                         *)
(* The caller starts one goroutine per cluster under a WaitGroup. A        *)
(* goroutine runs the handler and hands its error over errCh, which has no *)
(* buffer, to a collector goroutine that appends it to errMsg. When the    *)
(* WaitGroup is drained the caller closes errCh, waits on done, which the  *)
(* collector closes when errCh has no more to give, and reads errMsg and   *)
(* changed. Error texts are only joined and logged, so errMsg is the set   *)
(* of clusters whose error was appended.                                   *)
(***************************************************************************)
EXTENDS Integers, FiniteSets

CONSTANTS Clusters,       \* the clusters the call ranges over
          ReturnOnError,  \* which of the two functions this is
          Pending,        \* the outcome of a handler that has not returned
          NoAnswer        \* the answer of a call that has not returned

VARIABLES mainPc,    \* the caller: spawn, wait, close, drain, returned
          goPc,      \* per cluster: new, handler, send, count, exit, gone
          wg,        \* the WaitGroup's counter
          outcome,   \* per cluster, what the handler returned
          changed,   \* the atomic counter
          errCh,     \* open or closed
          colPc,     \* the collector: recv, append, exited
          inbox,     \* the clusters whose error is received and not appended
          errMsg,    \* the clusters whose error is appended
          done,      \* is the channel done closed?
          answer     \* what the caller was given

vars == <<mainPc, goPc, wg, outcome, changed, errCh, colPc, inbox, errMsg,
          done, answer>>

Abs == INSTANCE FanoutAbs

ASSUME FanoutAssumption == /\ IsFiniteSet(Clusters)
                           /\ ReturnOnError \in BOOLEAN
                           /\ Pending \notin Abs!Outcomes
                           /\ NoAnswer \notin Abs!Answers

Init == /\ mainPc = "spawn"
        /\ goPc = [c \in Clusters |-> "new"]
        /\ wg = 0
        /\ outcome = [c \in Clusters |-> Pending]
        /\ changed = 0
        /\ errCh = "open"
        /\ colPc = "recv"
        /\ inbox = {}
        /\ errMsg = {}
        /\ done = FALSE
        /\ answer = NoAnswer

-----------------------------------------------------------------------------
\* The caller

\* wg.Add(1); go func ... for the next cluster of the list, in any order.
Spawn(c) == /\ mainPc = "spawn"
            /\ goPc[c] = "new"
            /\ wg' = wg + 1
            /\ goPc' = [goPc EXCEPT ![c] = "handler"]
            /\ UNCHANGED <<mainPc, outcome, changed, errCh, colPc, inbox,
                           errMsg, done, answer>>

\* The loop is over: the caller blocks in wg.Wait().
EndLoop == /\ mainPc = "spawn"
           /\ \A c \in Clusters : goPc[c] # "new"
           /\ mainPc' = "wait"
           /\ UNCHANGED <<goPc, wg, outcome, changed, errCh, colPc, inbox,
                          errMsg, done, answer>>

\* Faulty variant: the caller does not wait for its goroutines.
WaitSkipped == /\ mainPc = "wait"
               /\ mainPc' = "close"
               /\ UNCHANGED <<goPc, wg, outcome, changed, errCh, colPc, inbox,
                              errMsg, done, answer>>

\* wg.Wait() lets the caller through.
Wait == /\ mainPc = "wait"
        /\ wg = 0
        /\ mainPc' = "close"
        /\ UNCHANGED <<goPc, wg, outcome, changed, errCh, colPc, inbox,
                       errMsg, done, answer>>

CloseErrCh == /\ mainPc = "close"
              /\ errCh' = "closed"
              /\ mainPc' = "drain"
              /\ UNCHANGED <<goPc, wg, outcome, changed, colPc, inbox, errMsg,
                             done, answer>>

\* Faulty variant: the caller does not wait for the collector.
ReturnUndrained == /\ mainPc = "drain"
                   /\ answer' = [changed |-> changed > 0, errs |-> errMsg]
                   /\ mainPc' = "returned"
                   /\ UNCHANGED <<goPc, wg, outcome, changed, errCh, colPc,
                                  inbox, errMsg, done>>

\* <-done, then the caller reads changed and the error list.
Return == /\ mainPc = "drain"
          /\ done
          /\ answer' = [changed |-> changed > 0, errs |-> errMsg]
          /\ mainPc' = "returned"
          /\ UNCHANGED <<goPc, wg, outcome, changed, errCh, colPc, inbox,
                         errMsg, done>>

-----------------------------------------------------------------------------
\* The goroutine of cluster c

\* Faulty variant: a failing handler is run again and may change its mind.
HandleRetried(c) == /\ goPc[c] = "handler"
                    /\ \E o \in Abs!Outcomes :
                         /\ outcome' = [outcome EXCEPT ![c] = o]
                         /\ goPc' = [goPc EXCEPT
                                       ![c] = IF o.err THEN @ ELSE "count"]
                    /\ UNCHANGED <<mainPc, wg, changed, errCh, colPc, inbox,
                                   errMsg, done, answer>>

\* The handler returns any combination of a change and an error.
Handle(c) == /\ goPc[c] = "handler"
             /\ \E o \in Abs!Outcomes :
                  /\ outcome' = [outcome EXCEPT ![c] = o]
                  /\ goPc' = [goPc EXCEPT
                                ![c] = IF o.err THEN "send" ELSE "count"]
             /\ UNCHANGED <<mainPc, wg, changed, errCh, colPc, inbox, errMsg,
                            done, answer>>

\* Faulty variant: the goroutine always gives up after its error.
SendErrReturns(c) == /\ goPc[c] = "send"
                     /\ errCh = "open"
                     /\ colPc = "recv"
                     /\ colPc' = "append"
                     /\ inbox' = {c}
                     /\ goPc' = [goPc EXCEPT ![c] = "exit"]
                     /\ UNCHANGED <<mainPc, wg, outcome, changed, errCh,
                                    errMsg, done, answer>>

\* errCh <- err meets the collector's receive. Only the second function
\* returns right after it.
SendErr(c) == /\ goPc[c] = "send"
              /\ errCh = "open"
              /\ colPc = "recv"
              /\ colPc' = "append"
              /\ inbox' = {c}
              /\ goPc' = [goPc EXCEPT
                            ![c] = IF ReturnOnError THEN "exit" ELSE "count"]
              /\ UNCHANGED <<mainPc, wg, outcome, changed, errCh, errMsg,
                             done, answer>>

\* if isChanged { atomic.AddInt32(&changed, 1) }
Count(c) == /\ goPc[c] = "count"
            /\ changed' = IF outcome[c].changed THEN changed + 1 ELSE changed
            /\ goPc' = [goPc EXCEPT ![c] = "exit"]
            /\ UNCHANGED <<mainPc, wg, outcome, errCh, colPc, inbox, errMsg,
                           done, answer>>

\* Faulty variants: an explicit wg.Done() on the error path beside the
\* deferred one; no wg.Done() on the error path at all.
WgDoneTwice(c) == /\ goPc[c] = "exit"
                  /\ wg' = IF outcome[c].err THEN wg - 2 ELSE wg - 1
                  /\ goPc' = [goPc EXCEPT ![c] = "gone"]
                  /\ UNCHANGED <<mainPc, outcome, changed, errCh, colPc, inbox,
                                 errMsg, done, answer>>

WgDoneOnSuccess(c) == /\ goPc[c] = "exit"
                      /\ wg' = IF outcome[c].err THEN wg ELSE wg - 1
                      /\ goPc' = [goPc EXCEPT ![c] = "gone"]
                      /\ UNCHANGED <<mainPc, outcome, changed, errCh, colPc,
                                     inbox, errMsg, done, answer>>

\* The deferred wg.Done().
WgDone(c) == /\ goPc[c] = "exit"
             /\ wg' = wg - 1
             /\ goPc' = [goPc EXCEPT ![c] = "gone"]
             /\ UNCHANGED <<mainPc, outcome, changed, errCh, colPc, inbox,
                            errMsg, done, answer>>

-----------------------------------------------------------------------------
\* The collector

Append == /\ colPc = "append"
          /\ errMsg' = errMsg \cup inbox
          /\ inbox' = {}
          /\ colPc' = "recv"
          /\ UNCHANGED <<mainPc, goPc, wg, outcome, changed, errCh, done,
                         answer>>

\* The range over errCh ends once it is closed; then close(done).
EndRange == /\ colPc = "recv"
            /\ errCh = "closed"
            /\ colPc' = "exited"
            /\ done' = TRUE
            /\ UNCHANGED <<mainPc, goPc, wg, outcome, changed, errCh, inbox,
                           errMsg, answer>>

-----------------------------------------------------------------------------
Main      == EndLoop \/ Wait \/ CloseErrCh \/ Return
Worker(c) == Spawn(c) \/ Handle(c) \/ SendErr(c) \/ Count(c) \/ WgDone(c)
Collector == Append \/ EndRange

\* The call is over: the only state in which nothing is left to do.
Returned == mainPc = "returned" /\ UNCHANGED vars

Next == Main \/ (\E c \in Clusters : Worker(c)) \/ Collector \/ Returned

\* The Go scheduler runs every goroutine that can run, and handlers return.
Fairness == /\ WF_vars(Main)
            /\ \A c \in Clusters : WF_vars(Worker(c))
            /\ WF_vars(Collector)

Spec == Init /\ [][Next]_vars /\ Fairness

-----------------------------------------------------------------------------
\* Properties

MainPcs == {"spawn", "wait", "close", "drain", "returned"}
GoPcs   == {"new", "handler", "send", "count", "exit", "gone"}

\* Every variable stays in its range; the counters never go below zero, where
\* sync.WaitGroup would panic.
TypeOK == /\ mainPc \in MainPcs
          /\ goPc \in [Clusters -> GoPcs]
          /\ wg \in Nat
          /\ outcome \in [Clusters -> Abs!Outcomes \cup {Pending}]
          /\ changed \in Nat
          /\ errCh \in {"open", "closed"}
          /\ colPc \in {"recv", "append", "exited"}
          /\ inbox \in SUBSET Clusters
          /\ errMsg \in SUBSET Clusters
          /\ done \in BOOLEAN
          /\ answer \in Abs!Answers \cup {NoAnswer}

\* errCh is never closed while a goroutine may still send on it: the send
\* would panic and take the whole controller down (utils.go, close(errCh)
\* after wg.Wait()).
NoSendOnClosed ==
    errCh = "closed" => \A c \in Clusters : goPc[c] \notin {"new", "handler", "send"}

\* What the caller reads is complete: it holds the error of every handler that
\* failed and reports a change exactly when a counting handler changed
\* something. This is what the finalizer decision of
\* deleteAllClusterAdvdeployment rests on.
AnswerComplete == mainPc = "returned" => answer = Abs!Aggregate

\* Once the caller has read them, nobody writes errMsg or changed any more:
\* the slice is shared with the collector without a lock.
NoLateWrite ==
    [][mainPc = "returned" => UNCHANGED <<errMsg, changed>>]_vars

\* The call returns whatever the handlers answer and however the goroutines
\* are scheduled: errCh has no buffer, so a missing receiver would block the
\* reconciling thread for good.
Returns == <>(mainPc = "returned")

\* The goroutines, channels and counters implement one atomic answer.
Implements == Abs!AbsSpec
=============================================================================
