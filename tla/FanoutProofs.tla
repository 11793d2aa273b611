---------------------------- MODULE FanoutProofs ----------------------------
(***************************************************************************)
(* For every finite set of clusters and either function: errCh is never    *)
(* closed under a sender, and the caller is given every error and the      *)
(* right verdict on "changed". The invariant counts: the WaitGroup holds   *)
(* the number of goroutines that are started and not gone, and changed is  *)
(* positive exactly when a goroutine past its count reported a change.     *)
(***************************************************************************)
EXTENDS Fanout, FiniteSetTheorems, TLAPS

\* Started and not gone: what the WaitGroup counts.
Live == {c \in Clusters : goPc[c] \in {"handler", "send", "count", "exit"}}

\* The goroutines whose change the counter already holds.
Counted == {c \in Clusters : /\ goPc[c] \in {"exit", "gone"}
                             /\ Abs!Counts(c)}

\* A goroutine has an outcome exactly when its handler returned.
OutcomeInv ==
    \A c \in Clusters :
      /\ goPc[c] \in {"new", "handler"} <=> outcome[c] = Pending
      /\ goPc[c] = "send" => outcome[c].err
      /\ goPc[c] = "count" /\ outcome[c].err => ~ReturnOnError

\* Every error is on its way or appended, and nothing else is.
ErrorInv ==
    \A c \in Clusters :
      c \in errMsg \cup inbox <=>
        /\ goPc[c] \in {"count", "exit", "gone"}
        /\ outcome[c].err

WgInv      == wg = Cardinality(Live)
ChangedInv == changed > 0 <=> Counted # {}

\* Where the caller stands bounds where the others can be.
PhaseInv ==
    /\ mainPc # "spawn" => \A c \in Clusters : goPc[c] # "new"
    /\ mainPc \in {"close", "drain", "returned"} =>
          \A c \in Clusters : goPc[c] = "gone"
    /\ errCh = "closed" <=> mainPc \in {"drain", "returned"}
    /\ colPc = "exited" <=> done
    /\ colPc = "exited" => errCh = "closed"
    /\ colPc # "append" <=> inbox = {}
    /\ mainPc = "returned" => done
    /\ mainPc # "returned" <=> answer = NoAnswer

IInv == TypeOK /\ OutcomeInv /\ ErrorInv /\ WgInv /\ ChangedInv /\ PhaseInv
          /\ AnswerComplete

-----------------------------------------------------------------------------
\* The helpers of the abstract module, expanded here once.
USE DEF Abs!Outcomes, Abs!Answers, Abs!Settled, MainPcs, GoPcs

\* wg.Add(1) by a goroutine that was not counted, wg.Done() by one that was.
LEMMA LiveCardinality ==
           /\ IsFiniteSet(Live)
           /\ Cardinality(Live) \in Nat
           /\ Cardinality(Live) = 0 <=> Live = {}
           /\ \A c : c \notin Live =>
                 Cardinality(Live \cup {c}) = Cardinality(Live) + 1
           /\ \A c \in Live :
                 Cardinality(Live \ {c}) = Cardinality(Live) - 1
<1>1. IsFiniteSet(Live)
  BY FanoutAssumption, FS_Subset DEF Live
<1>2. QED
  BY <1>1, FS_CardinalityType, FS_EmptySet, FS_AddElement, FS_RemoveElement

\* A call of the helper starts in a state of the inductive invariant: no
\* goroutine runs and none is counted yet.
THEOREM InitIInv == Init => IInv
<1> SUFFICES ASSUME Init PROVE IInv
  OBVIOUS
<1>1. Live = {} /\ Counted = {}
  BY DEF Init, Live, Counted
<1>2. WgInv
  BY <1>1, LiveCardinality DEF Init, WgInv
<1>3. TypeOK
  BY DEF Init, TypeOK
<1>4. OutcomeInv /\ ErrorInv
  BY DEF Init, OutcomeInv, ErrorInv
<1>5. ChangedInv /\ PhaseInv /\ AnswerComplete
  BY <1>1 DEF Init, ChangedInv, PhaseInv, AnswerComplete
<1>6. QED
  BY <1>2, <1>3, <1>4, <1>5 DEF IInv

\* No step of Fanout breaks the inductive invariant.
THEOREM NextIInv == IInv /\ [Next]_vars => IInv'
<1> SUFFICES ASSUME IInv, [Next]_vars PROVE IInv'
  OBVIOUS
<1> USE FanoutAssumption
<1> DEFINE Inv == TypeOK /\ OutcomeInv /\ ErrorInv /\ WgInv /\ ChangedInv
                    /\ PhaseInv /\ AnswerComplete
<1>0. Inv
  BY DEF IInv
<1>1. CASE EndLoop
  <2>1. Live' = Live /\ Counted' = Counted
    BY <1>1 DEF EndLoop, Live, Counted, Abs!Counts
  <2>2. QED
    BY <1>0, <1>1, <2>1
    DEF EndLoop, IInv, TypeOK, OutcomeInv, ErrorInv, WgInv, ChangedInv,
        PhaseInv, AnswerComplete
<1>2. CASE Wait
  <2>1. Live' = Live /\ Counted' = Counted
    BY <1>2 DEF Wait, Live, Counted, Abs!Counts
  <2>2. Live = {}
    BY <1>0, <1>2, LiveCardinality DEF Wait, WgInv
  <2>3. \A c \in Clusters : goPc[c] = "gone"
    BY <1>0, <1>2, <2>2 DEF Wait, Live, TypeOK, PhaseInv
  <2>4. QED
    BY <1>0, <1>2, <2>1, <2>3
    DEF Wait, IInv, TypeOK, OutcomeInv, ErrorInv, WgInv, ChangedInv,
        PhaseInv, AnswerComplete
<1>3. CASE CloseErrCh
  <2>1. Live' = Live /\ Counted' = Counted
    BY <1>3 DEF CloseErrCh, Live, Counted, Abs!Counts
  <2>2. QED
    BY <1>0, <1>3, <2>1
    DEF CloseErrCh, IInv, TypeOK, OutcomeInv, ErrorInv, WgInv, ChangedInv,
        PhaseInv, AnswerComplete
<1>4. CASE Return
  <2>1. Live' = Live /\ Counted' = Counted
    BY <1>4 DEF Return, Live, Counted, Abs!Counts
  <2>2. \A c \in Clusters : goPc[c] = "gone" /\ outcome[c] # Pending
    BY <1>0, <1>4 DEF Return, TypeOK, OutcomeInv, PhaseInv
  <2>3. errMsg = Abs!Failures
    BY <1>0, <1>4, <2>2
    DEF Return, Abs!Failures, TypeOK, ErrorInv, PhaseInv
  <2>4. changed > 0 <=> \E c \in Clusters : Abs!Counts(c)
    BY <1>0, <2>2 DEF ChangedInv, Counted
  <2>5. (changed > 0) = \E c \in Clusters : Abs!Counts(c)
    <3> DEFINE P == changed > 0
               Q == \E c \in Clusters : Abs!Counts(c)
    <3>1. P <=> Q
      BY <2>4
    <3>2. P \in BOOLEAN /\ Q \in BOOLEAN
      BY <1>0, SMT DEF TypeOK
    <3> HIDE DEF P, Q
    <3>3. P = Q
      BY <3>1, <3>2
    <3>4. QED
      BY <3>3 DEF P, Q
  <2>6. answer' = Abs!Aggregate
    BY <1>4, <2>3, <2>5, Zenon DEF Return, Abs!Aggregate
  <2>7. Abs!Aggregate' = Abs!Aggregate
    BY <1>4, Zenon
    DEF Return, Abs!Aggregate, Abs!Failures, Abs!Counts, Abs!Settled
  <2>8. answer' \in Abs!Answers
    BY <1>0, <1>4, SMT DEF Return, TypeOK
  <2>9. QED
    BY <1>0, <1>4, <2>1, <2>6, <2>7, <2>8
    DEF Return, IInv, TypeOK, OutcomeInv, ErrorInv, WgInv, ChangedInv,
        PhaseInv, AnswerComplete
<1>5. ASSUME NEW c \in Clusters, Spawn(c) PROVE IInv'
  <2>1. Live' = Live \cup {c} /\ c \notin Live
    BY <1>0, <1>5 DEF Spawn, Live, TypeOK
  <2>2. Counted' = Counted
    BY <1>0, <1>5 DEF Spawn, Counted, Abs!Counts, TypeOK
  <2>3. WgInv'
    BY <1>0, <1>5, <2>1, LiveCardinality DEF Spawn, WgInv, TypeOK
  <2>4. QED
    BY <1>0, <1>5, <2>2, <2>3
    DEF Spawn, IInv, TypeOK, OutcomeInv, ErrorInv, ChangedInv, PhaseInv,
        AnswerComplete
<1>6. ASSUME NEW c \in Clusters, Handle(c) PROVE IInv'
  <2>1. PICK o \in Abs!Outcomes :
           /\ outcome' = [outcome EXCEPT ![c] = o]
           /\ goPc' = [goPc EXCEPT ![c] = IF o.err THEN "send" ELSE "count"]
    BY <1>6 DEF Handle
  <2>2. Live' = Live
    BY <1>0, <1>6, <2>1 DEF Handle, Live, TypeOK
  <2>3. Counted' = Counted
    BY <1>0, <1>6, <2>1 DEF Handle, Counted, Abs!Counts, TypeOK
  <2>4. QED
    BY <1>0, <1>6, <2>1, <2>2, <2>3
    DEF Handle, IInv, TypeOK, OutcomeInv, ErrorInv, WgInv, ChangedInv,
        PhaseInv, AnswerComplete
<1>7. ASSUME NEW c \in Clusters, SendErr(c) PROVE IInv'
  <2>1. Live' = Live
    BY <1>0, <1>7 DEF SendErr, Live, TypeOK
  <2>2. Counted' = Counted
    BY <1>0, <1>7
    DEF SendErr, Counted, Abs!Counts, TypeOK, OutcomeInv
  <2>3. QED
    BY <1>0, <1>7, <2>1, <2>2
    DEF SendErr, IInv, TypeOK, OutcomeInv, ErrorInv, WgInv, ChangedInv,
        PhaseInv, AnswerComplete
<1>8. ASSUME NEW c \in Clusters, Count(c) PROVE IInv'
  <2>1. Live' = Live
    BY <1>0, <1>8 DEF Count, Live, TypeOK
  <2>2. Counted' = IF outcome[c].changed THEN Counted \cup {c} ELSE Counted
    BY <1>0, <1>8 DEF Count, Counted, Abs!Counts, TypeOK, OutcomeInv
  <2>3. ChangedInv'
    BY <1>0, <1>8, <2>2 DEF Count, ChangedInv, TypeOK
  <2>4. QED
    BY <1>0, <1>8, <2>1, <2>3
    DEF Count, IInv, TypeOK, OutcomeInv, ErrorInv, WgInv, PhaseInv,
        AnswerComplete
<1>9. ASSUME NEW c \in Clusters, WgDone(c) PROVE IInv'
  <2>1. Live' = Live \ {c} /\ c \in Live
    BY <1>0, <1>9 DEF WgDone, Live, TypeOK
  <2>2. Counted' = Counted
    BY <1>0, <1>9 DEF WgDone, Counted, Abs!Counts, TypeOK
  <2>3. WgInv' /\ wg' \in Nat
    <3>1. IsFiniteSet(Live \ {c})
      BY LiveCardinality, FS_RemoveElement
    <3>2. QED
      BY <1>0, <1>9, <2>1, <3>1, LiveCardinality, FS_CardinalityType
      DEF WgDone, WgInv, TypeOK
  <2>4. QED
    BY <1>0, <1>9, <2>2, <2>3
    DEF WgDone, IInv, TypeOK, OutcomeInv, ErrorInv, ChangedInv, PhaseInv,
        AnswerComplete
<1>10. CASE Append
  <2>1. Live' = Live /\ Counted' = Counted
    BY <1>10 DEF Append, Live, Counted, Abs!Counts
  <2>2. QED
    BY <1>0, <1>10, <2>1
    DEF Append, IInv, TypeOK, OutcomeInv, ErrorInv, WgInv, ChangedInv,
        PhaseInv, AnswerComplete
<1>11. CASE EndRange
  <2>1. Live' = Live /\ Counted' = Counted
    BY <1>11 DEF EndRange, Live, Counted, Abs!Counts
  <2>2. QED
    BY <1>0, <1>11, <2>1
    DEF EndRange, IInv, TypeOK, OutcomeInv, ErrorInv, WgInv, ChangedInv,
        PhaseInv, AnswerComplete
<1>12. CASE UNCHANGED vars
  BY <1>0, <1>12
  DEF vars, IInv, TypeOK, OutcomeInv, ErrorInv, WgInv, ChangedInv, PhaseInv,
      AnswerComplete, Live, Counted, Abs!Counts, Abs!Aggregate, Abs!Failures
<1>13. QED
  BY <1>1, <1>2, <1>3, <1>4, <1>5, <1>6, <1>7, <1>8, <1>9, <1>10, <1>11,
     <1>12
  DEF Next, Main, Worker, Collector, Returned

\* The inductive invariant holds in every state a call of the helper reaches,
\* whatever the order of its goroutines.
THEOREM InvariantHolds == Spec => []IInv
BY InitIInv, NextIInv, PTL DEF Spec

\* No counter goes below zero and every variable keeps its type, for any
\* number of clusters.
THEOREM TypeCorrect == Spec => []TypeOK
<1>1. IInv => TypeOK
  BY DEF IInv
<1>2. QED
  BY <1>1, InvariantHolds, PTL

\* errCh is never closed under a goroutine that may still send: after
\* wg.Wait() every goroutine is gone.
THEOREM ChannelSafe == Spec => []NoSendOnClosed
<1>1. IInv => NoSendOnClosed
  BY DEF IInv, PhaseInv, NoSendOnClosed
<1>2. QED
  BY <1>1, InvariantHolds, PTL

\* The caller is given every error and the right verdict on "changed".
THEOREM AnswerIsComplete == Spec => []AnswerComplete
<1>1. IInv => AnswerComplete
  BY DEF IInv
<1>2. QED
  BY <1>1, InvariantHolds, PTL

\* After the call has returned no goroutine writes what the caller reads.
THEOREM ResultStable == Spec => NoLateWrite
<1>1. IInv /\ [Next]_vars =>
        [mainPc = "returned" => UNCHANGED <<errMsg, changed>>]_vars
  <2> SUFFICES ASSUME IInv, Next, mainPc = "returned"
               PROVE  UNCHANGED <<errMsg, changed>>
    OBVIOUS
  <2>1. /\ \A c \in Clusters : goPc[c] = "gone"
        /\ colPc = "exited"
    BY DEF IInv, PhaseInv
  <2>2. QED
    BY <2>1
    DEF Next, Main, Worker, Collector, Returned, EndLoop, Wait, CloseErrCh,
        Return, Spawn, Handle, SendErr, Count, WgDone, Append, EndRange, vars
<1>2. QED
  BY <1>1, InvariantHolds, PTL DEF Spec, NoLateWrite

-----------------------------------------------------------------------------
\* The goroutines and channels implement the one-answer call of FanoutAbs: a
\* handler's return is a Settle, the caller's return is the Reply, every other
\* step is invisible. (That the Reply eventually happens is left to TLC.)
THEOREM ImplementsSafely ==
    Spec => Abs!AbsInit /\ [][Abs!AbsNext]_(Abs!absVars)
<1>1. Init => Abs!AbsInit
  BY DEF Init, Abs!AbsInit
<1>2. IInv /\ IInv' /\ [Next]_vars =>
        [Abs!AbsNext]_(Abs!absVars)
  <2> USE DEF Abs!AbsNext, Abs!absVars
  <2> SUFFICES ASSUME IInv, IInv', Next
               PROVE  Abs!AbsNext \/ UNCHANGED Abs!absVars
    BY DEF vars
  <2>1. CASE Return
    <3>1. Abs!Aggregate = answer'
      <4>1. answer' = Abs!Aggregate'
        BY <2>1 DEF Return, IInv, AnswerComplete
      <4>2. Abs!Aggregate' = Abs!Aggregate
        BY <2>1, Zenon
        DEF Return, Abs!Aggregate, Abs!Failures, Abs!Counts, Abs!Settled
      <4>3. QED
        BY <4>1, <4>2
    <3>2. \A c \in Clusters : Abs!Settled(c)
      BY <2>1 DEF Return, IInv, PhaseInv, OutcomeInv, Abs!Settled
    <3>3. answer = NoAnswer
      BY <2>1 DEF Return, IInv, PhaseInv
    <3>4. QED
      BY <2>1, <3>1, <3>2, <3>3 DEF Return, Abs!Reply
  <2>2. ASSUME NEW c \in Clusters, Handle(c) PROVE Abs!Settle(c)
    BY <2>2 DEF Handle, Abs!Settle, Abs!Settled, IInv, OutcomeInv
  <2>3. ASSUME NEW c \in Clusters,
               Spawn(c) \/ SendErr(c) \/ Count(c) \/ WgDone(c)
        PROVE  UNCHANGED Abs!absVars
    BY <2>3 DEF Spawn, SendErr, Count, WgDone
  <2>4. CASE EndLoop \/ Wait \/ CloseErrCh \/ Append \/ EndRange \/ Returned
    BY <2>4 DEF EndLoop, Wait, CloseErrCh, Append, EndRange, Returned, vars
  <2>5. Main \/ Collector \/ Returned => Abs!AbsNext \/ UNCHANGED Abs!absVars
    BY <2>1, <2>4 DEF Main, Collector
  <2>6. \A c \in Clusters : Worker(c) => Abs!AbsNext \/ UNCHANGED Abs!absVars
    BY <2>2, <2>3 DEF Worker
  <2>7. QED
    BY <2>5, <2>6 DEF Next
<1>3. QED
  BY <1>1, <1>2, InvariantHolds, PTL DEF Spec
=============================================================================
