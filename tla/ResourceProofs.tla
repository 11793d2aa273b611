--------------------------- MODULE ResourceProofs ---------------------------
(***************************************************************************)
(* For all contents, every number of changes by others and of refused,     *)
(* lost and interrupted calls: resource.Reconcile keeps the promise of     *)
(* ResourceAbs, and an update takes from others only what they added       *)
(* beside the chart. The invariant says what the running call knows at each    *)
(* point: what it was asked for, what it has done so far, and that the     *)
(* object it read is the stored one as long as its version is current.     *)
(***************************************************************************)
EXTENDS ResourceApply, TLAPS

\* A version that is current is that of the stored object.
FreshInv == /\ fresh => copy = obj
            /\ curFresh => cur = obj

\* Each point of the call is reached for one of the two wishes only, and an
\* update only over an object that is in sync.
CallInv ==
    /\ pc \in {"create", "put", "reget", "tear", "rebuild"} =>
         call.state = "present"
    /\ pc = "delete" => call.state = "absent"
    /\ pc = "put" => cur # Missing /\ PatchEmpty(cur, call)

\* What the call has done, and that its answer does not hide it.
MarkInv ==
    /\ pc \in {"get", "create", "delete", "put", "tear"} => mark = "nothing"
    /\ pc = "reget" => mark = "served"
    /\ pc = "rebuild" => mark = "torn"
    /\ pc = "return" => /\ ret.changed /\ ~ret.err => mark = "served"
                        /\ mark = "torn" => ret.err

IInv == TypeOK /\ FreshInv /\ CallInv /\ MarkInv

-----------------------------------------------------------------------------
\* The start, and steps outside the call

\* An object may be missing, and may hold whatever is asked for.
LEMMA MissingIsObject ==
    /\ Missing \in Objects
    /\ TypeOK => /\ call.content \in Contents
                 /\ call.content \in Objects
                 /\ call.content # Missing
BY ResourceAssumption DEF Objects, TypeOK, Wishes, Rendered

\* No call is running at the start, and the informer has listed everything.
THEOREM InitIInv == Init => IInv
<1> SUFFICES ASSUME Init PROVE IInv
  OBVIOUS
<1>1. TypeOK
  <2>1. wish \in Wishes /\ ret \in [changed : BOOLEAN, err : BOOLEAN]
    BY DEF Init, Asked
  <2>2. cur \in Objects
    BY MissingIsObject DEF Init
  <2>3. others \in 0..MaxOthers /\ faults \in 0..MaxFaults
    BY ResourceAssumption DEF Init
  <2>4. /\ fresh \in BOOLEAN /\ curFresh \in BOOLEAN /\ due \in BOOLEAN
        /\ pc = "idle" /\ mark = "nothing" /\ answer = ret /\ call = wish
        /\ kind \in Kinds /\ recreates \in BOOLEAN
        /\ obj \in Objects /\ copy = obj
    BY DEF Init
  <2>5. QED
    BY <2>1, <2>2, <2>3, <2>4 DEF TypeOK
<1>2. FreshInv /\ CallInv /\ MarkInv
  BY DEF Init, FreshInv, CallInv, MarkInv
<1>3. QED
  BY <1>1, <1>2 DEF IInv

\* A fault stays within the bound.
LEMMA FaultBound ==
    ASSUME TypeOK, Fault \/ UNCHANGED faults
    PROVE  faults' \in 0..MaxFaults
<1>1. MaxFaults \in Nat
  BY ResourceAssumption
<1>2. faults \in 0..MaxFaults
  BY DEF TypeOK
<1>3. QED
  BY <1>1, <1>2 DEF Fault

\* What others do, and the watch, change no more than the versions.
LEMMA OutsideIInv ==
    ASSUME IInv, Others \/ Edit \/ Sync \/ Crash \/ UNCHANGED vars
    PROVE  IInv'
<1> USE DEF IInv
<1>1. CASE Others
  <2>1. PICK o \in Objects \ {obj} : Becomes(o)
    BY <1>1 DEF Others
  <2>2. TypeOK'
    BY <1>1, <2>1, ResourceAssumption DEF Others, Becomes, config, TypeOK
  <2>3. FreshInv' /\ CallInv' /\ MarkInv'
    BY <1>1, <2>1
    DEF Others, Becomes, config, FreshInv, CallInv, MarkInv, PatchEmpty
  <2>4. QED
    BY <2>2, <2>3
<1>2. CASE Edit
  <2>1. TypeOK'
    BY <1>2, ResourceAssumption DEF Edit, Asked, config, server, local, TypeOK
  <2>2. FreshInv' /\ CallInv' /\ MarkInv'
    BY <1>2
    DEF Edit, config, server, local, FreshInv, CallInv, MarkInv, PatchEmpty
  <2>3. QED
    BY <2>1, <2>2
<1>3. CASE Sync
  <2>1. TypeOK'
    BY <1>3 DEF Sync, Watched, config, local, bounds, TypeOK
  <2>2. FreshInv' /\ CallInv' /\ MarkInv'
    BY <1>3
    DEF Sync, config, local, FreshInv, CallInv, MarkInv, PatchEmpty
  <2>3. QED
    BY <2>1, <2>2
<1>4. CASE Crash
  <2>1. cur' \in Objects
    BY <1>4, MissingIsObject DEF Crash
  <2>2. faults' \in 0..MaxFaults
    BY <1>4, FaultBound DEF Crash
  <2>3. TypeOK'
    BY <1>4, <2>1, <2>2 DEF Crash, Goto, config, TypeOK
  <2>4. FreshInv' /\ CallInv' /\ MarkInv'
    BY <1>4 DEF Crash, Goto, FreshInv, CallInv, MarkInv
  <2>5. QED
    BY <2>3, <2>4
<1>5. CASE UNCHANGED vars
  BY <1>5
  DEF vars, config, server, local, bounds, TypeOK, FreshInv, CallInv, MarkInv,
      PatchEmpty
<1>6. QED
  BY <1>1, <1>2, <1>3, <1>4, <1>5

-----------------------------------------------------------------------------
\* The steps of the call

\* An answer that is prepared is one of the four there are.
LEMMA ReturnTyped ==
    ASSUME NEW c \in BOOLEAN, NEW e \in BOOLEAN, Return(c, e)
    PROVE  pc' = "return" /\ ret' \in [changed : BOOLEAN, err : BOOLEAN]
BY DEF Return

\* A write that is made or not leads to one of these ends.
LEMMA WriteEnds ==
    ASSUME Create \/ Delete \/ Put \/ PutJob \/ Tear \/ Rebuild
    PROVE  /\ \/ Return(TRUE, FALSE) \/ Return(TRUE, TRUE) \/ Return(FALSE, TRUE)
              \/ Goto("reget") \/ Goto("tear") \/ Goto("rebuild")
           /\ Fault \/ UNCHANGED faults
           /\ UNCHANGED mark \/ mark' = "served" \/ mark' = "torn"
BY DEF Create, Delete, Put, PutJob, Tear, Rebuild, Write, Refused

\* A call begins with what is asked for now, and reads the copy.
LEMMA ReadIInv ==
    ASSUME IInv, Call \/ Get \/ Reget \/ Reply
    PROVE  IInv'
<1> USE DEF IInv
<1>1. CASE Call
  <2>1. TypeOK'
    BY <1>1 DEF Call, Goto, config, server, bounds, TypeOK
  <2>2. FreshInv' /\ CallInv' /\ MarkInv'
    BY <1>1 DEF Call, Goto, server, FreshInv, CallInv, MarkInv
  <2>3. QED
    BY <2>1, <2>2
<1>2. CASE Get
  <2>1. faults' \in 0..MaxFaults
    BY <1>2, FaultBound DEF Get
  <2>2. \/ Return(FALSE, TRUE) \/ Return(TRUE, FALSE) \/ Return(FALSE, FALSE)
        \/ Goto("create") \/ Goto("delete") \/ Goto("put")
    BY <1>2 DEF Get
  <2>3. /\ pc' \in {"create", "delete", "put", "return"}
        /\ ret' \in [changed : BOOLEAN, err : BOOLEAN]
    BY <2>2, ReturnTyped DEF Goto, TypeOK
  <2>4. mark' \in {"nothing", "served", "torn"}
    BY <1>2 DEF Get, TypeOK
  <2>5. TypeOK'
    BY <1>2, <2>1, <2>3, <2>4 DEF Get, config, server, TypeOK
  <2>6. call.state \in {"present", "absent"}
    BY DEF TypeOK, Wishes
  <2>7. FreshInv' /\ CallInv'
    BY <1>2, <2>6
    DEF Get, Goto, Return, server, FreshInv, CallInv, PatchEmpty
  <2>8. MarkInv'
    BY <1>2 DEF Get, Goto, Return, MarkInv
  <2>9. QED
    BY <2>5, <2>7, <2>8
<1>3. CASE Reget
  <2>1. faults' \in 0..MaxFaults
    BY <1>3, FaultBound DEF Reget
  <2>2. pc' = "return" /\ ret' \in [changed : BOOLEAN, err : BOOLEAN]
    <3>1. Return(TRUE, TRUE) \/ Return(TRUE, FALSE)
      <4>1. CASE copy = Missing
        BY <1>3, <4>1 DEF Reget, Return
      <4>2. CASE copy # Missing
        BY <1>3, <4>2 DEF Reget, Return
      <4>3. QED
        BY <4>1, <4>2
    <3>2. QED
      BY <3>1, ReturnTyped
  <2>3. TypeOK'
    BY <1>3, <2>1, <2>2 DEF Reget, config, server, local, TypeOK
  <2>4. FreshInv' /\ CallInv' /\ MarkInv'
    BY <1>3 DEF Reget, Return, server, local, FreshInv, CallInv, MarkInv
  <2>5. QED
    BY <2>3, <2>4
<1>4. CASE Reply
  <2>1. TypeOK'
    BY <1>4, MissingIsObject DEF Reply, Goto, config, server, bounds, TypeOK
  <2>2. FreshInv' /\ CallInv' /\ MarkInv'
    BY <1>4 DEF Reply, Goto, server, FreshInv, CallInv, MarkInv
  <2>3. QED
    BY <2>1, <2>2
<1>5. QED
  BY <1>1, <1>2, <1>3, <1>4

\* A write in the course of a call: made or not, the call goes on with an
\* answer or at a point where it was asked for the object.
LEMMA WriteIInv ==
    ASSUME IInv, Create \/ Delete \/ Put \/ PutJob \/ Tear \/ Rebuild
    PROVE  IInv'
<1> USE DEF IInv
<1>1. /\ UNCHANGED <<config, wish, due, call, cur, answer, others>>
      /\ \/ UNCHANGED <<server, curFresh>>
         \/ \E o \in Objects : Becomes(o)
  BY MissingIsObject
  DEF Create, Delete, Put, PutJob, Tear, Rebuild, Write, Refused, Untouched
<1>2. faults' \in 0..MaxFaults
  BY WriteEnds, FaultBound
<1>3. /\ pc' \in {"reget", "tear", "rebuild", "return"}
      /\ ret' \in [changed : BOOLEAN, err : BOOLEAN]
      /\ mark' \in {"nothing", "served", "torn"}
  BY WriteEnds, ReturnTyped DEF Goto, TypeOK
<1>4. TypeOK'
  BY <1>1, <1>2, <1>3 DEF server, config, Becomes, TypeOK
<1>5. FreshInv'
  <2>1. CASE UNCHANGED <<server, curFresh>>
    BY <1>1, <2>1 DEF server, FreshInv
  <2>2. ASSUME NEW o \in Objects, Becomes(o)
        PROVE  FreshInv'
    BY <1>1, <2>2 DEF Becomes, FreshInv
  <2>3. QED
    BY <1>1, <2>1, <2>2
<1>6. CallInv'
  <2>1. pc' \in {"reget", "tear", "rebuild"} => call.state = "present"
    BY DEF Create, Delete, Put, PutJob, Tear, Rebuild, Write, Refused, Return,
           Goto, CallInv
  <2>2. QED
    BY <1>1, <1>3, <2>1 DEF CallInv
<1>7. MarkInv'
  BY DEF Create, Delete, Put, PutJob, Tear, Rebuild, Write, Refused, Return,
         Goto, MarkInv
<1>8. QED
  BY <1>4, <1>5, <1>6, <1>7

\* No step breaks the inductive invariant.
THEOREM NextIInv == IInv /\ [Next]_vars => IInv'
BY OutsideIInv, ReadIInv, WriteIInv DEF Next, Step

\* The inductive invariant holds in every reachable state.
THEOREM InvariantHolds == Spec => []IInv
BY InitIInv, NextIInv, PTL DEF Spec

-----------------------------------------------------------------------------
\* What follows

\* Every variable keeps its type, for all contents and bounds.
THEOREM TypeCorrect == Spec => []TypeOK
<1>1. IInv => TypeOK
  BY DEF IInv
<1>2. QED
  BY <1>1, InvariantHolds, PTL

\* Only the update of what is no Job changes the object from where the call
\* is about to put it.
LEMMA OnlyPut ==
    ASSUME Next, pc = "put", pc' # "put", kind # "Job", obj' # obj
    PROVE  Put
<1>1. CASE Step
  BY <1>1
  DEF Step, Call, Get, Create, Delete, PutJob, Reget, Tear, Rebuild, Reply
<1>2. CASE Others \/ Edit \/ Sync
  BY <1>2 DEF Others, Edit, Sync
<1>3. CASE Crash
  BY <1>3 DEF Crash
<1>4. QED
  BY <1>1, <1>2, <1>3 DEF Next

\* Whatever others write between the read and the update, an update of a
\* Deployment or a Service leaves them the labels and the fields that the chart
\* names, never takes down their replicas, and takes what they added beside.
THEOREM UpdatesSpareTheChart == Spec => UpdatesTakeOnlyExtras
<1> DEFINE Spared == [obj EXCEPT !.replicas = obj'.replicas, !.extra = "nothing"]
<1>1. IInv /\ [Next]_vars =>
        [pc = "put" /\ pc' # "put" /\ kind # "Job" /\ obj' # obj
           => /\ obj # Missing
              /\ obj' = [obj EXCEPT !.replicas = obj'.replicas, !.extra = "nothing"]
              /\ obj'.replicas >= obj.replicas]_vars
  <2> SUFFICES ASSUME IInv, Next,
                      pc = "put", pc' # "put", kind # "Job", obj' # obj
               PROVE  /\ obj # Missing
                      /\ obj' = Spared
                      /\ obj'.replicas >= obj.replicas
    OBVIOUS
  <2>1. Put
    BY OnlyPut
  <2>2. curFresh /\ obj' = call.content
    BY <2>1 DEF Put, Write, Refused, Untouched, server, Becomes
  <2>3. obj = cur /\ obj # Missing /\ PatchEmpty(obj, call)
    BY <2>2 DEF IInv, FreshInv, CallInv
  <2>4. /\ obj \in [labels : Labels, spec : Specs, replicas : Nat, extra : Extras]
        /\ obj' \in [labels : Labels, spec : Specs, replicas : Nat, extra : Extras]
        /\ obj'.extra = "nothing"
    <3>1. obj \in Contents /\ call.content \in Rendered
      BY <2>3 DEF IInv, TypeOK, Objects, Wishes
    <3>2. QED
      BY <2>2, <3>1, ResourceAssumption DEF Rendered
  <2>5. obj'.labels = obj.labels /\ obj'.spec = obj.spec
    BY <2>2, <2>3 DEF PatchEmpty, LabelEqual
  <2>6. obj'.replicas >= obj.replicas
    BY <2>2, <2>3, <2>4 DEF PatchEmpty
  <2>7. obj' = Spared
    BY <2>4, <2>5
  <2>8. QED
    BY <2>3, <2>6, <2>7
<1>2. QED
  BY <1>1, InvariantHolds, PTL DEF Spec, UpdatesTakeOnlyExtras

-----------------------------------------------------------------------------
\* The refinement

\* What a call wants stays as it is until the call is over.
LEMMA WantedStays ==
    ASSUME UNCHANGED call, pc # "idle", pc' # "idle"
    PROVE  Wanted' = Wanted
BY DEF Wanted

\* A running call wants an object, or none.
LEMMA WantedObject ==
    ASSUME IInv, pc # "idle"
    PROVE  /\ Wanted \in Abs!Objects
           /\ Wanted # Idle
           /\ call.state = "present" => Wanted = call.content
           /\ call.state = "absent" => Wanted = Missing
<1>1. Wanted \in Objects
  BY MissingIsObject DEF IInv, Wanted
<1>2. QED
  BY <1>1, ResourceAssumption DEF Wanted, Objects, Abs!Objects

\* Each call of resource.Reconcile is a call of ResourceAbs: a write that is
\* done serves the caller or takes the object away, an answer is a Reply, and
\* what is refused or only read is invisible.
THEOREM ImplementsAbs == Spec => Implements
<1>1. Init => Abs!Init
  <2> SUFFICES ASSUME Init PROVE Abs!Init
    OBVIOUS
  <2>1. Wanted = Idle
    BY DEF Init, Wanted
  <2>2. QED
    BY <2>1 DEF Init, Abs!Init, Objects, Abs!Objects
<1>2. IInv /\ [Next]_vars => [Abs!Next]_(Abs!vars)
  <2> SUFFICES ASSUME IInv, [Next]_vars PROVE [Abs!Next]_(Abs!vars)
    OBVIOUS
  <2> USE DEF Abs!Next, Abs!vars
  <2>1. CASE Call
    <3>1. Wanted = Idle
      BY <2>1 DEF Call, Wanted
    <3>2. Wanted' = call'.content \/ Wanted' = Missing
      BY <2>1 DEF Call, Goto, Wanted
    <3>3. call'.content \in Contents
      BY <2>1 DEF Call, IInv, TypeOK, Wishes, Rendered
    <3>4. Wanted = Idle /\ Wanted' \in Abs!Objects
      BY <3>1, <3>2, <3>3 DEF Abs!Objects
    <3>5. QED
      BY <2>1, <3>4 DEF Call, server, Abs!Begin
  <2>2. CASE Get
    <3>1. Wanted' = Wanted
      BY <2>2, WantedStays DEF Get, Goto, Return
    <3>2. mark' = mark \/ (mark' = "served" /\ Wanted = Missing)
      BY <2>2, WantedObject DEF Get
    <3>3. QED
      BY <2>2, <3>1, <3>2 DEF Get, server, Abs!NotThere
  <2>3. CASE Create \/ Delete \/ Put \/ PutJob \/ Tear \/ Rebuild
    <3>1. /\ pc # "idle" /\ pc' # "idle" /\ UNCHANGED <<call, answer>>
          /\ \/ UNCHANGED <<obj, mark>>
             \/ pc # "delete" /\ obj' = call.content /\ mark' = "served"
             \/ pc = "delete" /\ obj' = Missing /\ mark' = "served"
             \/ pc = "tear" /\ obj' = Missing /\ mark' = "torn"
      BY <2>3
      DEF Create, Delete, Put, PutJob, Tear, Rebuild, Write, Refused, Return,
          Goto, Untouched, server, Becomes
    <3>2. Wanted' = Wanted /\ Wanted # Idle
      BY <3>1, WantedStays, WantedObject
    <3>3. /\ pc \in {"create", "delete", "put", "tear", "rebuild"}
          /\ IF pc = "delete" THEN Wanted = Missing
                              ELSE Wanted = call.content
      BY <2>3, WantedObject
      DEF Create, Delete, Put, PutJob, Tear, Rebuild, IInv, CallInv
    <3>4. call.content \in Contents
      BY MissingIsObject DEF IInv
    <3>5. QED
      BY <3>1, <3>2, <3>3, <3>4 DEF Abs!Serve, Abs!Tear
  <2>4. CASE Reget
    <3>1. Wanted' = Wanted
      BY <2>4, WantedStays DEF Reget, Return, local
    <3>2. QED
      BY <2>4, <3>1 DEF Reget, server
  <2>5. CASE Reply
    <3>1. Wanted # Idle
      BY <2>5, WantedObject DEF Reply
    <3>2. Wanted' = Idle
      <4>1. pc' = "idle"
        BY <2>5 DEF Reply, Goto
      <4>2. QED
        BY <4>1 DEF Wanted
    <3>3. Wanted # Idle /\ Wanted' = Idle
      BY <3>1, <3>2
    <3>4. /\ answer' \in Abs!Answers
          /\ answer'.changed /\ ~answer'.err => mark = "served"
          /\ mark = "torn" => answer'.err
      BY <2>5 DEF Reply, IInv, TypeOK, MarkInv, Abs!Answers
    <3>5. QED
      BY <2>5, <3>3, <3>4 DEF Reply, server, Abs!Reply
  <2>6. CASE Others
    <3>1. Wanted' = Wanted
      BY <2>6 DEF Others, Wanted
    <3>2. QED
      BY <2>6, <3>1 DEF Others, Becomes, Objects, Abs!Objects, Abs!Others
  <2>7. CASE Edit \/ Sync
    <3>1. Wanted' = Wanted
      BY <2>7 DEF Edit, Sync, local, Wanted
    <3>2. QED
      BY <2>7, <3>1 DEF Edit, Sync, server
  <2>8. CASE Crash
    <3>1. Wanted' = Idle
      <4>1. pc' = "idle"
        BY <2>8 DEF Crash, Goto
      <4>2. QED
        BY <4>1 DEF Wanted
    <3>2. QED
      BY <2>8, <3>1 DEF Crash, Abs!Crash
  <2>9. CASE UNCHANGED vars
    BY <2>9 DEF vars, server, local, Wanted
  <2>10. QED
    BY <2>1, <2>2, <2>3, <2>4, <2>5, <2>6, <2>7, <2>8, <2>9 DEF Next, Step
<1>3. QED
  BY <1>1, <1>2, InvariantHolds, PTL DEF Spec, Implements, Abs!Spec
=============================================================================
