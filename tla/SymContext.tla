----------------------------- MODULE SymContext -----------------------------
(***************************************************************************)
(* pkg/context: the values the steps of one reconcile leave for each other *)
(* and for the queue. A value carries its Go type: the getters answer the  *)
(* zero value unless the dynamic type is exactly the one asked for, so a   *)
(* time.Duration is no int64 and a named string type is no string.         *)
(***************************************************************************)

\* The keys of types.ContextKey a reconcile of the master uses.
Keys == {"StepStop", "NeedRequeue", "RequeueAfter", "AppsetStatus"}

Value(type, val) == [type |-> type, val |-> val]

\* The values the steps of the master put in.
Values == [type : {"nil", "bool", "time.Duration", "AppStatus"},
           val : {"", "true", "10s", "5s", "Installing", "Running"}]

Contexts == [Keys -> Values]

Unset     == Value("nil", "")
TrueValue == Value("bool", "true")

\* time.Duration(10 * time.Second), time.Duration(5 * time.Second)
RequeueAfterTimeError == Value("time.Duration", "10s")
RequeueAfterTimeGrace == Value("time.Duration", "5s")

\* The type of workloadv1beta1.AppStatusRuning and its siblings.
AppStatusValue(phase) == Value("AppStatus", phase)

NewContext == [k \in Keys |-> Unset]

\* Sets the key in place: every holder of the context sees the new value.
WithValue(ctx, k, v) == [ctx EXCEPT ![k] = v]

GetValueString(ctx, k) == IF ctx[k].type = "string" THEN ctx[k].val ELSE ""
GetValueBool(ctx, k)   == ctx[k] = TrueValue
GetValueInt64(ctx, k)  == IF ctx[k].type = "int64" THEN ctx[k].val ELSE "0"
=============================================================================
