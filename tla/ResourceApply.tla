---------------------------- MODULE ResourceApply ----------------------------
(***************************************************************************)
(* pkg/resource/resource.go: the calls of resource.Reconcile on one object *)
(* of one cluster, made one after another by the thread of the worker that *)
(* owns the key.                                                           *)
(*                                                                         *)
(* Reads come from the informer's copy, which lags. Others (users, the     *)
(* HPA controller, the garbage collector) change the object meanwhile; a   *)
(* write can be refused, or be done and its answer lost; the process can   *)
(* die between two calls to the API server. A resourceVersion only tells   *)
(* whether the object is still the one that was read, so it is kept as     *)
(* that fact: fresh for the copy, curFresh for the object read.            *)
(*                                                                         *)
(* patchHandle stops the caller when there is a difference, and goes on    *)
(* when there is none: the code is modelled as it is.                      *)
(***************************************************************************)
EXTENDS Integers

CONSTANTS Labels,       \* values of metadata.labels
          Specs,        \* values of the fields the chart names, replicas aside
          Numbered,     \* those with a number in an IntOrString, such as a port
          Contents,     \* what the object can hold
          MaxOthers,    \* bound of the steps of others and of chart edits
          MaxFaults,    \* bound of refused calls, lost answers and crashes
          Missing, Idle

Kinds    == {"Deployment", "Service", "Job", "HPA"}

\* spec holds the fields that the chart names, or named when it was applied
\* last; extra is for all that others have added and no chart named, the
\* server's defaults and annotations of other controllers, perhaps with a
\* number in an IntOrString.
Extras   == {"nothing", "fields", "numbers"}
Objects  == Contents \cup {Missing}
Rendered == {c \in Contents : c.extra = "nothing"}

ASSUME ResourceAssumption == /\ Numbered \subseteq Specs
                             /\ Contents \subseteq
                                  [labels : Labels, spec : Specs, replicas : Nat,
                                   extra : Extras]
                             /\ MaxOthers \in Nat
                             /\ MaxFaults \in Nat
                             /\ Missing \notin Contents
                             /\ Idle \notin Objects

\* resource.Option with the object it goes with; absent has no content.
Wishes == [state : {"present", "absent"}, content : Rendered,
           ignoreReplicas : BOOLEAN]

VARIABLES kind,      \* the kind of the object
          recreates, \* Option.IsRecreate
          obj,       \* the object on the API server
          copy,      \* the object in the informer's store
          fresh,     \* is copy the current version?
          wish,      \* what the chart and the annotations ask for now
          due,       \* will the caller call again?
          pc, call, cur, curFresh, ret,   \* the running call
          mark,      \* history: what the call did (ResourceAbs)
          answer,    \* the last answer
          others, faults   \* steps of others and faults so far

server == <<obj, copy, fresh>>
local  == <<call, cur, curFresh>>
bounds == <<others, faults>>
config == <<kind, recreates>>
vars   == <<config, server, wish, due, pc, local, ret, mark, answer, bounds>>

TypeOK == /\ kind \in Kinds /\ recreates \in BOOLEAN
          /\ obj \in Objects /\ copy \in Objects /\ cur \in Objects
          /\ fresh \in BOOLEAN /\ curFresh \in BOOLEAN /\ due \in BOOLEAN
          /\ wish \in Wishes /\ call \in Wishes
          /\ pc \in {"idle", "get", "create", "delete", "put", "reget",
                     "tear", "rebuild", "return"}
          /\ ret \in [changed : BOOLEAN, err : BOOLEAN]
          /\ answer \in [changed : BOOLEAN, err : BOOLEAN]
          /\ mark \in {"nothing", "served", "torn"}
          /\ others \in 0..MaxOthers /\ faults \in 0..MaxFaults

\* The worker removes HPAs through Reconcile and applies everything else.
\* Only what scales is applied with IsIgnoreReplicas.
Asked == {w \in Wishes : /\ w.state = IF kind = "HPA" THEN "absent" ELSE "present"
                         /\ w.ignoreReplicas => kind = "Deployment"}

\* watchResource: the changes of these kinds bring the key back.
Watched == kind \in {"Deployment", "Job"}

Init == /\ kind \in Kinds
        /\ recreates \in {r \in BOOLEAN : r => kind # "HPA"}
        /\ obj \in Objects
        /\ copy = obj /\ fresh = TRUE
        /\ wish \in Asked
        /\ due = TRUE
        /\ pc = "idle"
        /\ call = wish /\ cur = Missing /\ curFresh = FALSE
        /\ ret = [changed |-> FALSE, err |-> FALSE]
        /\ mark = "nothing"
        /\ answer = ret
        /\ others = 0 /\ faults = 0

-----------------------------------------------------------------------------
\* The API server

\* The object becomes o: whoever read it before has an old version.
Becomes(o) == /\ obj' = o
              /\ fresh' = (fresh /\ o = obj)
              /\ curFresh' = (curFresh /\ o = obj)
              /\ UNCHANGED copy

Untouched == UNCHANGED <<server, curFresh>>

Fault == faults < MaxFaults /\ faults' = faults + 1

\* A write that the server would do: done, refused on the way, or done and
\* its answer lost. done and lost say where the caller goes.
Write(o, does, Done, Failed) ==
    \/ Becomes(o) /\ mark' = does /\ Done /\ UNCHANGED faults
    \/ Fault /\ Untouched /\ UNCHANGED mark /\ Failed
    \/ Fault /\ Becomes(o) /\ mark' = does /\ Failed

\* A write the server refuses in the state it is in.
Refused(Failed) == Untouched /\ Failed /\ UNCHANGED <<mark, faults>>

-----------------------------------------------------------------------------
\* The call

Goto(p) == pc' = p /\ UNCHANGED ret

\* return changed, err
Return(changed, err) == /\ ret' = [changed |-> changed, err |-> err]
                        /\ pc' = "return"

\* Calculate cannot marshal an object with a number in an IntOrString.
Marshals(content) == content.spec \notin Numbered /\ content.extra # "numbers"

\* labelEqual comes first: with other labels nothing is calculated.
LabelEqual(current, w) == w.content.labels = current.labels

CalculateFails(current, w) ==
    LabelEqual(current, w) /\ ~(Marshals(current) /\ Marshals(w.content))

\* The three-way patch of the copy and the desired object is empty: what others
\* have added is no difference, and replicas are left out of it when more are
\* desired than run.
PatchEmpty(current, w) ==
    /\ LabelEqual(current, w)
    /\ w.content.spec = current.spec
    /\ \/ w.content.replicas = current.replicas
       \/ w.ignoreReplicas /\ w.content.replicas > current.replicas

Call == /\ pc = "idle" /\ due
        /\ due' = FALSE
        /\ call' = wish
        /\ mark' = "nothing"
        /\ Goto("get")
        /\ UNCHANGED <<config, server, wish, cur, curFresh, answer, bounds>>

\* Faulty variant: what is not found counts as done, wanted or not.
GetNeverCreates ==
    /\ pc = "get"
    /\ cur' = copy /\ curFresh' = fresh
    /\ UNCHANGED <<config, server, wish, due, call, answer, bounds, mark>>
    /\ IF copy = Missing THEN Return(TRUE, FALSE)
         ELSE IF call.state = "absent" THEN Goto("delete")
         ELSE IF PatchEmpty(copy, call) THEN Goto("put")
         ELSE Return(FALSE, FALSE)

\* cli.Get from the copy, and the decision on what it shows.
Get == /\ pc = "get"
       /\ cur' = copy
       /\ curFresh' = fresh
       /\ UNCHANGED <<config, server, wish, due, call, answer, others>>
       /\ \/ Fault /\ Return(FALSE, TRUE) /\ UNCHANGED mark
          \/ /\ UNCHANGED faults
             /\ \/ /\ copy = Missing /\ call.state = "present"
                   /\ Goto("create") /\ UNCHANGED mark
                \/ /\ copy = Missing /\ call.state = "absent"
                   /\ Return(TRUE, FALSE) /\ mark' = "served"
                \/ /\ copy # Missing /\ call.state = "absent"
                   /\ Goto("delete") /\ UNCHANGED mark
                \/ /\ copy # Missing /\ call.state = "present"
                   /\ UNCHANGED mark
                   /\ IF CalculateFails(copy, call) THEN Return(FALSE, TRUE)
                      ELSE IF PatchEmpty(copy, call) THEN Goto("put")
                      ELSE Return(FALSE, FALSE)

Create == /\ pc = "create"
          /\ UNCHANGED <<config, wish, due, call, cur, answer, others>>
          /\ IF obj = Missing
               THEN Write(call.content, "served",
                          Return(TRUE, FALSE), Return(FALSE, TRUE))
               ELSE Refused(Return(FALSE, TRUE))

Delete == /\ pc = "delete"
          /\ UNCHANGED <<config, wish, due, call, cur, answer, others>>
          /\ IF obj # Missing
               THEN Write(Missing, "served",
                          Return(TRUE, FALSE), Return(FALSE, TRUE))
               ELSE Refused(Return(FALSE, TRUE))

\* Faulty variants: the desired object is put without the resourceVersion
\* of the object read; its replicas are added to those that run.
PutUnconditional ==
    /\ pc = "put" /\ kind # "Job"
    /\ UNCHANGED <<config, wish, due, call, cur, answer, others>>
    /\ IF obj # Missing
         THEN Write(call.content, "served", Goto("reget"), Return(TRUE, TRUE))
         ELSE Refused(Return(TRUE, TRUE))

PutMerged ==
    /\ pc = "put" /\ kind # "Job" /\ curFresh
    /\ UNCHANGED <<config, wish, due, call, cur, answer, others>>
    /\ Write([call.content EXCEPT !.replicas = @ + cur.replicas], "served",
             Goto("reget"), Return(TRUE, TRUE))

\* cli.Update under the version of the object read, with the whole desired
\* object: what others have added is gone. The server refuses it over another
\* version, and may find it invalid. retryUpdate gives up then, also on a
\* conflict, because it wraps the error before RetryOnConflict sees it;
\* recreate goes on to delete.
Put == /\ pc = "put" /\ kind # "Job"
       /\ UNCHANGED <<config, wish, due, call, cur, answer, others>>
       /\ \/ /\ curFresh
             /\ Write(call.content, "served",
                      IF recreates THEN Return(TRUE, FALSE) ELSE Goto("reget"),
                      Return(TRUE, TRUE))
          \/ Refused(IF recreates /\ obj # Missing
                       THEN Goto("tear") ELSE Return(TRUE, TRUE))

\* A Job is put without a version; the server may find the update invalid,
\* the template of a Job being immutable.
PutJob == /\ pc = "put" /\ kind = "Job"
          /\ UNCHANGED <<config, wish, due, call, cur, answer, others>>
          /\ IF obj # Missing
               THEN \/ Write(call.content, "served",
                             Return(TRUE, FALSE), Return(TRUE, TRUE))
                    \/ Refused(Goto("tear"))
               ELSE Refused(Return(TRUE, TRUE))

\* cli.Get after the update: only its error matters.
Reget == /\ pc = "reget"
         /\ UNCHANGED <<config, server, wish, due, local, mark, answer, others>>
         /\ \/ Return(TRUE, copy = Missing) /\ UNCHANGED faults
            \/ Fault /\ Return(TRUE, TRUE)

\* cli.Delete of the object that cannot be updated.
Tear == /\ pc = "tear"
        /\ UNCHANGED <<config, wish, due, call, cur, answer, others>>
        /\ IF obj # Missing
             THEN Write(Missing, "torn", Goto("rebuild"), Return(TRUE, TRUE))
             ELSE Refused(Return(TRUE, TRUE))

\* Faulty variant: the error of the re-creation is logged and forgotten.
RebuildSwallowed ==
    /\ pc = "rebuild"
    /\ UNCHANGED <<config, wish, due, call, cur, answer, others>>
    /\ IF kind = "Job" /\ obj = Missing
         THEN Write(call.content, "served",
                    Return(TRUE, FALSE), Return(TRUE, FALSE))
         ELSE Refused(Return(TRUE, FALSE))

\* cli.Create of the desired object. recreate has put a resourceVersion in
\* it, which the server does not accept in an object to be created.
Rebuild == /\ pc = "rebuild"
           /\ UNCHANGED <<config, wish, due, call, cur, answer, others>>
           /\ IF kind = "Job" /\ obj = Missing
                THEN Write(call.content, "served",
                           Return(TRUE, FALSE), Return(TRUE, TRUE))
                ELSE Refused(Return(TRUE, TRUE))

\* The caller takes the answer: an error brings the key back, except that
\* the worker drops what it is told of an HPA.
Reply == /\ pc = "return"
         /\ answer' = ret
         /\ Goto("idle")
         /\ due' = (due \/ (ret.err /\ kind # "HPA"))
         /\ cur' = Missing /\ curFresh' = FALSE
         /\ UNCHANGED <<config, server, wish, call, mark, bounds>>

-----------------------------------------------------------------------------
\* The environment

\* Somebody else creates, changes or deletes the object.
Others == /\ others < MaxOthers /\ others' = others + 1
          /\ \E o \in Objects \ {obj} : Becomes(o)
          /\ UNCHANGED <<config, wish, due, pc, call, cur, ret, mark, answer,
                         faults>>

\* The AdvDeployment is edited; what only changes its annotations does not
\* bring the key.
Edit == /\ others < MaxOthers /\ others' = others + 1
        /\ wish' \in Asked \ {wish}
        /\ due' = (due \/ wish'.content # wish.content)
        /\ UNCHANGED <<config, server, pc, local, ret, mark, answer, faults>>

\* The watch brings the current version.
Sync == /\ ~fresh
        /\ copy' = obj /\ fresh' = TRUE
        /\ due' = (due \/ Watched)
        /\ UNCHANGED <<config, obj, wish, pc, local, ret, mark, answer, bounds>>

\* The process is restarted: it lists everything again.
Crash == /\ Fault
         /\ Goto("idle") /\ due' = TRUE /\ mark' = "nothing"
         /\ copy' = obj /\ fresh' = TRUE
         /\ cur' = Missing /\ curFresh' = FALSE
         /\ UNCHANGED <<config, obj, wish, call, answer, others>>

-----------------------------------------------------------------------------
Step == \/ Call \/ Get \/ Create \/ Delete \/ Put \/ PutJob \/ Reget
        \/ Tear \/ Rebuild \/ Reply

Next == Step \/ Others \/ Edit \/ Sync \/ Crash

\* The thread and the watch go on; nobody else has to do anything.
Spec == Init /\ [][Next]_vars /\ WF_vars(Step) /\ WF_vars(Sync)

-----------------------------------------------------------------------------
\* An update of a Deployment or a Service takes from others only what they
\* added beside the chart. Whatever was written between the read and the
\* update, the labels and the fields the chart names stay as they are, and
\* replicas never go down; what others added, server defaults and annotations,
\* is gone with the update. (It also means that a changed chart never reaches
\* an object that exists.)
UpdatesTakeOnlyExtras ==
    [][pc = "put" /\ pc' # "put" /\ kind # "Job" /\ obj' # obj
         => /\ obj # Missing
            /\ obj' = [obj EXCEPT !.replicas = obj'.replicas, !.extra = "nothing"]
            /\ obj'.replicas >= obj.replicas]_vars

\* What was deleted to be built again, and could not be, comes back in a
\* later call, although the create of the same call may have been refused,
\* for the kinds whose deletion the worker is told of.
PresentAgain == mark = "torn" /\ Watched ~> obj # Missing

\* The calls keep the promise of ResourceAbs.
Wanted == IF pc = "idle" THEN Idle
          ELSE IF call.state = "present" THEN call.content ELSE Missing

Abs == INSTANCE ResourceAbs WITH want <- Wanted

Implements == Abs!Spec
=============================================================================
