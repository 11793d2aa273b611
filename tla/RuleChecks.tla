----------------------------- MODULE RuleChecks -----------------------------
(***************************************************************************)
(* The rules that only compute, on bounded inputs: to the questions of     *)
(* Decisions come those about pkg/resource/patch, whose rules and          *)
(* references are recursive.                                               *)
(***************************************************************************)
EXTENDS Decisions, PatchRules

CONSTANTS Documents,      \* bodies of objects to clean
          Triples,        \* [typed, last, desired, current]: bodies to compare
          Ignorables      \* [opt, desired, current]: differ in what opt ignores

Questions == DecisionQuestions
             \cup [about : {"clean"}, of : Documents]
             \cup [about : {"compare"}, of : Triples]
             \cup [about : {"ignore"}, of : Ignorables]

Object(typed, body, last) == [typed |-> typed, body |-> body, last |-> last]

Init == question \in Questions /\ answer = Unanswered

Clean == Ask("clean") /\ Answer(DeleteNullInJson(question.of))

\* What is in the cluster since last was asked for, when desired comes.
Compares(typed, last, desired, current, opts) ==
    LET asked == SetLastApplied(Object(typed, last, NotApplied))
    IN Answer(Calculate(Object(typed, current, asked.last),
                        Object(typed, desired, NotApplied), opts))

Compare ==
    LET q == question.of IN
    Ask("compare") /\ Compares(q.typed, q.last, q.desired, q.current, {})

Ignore ==
    LET q == question.of IN
    Ask("ignore") /\ Compares(TRUE, q.desired, q.desired, q.current, {q.opt})

Next == Decide \/ Clean \/ Compare \/ Ignore

Spec == Init /\ [][Next]_<<question, answer>>

-----------------------------------------------------------------------------
RECURSIVE Scalars(_, _), Leaves(_, _), Nodes(_, _)

\* The scalars of a value with the keys that lead to them; the lists that one
\* is in count as one list.
Scalars(x, path) ==
    LET inList == IF path # <<>> /\ Last(path) = "[]" THEN path ELSE Append(path, "[]")
    IN CASE HasFields(x) -> UNION {Scalars(Fields(x)[k], Append(path, k)) : k \in DOMAIN Fields(x)}
         [] IsList(x)    -> UNION {Scalars(x.list[i], inList) : i \in DOMAIN x.list}
         [] OTHER        -> {<<path, x>>}

\* The scalars of the document in question, and those of them that nothing is
\* written for.
Given     == Scalars(Map(question.of), <<>>)
Unwritten == {s \in Given : IsIntOr(s[2]) /\ "number" \in DOMAIN s[2].intOrString
                                         /\ s[2] # IntOr(Num(0))}

\* Cleaning an object loses no scalar that says something, at any depth of
\* maps and lists, and leaves none that does not: what is compared and what is
\* remembered as applied is all that was asked for. An IntOrString that is zero
\* counts as not set and goes, and one that is another number leaves nothing to
\* compare or remember, because the object is no JSON.
CleanedKeepsScalars ==
    Answered("clean") =>
        IF Unwritten # {} THEN answer.is = Failed
        ELSE LET said(x) == IF IsIntOr(x) THEN x.intOrString ELSE x
             IN /\ answer.is # Failed
                /\ Scalars(answer.is, <<>>)
                     = {<<s[1], said(s[2])>> : s \in
                          {s \in Given : s[2] \notin {Null, Str(""), IntOr(Num(0))}}}

\* What deletenull.go says of its encoder of IntOrStrings, "write nil instead
\* of 0": zero is the exception, and a number that is not zero is written.
OnlyZeroIsNil ==
    Answered("clean") =>
        \A s \in Unwritten : answer.is # Failed
                             /\ <<s[1], s[2].intOrString>> \in Scalars(answer.is, <<>>)

\* The paths of a map that end at something that has no fields; all its paths.
Leaves(f, path) == UNION {IF HasFields(f[k]) THEN Leaves(Fields(f[k]), Append(path, k))
                          ELSE {<<Append(path, k), f[k]>>} : k \in DOMAIN f}
Nodes(f, path)  == UNION {{Append(path, k)} \cup
                          IF HasFields(f[k]) THEN Nodes(Fields(f[k]), Append(path, k)) ELSE {}
                          : k \in DOMAIN f}

\* The patch is empty if and only if the object has everything that is asked
\* for and nothing that was asked for last time and is not now: fields that
\* others set are no difference, also in an element of a list with a merge key,
\* and fields that the chart drops are one. Of an unstructured object they are
\* one even when the object does not have them. No patch comes of objects that
\* are no JSON, and last time's is forgotten if it was none.
InSyncMeansAsAsked ==
    Answered("compare") =>
        LET q       == question.of
            of(f)   == LET d == DeleteNullInJson(f) IN IF d = Failed THEN Empty ELSE d.map
            has(f)  == Leaves(of(f), <<>>)
            at(f)   == Nodes(of(f), <<>>)
            dropped == {n \in at(q.last) \ at(q.desired) :
                          \A l \in has(q.desired) : ~IsPrefix(l[1], n)}
        IN IF Failed \in {DeleteNullInJson(q.desired), DeleteNullInJson(q.current)}
             THEN answer.is = "error"
           ELSE answer.is = "empty" <=> /\ has(q.desired) \subseteq has(q.current)
                                        /\ at(q.desired) \subseteq at(q.current)
                                        /\ IF q.typed THEN dropped \cap at(q.current) = {}
                                           ELSE dropped = {}

\* What an option ignores is no difference: replicas that an autoscaler took
\* down, a status, what the server fills in in a volumeClaimTemplate, although
\* the configuration applied last, which the options do not reach, has it too.
\* This is of the options; resource.Reconcile hands those for the status and the
\* volumeClaimTemplates to nobody (resource.go:75-88).
IgnoredNeverDiffers == Answered("ignore") => answer.is = "empty"
=============================================================================
