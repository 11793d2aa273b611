----------------------------- MODULE PatchRules -----------------------------
(***************************************************************************)
(* pkg/resource/patch: whether the object of a cluster differs from what   *)
(* is desired. Values are records with one field, so that values of        *)
(* different shapes can be compared: a map has a function from keys to     *)
(* values, a list a sequence, a list with a merge key (the containers of a *)
(* pod by name) a function from these keys to its maps. An object has a    *)
(* body, a function from the keys of its top level, and last, the value of *)
(* the last-applied annotation; it has a Go type or is unstructured, JSON  *)
(* without merge keys.                                                     *)
(*                                                                         *)
(* Of the strategic merge of the Kubernetes libraries, the order in lists  *)
(* with a merge key, lists of scalars that are merged and retainKeys are   *)
(* left out. An annotation holds what the controller wrote, zipped and in  *)
(* base64, or no text.                                                     *)
(***************************************************************************)
EXTENDS Naturals, Sequences, SequencesExt

Null     == [null |-> TRUE]
Str(s)   == [string |-> s]
Num(n)   == [number |-> n]
List(q)  == [list |-> q]
Map(f)   == [map |-> f]
Keyed(f) == [keyed |-> f]

\* An intstr.IntOrString, of a Num or of a Str; a text that is a number counts
\* as that number, as it does for IntValue.
IntOr(x) == [intOrString |-> x]

IsMap(x)   == "map" \in DOMAIN x
IsList(x)  == "list" \in DOMAIN x
IsKeyed(x) == "keyed" \in DOMAIN x
IsIntOr(x) == "intOrString" \in DOMAIN x
Empty      == <<>>
Without(f, keys) == [k \in DOMAIN f \ keys |-> f[k]]
With(f, k, x)    == [j \in DOMAIN f \cup {k} |-> IF j = k THEN x ELSE f[j]]

\* What a map or a list with a merge key has under its keys.
HasFields(x) == IsMap(x) \/ IsKeyed(x)
Fields(x)    == IF IsMap(x) THEN x.map ELSE x.keyed

-----------------------------------------------------------------------------
\* Marshalling, with the encoder that the package registers for IntOrString:
\* nil for zero, the text for a text, and nothing at all for other numbers,
\* which leaves text that is no JSON and that every reader refuses.
RECURSIVE IsJSON(_), Marshalled(_)

IsJSON(x) ==
    CASE HasFields(x) -> \A k \in DOMAIN Fields(x) : IsJSON(Fields(x)[k])
      [] IsList(x)    -> \A i \in DOMAIN x.list : IsJSON(x.list[i])
      [] IsIntOr(x)   -> x.intOrString = Num(0) \/ "string" \in DOMAIN x.intOrString
      [] OTHER        -> TRUE

Marshalled(x) ==
    CASE IsMap(x)   -> Map([k \in DOMAIN x.map |-> Marshalled(x.map[k])])
      [] IsKeyed(x) -> Keyed([k \in DOMAIN x.keyed |-> Marshalled(x.keyed[k])])
      [] IsList(x)  -> List([i \in DOMAIN x.list |-> Marshalled(x.list[i])])
      [] IsIntOr(x) -> IF x.intOrString = Num(0) THEN Null ELSE x.intOrString
      [] OTHER      -> x

-----------------------------------------------------------------------------
\* Faulty variant: a number that is zero counts as not set.
IsZeroOfAnyKind(x) == x \in {Null, Str(""), Num(0)}

\* Null and isZero over what JSON decodes to: numbers and booleans are never
\* zero, and a map or a list that was decoded is not nil.
IsZero(x) == x \in {Null, Str("")}

RECURSIVE DeleteNullInObj(_), DeleteNullInSlice(_)

\* A map loses what is zero, empty lists, and maps that are empty or become
\* so; a list that becomes empty stays, and so do the maps of a list with a
\* merge key, which have at least the key.
DeleteNullInObj(f) ==
    LET keeps(x) == /\ ~IsZero(x)
                    /\ IsList(x)  => x.list # <<>>
                    /\ IsKeyed(x) => DOMAIN x.keyed # {}
                    /\ IsMap(x)   => DOMAIN DeleteNullInObj(x.map) # {}
    IN [k \in {j \in DOMAIN f : keeps(f[j])} |->
          CASE IsList(f[k])  -> List(DeleteNullInSlice(f[k].list))
            [] IsMap(f[k])   -> Map(DeleteNullInObj(f[k].map))
            [] IsKeyed(f[k]) -> Keyed([e \in DOMAIN f[k].keyed |->
                                         Map(DeleteNullInObj(f[k].keyed[e].map))])
            [] OTHER         -> f[k]]

\* A list loses what is zero and empty maps, and takes in the elements of the
\* lists in it; a map in it that becomes empty stays.
DeleteNullInSlice(q) ==
    LET rest(x) == CASE IsZero(x) -> <<>>
                     [] IsList(x) -> DeleteNullInSlice(x.list)
                     [] IsMap(x) /\ DOMAIN x.map = {} -> <<>>
                     [] IsMap(x) /\ DOMAIN x.map # {} -> <<Map(DeleteNullInObj(x.map))>>
                     [] OTHER     -> <<x>>
    IN FlattenSeq([i \in DOMAIN q |-> rest(q[i])])

\* DeleteNullInJson of a body that was marshalled.
Failed == [error |-> TRUE]

DeleteNullInJson(body) ==
    IF IsJSON(Map(body)) THEN Map(DeleteNullInObj(Marshalled(Map(body)).map)) ELSE Failed

-----------------------------------------------------------------------------
\* The annotation

NotApplied == [none |-> TRUE]

\* SetLastAppliedAnnotation: the object without the annotation, cleaned. When
\* that fails, which is only logged, the annotation is back as it was before,
\* without a text if there was none.
SetLastApplied(obj) ==
    LET cleaned == DeleteNullInJson(obj.body)
        before  == IF obj.last = NotApplied THEN Str("") ELSE obj.last
    IN [obj EXCEPT !.last = IF cleaned = Failed THEN before ELSE cleaned]

\* GetOriginalConfiguration; none or no text is as good as an empty object.
Original(obj) == IF IsMap(obj.last) THEN obj.last.map ELSE Empty

-----------------------------------------------------------------------------
\* CalculateOptions: what is done to the current and to the modified object.

OnSpec(f, Do(_)) ==
    IF "spec" \in DOMAIN f THEN [f EXCEPT !["spec"] = Map(Do(@.map))] ELSE f

\* One volumeClaimTemplate: no type, the default mode, a pending status.
PlainTemplate(x) ==
    LET mode == IF "mode" \in DOMAIN x.map THEN x.map["mode"] ELSE Str("Filesystem")
    IN Map(With(With(Without(x.map, {"kind"}), "mode", mode),
                "status", Str("Pending")))

PlainTemplates(spec) ==
    IF "templates" \in DOMAIN spec
      THEN [spec EXCEPT !["templates"] =
              List([i \in DOMAIN @.list |-> PlainTemplate(@.list[i])])] ELSE spec

WithoutReplicas(spec) == Without(spec, {"replicas"})

Options == {"status", "templates", "replicas"}

Apply(opt, f) == CASE opt = "status"    -> Without(f, {"status"})
                   [] opt = "templates" -> OnSpec(f, PlainTemplates)
                   [] opt = "replicas"  -> OnSpec(f, WithoutReplicas)

ApplyAll(opts, f) ==
    FoldSet(LAMBDA opt, g : Apply(opt, g), f, opts)

-----------------------------------------------------------------------------
RECURSIVE Merged(_, _, _), Drops(_, _)

\* What is left of the current object when the three-way patch is applied:
\* keys of the original that are not in the modified go, those of the
\* modified come, maps are merged in the same way, and so are lists with a
\* merge key.
Merged(original, modified, current) ==
    LET gone == DOMAIN original \ DOMAIN modified
        sub(f, k) == IF k \in DOMAIN f /\ HasFields(f[k]) THEN Fields(f[k]) ELSE Empty
        both(P(_), k) == k \in DOMAIN current /\ P(current[k]) /\ P(modified[k])
        merged(k) == Merged(sub(original, k), Fields(modified[k]), Fields(current[k]))
    IN [k \in DOMAIN modified \cup (DOMAIN current \ gone) |->
          CASE k \notin DOMAIN modified                     -> current[k]
            [] k \in DOMAIN modified /\ both(IsMap, k)      -> Map(merged(k))
            [] k \in DOMAIN modified /\ both(IsKeyed, k)    -> Keyed(merged(k))
            [] OTHER                                        -> modified[k]]

\* A merge patch from the original to the modified has a null.
Drops(original, modified) ==
    \E k \in DOMAIN original :
        \/ k \notin DOMAIN modified
        \/ /\ k \in DOMAIN modified /\ IsMap(original[k]) /\ IsMap(modified[k])
           /\ Drops(original[k].map, modified[k].map)

\* Of an object with a type the patch is computed again from what it makes of
\* the current object, so that one which changes nothing is empty. The merge
\* patch of an unstructured object is taken as it is, with a null for whatever
\* was asked for last time and is not now.
PatchIsEmpty(typed, original, modified, current) ==
    IF typed THEN Merged(original, modified, current) = current
    ELSE /\ Merged(Empty, modified, current) = current
         /\ ~Drops(original, modified)

\* Calculate, with what the options make of the two objects: an error when one
\* of them was not marshalled to JSON, otherwise a patch or an empty one. The
\* original is taken as it was stored.
Compared(original, currentBody, desired) ==
    LET c == DeleteNullInJson(currentBody)
        m == DeleteNullInJson(desired.body)
    IN CASE c = Failed \/ m = Failed -> "error"
         [] OTHER -> IF PatchIsEmpty(desired.typed, original, m.map, c.map)
                     THEN "empty" ELSE "patch"

WithOptions(opts, obj) == [obj EXCEPT !.body = ApplyAll(opts, @)]

\* Faulty variants: what was applied last is forgotten; the options are for
\* what is desired only.
CalculateTwoWay(current, desired, opts) ==
    Compared(Empty, WithOptions(opts, current).body, WithOptions(opts, desired))

CalculateHalfIgnored(current, desired, opts) ==
    Compared(Original(current), current.body, WithOptions(opts, desired))

Calculate(current, desired, opts) ==
    Compared(Original(current), WithOptions(opts, current).body, WithOptions(opts, desired))
=============================================================================
