------------------------------- MODULE MCRules -------------------------------
(***************************************************************************)
(* Inputs of RuleChecks for TLC: small, and such that every case of every  *)
(* rule occurs.                                                            *)
(***************************************************************************)
EXTENDS RuleChecks, TLC

CONSTANTS c1, c2, c3

\* All functions from some of the keys to the values.
Partial(keys, values) == UNION {[ks -> values] : ks \in SUBSET keys}

-----------------------------------------------------------------------------
\* Scalars, lists of up to two of them and of a list or a map, and maps.
Plain    == {Null, Str(""), Str("x"), Num(0)}
Inner    == Plain \cup {List(<<>>), List(<<Null>>), List(<<Str("x"), Str("")>>)}
                  \cup {Map(f) : f \in Partial({"k"}, Plain)}
Lists    == {List(<<>>)} \cup {List(<<x>>) : x \in Inner}
                         \cup {List(<<x, y>>) : x \in Inner, y \in Inner}
Maps     == {Map(f) : f \in Partial({"k", "l"}, Inner)}

\* Ports and the like, alone and in the list of a container.
Ports    == {IntOr(Num(0)), IntOr(Num(8)), IntOr(Str("http")), Str("")}
Ported   == Ports \cup {Keyed(f) : f \in Partial({"k", "l"}, {Map(g) : g \in Partial({"port"}, Ports)})}

MCDocuments == Partial({"a"}, Lists \cup Maps) \cup Partial({"a", "b"}, Inner)
               \cup Partial({"a", "b"}, Ported)

\* Two keys, one of which may have a map, and lists that clean to the same.
Small    == {Null, Str("x"), Str("y"), List(<<Str("x")>>), List(<<Str("x"), Null>>)}
Nested   == {Map(f) : f \in Partial({"k"}, {Str("x"), Str("y")})}
Bodies   == {f \in Partial({"a", "b"}, Small \cup Nested) :
               "b" \in DOMAIN f => f["b"] \in {Null, Str("x"), Str("y")}}

\* Containers by their names, with an image and what the server adds; objects
\* with a port.
Containers == {Map(f) : f \in Partial({"image", "policy"}, {Str("x"), Str("y")})}
Templates  == Partial({"a"}, {Keyed(f) : f \in Partial({"c"}, Containers)
                                           \cup Partial({"c", "d"}, {Map("image" :> Str("x"))})})
Services   == Partial({"port", "b"}, {IntOr(Num(0)), IntOr(Num(8)), IntOr(Str("http"))})

MCTriples == [typed : BOOLEAN, last : Bodies, desired : Bodies, current : Bodies]
             \cup [typed : {TRUE}, last : Templates, desired : Templates, current : Templates]
             \cup [typed : {TRUE}, last : Services, desired : Services, current : Services]

-----------------------------------------------------------------------------
Asked(replicas, image, mode) ==
    "spec" :> Map("image" :> image @@ "replicas" :> replicas
                  @@ "templates" :> List(<<Map("name" :> Str("data") @@ mode)>>))
Filled(spec, kind, phase) ==
    "status" :> Map("phase" :> Str("Ready"))
    @@ "spec" :> Map([spec["spec"].map EXCEPT !["templates"] =
          List(<<Map(With(With(With(@.list[1].map, "mode", Str("Filesystem")),
                     "status", Str(phase)), "kind", kind))>>)])

MCIgnorables ==
    LET plain == Asked(Num(2), Str("i"), <<>>)
        others(f, g) == With(f, "spec", Map(With(f["spec"].map, "templates", g["spec"].map["templates"])))
    IN {[opt |-> "replicas", desired |-> plain, current |-> Asked(Num(n), Str("i"), <<>>)]
          : n \in 0..3}
       \cup {[opt |-> "replicas", desired |-> plain,
              current |-> With(plain, "spec", Map(Without(plain["spec"].map, {"replicas"})))]}
       \cup {[opt |-> "status", desired |-> With(plain, "status", s),
              current |-> With(plain, "status", t)]
          : s \in Nested, t \in Nested \cup {Null}}
       \cup {[opt |-> "templates", desired |-> Asked(Num(2), Str("i"), mode),
              current |-> Without(Filled(plain, kind, phase), {"status"})]
          : mode \in {<<>>, "mode" :> Str("Filesystem"), "kind" :> Str("PVC")},
            kind \in {Null, Str("PVC")}, phase \in {"Pending", "Bound"}}

-----------------------------------------------------------------------------
Advs  == [zone : {"z1", "z2", NoLabel}, gen : {1}, obs : {0, 1}, phase : {"Running"}]
Found == {{[name |-> c, adv |-> f[c]] : c \in DOMAIN f} : f \in Partial({c1, c2, c3}, Advs)}

MCSurveys == [app : {[topo |-> f] : f \in Partial({c1, c2, c3}, [zone : {"", "z1", "z2"}])},
              found : Found]

-----------------------------------------------------------------------------
Tags     == {Proper(1), Proper(2), Proper(10), Tag("beta", 0)}
Versions == {<<>>} \cup {<<x>> : x \in Tags} \cup {<<x, y>> : x \in Tags, y \in Tags}

MCVersionLists == {<<u, v, w>> : u \in Versions, v \in Versions, w \in Versions}

-----------------------------------------------------------------------------
Metrics == [resource : {"cpu", "memory", "disk"},
            type : {"", "AverageUtilization", "AverageValue"},
            text : {-1, 0, 1, 100, 101, Blank, Garbage}]

MCHpaAsks == [enable : BOOLEAN, replicas : {0, 1, 5, 63, 64, 127},
              asks : {<<>>} \cup {<<x>> : x \in Metrics}
                            \cup {<<x, y>> : x \in Metrics, y \in {[x EXCEPT !.text = 50, !.type = "AverageUtilization"] : x \in Metrics}}]
=============================================================================
