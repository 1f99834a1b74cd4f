----------------------------- MODULE MCOperator -----------------------------
(***************************************************************************)
(* Two MCPUpstreams of the same name in two namespaces, both reading their *)
(* spec from a ConfigMap, two annotated Services of one namespace, one of  *)
(* which has namespace, name and so file key of an MCPUpstream, and a      *)
(* proxy that may lose its gateway and a namespace and look for Services   *)
(* in labelled namespaces.                                                 *)
(***************************************************************************)
EXTENDS Operator

CONSTANTS s1, s2, v1, v2

ObjA == [ns |-> "a", name |-> "api"]
ObjB == [ns |-> "b", name |-> "api"]
ObjC == [ns |-> "a", name |-> "shop"]
MCUpstreams == {ObjA, ObjB}
MCServices == {ObjA, ObjC}
MCSources == {s1, s2}
MCContents == {v1, v2}

Http(l, src) == [labels |-> l, type |-> "http", prefix |-> "p", base |-> TRUE,
                 commands |-> FALSE, specs |-> src, overlays |-> None]

\* The webhook lets it pass, the generator does not: it has no commands.
NoCommands == [Http(TRUE, "url") EXCEPT !.type = "command"]

MCUpstreamSpecs == {Http(TRUE, s1), Http(FALSE, s1), Http(TRUE, s2), NoCommands}

Svc(on) == [enabled |-> on, mine |-> TRUE, prefix |-> "q", port |-> TRUE,
            openapi |-> {s2}, overlays |-> None]

MCServiceSpecs == {Svc(TRUE), Svc(FALSE)}

Labelled == [names |-> <<>>, labels |-> TRUE]

MCProxySpecs == {[port |-> 80, namespaces |-> <<"b", "a">>, discovery |-> TRUE, selector |-> None,
                  gateway |-> TRUE],
                 [port |-> 81, namespaces |-> <<"a">>, discovery |-> TRUE, selector |-> Labelled,
                  gateway |-> FALSE]}
=============================================================================
