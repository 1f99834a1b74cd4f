------------------------------ MODULE MCManager ------------------------------
(***************************************************************************)
(* Two upstreams that can be made to collide on tool b and a third one     *)
(* that is removed meanwhile; two groups that a reload may move, rename or *)
(* drop.                                                                   *)
(***************************************************************************)
EXTENDS Manager

MCUpstreams == {"u1", "u2", "u3"}
MCTools == {"a", "b", "c"}
MCRevisions == {1, 2}

\* Revision 2 of u1 takes the name b that u2 always has.
MCSpecTools ==
  [u1 |-> <<{"a"}, {"a", "b"}>>, u2 |-> <<{"b"}, {"b"}>>, u3 |-> <<{"c"}, {"c"}>>]

Grp(n, e, us, f) == [name |-> n, endpoint |-> e, ups |-> us, filter |-> f]

MCConfigs ==
  { [ups |-> MCUpstreams, groups |-> {}, valid |-> TRUE],
    [ups |-> {"u1", "u2"}, valid |-> TRUE,
     groups |-> {Grp("default", "/ro", {"u2"}, {"b"}),
                 Grp("admin", "/mcp", {"u1", "u3"}, MCTools)}],
    [ups |-> {}, groups |-> {}, valid |-> FALSE] }
===============================================================================
