--------------------------- MODULE MCConfigLoader ---------------------------
(***************************************************************************)
(* Two configurations that can be applied, one that cannot and a broken    *)
(* file; three changes: two for reloads that overlap and one for the       *)
(* reload after them.                                                      *)
(***************************************************************************)
EXTENDS ConfigLoader

MCUpstreams == {"u1", "u2"}
MCTools == {"a", "b"}
MCSpecTools == [u1 |-> <<{"a"}>>, u2 |-> <<{"b"}>>]

MCConfigs ==
  { [ups |-> MCUpstreams, groups |-> {}, valid |-> TRUE],
    [ups |-> {"u1"}, valid |-> TRUE,
     groups |-> {[name |-> "default", endpoint |-> "/mcp",
                  ups |-> {"u1"}, filter |-> MCTools]}],
    [ups |-> {"u2"}, groups |-> {}, valid |-> FALSE] }
===============================================================================
