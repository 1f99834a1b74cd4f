---------------------------- MODULE MCSpecRefresh ----------------------------
(***************************************************************************)
(* u1 is refreshed, with each kind of overlay; u2 is not (a command or     *)
(* file upstream).  A reload may drop u1 from the enabled upstreams while  *)
(* a group still lists it.                                                 *)
(***************************************************************************)
EXTENDS SpecRefresh

MCUpstreams == {"u1", "u2"}
MCTools == {"a", "b", "c"}
MCSpecTools == [u1 |-> <<{"a"}, {"a", "b"}>>, u2 |-> <<{"c"}, {"c"}>>]
\* A spec that never changes: every answer of its server is a 304.
MCOneRevision == [u1 |-> <<{"a"}>>, u2 |-> <<{"c"}>>]
MCOverlayKinds == {{FALSE}, {TRUE}, {FALSE, TRUE}}
MCNoOverlay == {{FALSE}}

AllGroup == [name |-> "default", endpoint |-> "/mcp",
             ups |-> MCUpstreams, filter |-> MCTools]

MCConfigs ==
  { [ups |-> MCUpstreams, groups |-> {AllGroup}, valid |-> TRUE],
    [ups |-> {"u2"}, groups |-> {AllGroup}, valid |-> TRUE] }
===============================================================================
