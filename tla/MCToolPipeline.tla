--------------------------- MODULE MCToolPipeline ---------------------------
(***************************************************************************)
(* Names of at most three words.  Cats: two operations whose names are cut *)
(* to the same, one of them with a parameter of its path item, and two     *)
(* methods of one path.  Dogs: an operation id that is another's slug, of  *)
(* operations of which one has no valid transform.  Orders: inputs of one  *)
(* name in three places, and a disabled operation of a name in use.        *)
(***************************************************************************)
EXTENDS ToolPipeline

MCWord == Locations \cup {"list", "get", "create", "update", "delete", "patch", "head",
                          "up", "cats", "dogs", "orders", "toys", "id", "note"}

Seg(w) == [word |-> w, param |-> FALSE]
Braces(w) == [word |-> w, param |-> TRUE]
In(n, l) == [name |-> <<n>>, in |-> l]

Op(m, p, own) ==
    [path |-> p, method |-> m, enabled |-> TRUE, override |-> <<>>, id |-> <<>>,
     shared |-> {}, own |-> own, body |-> {}, compiles |-> TRUE, failing |-> 0]

Id == In("id", "path")

Cats == {Op("GET", <<Seg("cats")>>, {}),
         [Op("POST", <<Seg("cats")>>, {}) EXCEPT !.body = {In("note", "body")}],
         Op("GET", <<Seg("cats"), Braces("id")>>, {Id}),
         [Op("GET", <<Seg("cats"), Braces("id"), Seg("toys")>>, {In("note", "query")})
            EXCEPT !.shared = {Id}]}

Dogs == {[Op("GET", <<Seg("dogs")>>, {}) EXCEPT !.failing = 1],
         [Op("GET", <<Seg("toys")>>, {}) EXCEPT !.id = <<"list", "dogs">>, !.failing = 2],
         [Op("PUT", <<Seg("dogs"), Braces("id")>>, {In("id", "query")})
            EXCEPT !.override = <<"note">>, !.shared = {Id}]}

Orders == {[Op("PATCH", <<Seg("orders"), Braces("id")>>,
               {Id, In("id", "query"), In("note", "header")}) EXCEPT !.body = {In("id", "body")}],
           Op("DELETE", <<Seg("orders"), Braces("id")>>, {Id}),
           Op("HEAD", <<Seg("orders")>>, {}),
           [Op("GET", <<Seg("toys")>>, {}) EXCEPT !.id = <<"head", "orders">>, !.enabled = FALSE]}

MCDocuments == {Cats, Dogs, Orders}
MCPrefix == <<"up">>
=============================================================================
