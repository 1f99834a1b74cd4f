---------------------------- MODULE ToolPipeline ----------------------------
(***************************************************************************)
(* From an OpenAPI document to the tools of an upstream: GenerateTools     *)
(* (openapi/generator.go) with its naming rules and its resolution of      *)
(* conflicts (naming.go), the input schema and the argument names of a     *)
(* tool (inputschema.go) and ValidateTool (validator.go).  Builder.Build   *)
(* runs it at startup and on every reload, the refresher on every change.  *)
(*                                                                         *)
(* A name is a sequence of words; the code counts and cuts runes, here the *)
(* unit is the word.  Go visits the paths, and the methods of a path, in   *)
(* an order of its own at every build.  Parsing, overlays, descriptions,   *)
(* schemas of values and the UI are left out.                              *)
(***************************************************************************)
EXTENDS Naturals, Sequences, FiniteSets

CONSTANTS
    Word,           \* words of names
    Documents,      \* specs that may be loaded, overlay applied: sets of operations
    Prefix,         \* tool_prefix and separator
    MaxLength,      \* naming.max_length, 0 for none
    Resolutions,    \* values of naming.conflict_resolution, which nothing validates
    None

Name == Seq(Word)

Locations == {"path", "query", "header", "body"}

Input == [name : Name, in : Locations]

Methods == {"GET", "POST", "PUT", "DELETE", "PATCH", "HEAD"}

\* path: its segments, with param for one in braces; override: x-mcp-tool-name and
\* id: operationId, split into words, <<>> when absent; shared and own: the
\* parameters of the path item and of the operation; body: the properties of the
\* request body; compiles: do the jq programs; failing: on how many of the synthetic
\* instances the request transform fails.
Operation == [path : Seq([word : Word, param : BOOLEAN]), method : Methods, enabled : BOOLEAN,
              override : Name, id : Name, shared : SUBSET Input, own : SUBSET Input,
              body : SUBSET Input, compiles : BOOLEAN, failing : 0 .. 2]

ASSUME NamesAssumption ==
    /\ Prefix \in Name /\ MaxLength \in Nat
    /\ Locations \cup {"list", "get", "create", "update", "delete", "patch", "head"} \subseteq Word

ASSUME DocumentsAssumption ==
    /\ Documents \subseteq SUBSET Operation
    /\ \A d \in Documents : \A a, b \in d : a.path = b.path /\ a.method = b.method => a = b

---------------------------------------------------------------------------
(* Names *)

\* Operation parameters replace path-item parameters of the same name and place.
MergeParams(op) == op.shared \cup op.own

\* classifyParams: what matters to the name is whether there are path parameters.
HasPathParams(op) == \E p \in MergeParams(op) : p.in = "path"

SlugVerb(op) ==
    CASE op.method = "GET" -> IF HasPathParams(op) THEN "get" ELSE "list"
      [] op.method = "POST" -> "create"
      [] op.method = "PUT" -> "update"
      [] op.method = "DELETE" -> "delete"
      [] op.method = "PATCH" -> "patch"
      [] op.method = "HEAD" -> "head"

\* Braces and slashes are dropped: a parameter and a fixed segment look the same.
Slugify(op) == <<SlugVerb(op)>> \o [i \in 1 .. Len(op.path) |-> op.path[i].word]

ToolBaseName(op) ==
    IF op.override # <<>> THEN op.override
    ELSE IF op.id # <<>> THEN op.id
    ELSE Slugify(op)

PrefixedNameUncut(base) == Prefix \o base

\* The base name is cut, and the prefix too when it fills the length alone.
PrefixedName(base) ==
    LET full == Prefix \o base IN
    IF MaxLength > 0 /\ Len(full) > MaxLength THEN SubSeq(full, 1, MaxLength) ELSE full

NameOf(op) == PrefixedName(ToolBaseName(op))

---------------------------------------------------------------------------
(* Arguments *)

ArgNameBare(inputs, p) == p.name

\* A name that stands for several inputs gets the place of each appended.
ArgName(inputs, p) ==
    IF \E q \in inputs : q # p /\ q.name = p.name THEN Append(p.name, p.in) ELSE p.name

\* DeriveInputSchema is given the operation as it is in the document.
DeriveInputSchema(op) ==
    LET inputs == op.own \cup op.body IN {ArgName(inputs, p) : p \in inputs}

\* DeriveArgMapping is given the operation with the merged parameters.
DeriveArgMapping(op) ==
    LET inputs == MergeParams(op) \cup op.body IN [p \in inputs |-> ArgName(inputs, p)]

\* The generated request transform: the argument that each input is read from.  An
\* operation with an x-mcp-request-transform reads what its author wrote.
GenerateRequestJq(op, argMap) ==
    [p \in MergeParams(op) \cup op.body |-> IF p \in DOMAIN argMap THEN argMap[p] ELSE p.name]

Tool(op) == [name |-> NameOf(op), path |-> op.path, method |-> op.method,
             shared |-> op.shared, schema |-> DeriveInputSchema(op),
             args |-> GenerateRequestJq(op, DeriveArgMapping(op))]

---------------------------------------------------------------------------
(* Conflicts *)

Conflicting(list, i) == \E j \in DOMAIN list : j # i /\ NameOf(list[j]) = NameOf(list[i])

Conflicts(list) == {i \in DOMAIN list : Conflicting(list, i)}

FirstOf(list) == {i \in DOMAIN list : \A j \in 1 .. i - 1 : NameOf(list[j]) # NameOf(list[i])}

\* Without a conflict the resolution is not looked at.
ConflictsResolvable(list, resolution) == Conflicts(list) = {} \/ resolution \in {"first_wins", "skip"}

DetectConflictsBySeen(list, resolution) == {list[i] : i \in FirstOf(list)}

DetectConflictsNone(list, resolution) == {list[i] : i \in DOMAIN list}

\* DetectConflicts and the filter after it: the operations that become tools.
DetectConflicts(list, resolution) ==
    {list[i] : i \in IF resolution = "first_wins" THEN FirstOf(list)
                     ELSE DOMAIN list \ Conflicts(list)}

---------------------------------------------------------------------------

VARIABLES
    resolution,     \* naming.conflict_resolution
    phase, src,     \* the build that is running and its document
    todo, list,     \* operations still to visit, and those visited, in Go's order
    kept, left,     \* operations that become tools, and those not yet validated
    tools,          \* tools in force: of the last build that succeeded
    built           \* tools of the last successful build of each document (observation)

vars == <<resolution, phase, src, todo, list, kept, left, tools, built>>

Init ==
    /\ resolution \in Resolutions
    /\ phase = "idle" /\ src = {} /\ todo = {} /\ list = <<>> /\ kept = {} /\ left = {}
    /\ tools = {} /\ built = [d \in Documents |-> None]

Start(d) ==
    /\ phase = "idle"
    /\ phase' = "walk" /\ src' = d /\ todo' = d /\ list' = <<>>
    /\ UNCHANGED <<resolution, kept, left, tools, built>>

\* The methods of one path are visited together.
NextOp(op) == \A a \in todo : (\E b \in src \ todo : b.path = a.path) => op.path = a.path

\* GenerateTools, one turn of the loop: x-mcp-enabled: false leaves one out.
Visit(op) ==
    /\ phase = "walk" /\ op \in todo /\ NextOp(op)
    /\ todo' = todo \ {op}
    /\ list' = IF op.enabled THEN Append(list, op) ELSE list
    /\ UNCHANGED <<resolution, phase, src, kept, left, tools, built>>

Fail ==
    /\ phase' = "idle" /\ src' = {} /\ todo' = {} /\ list' = <<>> /\ kept' = {} /\ left' = {}
    /\ UNCHANGED <<resolution, tools, built>>

GenerateFails ==
    /\ phase = "walk" /\ todo = {} /\ ~ConflictsResolvable(list, resolution)
    /\ Fail

GenerateTools ==
    /\ phase = "walk" /\ todo = {} /\ ConflictsResolvable(list, resolution)
    /\ phase' = "validate"
    /\ kept' = DetectConflicts(list, resolution) /\ left' = kept'
    /\ list' = <<>>
    /\ UNCHANGED <<resolution, src, todo, tools, built>>

\* GenerateThreeInstances adds instances only for oneOf and anyOf, which the flat
\* input object of a tool never has: all properties, and the required ones.
Instances == 2

\* Some instances may fail; only when all do, the tool is refused.
DryRunRequest(op) == op.failing < Instances

ValidateTool(op) ==
    /\ phase = "validate" /\ op \in left
    /\ op.compiles /\ DryRunRequest(op)
    /\ left' = left \ {op}
    /\ UNCHANGED <<resolution, phase, src, todo, list, kept, tools, built>>

\* One tool that fails, or the end of the startup timeout, fails the build.
ValidateFails ==
    /\ phase = "validate" /\ left # {}
    /\ Fail

\* Only a build that succeeds replaces the tools.
Publish ==
    /\ phase = "validate" /\ left = {}
    /\ tools' = {Tool(op) : op \in kept}
    /\ built' = [built EXCEPT ![src] = tools']
    /\ phase' = "idle" /\ src' = {} /\ kept' = {}
    /\ UNCHANGED <<resolution, todo, list, left>>

Next ==
    \/ \E d \in Documents : Start(d)
    \/ \E op \in todo : Visit(op)
    \/ GenerateFails \/ GenerateTools
    \/ \E op \in left : ValidateTool(op)
    \/ ValidateFails \/ Publish

Spec == Init /\ [][Next]_vars

---------------------------------------------------------------------------
(* Properties *)

\* Whatever slugs, overrides, operation ids and cut names coincide: the tools in
\* force have names of their own, within the configured length.  A call is routed
\* by name alone.
RoutesUnambiguous ==
    /\ \A s, t \in tools : s.name = t.name => s = t
    /\ \A t \in tools : MaxLength > 0 => Len(t.name) <= MaxLength

Offered(ts) == {t.name : t \in ts}

\* Two builds of one document offer the same names, though Go visits it in another
\* order each time; and the names belong to the same operations, unless
\* conflicts go to the first operation visited.  A reload or a refresh with an
\* unchanged document must not move a tool to another operation.
NamesStable ==
    [][\A d \in Documents :
         built[d] # None =>
            /\ Offered(built'[d]) = Offered(built[d])
            /\ resolution # "first_wins" => built'[d] = built[d]]_vars

\* No declared name ends in the name of a place.
PlainNames(t) ==
    \A p \in DOMAIN t.args : p.name # <<>> => p.name[Len(p.name)] \notin Locations

\* No parameter of the path item has the name of another input.
Uncrossed(t) == \A p \in DOMAIN t.args, q \in t.shared : p # q => p.name # q.name

\* Every argument that a client is offered is one the request is made of, and without
\* path-item parameters all of them are offered: DeriveInputSchema, which is given the
\* operation's own parameters, and DeriveArgMapping, which is given the merged ones,
\* rename alike.  They do not where a path-item parameter has the name of another
\* input.  No two inputs of an operation share an argument, whichever names occur in
\* several places.
ArgumentsReach ==
    \A t \in tools :
        /\ Uncrossed(t) => t.schema \subseteq {t.args[p] : p \in DOMAIN t.args}
        /\ t.shared = {} => t.schema = {t.args[p] : p \in DOMAIN t.args}
        /\ PlainNames(t) => \A p, q \in DOMAIN t.args : t.args[p] = t.args[q] => p = q

=============================================================================
