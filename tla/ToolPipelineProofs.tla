------------------------- MODULE ToolPipelineProofs -------------------------
(***************************************************************************)
(* What a build offers depends on its document alone, whatever the order   *)
(* in which Go visits it.  The argument follows the three phases of a      *)
(* build: the list of the walk has each enabled operation once, with a     *)
(* first one for each name; what is kept is a function of the document;    *)
(* and so is what was published for it.                                    *)
(***************************************************************************)
EXTENDS ToolPipeline, TLAPS

Enabled(d) == {op \in d : op.enabled}

NamesOf(ops) == {NameOf(op) : op \in ops}

\* The operations of a document that share their name with no other.
Unique(d) == {op \in Enabled(d) : \A q \in Enabled(d) : NameOf(q) = NameOf(op) => q = op}

WalkOK ==
    phase = "walk" =>
        /\ src \in Documents /\ todo \subseteq src
        /\ list \in Seq(Operation)
        /\ \A i \in DOMAIN list : list[i] \in Enabled(src) /\ list[i] \notin todo
        /\ \A op \in Enabled(src) : op \in todo \/ \E i \in DOMAIN list : list[i] = op
        /\ \A i, j \in DOMAIN list : list[i] = list[j] => i = j
        /\ \A i \in DOMAIN list : \E k \in FirstOf(list) : NameOf(list[k]) = NameOf(list[i])

KeptOK ==
    phase = "validate" =>
        /\ src \in Documents /\ kept \subseteq Enabled(src)
        /\ \A a, b \in kept : NameOf(a) = NameOf(b) => a = b
        /\ IF resolution = "first_wins" THEN NamesOf(kept) = NamesOf(Enabled(src))
           ELSE kept = Unique(src)

Faithful(d, ts) ==
    IF resolution = "first_wins" THEN Offered(ts) = NamesOf(Enabled(d))
    ELSE ts = {Tool(op) : op \in Unique(d)}

BuiltOK ==
    /\ built \in [Documents -> (SUBSET {Tool(op) : op \in Operation}) \cup {None}]
    /\ \A d \in Documents : built[d] = None \/ Faithful(d, built[d])

PipeInv == WalkOK /\ KeptOK /\ BuiltOK /\ RoutesUnambiguous /\ ArgumentsReach

---------------------------------------------------------------------------

LEMMA EnabledTyped ==
  ASSUME NEW d \in Documents
  PROVE  Enabled(d) \subseteq Operation
BY DocumentsAssumption DEF Enabled

\* A name fits in the configured length.
LEMMA NameFits ==
  ASSUME NEW op \in Operation, MaxLength > 0
  PROVE  Len(NameOf(op)) <= MaxLength
<1>1. op.override \in Seq(Word) /\ op.id \in Seq(Word) /\ op.path \in Seq([word : Word, param : BOOLEAN])
      /\ op.method \in Methods
  BY DEF Operation, Name
<1>2. SlugVerb(op) \in Word
  <2>1. op.method \in {"GET", "POST", "PUT", "DELETE", "PATCH", "HEAD"}
    BY <1>1 DEF Methods
  <2> QED
    BY <2>1, NamesAssumption DEF SlugVerb
<1>3. Slugify(op) \in Seq(Word)
  <2>1. Len(op.path) \in Nat /\ \A i \in 1 .. Len(op.path) : op.path[i].word \in Word
    <3>1. \A R, p : p \in Seq(R) => Len(p) \in Nat /\ \A i \in 1 .. Len(p) : p[i] \in R
      OBVIOUS
    <3>2. \A i \in 1 .. Len(op.path) : op.path[i] \in [word : Word, param : BOOLEAN]
      BY <1>1, <3>1
    <3>3. \A g \in [word : Word, param : BOOLEAN] : g.word \in Word
      OBVIOUS
    <3> QED
      BY <1>1, <3>1, <3>2, <3>3
  <2>2. [i \in 1 .. Len(op.path) |-> op.path[i].word] \in [1 .. Len(op.path) -> Word]
    BY <2>1
  <2>3. \A n \in Nat : \A f \in [1 .. n -> Word] : f \in Seq(Word)
    OBVIOUS
  <2> QED
    BY <1>2, <2>1, <2>2, <2>3 DEF Slugify
<1>4. ToolBaseName(op) \in Seq(Word)
  BY <1>1, <1>3 DEF ToolBaseName
<1>5. Prefix \o ToolBaseName(op) \in Seq(Word)
  BY <1>4, NamesAssumption DEF Name
<1>6. \A full \in Seq(Word) : Len(full) > MaxLength => Len(SubSeq(full, 1, MaxLength)) = MaxLength
  BY NamesAssumption
<1> QED
  BY <1>5, <1>6, NamesAssumption DEF NameOf, PrefixedName

\* Renaming by place keeps inputs apart when no name ends in a place already.
LEMMA ArgNamesApart ==
  ASSUME NEW I \in SUBSET Input, NEW p \in I, NEW q \in I,
         \A r \in I : r.name # <<>> => r.name[Len(r.name)] \notin Locations,
         ArgName(I, p) = ArgName(I, q)
  PROVE  p = q
<1>1. /\ p.name \in Seq(Word) /\ p.in \in Locations /\ q.name \in Seq(Word) /\ q.in \in Locations
      /\ p = [name |-> p.name, in |-> p.in] /\ q = [name |-> q.name, in |-> q.in]
  BY DEF Input, Name
<1>2. Locations \subseteq Word
  BY NamesAssumption
<1>3. \A n \in Seq(Word), l \in Locations :
         Append(n, l) # <<>> /\ Append(n, l)[Len(Append(n, l))] \in Locations
  BY <1>2
<1>4. \A n, m \in Seq(Word), l, k \in Word : Append(n, l) = Append(m, k) => n = m /\ l = k
  <2> SUFFICES ASSUME NEW n \in Seq(Word), NEW m \in Seq(Word), NEW l \in Word, NEW k \in Word,
                      Append(n, l) = Append(m, k)
               PROVE  n = m /\ l = k
    OBVIOUS
  <2>1. Len(n) = Len(m)
    BY Len(Append(n, l)) = Len(n) + 1, Len(Append(m, k)) = Len(m) + 1
  <2>2. l = k
    BY <2>1, Append(n, l)[Len(n) + 1] = l, Append(m, k)[Len(m) + 1] = k
  <2>3. \A i \in 1 .. Len(n) : n[i] = m[i]
    BY <2>1, \A i \in 1 .. Len(n) : Append(n, l)[i] = n[i],
             \A i \in 1 .. Len(m) : Append(m, k)[i] = m[i]
  <2> QED
    BY <2>1, <2>2, <2>3
<1> DEFINE Shared(r) == \E s \in I : s # r /\ s.name = r.name
<1>5. /\ ArgName(I, p) = IF Shared(p) THEN Append(p.name, p.in) ELSE p.name
      /\ ArgName(I, q) = IF Shared(q) THEN Append(q.name, q.in) ELSE q.name
  BY DEF ArgName
<1>6. p # q /\ p.name = q.name => Shared(p) /\ Shared(q)
  OBVIOUS
<1> HIDE DEF Shared
<1>7. CASE Shared(p) /\ Shared(q)
  <2>1. Append(p.name, p.in) = Append(q.name, q.in)
    BY <1>5, <1>7
  <2>2. p.name = q.name /\ p.in = q.in
    BY <1>1, <1>2, <1>4, <2>1
  <2> QED
    BY <1>1, <2>2
<1>8. CASE Shared(p) /\ ~Shared(q)
  <2>1. q.name = Append(p.name, p.in)
    BY <1>5, <1>8
  <2> QED
    BY <1>1, <1>3, <2>1
<1>9. CASE ~Shared(p) /\ Shared(q)
  <2>1. p.name = Append(q.name, q.in)
    BY <1>5, <1>9
  <2> QED
    BY <1>1, <1>3, <2>1
<1>10. CASE ~Shared(p) /\ ~Shared(q)
  BY <1>5, <1>6, <1>10
<1> QED
  BY <1>7, <1>8, <1>9, <1>10

\* The arguments of one tool: schema and mapping agree on the operation's own inputs
\* when no shared parameter has the name of one.
LEMMA ToolArguments ==
  ASSUME NEW op \in Operation
  PROVE  /\ Uncrossed(Tool(op)) =>
               Tool(op).schema \subseteq {Tool(op).args[p] : p \in DOMAIN Tool(op).args}
         /\ Tool(op).shared = {} =>
               Tool(op).schema = {Tool(op).args[p] : p \in DOMAIN Tool(op).args}
         /\ PlainNames(Tool(op)) =>
               \A p, q \in DOMAIN Tool(op).args : Tool(op).args[p] = Tool(op).args[q] => p = q
<1> DEFINE I == MergeParams(op) \cup op.body
<1>1. I \in SUBSET Input
  BY DEF Operation, MergeParams
<1>2. /\ Tool(op).shared = op.shared /\ Tool(op).schema = DeriveInputSchema(op)
      /\ Tool(op).args = [p \in I |-> ArgName(I, p)]
  BY DEF Tool, DeriveArgMapping, GenerateRequestJq
<1>3. op.shared = {} => DeriveInputSchema(op) = {ArgName(I, p) : p \in I}
  <2>1. op.shared = {} => I = op.own \cup op.body
    BY DEF MergeParams
  <2> QED
    BY <2>1 DEF DeriveInputSchema
<1>4. Uncrossed(Tool(op)) =>
         Tool(op).schema \subseteq {Tool(op).args[p] : p \in DOMAIN Tool(op).args}
  <2> DEFINE J == op.own \cup op.body
  <2>1. Tool(op).schema = {ArgName(J, p) : p \in J}
    BY <1>2 DEF DeriveInputSchema
  <2>2. DOMAIN Tool(op).args = I /\ \A p \in I : Tool(op).args[p] = ArgName(I, p)
    BY <1>2
  <2> SUFFICES ASSUME Uncrossed(Tool(op)), NEW p \in J
               PROVE  p \in I /\ ArgName(J, p) = ArgName(I, p)
    BY <2>1, <2>2
  <2>3. p \in I /\ \A q \in I : q \in J \/ q \in op.shared
    BY DEF MergeParams
  <2>4. \A q \in op.shared : p # q => p.name # q.name
    BY <1>2, <2>2, <2>3 DEF Uncrossed
  <2>5. J \subseteq I
    BY DEF MergeParams
  <2> QED
    BY <2>3, <2>4, <2>5 DEF ArgName
<1> HIDE DEF I
<1>5. Tool(op).shared = {} =>
         Tool(op).schema = {Tool(op).args[p] : p \in DOMAIN Tool(op).args}
  BY <1>2, <1>3
<1>6. PlainNames(Tool(op)) =>
         \A p, q \in DOMAIN Tool(op).args : Tool(op).args[p] = Tool(op).args[q] => p = q
  BY <1>1, <1>2, ArgNamesApart DEF PlainNames
<1> QED
  BY <1>4, <1>5, <1>6

LEMMA PipeInitInv == Init => PipeInv
BY DEF Init, PipeInv, WalkOK, KeptOK, BuiltOK, RoutesUnambiguous, ArgumentsReach

LEMMA StartInv ==
  ASSUME PipeInv, NEW d \in Documents, Start(d)
  PROVE  PipeInv'
<1>1. WalkOK'
  BY DocumentsAssumption DEF Start, WalkOK, Enabled
<1> QED
  BY <1>1 DEF PipeInv, Start, KeptOK, BuiltOK, Faithful, RoutesUnambiguous, ArgumentsReach

\* Appending keeps the first operation of each name, and is one if its name is new.
LEMMA FirstAppended ==
  ASSUME NEW l \in Seq(Operation), NEW op \in Operation,
         \A i \in DOMAIN l : \E k \in FirstOf(l) : NameOf(l[k]) = NameOf(l[i])
  PROVE  \A i \in DOMAIN Append(l, op) :
            \E k \in FirstOf(Append(l, op)) : NameOf(Append(l, op)[k]) = NameOf(Append(l, op)[i])
<1> DEFINE m == Append(l, op)
<1>1. /\ DOMAIN m = 1 .. Len(l) + 1 /\ DOMAIN l = 1 .. Len(l) /\ Len(l) \in Nat
      /\ m[Len(l) + 1] = op
      /\ \A i \in 1 .. Len(l) : m[i] = l[i]
  OBVIOUS
<1> HIDE DEF m
<1>2. \A k \in FirstOf(l) : k \in FirstOf(m) /\ m[k] = l[k]
  BY <1>1 DEF FirstOf
<1>3. \A i \in 1 .. Len(l) : \E k \in FirstOf(m) : NameOf(m[k]) = NameOf(m[i])
  BY <1>1, <1>2
<1>4. \E k \in FirstOf(m) : NameOf(m[k]) = NameOf(m[Len(l) + 1])
  <2>1. CASE \E j \in 1 .. Len(l) : NameOf(m[j]) = NameOf(m[Len(l) + 1])
    BY <1>3, <2>1
  <2>2. CASE \A j \in 1 .. Len(l) : NameOf(m[j]) # NameOf(m[Len(l) + 1])
    <3>1. Len(l) + 1 \in FirstOf(m)
      BY <1>1, <2>2 DEF FirstOf
    <3> QED
      BY <3>1
  <2> QED
    BY <2>1, <2>2
<1>5. \A i \in DOMAIN m : \E k \in FirstOf(m) : NameOf(m[k]) = NameOf(m[i])
  BY <1>1, <1>3, <1>4
<1> QED
  BY <1>5 DEF m

LEMMA VisitInv ==
  ASSUME PipeInv, NEW op \in todo, Visit(op)
  PROVE  PipeInv'
<1>1. phase = "walk" /\ phase' = "walk" /\ src' = src /\ todo' = todo \ {op} /\ WalkOK
  BY DEF Visit, PipeInv
<1>2. op \in src /\ src \in Documents /\ op \in Operation /\ list \in Seq(Operation)
  BY <1>1, DocumentsAssumption DEF WalkOK
<1>3. CASE op.enabled
  <2>1. list' = Append(list, op)
    BY <1>3 DEF Visit
  <2>2. /\ DOMAIN list' = 1 .. Len(list) + 1 /\ DOMAIN list = 1 .. Len(list) /\ Len(list) \in Nat
        /\ list'[Len(list) + 1] = op
        /\ \A i \in 1 .. Len(list) : list'[i] = list[i]
        /\ list' \in Seq(Operation)
    BY <1>2, <2>1
  <2>3. \A i \in DOMAIN list' : list'[i] \in Enabled(src) /\ list'[i] \notin todo'
    BY <1>1, <1>2, <1>3, <2>2 DEF WalkOK, Enabled
  <2>4. \A q \in Enabled(src) : q \in todo' \/ \E i \in DOMAIN list' : list'[i] = q
    BY <1>1, <1>2, <2>2 DEF WalkOK
  <2>5. \A i, j \in DOMAIN list' : list'[i] = list'[j] => i = j
    BY <1>1, <1>2, <2>2 DEF WalkOK
  <2>6. \A i \in DOMAIN list' : \E k \in FirstOf(list') : NameOf(list'[k]) = NameOf(list'[i])
    <3>1. \A i \in DOMAIN list : \E k \in FirstOf(list) : NameOf(list[k]) = NameOf(list[i])
      BY <1>1 DEF WalkOK
    <3>2. \A i \in DOMAIN Append(list, op) :
             \E k \in FirstOf(Append(list, op)) :
                NameOf(Append(list, op)[k]) = NameOf(Append(list, op)[i])
      BY <1>2, <3>1, FirstAppended
    <3> QED
      BY <2>1, <3>2
  <2>7. todo' \subseteq src
    BY <1>1 DEF WalkOK
  <2> QED
    BY <1>1, <1>2, <2>2, <2>3, <2>4, <2>5, <2>6, <2>7
    DEF PipeInv, Visit, WalkOK, KeptOK, BuiltOK, Faithful, RoutesUnambiguous, ArgumentsReach, FirstOf
<1>4. CASE ~op.enabled
  <2>1. list' = list /\ op \notin Enabled(src)
    BY <1>4 DEF Visit, Enabled
  <2>2. WalkOK'
    BY <1>1, <1>2, <2>1 DEF WalkOK, FirstOf
  <2> QED
    BY <1>1, <2>2 DEF PipeInv, Visit, KeptOK, BuiltOK, Faithful, RoutesUnambiguous, ArgumentsReach
<1> QED
  BY <1>3, <1>4

LEMMA FailInv ==
  ASSUME PipeInv, Fail
  PROVE  PipeInv'
BY DEF PipeInv, Fail, WalkOK, KeptOK, BuiltOK, Faithful, RoutesUnambiguous, ArgumentsReach

\* What is kept has a name each, and depends on the document only.
LEMMA GenerateInv ==
  ASSUME PipeInv, GenerateTools
  PROVE  PipeInv'
<1>1. /\ phase = "walk" /\ todo = {} /\ src \in Documents /\ list \in Seq(Operation)
      /\ src' = src /\ resolution' = resolution /\ phase' = "validate"
      /\ kept' = DetectConflicts(list, resolution)
      /\ ConflictsResolvable(list, resolution)
  BY DEF GenerateTools, PipeInv, WalkOK
<1>2. /\ \A i \in DOMAIN list : list[i] \in Enabled(src)
      /\ \A op \in Enabled(src) : \E i \in DOMAIN list : list[i] = op
      /\ \A i, j \in DOMAIN list : list[i] = list[j] => i = j
      /\ \A i \in DOMAIN list : \E k \in FirstOf(list) : NameOf(list[k]) = NameOf(list[i])
      /\ DOMAIN list = 1 .. Len(list) /\ Len(list) \in Nat
  BY <1>1 DEF PipeInv, WalkOK
<1>3. CASE resolution = "first_wins"
  <2>1. kept' = {list[i] : i \in FirstOf(list)}
    BY <1>1, <1>3 DEF DetectConflicts
  <2>2. FirstOf(list) \subseteq DOMAIN list
    BY DEF FirstOf
  <2>3. \A i, j \in FirstOf(list) : NameOf(list[i]) = NameOf(list[j]) => i = j
    <3> SUFFICES ASSUME NEW i \in FirstOf(list), NEW j \in FirstOf(list),
                        NameOf(list[i]) = NameOf(list[j]), i # j
                 PROVE  FALSE
      OBVIOUS
    <3>1. i \in 1 .. Len(list) /\ j \in 1 .. Len(list) /\ Len(list) \in Nat
      BY <1>2, <2>2
    <3>2. i \in 1 .. j - 1 \/ j \in 1 .. i - 1
      BY <3>1
    <3> QED
      BY <3>2 DEF FirstOf
  <2>4. \A a, b \in kept' : NameOf(a) = NameOf(b) => a = b
    BY <2>1, <2>3
  <2>5. kept' \subseteq Enabled(src)
    BY <1>2, <2>1, <2>2
  <2>6. NamesOf(kept') = NamesOf(Enabled(src))
    <3>1. \A op \in Enabled(src) : \E q \in kept' : NameOf(q) = NameOf(op)
      BY <1>2, <2>1
    <3> QED
      BY <2>5, <3>1 DEF NamesOf
  <2>7. KeptOK'
    BY <1>1, <1>3, <2>4, <2>5, <2>6 DEF KeptOK
  <2> QED
    BY <1>1, <2>7 DEF PipeInv, GenerateTools, WalkOK, BuiltOK, Faithful, RoutesUnambiguous, ArgumentsReach
<1>4. CASE resolution # "first_wins"
  <2>1. kept' = {list[i] : i \in DOMAIN list \ Conflicts(list)}
    BY <1>1, <1>4 DEF DetectConflicts
  <2>2. kept' \subseteq Unique(src)
    <3> SUFFICES ASSUME NEW i \in DOMAIN list \ Conflicts(list)
                 PROVE  list[i] \in Unique(src)
      BY <2>1
    <3>1. \A j \in DOMAIN list : NameOf(list[j]) = NameOf(list[i]) => j = i
      BY DEF Conflicts, Conflicting
    <3> QED
      BY <1>2, <3>1 DEF Unique
  <2>3. Unique(src) \subseteq kept'
    <3> SUFFICES ASSUME NEW op \in Unique(src)
                 PROVE  op \in kept'
      OBVIOUS
    <3>1. PICK i \in DOMAIN list : list[i] = op
      BY <1>2 DEF Unique
    <3>2. \A j \in DOMAIN list : NameOf(list[j]) = NameOf(list[i]) => j = i
      BY <1>2, <3>1 DEF Unique
    <3>3. i \notin Conflicts(list)
      BY <3>2 DEF Conflicts, Conflicting
    <3> QED
      BY <2>1, <3>1, <3>3
  <2>4. KeptOK'
    BY <1>1, <1>4, <2>2, <2>3 DEF KeptOK, Unique
  <2> QED
    BY <1>1, <2>4 DEF PipeInv, GenerateTools, WalkOK, BuiltOK, Faithful, RoutesUnambiguous, ArgumentsReach
<1> QED
  BY <1>3, <1>4

LEMMA ValidateInv ==
  ASSUME PipeInv, NEW op \in left, ValidateTool(op)
  PROVE  PipeInv'
BY DEF PipeInv, ValidateTool, WalkOK, KeptOK, BuiltOK, Faithful, RoutesUnambiguous, ArgumentsReach

LEMMA PublishedFaithful ==
  ASSUME PipeInv, Publish
  PROVE  Faithful(src, tools') /\ src \in Documents
<1>1. /\ src \in Documents /\ tools' = {Tool(op) : op \in kept}
      /\ IF resolution = "first_wins" THEN NamesOf(kept) = NamesOf(Enabled(src))
         ELSE kept = Unique(src)
  BY DEF PipeInv, Publish, KeptOK
<1>2. \A op : Tool(op).name = NameOf(op)
  BY DEF Tool
<1>3. Offered(tools') = NamesOf(kept)
  BY <1>1, <1>2 DEF Offered, NamesOf
<1> QED
  BY <1>1, <1>3 DEF Faithful

LEMMA PublishInv ==
  ASSUME PipeInv, Publish
  PROVE  PipeInv'
<1>1. /\ src \in Documents /\ kept \subseteq Operation /\ tools' = {Tool(op) : op \in kept}
      /\ \A a, b \in kept : NameOf(a) = NameOf(b) => a = b
      /\ resolution' = resolution /\ phase' = "idle"
      /\ built' = [built EXCEPT ![src] = tools']
  BY EnabledTyped DEF PipeInv, Publish, KeptOK
<1>2. \A op \in kept : Tool(op).name = NameOf(op)
  BY DEF Tool
<1>3. RoutesUnambiguous'
  BY <1>1, <1>2, NameFits DEF RoutesUnambiguous
<1>4. ArgumentsReach'
  BY <1>1, ToolArguments DEF ArgumentsReach
<1>5. BuiltOK'
  <2>1. built' \in [Documents -> (SUBSET {Tool(op) : op \in Operation}) \cup {None}]
    BY <1>1 DEF PipeInv, BuiltOK
  <2>2. \A d \in Documents : built'[d] = None \/ Faithful(d, built'[d])
    BY <1>1, PublishedFaithful DEF PipeInv, BuiltOK
  <2> QED
    BY <1>1, <2>1, <2>2 DEF BuiltOK, Faithful
<1> QED
  BY <1>1, <1>3, <1>4, <1>5 DEF PipeInv, WalkOK, KeptOK

LEMMA PipeNextInv == PipeInv /\ [Next]_vars => PipeInv'
<1> SUFFICES ASSUME PipeInv, [Next]_vars
             PROVE  PipeInv'
  OBVIOUS
<1>1. ASSUME NEW d \in Documents, Start(d) PROVE PipeInv'
  BY <1>1, StartInv
<1>2. ASSUME NEW op \in todo, Visit(op) PROVE PipeInv'
  BY <1>2, VisitInv
<1>3. CASE GenerateFails \/ ValidateFails
  BY <1>3, FailInv DEF GenerateFails, ValidateFails
<1>4. CASE GenerateTools
  BY <1>4, GenerateInv
<1>5. ASSUME NEW op \in left, ValidateTool(op) PROVE PipeInv'
  BY <1>5, ValidateInv
<1>6. CASE Publish
  BY <1>6, PublishInv
<1>7. CASE UNCHANGED vars
  BY <1>7 DEF vars, PipeInv, WalkOK, KeptOK, BuiltOK, Faithful, RoutesUnambiguous, ArgumentsReach, FirstOf
<1> QED
  BY <1>1, <1>2, <1>3, <1>4, <1>5, <1>6, <1>7 DEF Next

LEMMA PipeAlways == Spec => []PipeInv
BY PipeInitInv, PipeNextInv, PTL DEF Spec

\* The names of the tools in force are distinct and of the configured length, for
\* every document, prefix, length and resolution.
THEOREM PipeRoutes == Spec => []RoutesUnambiguous
<1>1. PipeInv => RoutesUnambiguous
  BY DEF PipeInv
<1> QED
  BY <1>1, PipeAlways, PTL

\* A tool offers no argument that its request does not read, unless a path-item
\* parameter has the name of another input; it offers all of them when its path item
\* has no parameters; and none stands for two inputs when names are plain.
THEOREM PipeArguments == Spec => []ArgumentsReach
<1>1. PipeInv => ArgumentsReach
  BY DEF PipeInv
<1> QED
  BY <1>1, PipeAlways, PTL

\* Builds of one document agree on the names, and on the operations behind them
\* unless conflicts go to the first: for every document and every order of visits.
THEOREM PipeNamesStable == Spec => NamesStable
<1> DEFINE A == \A d \in Documents :
                  built[d] # None =>
                     /\ Offered(built'[d]) = Offered(built[d])
                     /\ resolution # "first_wins" => built'[d] = built[d]
<1>1. PipeInv /\ [Next]_vars => [A]_vars
  <2> SUFFICES ASSUME PipeInv, Next, NEW d \in Documents, built[d] # None
               PROVE  /\ Offered(built'[d]) = Offered(built[d])
                      /\ resolution # "first_wins" => built'[d] = built[d]
    OBVIOUS
  <2>1. CASE built' = built
    BY <2>1
  <2>2. CASE Publish
    <3>1. Faithful(src, tools') /\ src \in Documents
      BY <2>2, PublishedFaithful
    <3>2. Faithful(d, built[d]) /\ built \in [Documents -> (SUBSET {Tool(op) : op \in Operation}) \cup {None}]
      BY DEF PipeInv, BuiltOK
    <3>3. built'[d] = IF d = src THEN tools' ELSE built[d]
      BY <2>2, <3>2 DEF Publish
    <3> QED
      BY <3>1, <3>2, <3>3 DEF Faithful
  <2> QED
    BY <2>1, <2>2 DEF Next, Start, Visit, GenerateFails, GenerateTools, ValidateTool, ValidateFails, Fail
<1> QED
  BY <1>1, PipeAlways, PTL DEF Spec, NamesStable
=============================================================================
