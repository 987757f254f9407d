--------------------------- MODULE SourceClosure ---------------------------
(***************************************************************************)
(* The closure of the public operations over the definitions they reach,   *)
(* from which the assurance reports count what they cover.  The analyzer   *)
(* delivers one row per definition and language and one row per usage;     *)
(* rows are merged into definitions, usages into a call graph, and the     *)
(* graph is searched from every root.  Usages inside the methods of a      *)
(* record name no definition: they belong to the record whose span holds   *)
(* them.  Digests, counts and layout of the report are left out.           *)
(***************************************************************************)
EXTENDS Integers, Sequences, FiniteSets

CONSTANTS
    Internal,     \* names in the namespaces of the project
    Ignored,      \* names of the runtime's own namespaces
    Roots,        \* the public operations, in their order
    Analyses,     \* what the analyzer may deliver: definitions, usages, and
                  \* the paths whose text holds a forbidden token
    NoVar         \* the usage names no definition it occurs in

VARIABLES
    analysis,     \* what the analyzer delivered
    phase,        \* "definitions", "usages", "roots", "search", "done", "failed"
    at,           \* position in the rows, or in the roots
    definitions,  \* the definitions met, in the order they were met
    graph,        \* [from, to] of every attributed usage
    reachable, pending,   \* the search from Roots[at]
    reports       \* per closed root, its internal and external names

closureVars == <<analysis, phase, at, definitions, graph, reachable, pending, reports>>

Earlier(a, b) == IF a < b THEN a ELSE b
Later(a, b) == IF a < b THEN b ELSE a

Position(name) == { i \in DOMAIN definitions : definitions[i].name = name }
Defined == { definitions[i].name : i \in DOMAIN definitions }

\* Rows the report takes: of the project, and not a mere declaration.
Taken(row) == row.name \in Internal /\ row.by # "declare"

-----------------------------------------------------------------------------
Fresh(row) == [name |-> row.name, path |-> row.path, by |-> row.by,
               row |-> row.row, end |-> row.end, private |-> row.private,
               rowOf |-> {<<row.lang, row.row>>}]

\* Mutant of Conflicts: a second row of a language replaces the first.
ConflictsInPrivacy(prior, row) == prior.private # row.private

Conflicts(prior, row) ==
    \/ \E known \in prior.rowOf : known[1] = row.lang /\ known[2] # row.row
    \/ prior.private # row.private

\* Mutant of Merged: the span of the last row is the span of the definition.
MergedLastSpan(prior, row) ==
    [prior EXCEPT !.rowOf = @ \cup {<<row.lang, row.row>>}, !.row = row.row, !.end = row.end]

Merged(prior, row) ==
    [prior EXCEPT !.rowOf = @ \cup {<<row.lang, row.row>>},
                  !.row   = Earlier(@, row.row),
                  !.end   = Later(@, row.end)]

ReadDefinition ==
    /\ phase = "definitions" /\ at <= Len(analysis.definitions)
    /\ LET row   == analysis.definitions[at]
           prior == Position(row.name)
       IN \/ /\ ~Taken(row)
             /\ at' = at + 1 /\ UNCHANGED <<phase, definitions>>
          \/ /\ Taken(row) /\ prior = {}
             /\ definitions' = Append(definitions, Fresh(row))
             /\ at' = at + 1 /\ UNCHANGED phase
          \/ \E i \in prior :
               /\ Taken(row) /\ Conflicts(definitions[i], row)
               /\ phase' = "failed" /\ UNCHANGED <<at, definitions>>
          \/ \E i \in prior :
               /\ Taken(row) /\ ~Conflicts(definitions[i], row)
               /\ definitions' = [definitions EXCEPT ![i] = Merged(@, row)]
               /\ at' = at + 1 /\ UNCHANGED phase
    /\ UNCHANGED <<analysis, graph, reachable, pending, reports>>

DefinitionsRead ==
    /\ phase = "definitions" /\ at > Len(analysis.definitions)
    /\ phase' = "usages" /\ at' = 1
    /\ UNCHANGED <<analysis, definitions, graph, reachable, pending, reports>>

\* The records of a file whose span holds a row; the first one found counts.
Holding(usage) == { i \in DOMAIN definitions : /\ definitions[i].by = "defrecord"
                                               /\ definitions[i].path = usage.path
                                               /\ usage.row \in definitions[i].row..definitions[i].end }

Attributed(usage) ==
    IF usage.var # NoVar THEN {usage.var}
    ELSE { definitions[i].name : i \in { j \in Holding(usage) : \A k \in Holding(usage) : j <= k } }

ReadUsage ==
    /\ phase = "usages" /\ at <= Len(analysis.usages)
    /\ LET usage == analysis.usages[at]
       IN graph' = graph \cup [from : Attributed(usage), to : {usage.to}]
    /\ at' = at + 1
    /\ UNCHANGED <<analysis, phase, definitions, reachable, pending, reports>>

UsagesRead ==
    /\ phase = "usages" /\ at > Len(analysis.usages)
    /\ phase' = "roots" /\ at' = 1
    /\ UNCHANGED <<analysis, definitions, graph, reachable, pending, reports>>

-----------------------------------------------------------------------------
Targets(names) == { e.to : e \in { x \in graph : x.from \in names } }

StartRoot ==
    /\ phase = "roots" /\ at <= Len(Roots)
    /\ IF Roots[at] \in Defined
       THEN /\ phase' = "search" /\ reachable' = {Roots[at]} /\ pending' = {Roots[at]}
       ELSE /\ phase' = "failed" /\ UNCHANGED <<reachable, pending>>
    /\ UNCHANGED <<analysis, at, definitions, graph, reports>>

Discovered(current) == (Targets({current}) \cap Defined) \ reachable

\* The queue serves names in the order of their discovery; the outcome does not
\* depend on it.
Visit ==
    /\ phase = "search"
    /\ \E current \in pending :
         /\ reachable' = reachable \cup Discovered(current)
         /\ pending' = (pending \ {current}) \cup Discovered(current)
    /\ UNCHANGED <<analysis, phase, at, definitions, graph, reports>>

CloseRoot ==
    /\ phase = "search" /\ pending = {}
    /\ reports' = Append(reports, [internal |-> reachable,
                                   external |-> Targets(reachable) \ (Defined \cup Ignored)])
    /\ phase' = "roots" /\ at' = at + 1
    /\ UNCHANGED <<analysis, definitions, graph, reachable, pending>>

\* Every source with a definition is scanned, reached from a root or not.
Forbidden == { path \in {definitions[i].path : i \in DOMAIN definitions} : path \in analysis.forbidden }

Publish ==
    /\ phase = "roots" /\ at > Len(Roots)
    /\ phase' = IF Forbidden # {} THEN "failed" ELSE "done"
    /\ UNCHANGED <<analysis, at, definitions, graph, reachable, pending, reports>>

-----------------------------------------------------------------------------
ClosureInit ==
    /\ analysis \in Analyses
    /\ phase = "definitions" /\ at = 1
    /\ definitions = << >> /\ graph = {}
    /\ reachable = {} /\ pending = {} /\ reports = << >>

ClosureNext == ReadDefinition \/ DefinitionsRead \/ ReadUsage \/ UsagesRead
        \/ StartRoot \/ Visit \/ CloseRoot \/ Publish

ClosureSpec == ClosureInit /\ [][ClosureNext]_closureVars

-----------------------------------------------------------------------------
(* The closure by definition, from what the analyzer delivered alone.      *)

TakenRows(given) == { row \in {given.definitions[i] : i \in DOMAIN given.definitions} : Taken(row) }

TakenNames(given) == { row.name : row \in TakenRows(given) }

IsOf(given, i, name) == Taken(given.definitions[i]) /\ given.definitions[i].name = name

\* A row of the one comes before every row of the other.
MetBefore(given, name, other) ==
    \E i \in DOMAIN given.definitions :
      IsOf(given, i, name) /\ \A j \in 1 .. i : ~IsOf(given, j, other)

\* The records of a file with a row that holds a line.
Holders(given, usage) ==
    { row.name : row \in { r \in TakenRows(given) : /\ r.by = "defrecord" /\ r.path = usage.path
                                                   /\ usage.row \in r.row .. r.end } }

\* A usage without a name belongs to the record one of whose rows holds it; of a
\* record and the constructors defined with it, to the one that is met first.
Owners(given, usage) ==
    IF usage.var # NoVar THEN {usage.var}
    ELSE { name \in Holders(given, usage) :
             \A other \in Holders(given, usage) : other = name \/ MetBefore(given, name, other) }

Uses(given, names) ==
    { given.usages[i].to : i \in { j \in DOMAIN given.usages :
                                     Owners(given, given.usages[j]) \cap names # {} } }

Closed(given, names) == Uses(given, names) \cap TakenNames(given) \subseteq names

\* The least closed set of definitions that holds the root.
Reached(given, root) ==
    { name \in TakenNames(given) :
        \A names \in SUBSET TakenNames(given) :
          root \in names /\ Closed(given, names) => name \in names }

Conflicting(given) ==
    \E r, s \in TakenRows(given) : /\ r.name = s.name
                                   /\ \/ r.lang = s.lang /\ r.row # s.row
                                      \/ r.private # s.private

\* A published report has, for every root, exactly the definitions it reaches
\* and the outside names these use: nothing is silently omitted because a
\* definition was met in two languages, because another root had reached it
\* before, or because it is used from the method of a record.
ClosureExact ==
    phase = "done" =>
      \A i \in DOMAIN Roots :
        /\ reports[i].internal = Reached(analysis, Roots[i])
        /\ reports[i].external =
             Uses(analysis, Reached(analysis, Roots[i])) \ (TakenNames(analysis) \cup Ignored)

Invalid(given) ==
    \/ Conflicting(given)
    \/ \E i \in DOMAIN Roots : Roots[i] \notin TakenNames(given)
    \/ \E row \in TakenRows(given) : row.path \in given.forbidden

\* In whatever order the rows come, the closure fails if they contradict each
\* other, a root is not defined or a source holds a forbidden token, and only
\* then.
ClosureFailsExactlyWhenInvalid ==
    /\ phase = "done" => ~Invalid(analysis)
    /\ phase = "failed" => Invalid(analysis)

-----------------------------------------------------------------------------
(* What both rest on: what the analyzer delivers.                          *)

\* Definition and usage rows come in sequences, at numbered lines.
Listed(given) ==
    /\ Len(given.definitions) \in Nat /\ DOMAIN given.definitions = 1 .. Len(given.definitions)
    /\ Len(given.usages) \in Nat /\ DOMAIN given.usages = 1 .. Len(given.usages)
    /\ \A i \in DOMAIN given.definitions :
         given.definitions[i].row \in Int /\ given.definitions[i].end \in Int
    /\ \A i \in DOMAIN given.usages : given.usages[i].row \in Int

\* A namespace is one file, and a definition is a record in every language or
\* in none.
OneDefinition(given) ==
    \A i, j \in DOMAIN given.definitions :
      /\ Taken(given.definitions[i]) /\ Taken(given.definitions[j])
      /\ given.definitions[i].name = given.definitions[j].name
      => /\ given.definitions[i].path = given.definitions[j].path
         /\ given.definitions[i].by = given.definitions[j].by

\* Between the rows of a record for the one language and for the other, only
\* its own methods use something.
NothingBetween(given) ==
    \A u \in DOMAIN given.usages, i, j \in DOMAIN given.definitions :
      /\ given.usages[u].var = NoVar
      /\ IsOf(given, i, given.definitions[j].name) /\ Taken(given.definitions[j])
      /\ given.definitions[i].by = "defrecord" /\ given.definitions[i].path = given.usages[u].path
      /\ given.definitions[i].row <= given.usages[u].row
      /\ given.usages[u].row <= given.definitions[j].end
      => given.definitions[i].name \in Holders(given, given.usages[u])

ASSUME AnalysesAgree ==
    /\ Len(Roots) \in Nat /\ DOMAIN Roots = 1 .. Len(Roots)
    /\ \A given \in Analyses : Listed(given) /\ OneDefinition(given) /\ NothingBetween(given)
=============================================================================
