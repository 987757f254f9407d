---------------------------- MODULE MCJavaScript ----------------------------
(***************************************************************************)
(* The JavaScript of the repository for TLC: the sequences, and the sets   *)
(* and maps, of the generated kernel, the source closure and the summary   *)
(* of proof efforts.  They share nothing; `part` selects the one that a    *)
(* behaviour runs.                                                         *)
(***************************************************************************)
EXTENDS DafnySeq, DafnyCollections, SourceClosure, ProofEffort

CONSTANTS a, b

VARIABLE part

-----------------------------------------------------------------------------
(* Sequences: one literal, everything else is made of it.                  *)

MCElement == {a, b}
MCLiteral == {<<a, b>>}
MCOffset  == {-1, 1}

-----------------------------------------------------------------------------
(* Sets and maps: two atoms and a set of both, hashed to two codes, the    *)
(* list of the immutable package cut to two entries so that tries occur.   *)

Atom(n)     == [atom |-> 48 + n]
BothAtoms   == [members |-> <<Atom(1), Atom(2)>>]
MCKey        == {Atom(1), Atom(2), BothAtoms}
MCSetLiteral == {<<Atom(1), BothAtoms>>, <<Atom(2), Atom(1), Atom(2)>>}
MCMapLiteral == {<< >>, <<<<Atom(1), Atom(2)>>, <<BothAtoms, Atom(2)>>>>}

\* The hypothesis under which the module is proved.
ASSUME EqualKeysHaveOneText == OneText

-----------------------------------------------------------------------------
(* Source closure: two roots, one a record, that reach each other through  *)
(* a helper; up to two rows more than the plain ones, among them a         *)
(* constructor with the span of the record.                                *)

DefinitionRow(name, lang, start, end, by) ==
    [name |-> name, path |-> IF name \in {"record", "maker"} THEN "second" ELSE "first",
     lang |-> lang, row |-> start, end |-> end, private |-> FALSE, by |-> by]

PlainRows == << DefinitionRow("root", "clj", 1, 2, "defn"),
                DefinitionRow("helper", "clj", 4, 5, "defn"),
                DefinitionRow("record", "clj", 10, 14, "defrecord") >>

MoreRows ==
    { DefinitionRow("helper", "cljs", 7, 8, "defn"),
      DefinitionRow("helper", "clj", 6, 6, "defn"),
      DefinitionRow("helper", "clj", 1, 1, "declare"),
      DefinitionRow("record", "cljs", 15, 18, "defrecord"),
      DefinitionRow("maker", "clj", 10, 14, "defrecord"),
      DefinitionRow("outside", "clj", 1, 2, "defn"),
      [DefinitionRow("root", "cljs", 1, 2, "defn") EXCEPT !.private = TRUE] }

Inserted == { << >> } \cup { <<r>> : r \in MoreRows } \cup { <<r, s>> : r, s \in MoreRows }

Usage(var, path, line, to) == [var |-> var, path |-> path, row |-> line, to |-> to]

PlainUsages == << Usage("root", "first", 1, "helper"), Usage("helper", "first", 5, "outside"),
                  Usage(NoVar, "first", 9, "record"), Usage("helper", "first", 4, "core") >>

MoreUsages == << Usage("root", "first", 2, "record"), Usage("helper", "first", 4, "root"),
                 Usage(NoVar, "second", 11, "helper"), Usage(NoVar, "second", 17, "outside") >>

Among(numbers) == SelectSeq(MoreUsages, LAMBDA u : \E i \in numbers : MoreUsages[i] = u)

MCInternal == {"root", "helper", "record", "maker"}
MCIgnored  == {"core"}
MCRoots    == <<"record", "root">>
MCAnalyses ==
    [ definitions : { <<plain[1]>> \o more \o Tail(plain) :
                        plain \in {PlainRows, Seqs!Reverse(PlainRows), Tail(PlainRows)}, more \in Inserted },
      usages      : { Among(numbers) \o PlainUsages : numbers \in SUBSET DOMAIN MoreUsages },
      forbidden   : { {} } ]
    \cup [definitions : {PlainRows}, usages : { << >> }, forbidden : { {"second"}, {"elsewhere"} }]

-----------------------------------------------------------------------------
(* Proof efforts: names that hold every special character, costs around a  *)
(* limit of two that tie, a failed effort; logs cut off at every character *)
(* of the last effort and before it.                                       *)

Word(character) == <<character>>

Effort(name, outcome, cost) ==
    [name |-> name, outcome |-> Word(outcome), took |-> Word("took"), cost |-> Word(cost)]

Names == { <<"x">>, <<"x", "quote">>, <<"quote", "comma", "x">>, <<"newline", "x", "quote", "quote">> }

Efforts == { Effort(name, "Passed", cost) : name \in Names, cost \in {"1", "2"} }
           \cup { Effort(<<"x">>, "Failed", "1"), Effort(<<"comma">>, "Passed", "3") }

Log(efforts, quotes, ending, lost) ==
    [efforts |-> efforts, quotes |-> quotes, ending |-> ending, lost |-> lost]

Unix    == <<"newline">>
Windows == <<"return", "newline">>

MCDirectories ==
    { << >>, <<Log(<< >>, FALSE, Unix, 0)>> }
    \cup { <<Log(<<e, f>>, e.cost = <<"2">>, IF f.cost = <<"1">> THEN Windows ELSE Unix, 0)>> :
              e, f \in Efforts }
    \cup { <<Log(<<e, Effort(<<"quote", "y">>, "Passed", "2")>>, quotes, Windows, lost)>> :
              e \in {Effort(<<"x", "quote">>, "Passed", "1")}, quotes \in BOOLEAN, lost \in 1..22 }
    \cup { <<Log(<<e>>, FALSE, Unix, 0), Log(<<f>>, TRUE, Windows, 0)>> :
              e \in {Effort(<<"x">>, "Passed", cost) : cost \in {"1", "2"}}, f \in Efforts }

MCCharacter == STRING

MCHeader == <<Word("name"), Word("outcome"), Word("duration"), Word("count"), Word("seed")>>
MCPassed == Word("Passed")
MCTook   == Word("took")

-----------------------------------------------------------------------------
mcvars == <<vars, part, collectionVars, closureVars, effortVars>>

Part(name) == part = name /\ UNCHANGED part

MCInit ==
    /\ part \in {"sequences", "collections", "closure", "efforts"}
    /\ Init /\ CollectionsInit
    /\ IF part = "closure" THEN ClosureInit
       ELSE /\ analysis = << >> /\ phase = "definitions" /\ at = 1 /\ definitions = << >>
            /\ graph = {} /\ reachable = {} /\ pending = {} /\ reports = << >>
    /\ IF part = "efforts" THEN EffortsInit
       ELSE /\ logs = << >> /\ effortPhase = "failed" /\ rest = << >> /\ quoted = FALSE
            /\ field = << >> /\ row = << >> /\ rows = << >> /\ summary = << >> /\ modules = << >>

SequencesPart ==
    Part("sequences") /\ Next /\ UNCHANGED <<collectionVars, closureVars, effortVars>>

MCNext ==
    \/ SequencesPart
    \/ Part("collections") /\ CollectionsNext /\ UNCHANGED <<vars, closureVars, effortVars>>
    \/ Part("closure") /\ ClosureNext /\ UNCHANGED <<vars, collectionVars, effortVars>>
    \/ Part("efforts") /\ EffortsNext /\ UNCHANGED <<vars, collectionVars, closureVars>>

MCSpec == MCInit /\ [][MCNext]_mcvars /\ WF_mcvars(SequencesPart /\ Work)
=============================================================================
