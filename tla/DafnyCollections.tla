-------------------------- MODULE DafnyCollections --------------------------
(***************************************************************************)
(* The sets and maps that replace Dafny's arrays in the generated          *)
(* JavaScript kernel.  Both are a Map of the immutable package, whose keys *)
(* are DafnyKey wrappers: equal when Dafny's values are, hashed by the     *)
(* text of the value.  The package is modelled from its use here: up to    *)
(* LinearLimit entries it is a list searched with equals alone, beyond     *)
(* them, for good, a trie that looks a key up by its hash first.           *)
(*                                                                         *)
(* Operations hand out their operands where these are the result, share    *)
(* one inner map between handles, and build results by adding in place.    *)
(***************************************************************************)
EXTENDS Integers, Sequences, FiniteSets

Seqs == INSTANCE SequencesExt

CONSTANTS
    Key,           \* values used as elements, keys and mapped values:
                   \* [atom |-> char] or [members |-> the atoms of a set, in
                   \* the order in which they were added]
    SetLiteral,    \* sequences of keys sets are made from
    MapLiteral,    \* sequences of entries maps are made from
    HashModulus,   \* number of hash codes; 2^32 in the code
    LinearLimit,   \* entries the package keeps in a list
    MaxObjects,    \* bound on the sets and maps made
    NoCall, Absent

ASSUME KeyAssumption ==
    /\ \A k \in Key : "left" \notin DOMAIN k
    /\ SetLiteral \subseteq Seq(Key) /\ MapLiteral \subseteq Seq(Key \X Key)
ASSUME InnerAssumption == LinearLimit \in Nat /\ HashModulus \in Nat \ {0}

VARIABLES
    sets,        \* sets[h] is the inner map of the Set behind handle h
    maps,        \* maps[h] is the inner map of the Map behind handle h
    generator,   \* the running AllSubsets_ generator, or << >>
    request, reply

collectionVars == <<sets, maps, generator, request, reply>>

-----------------------------------------------------------------------------
(* Keys.                                                                   *)

Objects(seq) == { seq[i] : i \in DOMAIN seq }

\* The value of a key object, what _dafny.areEqual compares.
SingleValue(k) == IF "members" \in DOMAIN k THEN [members |-> Objects(k.members)] ELSE k

PairOf(k, v) == [left |-> k, right |-> v]

Value(k) == IF "left" \in DOMAIN k THEN PairOf(SingleValue(k.left), SingleValue(k.right))
            ELSE SingleValue(k)

\* What _dafny.toString makes of a key: a set lists its elements in the order
\* of its inner map.  Characters are their codes; 44, 32 is the separator.
Joined(texts) == Seqs!FoldLeft(LAMBDA text, t : IF text = << >> THEN t ELSE text \o <<44, 32>> \o t,
                          << >>, texts)

SingleText(k) ==
    IF "members" \in DOMAIN k
    THEN <<123>> \o Joined([i \in DOMAIN k.members |-> <<k.members[i].atom>>]) \o <<125>>
    ELSE <<k.atom>>

Text(k) ==
    IF "left" \in DOMAIN k
    THEN <<40>> \o Joined(<<SingleText(k.left), SingleText(k.right)>>) \o <<41>>
    ELSE SingleText(k)

\* (hash << 5) - hash + code, in the width of the model.
HashCode(k) == Seqs!FoldLeft(LAMBDA hash, code : (31 * hash + code) % HashModulus, 0, Text(k))

AreEqual(k, l) == Value(k) = Value(l)

\* Equal keys have been built in one order, so that they have one text.
OneText == \A k, l \in Key : AreEqual(k, l) => Text(k) = Text(l)

-----------------------------------------------------------------------------
(* The immutable Map.                                                      *)

EmptyInner == [linear |-> TRUE, entries |-> << >>]

Size(inner) == Len(inner.entries)

\* Whether a search for k stops at entry i.  A trie walks down the bits of the hash
\* and compares what it finds there: the bits it does not reach are abstracted from
\* by comparing the whole of the hash.
Matches(inner, i, k) ==
    /\ inner.linear \/ HashCode(inner.entries[i].key) = HashCode(k)
    /\ AreEqual(inner.entries[i].key, k)

Found(inner, k) == { i \in DOMAIN inner.entries : Matches(inner, i, k) }
HasKey(inner, k) == Found(inner, k) # {}
ValueOf(inner, k) == inner.entries[CHOOSE i \in Found(inner, k) : TRUE].value

SetEntry(inner, k, v) ==
    IF HasKey(inner, k)
    THEN [inner EXCEPT !.entries[CHOOSE i \in Found(inner, k) : TRUE] = [key |-> k, value |-> v]]
    ELSE [linear  |-> inner.linear /\ Size(inner) < LinearLimit,
          entries |-> Append(inner.entries, [key |-> k, value |-> v])]

\* A list moves its last entry into the gap; a trie that is emptied is a list again.
RemoveEntry(inner, k) ==
    IF ~HasKey(inner, k) THEN inner
    ELSE LET gap == CHOOSE i \in Found(inner, k) : TRUE
         IN [linear  |-> inner.linear \/ Size(inner) = 1,
             entries |-> IF inner.linear
                         THEN Seqs!Front(Seqs!ReplaceAt(inner.entries, gap, Seqs!Last(inner.entries)))
                         ELSE Seqs!RemoveAt(inner.entries, gap)]

\* The elements of a Set, and the entries of a Map, in the order of iteration.
Elements(inner) == [i \in DOMAIN inner.entries |-> inner.entries[i].value]
Keys(inner) == [i \in DOMAIN inner.entries |-> inner.entries[i].key]

\* Puts one entry after the other; `keep` says that a key already there keeps
\* its entry.
Put(inner, entry, keep) ==
    IF keep /\ HasKey(inner, entry.key) THEN inner ELSE SetEntry(inner, entry.key, entry.value)

PutAll(inner, entries, keep) ==
    LET after[n \in 0..Len(entries)] ==
          IF n = 0 THEN inner ELSE Put(after[n - 1], entries[n], keep)
    IN after[Len(entries)]

RemoveAll(inner, keys) ==
    LET after[n \in 0..Len(keys)] ==
          IF n = 0 THEN inner ELSE RemoveEntry(after[n - 1], keys[n])
    IN after[Len(keys)]

\* The elements of a sequence at some of its places, in their order.
Chosen(seq, places) ==
    LET upTo[n \in 0..Len(seq)] ==
          IF n = 0 THEN << >>
          ELSE IF n \in places THEN Append(upTo[n - 1], seq[n]) ELSE upTo[n - 1]
    IN upTo[Len(seq)]

-----------------------------------------------------------------------------
(* Sets.  An operation answers with an inner map, or with an operand.      *)

Members(elements) == [i \in DOMAIN elements |-> [key |-> elements[i], value |-> elements[i]]]

AddAll(inner, elements) == PutAll(inner, Members(elements), FALSE)
FromElements(elements) == AddAll(EmptyInner, elements)

MakeSet(inner) == /\ sets' = Append(sets, inner)
                  /\ reply' = [set |-> Len(sets) + 1]
                  /\ UNCHANGED maps
ShareSet(h) == reply' = [set |-> h] /\ UNCHANGED <<sets, maps>>
AnswerPlain(plain) == reply' = plain /\ UNCHANGED <<sets, maps>>

Union(a, b) ==
    LET larger  == IF Size(sets[a]) >= Size(sets[b]) THEN a ELSE b
        smaller == IF larger = a THEN b ELSE a
    IN IF Size(sets[a]) = 0 THEN ShareSet(b)
       ELSE IF Size(sets[b]) = 0 THEN ShareSet(a)
       ELSE MakeSet(AddAll(sets[larger], Elements(sets[smaller])))

Intersect(a, b) ==
    LET smaller  == IF Size(sets[a]) <= Size(sets[b]) THEN a ELSE b
        larger   == IF smaller = a THEN b ELSE a
        elements == Elements(sets[smaller])
    IN IF Size(sets[a]) = 0 THEN ShareSet(a)
       ELSE IF Size(sets[b]) = 0 THEN ShareSet(b)
       ELSE MakeSet(FromElements(
              Chosen(elements, { i \in DOMAIN elements : HasKey(sets[larger], elements[i]) })))

Difference(a, b) ==
    IF Size(sets[a]) = 0 \/ Size(sets[b]) = 0 THEN ShareSet(a)
    ELSE MakeSet(RemoveAll(sets[a], Elements(sets[b])))

Holds(condition) == AnswerPlain([holds |-> condition])

IsSubsetOf(a, b) ==
    /\ Size(sets[a]) <= Size(sets[b])
    /\ \A e \in Objects(Elements(sets[a])) : HasKey(sets[b], e)

SetEquals(a, b) ==
    a = b \/ (Size(sets[a]) = Size(sets[b])
              /\ \A e \in Objects(Elements(sets[a])) : HasKey(sets[b], e))

IsDisjointFrom(a, b) ==
    LET smaller == IF Size(sets[a]) <= Size(sets[b]) THEN a ELSE b
        larger  == IF smaller = a THEN b ELSE a
    IN \A e \in Objects(Elements(sets[smaller])) : ~HasKey(sets[larger], e)

\* The generator copies the elements when it starts; `selected` counts in
\* binary, `current` keeps the selected elements in the order of selection.
StartSubsets ==
    /\ request # NoCall /\ request.op = "subsets" /\ generator = << >>
    /\ LET elements == Elements(sets[request.of])
       IN generator' = [elements |-> elements, selected |-> [i \in DOMAIN elements |-> FALSE],
                        current |-> << >>, yielded |-> << >>, done |-> FALSE]
    /\ UNCHANGED <<sets, maps, request, reply>>

\* Mutant of NextSelection: the selected elements before the next one stay.
NextSelectionKeepingLower(elements, selected, current) ==
    LET next == CHOOSE i \in DOMAIN elements : ~selected[i] /\ \A j \in 1..i - 1 : selected[j]
    IN [selected |-> [selected EXCEPT ![next] = TRUE], current |-> Append(current, elements[next])]

\* The elements up to the first one not selected are dropped, that one joins.
NextSelection(elements, selected, current) ==
    LET next  == CHOOSE i \in DOMAIN elements : ~selected[i] /\ \A j \in 1..i - 1 : selected[j]
        kept  == { p \in DOMAIN current : \A j \in 1..next - 1 : ~AreEqual(current[p], elements[j]) }
    IN [selected |-> [i \in DOMAIN elements |-> i = next \/ (i > next /\ selected[i])],
        current  |-> Append(Chosen(current, kept), elements[next])]

YieldSubset ==
    /\ generator # << >> /\ ~generator.done
    /\ LET yielded == Append(generator.yielded,
                             { Value(e) : e \in Objects(Elements(FromElements(generator.current))) })
       IN IF \A i \in DOMAIN generator.selected : generator.selected[i]
          THEN generator' = [generator EXCEPT !.yielded = yielded, !.done = TRUE]
          ELSE LET next == NextSelection(generator.elements, generator.selected, generator.current)
               IN generator' = [generator EXCEPT !.yielded  = yielded,
                                                 !.selected = next.selected,
                                                 !.current  = next.current]
    /\ UNCHANGED <<sets, maps, request, reply>>

-----------------------------------------------------------------------------
(* Maps.                                                                   *)

Entry(entry) == [key |-> entry[1], value |-> entry[2]]
FromEntries(entries) == PutAll(EmptyInner, [i \in DOMAIN entries |-> Entry(entries[i])], FALSE)

MakeMap(inner) == /\ maps' = Append(maps, inner)
                  /\ reply' = [map |-> Len(maps) + 1]
                  /\ UNCHANGED sets
ShareMap(h) == reply' = [map |-> h] /\ UNCHANGED <<sets, maps>>

MapGet(h, k) ==
    AnswerPlain([value |-> IF HasKey(maps[h], k) THEN Value(ValueOf(maps[h], k)) ELSE Absent])

\* The entries of the right map, and those of the left one it lacks.
Merge(a, b) == MakeMap(PutAll(maps[b], maps[a].entries, TRUE))

Subtract(a, keys) ==
    IF Size(maps[a]) = 0 \/ Size(sets[keys]) = 0 THEN ShareMap(a)
    ELSE MakeMap(RemoveAll(maps[a], Elements(sets[keys])))

MapEquals(a, b) ==
    a = b \/ (/\ Size(maps[a]) = Size(maps[b])
              /\ \A e \in Objects(maps[a].entries) :
                   HasKey(maps[b], e.key) /\ AreEqual(e.value, ValueOf(maps[b], e.key)))

Items(inner) == [i \in DOMAIN inner.entries |->
                    PairOf(inner.entries[i].key, inner.entries[i].value)]

-----------------------------------------------------------------------------
(* Calls.                                                                  *)

Represented(inner) == { Value(e.key) : e \in Objects(inner.entries) }

Abstraction(inner) ==
    [k \in Represented(inner) |->
        Value((CHOOSE e \in Objects(inner.entries) : Value(e.key) = k).value)]

Persistent == INSTANCE PersistentCollections WITH
                call <- request, answer <- reply, Idle <- NoCall, Undefined <- Absent,
                sets <- [h \in DOMAIN sets |-> Represented(sets[h])],
                maps <- [h \in DOMAIN maps |-> Abstraction(maps[h])],
                Pair <- PairOf

Makes == {"setOf", "union", "intersect", "difference", "mapKeys", "mapValues", "mapItems",
          "mapOf", "mapUpdate", "mapMerge", "mapSubtract"}

\* A call that could exceed the bound is not made.
RoomFor(c) == c.op \in Makes => Len(sets) + Len(maps) < MaxObjects

CollectionsInvoke ==
    /\ request = NoCall /\ reply = << >>
    /\ \E c \in Persistent!Calls(DOMAIN sets, DOMAIN maps) : RoomFor(c) /\ request' = c
    /\ UNCHANGED <<sets, maps, generator, reply>>

\* The caller has its answer.
CollectionsTake ==
    /\ request = NoCall /\ reply # << >>
    /\ reply' = << >>
    /\ UNCHANGED <<sets, maps, generator, request>>

CollectionsReply ==
    /\ request # NoCall
    /\ request.op = "subsets" => generator # << >> /\ generator.done
    /\ CASE request.op = "setOf"        -> MakeSet(FromElements(request.elements))
         [] request.op = "union"        -> Union(request.left, request.right)
         [] request.op = "intersect"    -> Intersect(request.left, request.right)
         [] request.op = "difference"   -> Difference(request.left, request.right)
         [] request.op = "equals"       -> Holds(SetEquals(request.left, request.right))
         [] request.op = "subset"       -> Holds(IsSubsetOf(request.left, request.right))
         [] request.op = "properSubset" ->
              Holds(Size(sets[request.left]) < Size(sets[request.right]) /\ IsSubsetOf(request.left, request.right))
         [] request.op = "disjoint"     -> Holds(IsDisjointFrom(request.left, request.right))
         [] request.op = "contains"     -> Holds(HasKey(sets[request.of], request.key))
         [] request.op = "subsets"      -> AnswerPlain([subsets |-> generator.yielded])
         [] request.op = "mapOf"        -> MakeMap(FromEntries(request.entries))
         [] request.op = "mapUpdate"    -> MakeMap(SetEntry(maps[request.of], request.key, request.value))
         [] request.op = "mapGet"       -> MapGet(request.of, request.key)
         [] request.op = "mapMerge"     -> Merge(request.left, request.right)
         [] request.op = "mapEquals"    -> Holds(MapEquals(request.left, request.right))
         [] request.op = "mapSubtract"  -> Subtract(request.of, request.keys)
         [] request.op = "mapKeys"      -> MakeSet(FromElements(Keys(maps[request.of])))
         [] request.op = "mapValues"    -> MakeSet(FromElements(Elements(maps[request.of])))
         [] request.op = "mapItems"     -> MakeSet(FromElements(Items(maps[request.of])))
    /\ request' = NoCall
    /\ generator' = << >>

-----------------------------------------------------------------------------
CollectionsInit == sets = << >> /\ maps = << >> /\ generator = << >> /\ request = NoCall /\ reply = << >>

CollectionsWork == StartSubsets \/ YieldSubset \/ CollectionsReply

CollectionsNext == CollectionsInvoke \/ CollectionsTake \/ CollectionsWork

CollectionsSpec == CollectionsInit /\ [][CollectionsNext]_collectionVars

-----------------------------------------------------------------------------
\* Sets and maps answer by the structure of their elements, whatever was
\* shared between handles and added in place on the way, and a subset
\* generator yields each subset once.
ImplementsPersistentCollections == Persistent!Spec

\* "DafnyKey preserves Dafny's structural equality rather than JavaScript
\* object identity": a set contains a value when it holds an equal one.
StructuralMembership ==
    \A h \in DOMAIN sets, k \in Key :
      HasKey(sets[h], k) = \E e \in Objects(Elements(sets[h])) : AreEqual(e, k)
=============================================================================
