------------------------ MODULE PersistentCollections ------------------------
(***************************************************************************)
(* What the sets and maps of the verified kernel promise a caller: sets    *)
(* and finite functions over values compared by their structure, behind    *)
(* handles that denote one value forever.                                  *)
(***************************************************************************)
EXTENDS Integers, Sequences, FiniteSets

CONSTANTS
    Key, SetLiteral, MapLiteral,   \* what a caller writes down
    Value(_),                      \* the value a key object stands for
    Pair(_, _),                    \* the object of a tuple
    Idle, Undefined

VARIABLES
    sets,       \* sets[h] is the set of values behind handle h
    maps,       \* maps[h] is the function behind handle h
    call, answer

vars == <<sets, maps, call, answer>>

Calls(setHandles, mapHandles) ==
    [op : {"setOf"}, elements : SetLiteral]
    \cup [op : {"union", "intersect", "difference", "equals", "subset", "properSubset", "disjoint"},
          left : setHandles, right : setHandles]
    \cup [op : {"contains"}, of : setHandles, key : Key]
    \cup [op : {"subsets"}, of : setHandles]
    \cup [op : {"mapOf"}, entries : MapLiteral]
    \cup [op : {"mapUpdate"}, of : mapHandles, key : Key, value : Key]
    \cup [op : {"mapGet"}, of : mapHandles, key : Key]
    \cup [op : {"mapMerge", "mapEquals"}, left : mapHandles, right : mapHandles]
    \cup [op : {"mapSubtract"}, of : mapHandles, keys : setHandles]
    \cup [op : {"mapKeys", "mapValues", "mapItems"}, of : mapHandles]

Values(objects) == { Value(objects[i]) : i \in DOMAIN objects }

\* The last entry of a literal with a key decides.
Entries(entries) ==
    [k \in { Value(entries[i][1]) : i \in DOMAIN entries } |->
        LET last == CHOOSE i \in DOMAIN entries :
                      /\ Value(entries[i][1]) = k
                      /\ \A j \in DOMAIN entries : Value(entries[j][1]) = k => j <= i
        IN Value(entries[last][2])]

Override(f, g) == [k \in DOMAIN f \cup DOMAIN g |-> IF k \in DOMAIN g THEN g[k] ELSE f[k]]

AnswersSet(s) ==
    /\ \/ sets' = Append(sets, s) /\ answer' = [set |-> Len(sets) + 1]
       \/ \E h \in DOMAIN sets : sets[h] = s /\ answer' = [set |-> h] /\ UNCHANGED sets
    /\ UNCHANGED maps

AnswersMap(f) ==
    /\ \/ maps' = Append(maps, f) /\ answer' = [map |-> Len(maps) + 1]
       \/ \E h \in DOMAIN maps : maps[h] = f /\ answer' = [map |-> h] /\ UNCHANGED maps
    /\ UNCHANGED sets

Answers(plain) == answer' = plain /\ UNCHANGED <<sets, maps>>

\* Every subset once, in any order.
AnswersSubsets(s) ==
    /\ DOMAIN answer' = {"subsets"}
    /\ { answer'.subsets[i] : i \in DOMAIN answer'.subsets } = SUBSET s
    /\ Len(answer'.subsets) = Cardinality(SUBSET s)
    /\ UNCHANGED <<sets, maps>>

-----------------------------------------------------------------------------
Init == sets = << >> /\ maps = << >> /\ call = Idle /\ answer = << >>

Invoke ==
    /\ call = Idle /\ answer = << >>
    /\ \E c \in Calls(DOMAIN sets, DOMAIN maps) : call' = c
    /\ UNCHANGED <<sets, maps, answer>>

\* The caller has its answer.
Take ==
    /\ call = Idle /\ answer # << >>
    /\ answer' = << >>
    /\ UNCHANGED <<sets, maps, call>>

Reply ==
    /\ call # Idle
    /\ CASE call.op = "setOf"        -> AnswersSet(Values(call.elements))
         [] call.op = "union"        -> AnswersSet(sets[call.left] \cup sets[call.right])
         [] call.op = "intersect"    -> AnswersSet(sets[call.left] \cap sets[call.right])
         [] call.op = "difference"   -> AnswersSet(sets[call.left] \ sets[call.right])
         [] call.op = "equals"       -> Answers([holds |-> sets[call.left] = sets[call.right]])
         [] call.op = "subset"       -> Answers([holds |-> sets[call.left] \subseteq sets[call.right]])
         [] call.op = "properSubset" ->
              Answers([holds |-> /\ sets[call.left] \subseteq sets[call.right]
                                 /\ sets[call.left] # sets[call.right]])
         [] call.op = "disjoint"     ->
              Answers([holds |-> sets[call.left] \cap sets[call.right] = {}])
         [] call.op = "contains"     -> Answers([holds |-> Value(call.key) \in sets[call.of]])
         [] call.op = "subsets"      -> AnswersSubsets(sets[call.of])
         [] call.op = "mapOf"        -> AnswersMap(Entries(call.entries))
         [] call.op = "mapUpdate"    ->
              AnswersMap(Override(maps[call.of], Entries(<<<<call.key, call.value>>>>)))
         [] call.op = "mapGet"       ->
              Answers([value |-> IF Value(call.key) \in DOMAIN maps[call.of]
                                 THEN maps[call.of][Value(call.key)] ELSE Undefined])
         [] call.op = "mapMerge"     -> AnswersMap(Override(maps[call.left], maps[call.right]))
         [] call.op = "mapEquals"    -> Answers([holds |-> maps[call.left] = maps[call.right]])
         [] call.op = "mapSubtract"  ->
              AnswersMap([k \in DOMAIN maps[call.of] \ sets[call.keys] |-> maps[call.of][k]])
         [] call.op = "mapKeys"      -> AnswersSet(DOMAIN maps[call.of])
         [] call.op = "mapValues"    -> AnswersSet({ maps[call.of][k] : k \in DOMAIN maps[call.of] })
         [] call.op = "mapItems"     ->
              AnswersSet({ Pair(k, maps[call.of][k]) : k \in DOMAIN maps[call.of] })
    /\ call' = Idle

Next == Invoke \/ Take \/ Reply

Spec == Init /\ [][Next]_vars
=============================================================================
