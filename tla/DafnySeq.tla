------------------------------ MODULE DafnySeq ------------------------------
(***************************************************************************)
(* The persistent sequences that replace Dafny's eager arrays in the       *)
(* generated JavaScript kernel.  Concat and slice are views: they refer to *)
(* the sequences they were made of, so several callers share one graph of  *)
(* nodes.  The first operation that needs a flat value rewrites its node   *)
(* into a leaf in place, and the base of a slice it meets on its way       *)
(* first: forcing is a traversal with an explicit stack that starts over,  *)
(* inside itself, for such a base.                                         *)
(*                                                                         *)
(* Strings, which the generated code passes to some of these functions in  *)
(* place of sequences, and the mutators no generated code calls on a       *)
(* sequence (push, assignment to an index or to length) are left out.      *)
(***************************************************************************)
EXTENDS Integers, Sequences, FiniteSets

CONSTANTS Element, Literal, Offset, Idle, Omitted, Undefined,
          MaxHandles,    \* bound on the sequences made
          MaxLength      \* bound on their length

ASSUME SequenceAssumption ==
    /\ Literal \subseteq Seq(Element) /\ Offset \subseteq Int
    /\ Omitted \notin Int /\ Undefined \notin Element
ASSUME SeqBoundsAssumption == MaxHandles \in Nat /\ MaxLength \in Nat

VARIABLES
    node,     \* node[h] is the object behind handle h
    frames,   \* activations of _forceValues, the innermost last
    call,     \* the call being answered, or Idle
    answer    \* what a call answered and its caller did not take yet

vars == <<node, frames, call, answer>>

Handle == DOMAIN node

Minimum(a, b) == IF a < b THEN a ELSE b
Maximum(a, b) == IF a < b THEN b ELSE a

-----------------------------------------------------------------------------
(* Nodes.                                                                  *)

LeafNode(values) == [kind |-> "leaf", length |-> Len(values), values |-> values]

\* Mutant of ConcatNode: an empty right part is assumed.
ConcatNodeOfLeft(left, right) ==
    [kind |-> "concat", length |-> node[left].length, left |-> left, right |-> right]

ConcatNode(left, right) ==
    [kind |-> "concat", length |-> node[left].length + node[right].length,
     left |-> left, right |-> right]

SliceNode(base, start, length) ==
    [kind |-> "slice", length |-> length, base |-> base, start |-> start]

\* What a node denotes, following its references: a definition to compare the
\* operations with, which never compute it.
Denoted(meaning, h) ==
    CASE node[h].kind = "leaf"   -> node[h].values
      [] node[h].kind = "concat" -> meaning[node[h].left] \o meaning[node[h].right]
      [] node[h].kind = "slice"  ->
           SubSeq(meaning[node[h].base], node[h].start + 1, node[h].start + node[h].length)

Meaning ==
    LET meaning[h \in Handle] == Denoted(meaning, h)
    IN [h \in Handle |-> meaning[h]]

Abstract == INSTANCE PersistentSequence WITH denotes <- Meaning

-----------------------------------------------------------------------------
(* Forcing.                                                                *)

Frame(h) == [node |-> h, stack |-> <<h>>, flattened |-> << >>]

Running == frames[Len(frames)]
Current == Running.stack[Len(Running.stack)]
Callers == SubSeq(frames, 1, Len(frames) - 1)

\* The innermost activation goes on with its stack less Current, and more.
Proceed(more, values) ==
    frames' = Append(Callers,
        [Running EXCEPT !.stack = SubSeq(@, 1, Len(@) - 1) \o more,
                        !.flattened = @ \o values])

FlattenLeaf ==
    /\ frames # << >> /\ Running.stack # << >> /\ node[Current].kind = "leaf"
    /\ Proceed(<< >>, node[Current].values)
    /\ UNCHANGED <<node, call, answer>>

\* Mutant of FlattenConcat: the left part is taken from the stack last.
FlattenRightFirst ==
    /\ frames # << >> /\ Running.stack # << >> /\ node[Current].kind = "concat"
    /\ Proceed(<<node[Current].left, node[Current].right>>, << >>)
    /\ UNCHANGED <<node, call, answer>>

FlattenConcat ==
    /\ frames # << >> /\ Running.stack # << >> /\ node[Current].kind = "concat"
    /\ Proceed(<<node[Current].right, node[Current].left>>, << >>)
    /\ UNCHANGED <<node, call, answer>>

\* A slice selects its elements from its base one by one; the base of a slice
\* is a leaf, or the first selection makes it one.
FlattenSlice ==
    /\ frames # << >> /\ Running.stack # << >> /\ node[Current].kind = "slice"
    /\ LET base  == node[Current].base
           start == node[Current].start
       IN IF node[base].kind = "leaf"
          THEN Proceed(<< >>, SubSeq(node[base].values, start + 1, start + node[Current].length))
          ELSE frames' = Append(frames, Frame(base))
    /\ UNCHANGED <<node, call, answer>>

\* Mutant of Materialize: the node keeps what its base had flattened.
MaterializeCaller ==
    /\ frames # << >> /\ Running.stack = << >>
    /\ node' = [node EXCEPT ![frames[1].node] = LeafNode(Running.flattened)]
    /\ frames' = Callers
    /\ UNCHANGED <<call, answer>>

Materialize ==
    /\ frames # << >> /\ Running.stack = << >>
    /\ node' = [node EXCEPT ![Running.node] = LeafNode(Running.flattened)]
    /\ frames' = Callers
    /\ UNCHANGED <<call, answer>>

-----------------------------------------------------------------------------
(* Calls.                                                                  *)

\* The node _select reads an element of h from.
Source(h) == IF node[h].kind = "slice" THEN node[h].base ELSE h

\* The nodes a call reads flat, in the order in which it comes to them.
Demands(c) ==
    CASE c.op \in {"update", "contains", "elements"} -> <<c.of>>
      [] c.op = "select" ->
           IF c.index \in 0..node[c.of].length - 1 THEN <<Source(c.of)>> ELSE << >>
      [] c.op = "equals" ->
           IF c.left = c.right \/ node[c.left].length # node[c.right].length THEN << >>
           ELSE IF node[c.left].length = 0 THEN <<c.left>>
           ELSE <<c.left, Source(c.right)>>
      [] c.op \in {"prefix", "properPrefix"} ->
           IF \/ node[c.right].length < node[c.left].length
              \/ c.op = "properPrefix" /\ node[c.left].length = node[c.right].length
              \/ node[c.left].length = 0
           THEN << >> ELSE <<Source(c.left), Source(c.right)>>
      [] OTHER -> << >>

Unforced(c) == { i \in DOMAIN Demands(c) : node[Demands(c)[i]].kind # "leaf" }

\* Element i of h, counted from 0, once its source is a leaf.
ElementAt(h, i) ==
    IF node[h].kind = "slice" THEN node[node[h].base].values[node[h].start + i + 1]
    ELSE node[h].values[i + 1]

Make(n) == node' = Append(node, n) /\ answer' = [handle |-> Len(node) + 1]
Share(h) == answer' = [handle |-> h] /\ UNCHANGED node
Tell(plain) == answer' = plain /\ UNCHANGED node

Concat(left, right) ==
    IF node[left].length = 0 THEN Share(right)
    ELSE IF node[right].length = 0 THEN Share(left)
    ELSE Make(ConcatNode(left, right))

Clamp(argument, length) ==
    IF argument < 0 THEN Maximum(length + argument, 0) ELSE Minimum(argument, length)

\* Mutant of Rebased: slices of slices form chains.
Chained(h, from, length) == SliceNode(h, from, length)

\* A slice of a slice refers to the base itself.
Rebased(h, from, length) ==
    IF node[h].kind = "slice" THEN SliceNode(node[h].base, node[h].start + from, length)
    ELSE SliceNode(h, from, length)

\* An argument that is not given is undefined, whatever kind of number it is else.
Given(argument, default) == IF argument = Omitted THEN default ELSE argument

Slice(h, from, until) ==
    LET length   == node[h].length
        first    == Clamp(Given(from, 0), length)
        last     == Clamp(Given(until, length), length)
        selected == Maximum(last - first, 0)
    IN IF selected = 0 THEN Make(LeafNode(<< >>))
       ELSE IF first = 0 /\ selected = length THEN Share(h)
       ELSE Make(Rebased(h, first, selected))

Select(h, index) ==
    Tell([element |-> IF index \in 0..node[h].length - 1 THEN ElementAt(h, index) ELSE Undefined])

Update(h, index, value) == Make(LeafNode([node[h].values EXCEPT ![index + 1] = value]))

Equal(left, right) ==
    \/ left = right
    \/ /\ node[left].length = node[right].length
       /\ \A i \in 0..node[left].length - 1 : ElementAt(left, i) = ElementAt(right, i)

IsPrefixOf(left, right) ==
    /\ node[left].length <= node[right].length
    /\ \A i \in 0..node[left].length - 1 : ElementAt(left, i) = ElementAt(right, i)

Contains(h, value) == \E i \in DOMAIN node[h].values : node[h].values[i] = value

\* Bounds of the model: a call that could exceed them is not made.
WithinBounds(c) ==
    /\ c.op \in {"of", "concat", "slice", "update"} => Len(node) < MaxHandles
    /\ c.op = "of" => Len(c.values) <= MaxLength
    /\ c.op = "concat" => node[c.left].length + node[c.right].length <= MaxLength
    /\ c.op = "update" => c.index < node[c.of].length

Invoke ==
    /\ call = Idle /\ answer = << >>
    /\ \E c \in Abstract!Calls(Handle) : WithinBounds(c) /\ call' = c
    /\ UNCHANGED <<node, frames, answer>>

\* The caller has its answer.
Take ==
    /\ call = Idle /\ answer # << >>
    /\ answer' = << >>
    /\ UNCHANGED <<node, frames, call>>

\* Mutant of ForceDemand: the base of a slice is forced in place of the slice.
ForceSource ==
    /\ call # Idle /\ frames = << >> /\ Unforced(call) # {}
    /\ LET first == CHOOSE i \in Unforced(call) : \A j \in Unforced(call) : i <= j
       IN frames' = <<Frame(Source(Demands(call)[first]))>>
    /\ UNCHANGED <<node, call, answer>>

ForceDemand ==
    /\ call # Idle /\ frames = << >> /\ Unforced(call) # {}
    /\ LET first == CHOOSE i \in Unforced(call) : \A j \in Unforced(call) : i <= j
       IN frames' = <<Frame(Demands(call)[first])>>
    /\ UNCHANGED <<node, call, answer>>

Reply ==
    /\ call # Idle /\ frames = << >> /\ Unforced(call) = {}
    /\ CASE call.op = "of"       -> Make(LeafNode(call.values))
         [] call.op = "concat"   -> Concat(call.left, call.right)
         [] call.op = "slice"    -> Slice(call.of, call.from, call.until)
         [] call.op = "update"   -> Update(call.of, call.index, call.value)
         [] call.op = "select"   -> Select(call.of, call.index)
         [] call.op = "equals"   -> Tell([holds |-> Equal(call.left, call.right)])
         [] call.op = "prefix"   -> Tell([holds |-> IsPrefixOf(call.left, call.right)])
         [] call.op = "properPrefix" ->
              Tell([holds |-> /\ node[call.left].length < node[call.right].length
                              /\ IsPrefixOf(call.left, call.right)])
         [] call.op = "contains" -> Tell([holds |-> Contains(call.of, call.value)])
         [] call.op = "elements" -> Tell([values |-> node[call.of].values])
    /\ call' = Idle
    /\ UNCHANGED frames

-----------------------------------------------------------------------------
Init == node = << >> /\ frames = << >> /\ call = Idle /\ answer = << >>

Work == FlattenLeaf \/ FlattenConcat \/ FlattenSlice \/ Materialize \/ ForceDemand \/ Reply

Next == Invoke \/ Take \/ Work

Spec == Init /\ [][Next]_vars

\* A call runs on the stack of its caller until it returns.
FairSpec == Spec /\ WF_vars(Work)

-----------------------------------------------------------------------------
\* Types of the heap, the activations and the interface.
TypeOK ==
    /\ \A h \in Handle :
         \/ /\ node[h].kind = "leaf" /\ node[h].values \in Seq(Element)
            /\ node[h].length = Len(node[h].values)
         \/ /\ node[h].kind = "concat" /\ {node[h].left, node[h].right} \subseteq Handle
            /\ node[h].length = node[node[h].left].length + node[node[h].right].length
         \/ /\ node[h].kind = "slice" /\ node[h].base \in Handle
            /\ node[h].start \in Nat /\ node[h].length \in Nat
    /\ \A i \in DOMAIN frames : /\ frames[i].node \in Handle
                                /\ frames[i].stack \in Seq(Handle)
                                /\ frames[i].flattened \in Seq(Element)
    /\ call \in Abstract!Calls(Handle) \cup {Idle}

\* The graph of views cannot make an operation run away: a view refers to
\* older sequences only, a slice never to another slice, it never reaches past
\* the end of its base, and no view is empty.  A select therefore goes through
\* at most one reference before it finds a leaf or forces a node.
ViewsLookBack ==
    \A h \in Handle :
      /\ node[h].kind = "concat" => /\ node[h].left < h /\ node[h].right < h
                                    /\ node[h].length > 0
      /\ node[h].kind = "slice" =>
           /\ node[h].base < h /\ node[node[h].base].kind # "slice"
           /\ 0 < node[h].length
           /\ node[h].start + node[h].length <= node[node[h].base].length

\* "The first operation requiring a flat value materializes exactly once and
\* caches the resulting array": a leaf is final, a view changes into the leaf
\* of what it denoted and into nothing else, and never while an activation
\* outside the one that forces it is still to force it again.
MaterializesOnce ==
    [][/\ \A h \in Handle :
            node'[h] # node[h] => /\ node[h].kind # "leaf"
                                  /\ node'[h] = LeafNode(Meaning[h])
       /\ \A i, j \in DOMAIN frames' : i # j => frames'[i].node # frames'[j].node
       /\ frames # << >> /\ frames' = << >> => node'[frames[1].node].kind = "leaf"]_vars

\* Sharing, slicing and forcing in place are invisible: the calls answer as if
\* every handle held an immutable sequence.
ImplementsPersistentSequence == Abstract!Spec

\* Every call returns: forcing a graph of views, with its nested activations,
\* comes to an end.
CallsReturn == (call # Idle) ~> (call = Idle)
=============================================================================
