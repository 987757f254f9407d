------------------------ MODULE DafnyRuntime_proofs ------------------------
(***************************************************************************)
(* The JavaScript runtime of the kernel implements the persistent data it  *)
(* stands for.                                                             *)
(*                                                                         *)
(* Sequences: they answer every call as if a handle held an immutable      *)
(* sequence, for any elements, any calls, any sharing of nodes and any     *)
(* order in which calls force them.  In a heap whose views look back       *)
(* (HeapOK) exactly one assignment of sequences to handles agrees with     *)
(* every node (Denotation); Meaning is it.  Making a node extends it and   *)
(* flattening a node keeps it (Grown, Flattened), so no step changes what  *)
(* a handle denotes.  An activation of _forceValues holds, in what it      *)
(* flattened and what its stack still denotes, the sequence of the node it *)
(* forces (FrameOK).                                                       *)
(*                                                                         *)
(* Sets and maps: for any keys, literals, hash width, list limit and       *)
(* number of objects, where equal keys have one text (OneText).  Without   *)
(* that hypothesis it is false: two equal sets of Dafny built in different *)
(* orders have different hash codes.  An inner map behind a handle holds   *)
(* one entry for each value of a key (Distinct), so that its size is the   *)
(* cardinality of what it represents, and a search stops at an entry       *)
(* exactly where that value is represented, before and after the list      *)
(* becomes a trie (FoundMeans).  Adding or removing one entry keeps this   *)
(* (SetEntryHolds, RemoveEntryHolds); loops over entries are sequences of  *)
(* such turns (LoopExists, LoopKeeps).  Hence each operation represents    *)
(* what it promises, whichever operand it starts from, copies or hands     *)
(* out.  The subset generator walks the selections in the order of binary  *)
(* numbers (NextInOrder): what it has yielded are the subsets before the   *)
(* present one, each once (Generates).                                     *)
(***************************************************************************)
EXTENDS DafnySeq, DafnyCollections, Loops, SequenceTheorems, FiniteSetTheorems, FunctionTheorems,
        NaturalsInduction, WellFoundedInduction, TLAPS

-----------------------------------------------------------------------------
(* Sequences.                                                              *)

Values == Seq(Element)

NodeRecord ==
    [kind : {"leaf"}, length : Nat, values : Values]
    \cup [kind : {"concat"}, length : Nat, left : Nat, right : Nat]
    \cup [kind : {"slice"}, length : Nat, base : Nat, start : Nat]

\* Node x can have handle h in heap n: it refers to older nodes.
NodeOK(n, x, h) ==
    /\ x.kind = "leaf" => x.length = Len(x.values)
    /\ x.kind = "concat" =>
         /\ x.left \in 1 .. h - 1 /\ x.right \in 1 .. h - 1
         /\ x.length = n[x.left].length + n[x.right].length /\ x.length > 0
    /\ x.kind = "slice" =>
         /\ x.base \in 1 .. h - 1 /\ n[x.base].kind # "slice" /\ x.length > 0
         /\ x.start + x.length <= n[x.base].length

HeapOK(n) ==
    /\ n \in Seq(NodeRecord)
    /\ \A h \in 1 .. Len(n) : NodeOK(n, n[h], h)

\* What node x denotes when the handles denote m.
Content(x, m) ==
    CASE x.kind = "leaf"   -> x.values
      [] x.kind = "concat" -> m[x.left] \o m[x.right]
      [] x.kind = "slice"  -> SubSeq(m[x.base], x.start + 1, x.start + x.length)

\* m agrees with the first k nodes.
Denotes(n, m, k) ==
    /\ m \in [1 .. k -> Values]
    /\ \A h \in 1 .. k : m[h] = Content(n[h], m) /\ Len(m[h]) = n[h].length

Denotation(n, m) == Denotes(n, m, Len(n))

-----------------------------------------------------------------------------
(* What a heap denotes.                                                    *)

\* A node is one of three kinds.
LEMMA Kinds ==
    ASSUME NEW x \in NodeRecord
    PROVE  /\ x.length \in Nat
           /\ \/ x.kind = "leaf" /\ x.values \in Values
              \/ x.kind = "concat" /\ x.left \in Nat /\ x.right \in Nat
              \/ x.kind = "slice" /\ x.base \in Nat /\ x.start \in Nat
BY DEF NodeRecord

LEMMA HeapNode ==
    ASSUME NEW n, HeapOK(n), NEW h \in 1 .. Len(n)
    PROVE  n[h] \in NodeRecord /\ NodeOK(n, n[h], h) /\ DOMAIN n = 1 .. Len(n) /\ Len(n) \in Nat
BY DEF HeapOK

\* A node denotes what its older nodes make of it.
LEMMA BodyOfOlder ==
    ASSUME NEW n, NEW h \in Nat, NEW x \in NodeRecord, NodeOK(n, x, h), NEW m, NEW o,
           \A g \in 1 .. h - 1 : m[g] = o[g]
    PROVE  Content(x, m) = Content(x, o)
<1>1. CASE x.kind = "leaf"
  BY <1>1 DEF Content
<1>2. CASE x.kind = "concat"
  <2>1. m[x.left] = o[x.left] /\ m[x.right] = o[x.right]
    BY <1>2 DEF NodeOK
  <2> QED
    BY <1>2, <2>1 DEF Content
<1>3. CASE x.kind = "slice"
  <2>1. m[x.base] = o[x.base]
    BY <1>3 DEF NodeOK
  <2> QED
    BY <1>3, <2>1 DEF Content
<1> QED
  BY <1>1, <1>2, <1>3, Kinds

LEMMA BodyType ==
    ASSUME NEW n, NEW h \in Nat, NEW x \in NodeRecord, NodeOK(n, x, h), NEW m,
           \A g \in 1 .. h - 1 : m[g] \in Values /\ Len(m[g]) = n[g].length
    PROVE  Content(x, m) \in Values /\ Len(Content(x, m)) = x.length
<1>1. CASE x.kind = "leaf"
  BY <1>1, Kinds DEF Content, NodeOK
<1>2. CASE x.kind = "concat"
  <2>1. /\ m[x.left] \in Values /\ m[x.right] \in Values
        /\ Len(m[x.left]) = n[x.left].length /\ Len(m[x.right]) = n[x.right].length
        /\ x.length = n[x.left].length + n[x.right].length
    BY <1>2 DEF NodeOK
  <2>2. PICK s \in Values, t \in Values : /\ s = m[x.left] /\ t = m[x.right]
                                         /\ x.length = Len(s) + Len(t)
    BY <2>1
  <2>3. Content(x, m) = s \o t
    BY <1>2, <2>2 DEF Content
  <2> QED
    BY <2>2, <2>3, ConcatProperties DEF Values
<1>3. CASE x.kind = "slice"
  <2> DEFINE s == m[x.base]
  <2>1. s \in Values /\ Len(s) = n[x.base].length /\ x.start + x.length <= n[x.base].length
        /\ x.length > 0
    BY <1>3 DEF NodeOK
  <2>2. x.start \in Nat /\ x.length \in Nat
    BY <1>3, Kinds
  <2>3. Content(x, m) = SubSeq(s, x.start + 1, x.start + x.length)
    BY <1>3 DEF Content
  <2> HIDE DEF s
  <2>4. PICK from \in Nat, until \in Nat :
          /\ from = x.start + 1 /\ until = x.start + x.length
          /\ from <= until /\ until - from + 1 = x.length /\ 1 <= from /\ until <= Len(s)
    BY <2>1, <2>2
  <2>5. \A i \in from .. until : s[i] \in Element
    BY <2>1, <2>4, ElementOfSeq DEF Values
  <2>6. /\ SubSeq(s, from, until) \in Seq(Element)
        /\ Len(SubSeq(s, from, until)) = until - from + 1
    BY <2>4, <2>5, SubSeqProperties
  <2> QED
    BY <2>3, <2>4, <2>6 DEF Values
<1> QED
  BY <1>1, <1>2, <1>3, Kinds

\* One more node, one more sequence.
Extended(n, m, k) == [h \in 1 .. k |-> IF h = k THEN Content(n[k], m) ELSE m[h]]

LEMMA OneMore ==
    ASSUME NEW n, HeapOK(n), NEW k \in 1 .. Len(n), NEW m, Denotes(n, m, k - 1)
    PROVE  Denotes(n, Extended(n, m, k), k)
<1> DEFINE o == [h \in 1 .. k |-> IF h = k THEN Content(n[k], m) ELSE m[h]]
<1>1. /\ k \in Nat /\ \A g \in 1 .. k - 1 : o[g] = m[g] /\ m[g] \in Values /\ Len(m[g]) = n[g].length
      /\ o[k] = Content(n[k], m)
  BY DEF Denotes
<1>2. Content(n[k], m) \in Values /\ Len(Content(n[k], m)) = n[k].length
  <2>1. PICK x \in NodeRecord : x = n[k] /\ NodeOK(n, x, k)
    BY HeapNode
  <2>2. \A g \in 1 .. k - 1 : m[g] \in Values /\ Len(m[g]) = n[g].length
    BY <1>1
  <2>3. Content(x, m) \in Values /\ Len(Content(x, m)) = x.length
    BY <1>1, <2>1, <2>2, BodyType
  <2> QED
    BY <2>1, <2>3
<1>3. o \in [1 .. k -> Values]
  <2>1. ASSUME NEW h \in 1 .. k PROVE o[h] \in Values
    <3>1. CASE h = k
      BY <1>1, <1>2, <3>1
    <3>2. CASE h # k
      <4>1. h \in 1 .. k - 1
        BY <1>1, <3>2
      <4> HIDE DEF o
      <4> QED
        BY <1>1, <4>1
    <3> QED
      BY <3>1, <3>2
  <2>2. o = [h \in 1 .. k |-> o[h]]
    OBVIOUS
  <2> HIDE DEF o
  <2> QED
    BY <2>1, <2>2
<1> HIDE DEF o
<1>4. ASSUME NEW h \in 1 .. k PROVE o[h] = Content(n[h], o) /\ Len(o[h]) = n[h].length
  <2>1. h \in Nat /\ h \in 1 .. Len(n) /\ \A g \in 1 .. h - 1 : o[g] = m[g]
    BY <1>1, HeapNode
  <2>2. Content(n[h], o) = Content(n[h], m)
    BY <2>1, HeapNode, BodyOfOlder
  <2>3. CASE h = k
    BY <1>1, <1>2, <2>2, <2>3
  <2>4. CASE h # k
    BY <1>1, <2>2, <2>4 DEF Denotes
  <2> QED
    BY <2>3, <2>4
<1> QED
  BY <1>3, <1>4 DEF Denotes, Extended, o

LEMMA DenotationExists ==
    ASSUME NEW n, HeapOK(n)
    PROVE  \E m : Denotation(n, m)
<1> DEFINE T == { k \in 0 .. Len(n) : ~ \E m : Denotes(n, m, k) }
<1>0. Len(n) \in Nat
  BY DEF HeapOK
<1>1. ASSUME T # {} PROVE FALSE
  <2>1. T \in SUBSET Nat
    BY <1>0
  <2>2. PICK k \in T : \A y \in T : k <= y
    <3> HIDE DEF T
    <3> QED BY <1>1, <2>1, Least
  <2>3. k # 0
    <3>1. Denotes(n, << >>, 0)
      BY DEF Denotes
    <3> QED
      BY <3>1
  <2>4. k \in 1 .. Len(n) /\ k - 1 \in 0 .. Len(n) /\ ~ (k <= k - 1)
    BY <1>0, <2>3
  <2>5. k - 1 \notin T
    <3> HIDE DEF T
    <3> QED BY <2>2, <2>4
  <2>6. PICK m : Denotes(n, m, k - 1)
    BY <2>4, <2>5
  <2> QED
    BY <2>4, <2>6, OneMore
<1>2. Len(n) \in 0 .. Len(n)
  BY <1>0
<1> QED
  BY <1>1, <1>2 DEF Denotation

LEMMA DenotationUnique ==
    ASSUME NEW n, HeapOK(n), NEW m, NEW o,
           m \in [1 .. Len(n) -> Values], \A h \in 1 .. Len(n) : m[h] = Content(n[h], m),
           DOMAIN o = 1 .. Len(n), \A h \in 1 .. Len(n) : o[h] = Content(n[h], o),
           o = [h \in DOMAIN o |-> o[h]]
    PROVE  m = o
<1> DEFINE T == { h \in 1 .. Len(n) : m[h] # o[h] }
<1>1. ASSUME T # {} PROVE FALSE
  <2>1. T \in SUBSET Nat
    OBVIOUS
  <2>2. PICK h \in T : \A y \in T : h <= y
    <3> HIDE DEF T
    <3> QED BY <1>1, <2>1, Least
  <2>3. h \in 1 .. Len(n) /\ Len(n) \in Nat /\ h \in Nat
    BY DEF HeapOK
  <2>4. \A g \in 1 .. h - 1 : m[g] = o[g]
    <3>1. \A g \in 1 .. h - 1 : g \in 1 .. Len(n) /\ ~ (h <= g)
      BY <2>3
    <3> QED
      BY <2>2, <3>1
  <2>5. Content(n[h], m) = Content(n[h], o)
    BY <2>3, <2>4, HeapNode, BodyOfOlder
  <2> QED
    BY <2>3, <2>5
<1>2. \A h \in 1 .. Len(n) : m[h] = o[h]
  BY <1>1
<1>3. m = [h \in 1 .. Len(n) |-> m[h]]
  OBVIOUS
<1> QED
  BY <1>2, <1>3

\* Appending a node extends the denotation.
LEMMA Grown ==
    ASSUME NEW n, HeapOK(n), NEW m, Denotation(n, m), NEW x \in NodeRecord,
           NodeOK(n, x, Len(n) + 1)
    PROVE  /\ HeapOK(Append(n, x))
           /\ Denotation(Append(n, x), Append(m, Content(x, m)))
<1> DEFINE p == Append(n, x)
           k == Len(n) + 1
           o == [h \in 1 .. k |-> IF h = k THEN Content(p[k], m) ELSE m[h]]
<1>1. /\ p \in Seq(NodeRecord) /\ Len(p) = k /\ k \in Nat /\ Len(n) \in Nat /\ p[k] = x
      /\ \A h \in 1 .. Len(n) : p[h] = n[h]
      /\ n \in Seq(NodeRecord) /\ m \in [1 .. Len(n) -> Values]
  BY DEF HeapOK, Denotation, Denotes
<1> HIDE DEF p
<1>2. HeapOK(p)
  <2>1. ASSUME NEW h \in 1 .. k PROVE NodeOK(p, p[h], h)
    <3>1. PICK y \in NodeRecord : y = p[h] /\ NodeOK(n, y, h)
      <4>1. CASE h = k
        BY <1>1, <4>1
      <4>2. CASE h # k
        <5>1. h \in 1 .. Len(n)
          BY <1>1, <4>2
        <5> QED
          BY <1>1, <5>1, HeapNode
      <4> QED
        BY <4>1, <4>2
    <3>2. \A g \in 1 .. h - 1 : p[g] = n[g]
      BY <1>1
    <3> QED
      BY <3>1, <3>2 DEF NodeOK
  <2> QED
    BY <1>1, <2>1 DEF HeapOK
<1>3. Denotes(p, m, k - 1)
  BY <1>1 DEF Denotation, Denotes
<1>4. Denotes(p, o, k)
  <2>1. k \in 1 .. Len(p)
    BY <1>1
  <2>2. Denotes(p, Extended(p, m, k), k)
    BY <1>2, <1>3, <2>1, OneMore
  <2>3. Extended(p, m, k) = o
    BY DEF Extended
  <2> HIDE DEF o, k
  <2> QED
    BY <2>2, <2>3
<1>5. Append(m, Content(x, m)) = o
  <2>1. m \in Seq(Values) /\ Len(m) = Len(n)
    BY <1>1
  <2>2. Content(x, m) = o[k] /\ \A h \in 1 .. Len(n) : o[h] = m[h]
    BY <1>1
  <2>3. o \in Seq(Values) /\ Len(o) = k
    BY <1>1, <1>4 DEF Denotes
  <2> HIDE DEF o
  <2>4. /\ Append(m, o[k]) \in Seq(Values) /\ Len(Append(m, o[k])) = k
        /\ \A h \in 1 .. k : Append(m, o[k])[h] = o[h]
    <3>1. o[k] \in Values
      BY <1>1, <2>3
    <3> QED
      BY <1>1, <2>1, <2>2, <3>1
  <2> QED
    BY <2>2, <2>3, <2>4, SeqEqual
<1> QED
  BY <1>1, <1>2, <1>4, <1>5 DEF Denotation, p

\* Flattening a node in place keeps the denotation.
LEMMA Flattened ==
    ASSUME NEW n, HeapOK(n), NEW m, Denotation(n, m), NEW f \in 1 .. Len(n)
    PROVE  /\ HeapOK([n EXCEPT ![f] = LeafNode(m[f])])
           /\ Denotation([n EXCEPT ![f] = LeafNode(m[f])], m)
<1> DEFINE x == LeafNode(m[f])
           p == [n EXCEPT ![f] = x]
<1>1. /\ m[f] \in Values /\ Len(m[f]) = n[f].length /\ Len(n) \in Nat
      /\ n \in Seq(NodeRecord)
  BY DEF HeapOK, Denotation, Denotes
<1>2. /\ x \in NodeRecord /\ x.kind = "leaf" /\ x.length = Len(m[f]) /\ x.values = m[f]
  BY <1>1 DEF LeafNode, NodeRecord, Values
<1> HIDE DEF x
<1>3. /\ p \in Seq(NodeRecord) /\ Len(p) = Len(n) /\ p[f] = x
      /\ \A h \in 1 .. Len(n) : h # f => p[h] = n[h]
  BY <1>1, <1>2
<1> HIDE DEF p
<1>4. \A h \in 1 .. Len(n) : p[h].length = n[h].length /\ (p[h].kind = n[h].kind \/ p[h].kind = "leaf")
  BY <1>1, <1>2, <1>3
<1>5. ASSUME NEW h \in 1 .. Len(n) PROVE NodeOK(p, p[h], h) /\ m[h] = Content(p[h], m)
  <2>1. CASE h = f
    BY <1>2, <1>3, <2>1 DEF NodeOK, Content
  <2>2. CASE h # f
    <3>1. PICK y \in NodeRecord : y = p[h] /\ y = n[h] /\ NodeOK(n, y, h)
      BY <1>3, <2>2, HeapNode
    <3>2. \A g \in 1 .. h - 1 : /\ p[g].length = n[g].length
                                /\ p[g].kind = n[g].kind \/ p[g].kind = "leaf"
      BY <1>1, <1>4
    <3> QED
      BY <3>1, <3>2 DEF NodeOK, Denotation, Denotes
  <2> QED
    BY <2>1, <2>2
<1> QED
  BY <1>3, <1>4, <1>5 DEF HeapOK, Denotation, Denotes, p, x

-----------------------------------------------------------------------------
(* Meaning is the denotation of the heap.                                  *)

LEMMA MeaningUnfolds ==
    ASSUME NEW m, m = [h \in Handle |-> Denoted(m, h)]
    PROVE  Meaning = [h \in Handle |-> Denoted(Meaning, h)]
<1> DEFINE f == CHOOSE g : g = [h \in Handle |-> Denoted(g, h)]
<1>1. f = [h \in Handle |-> Denoted(f, h)]
  BY Zenon
<1>2. Meaning = [h \in Handle |-> f[h]]
  BY Zenon DEF Meaning
<1>3. Meaning = f
  <2> HIDE DEF f
  <2> QED BY <1>1, <1>2
<1> QED
  BY <1>1, <1>3, Zenon

MeaningFits == HeapOK(node) => \A m : Denotation(node, m) => Meaning = m

LEMMA MeaningIs == MeaningFits
<1> SUFFICES ASSUME HeapOK(node), NEW m, Denotation(node, m) PROVE Meaning = m
  BY DEF MeaningFits
<1>1. Handle = 1 .. Len(node)
  BY DEF Handle, HeapOK
<1>2. \A o, h : Denoted(o, h) = Content(node[h], o)
  BY DEF Denoted, Content
<1>3. m = [h \in Handle |-> Denoted(m, h)]
  <2>1. m \in [1 .. Len(node) -> Values] /\ \A h \in 1 .. Len(node) : m[h] = Denoted(m, h)
    BY <1>2 DEF Denotation, Denotes
  <2> QED
    BY <1>1, <2>1
<1>4. Meaning = [h \in Handle |-> Denoted(Meaning, h)]
  BY <1>3, MeaningUnfolds
<1>5. /\ DOMAIN Meaning = 1 .. Len(node) /\ Meaning = [h \in DOMAIN Meaning |-> Meaning[h]]
      /\ \A h \in 1 .. Len(node) : Meaning[h] = Denoted(Meaning, h)
  BY <1>1, <1>4
<1>6. \A h \in 1 .. Len(node) : Meaning[h] = Content(node[h], Meaning)
  BY <1>2, <1>5
<1> QED
  BY <1>5, <1>6, DenotationUnique DEF Denotation, Denotes

LEMMA MeaningDenotes == HeapOK(node) => Denotation(node, Meaning)
BY MeaningIs, DenotationExists DEF MeaningFits

-----------------------------------------------------------------------------
(* Activations of _forceValues.                                            *)

FrameRecord == [node : Nat, stack : Seq(Nat), flattened : Values]

Followed(s, t) == s \o t

\* rest[j] is what the first j entries of a stack of k denote, the last of them
\* first; with what h flattened before it is what h denotes.
Remains(h, stack, k, flattened, m, rest) ==
    /\ rest \in [0 .. k -> Values] /\ rest[0] = << >>
    /\ \A j \in 1 .. k : rest[j] = Followed(m[stack[j]], rest[j - 1])
    /\ m[h] = Followed(flattened, rest[k])

Remaining(h, stack, k, flattened, m) == \E rest : Remains(h, stack, k, flattened, m, rest)

\* f forces a view and visits older nodes; what it flattened and what it will
\* flatten is what the view denotes.
FrameOK(f, n, m) ==
    /\ f \in FrameRecord /\ f.node \in 1 .. Len(n) /\ n[f.node].kind # "leaf"
    /\ \A j \in 1 .. Len(f.stack) : f.stack[j] \in 1 .. f.node
    /\ Remaining(f.node, f.stack, Len(f.stack), f.flattened, m)

FramesOK(fs, n, m) ==
    /\ fs \in Seq(FrameRecord)
    /\ \A i \in 1 .. Len(fs) : FrameOK(fs[i], n, m)
    /\ \A i, j \in 1 .. Len(fs) : i < j => fs[j].node < fs[i].node

LEMMA JoinedThree ==
    ASSUME NEW s \in Values, NEW t \in Values, NEW u \in Values
    PROVE  Followed(Followed(s, t), u) = Followed(s, Followed(t, u))
BY ConcatAssociative DEF Values, Followed

LEMMA JoinedTwo ==
    ASSUME NEW s \in Values, NEW t \in Values
    PROVE  Followed(s, t) \in Values
BY ConcatProperties DEF Values, Followed

LEMMA JoinedEmpty ==
    ASSUME NEW s \in Values
    PROVE  Followed(s, << >>) = s /\ Followed(<< >>, s) = s /\ << >> \in Values
BY ConcatEmptySeq, EmptySeq DEF Values, Followed

\* A frame that starts has all of its node to flatten.
LEMMA RemainsAtFirst ==
    ASSUME NEW h, NEW m, m[h] \in Values
    PROVE  Remaining(h, <<h>>, 1, << >>, m)
<1> DEFINE rest == [j \in 0 .. 1 |-> IF j = 0 THEN << >> ELSE m[h]]
<1>1. << >> \in Values /\ Followed(m[h], << >>) = m[h] /\ Followed(<< >>, m[h]) = m[h]
  BY JoinedEmpty
<1>2. rest \in [0 .. 1 -> Values] /\ rest[0] = << >> /\ rest[1] = m[h]
  BY <1>1
<1> HIDE DEF rest
<1>3. \A j \in 1 .. 1 : j = 1 /\ j - 1 = 0 /\ <<h>>[j] = h
  OBVIOUS
<1> QED
  BY <1>1, <1>2, <1>3 DEF Remains, Remaining

\* The top of the stack is flattened.
LEMMA RemainsLess ==
    ASSUME NEW h, NEW s, NEW k \in Nat \ {0}, NEW v \in Values, NEW m,
           Remaining(h, s, k, v, m),
           NEW t, \A j \in 1 .. k - 1 : t[j] = s[j],
           NEW values \in Values, values = m[s[k]]
    PROVE  Remaining(h, t, k - 1, Followed(v, values), m)
<1>1. PICK rest : Remains(h, s, k, v, m, rest)
  BY DEF Remaining
<1>2. /\ rest \in [0 .. k -> Values] /\ rest[0] = << >>
      /\ \A j \in 1 .. k : rest[j] = Followed(m[s[j]], rest[j - 1])
      /\ m[h] = Followed(v, rest[k])
  BY <1>1 DEF Remains, Remaining
<1> DEFINE less == [j \in 0 .. k - 1 |-> rest[j]]
<1>3. less \in [0 .. k - 1 -> Values]
  BY <1>2
<1>4. less[0] = << >> /\ less[k - 1] = rest[k - 1]
  BY <1>2
<1>5. \A j \in 1 .. k - 1 : less[j] = rest[j] /\ less[j - 1] = rest[j - 1]
  OBVIOUS
<1> HIDE DEF less
<1>6. m[h] = Followed(Followed(v, values), rest[k - 1])
  <2>1. k \in 1 .. k /\ k - 1 \in 0 .. k
    OBVIOUS
  <2>2. PICK r \in Values : r = rest[k - 1]
    BY <1>2, <2>1
  <2>3. rest[k] = Followed(values, r)
    BY <1>2, <2>1, <2>2
  <2>4. m[h] = Followed(v, Followed(values, r))
    BY <1>2, <2>3
  <2>5. Followed(Followed(v, values), r) = Followed(v, Followed(values, r))
    BY <2>2, JoinedThree
  <2> QED
    BY <2>2, <2>4, <2>5
<1>7. \A j \in 1 .. k - 1 : less[j] = Followed(m[t[j]], less[j - 1])
  <2>1. \A j \in 1 .. k - 1 : j \in 1 .. k
    OBVIOUS
  <2> QED
    BY <1>2, <1>5, <2>1
<1> QED
  BY <1>3, <1>4, <1>6, <1>7 DEF Remains, Remaining

\* The top of the stack gives way to its two parts.
LEMMA RemainsMore ==
    ASSUME NEW h, NEW s, NEW k \in Nat \ {0}, NEW v \in Values, NEW m,
           Remaining(h, s, k, v, m),
           NEW t, \A j \in 1 .. k - 1 : t[j] = s[j],
           m[t[k]] \in Values, m[t[k + 1]] \in Values,
           m[s[k]] = Followed(m[t[k + 1]], m[t[k]])
    PROVE  Remaining(h, t, k + 1, v, m)
<1>1. PICK rest : Remains(h, s, k, v, m, rest)
  BY DEF Remaining
<1>2. /\ rest \in [0 .. k -> Values] /\ rest[0] = << >>
      /\ \A j \in 1 .. k : rest[j] = Followed(m[s[j]], rest[j - 1])
      /\ m[h] = Followed(v, rest[k])
  BY <1>1 DEF Remains, Remaining
<1>3. k \in 1 .. k /\ k - 1 \in 0 .. k /\ k \in 0 .. k
  OBVIOUS
<1>4. PICK one \in Values : one = Followed(m[t[k]], rest[k - 1]) /\ rest[k] = Followed(m[t[k + 1]], one)
  <2>1. PICK r \in Values, x \in Values, y \in Values :
          r = rest[k - 1] /\ x = m[t[k]] /\ y = m[t[k + 1]]
    BY <1>2, <1>3
  <2>2. rest[k] = Followed(Followed(y, x), r)
    <3>1. rest[k] = Followed(m[s[k]], rest[k - 1])
      BY <1>2, <1>3
    <3>2. m[s[k]] = Followed(y, x)
      BY <2>1
    <3> QED
      BY <2>1, <3>1, <3>2
  <2>3. r \in Values /\ x \in Values /\ y \in Values
    BY <2>1, Zenon
  <2>4. Followed(x, r) \in Values
    BY <2>3, JoinedTwo, Zenon
  <2>5. Followed(Followed(y, x), r) = Followed(y, Followed(x, r))
    BY <2>3, JoinedThree, Zenon
  <2> QED
    BY <2>1, <2>2, <2>4, <2>5, Zenon
<1> DEFINE more == [j \in 0 .. k + 1 |-> IF j = k + 1 THEN rest[k] ELSE IF j = k THEN one ELSE rest[j]]
<1>5. more \in [0 .. k + 1 -> Values]
  <2>1. ASSUME NEW j \in 0 .. k + 1 PROVE more[j] \in Values
    <3>1. CASE j = k + 1 \/ j = k
      BY <1>2, <1>3, <3>1
    <3>2. CASE j \in 0 .. k - 1
      BY <1>2, <3>2
    <3> QED
      BY <3>1, <3>2
  <2>2. more = [j \in 0 .. k + 1 |-> more[j]]
    OBVIOUS
  <2> HIDE DEF more
  <2> QED
    BY <2>1, <2>2
<1>6. more[0] = << >> /\ more[k + 1] = rest[k] /\ more[k] = one /\ more[k - 1] = rest[k - 1]
  BY <1>2
<1>7. \A j \in 1 .. k - 1 : more[j] = rest[j] /\ more[j - 1] = rest[j - 1]
  OBVIOUS
<1> HIDE DEF more
<1>8. ASSUME NEW j \in 1 .. k + 1 PROVE more[j] = Followed(m[t[j]], more[j - 1])
  <2>1. CASE j = k + 1
    <3>1. j - 1 = k
      BY <2>1
    <3> QED
      BY <1>4, <1>6, <2>1, <3>1
  <2>2. CASE j = k
    <3>1. one = Followed(m[t[k]], rest[k - 1])
      BY <1>4
    <3> QED
      BY <1>6, <2>2, <3>1
  <2>3. CASE j \in 1 .. k - 1
    <3>1. j \in 1 .. k
      BY <2>3
    <3> QED
      BY <1>2, <1>7, <2>3, <3>1
  <2> QED
    BY <2>1, <2>2, <2>3
<1> QED
  BY <1>2, <1>5, <1>6, <1>8 DEF Remains, Remaining

\* The stack without its top, and more.
Restack(s, more) == SubSeq(s, 1, Len(s) - 1) \o more

Nothing == << >>
Two(x, y) == <<x, y>>

LEMMA NothingIs == Nothing \in Seq(Nat) /\ Len(Nothing) = 0 /\ Nothing \in Values
BY EmptySeq DEF Nothing, Values

LEMMA NothingJoined ==
    ASSUME NEW s \in Values
    PROVE  Followed(s, Nothing) = s /\ Followed(Nothing, s) = s
BY JoinedEmpty DEF Nothing

LEMMA TwoIs ==
    ASSUME NEW x \in Nat, NEW y \in Nat
    PROVE  Two(x, y) \in Seq(Nat) /\ Len(Two(x, y)) = 2 /\ Two(x, y)[1] = x /\ Two(x, y)[2] = y
BY DEF Two

LEMMA Restacked ==
    ASSUME NEW s \in Seq(Nat), s # << >>, NEW more \in Seq(Nat)
    PROVE  /\ Len(s) \in Nat \ {0}
           /\ Restack(s, more) \in Seq(Nat)
           /\ Len(Restack(s, more)) = Len(s) - 1 + Len(more)
           /\ \A j \in 1 .. Len(s) - 1 : Restack(s, more)[j] = s[j]
           /\ \A j \in 1 .. Len(more) : Restack(s, more)[Len(s) - 1 + j] = more[j]
<1>1. PICK k \in Nat \ {0} : k = Len(s)
  BY EmptySeq
<1>2. \A j \in 1 .. k - 1 : s[j] \in Nat
  BY <1>1, ElementOfSeq
<1>3. k - 1 \in Int /\ 1 \in Int /\ (k - 1) - 1 + 1 = k - 1
  OBVIOUS
<1>4. /\ SubSeq(s, 1, k - 1) \in Seq(Nat)
      /\ Len(SubSeq(s, 1, k - 1)) = k - 1
      /\ \A j \in 1 .. k - 1 : SubSeq(s, 1, k - 1)[j] = s[j]
  BY <1>1
<1>5. PICK u \in Seq(Nat) : u = SubSeq(s, 1, k - 1) /\ Len(u) = k - 1
                            /\ \A j \in 1 .. k - 1 : u[j] = s[j]
  BY <1>4
<1>6. /\ u \o more \in Seq(Nat) /\ Len(u \o more) = k - 1 + Len(more)
      /\ \A j \in 1 .. k - 1 + Len(more) :
           (u \o more)[j] = IF j <= k - 1 THEN u[j] ELSE more[j - (k - 1)]
  <2>1. \E l \in Nat : l = k - 1
    OBVIOUS
  <2>2. PICK l \in Nat : l = k - 1
    BY <2>1
  <2>3. Len(u) = l
    BY <1>5, <2>2
  <2>4. /\ u \o more \in Seq(Nat) /\ Len(u \o more) = Len(u) + Len(more)
        /\ \A j \in 1 .. Len(u) + Len(more) :
             (u \o more)[j] = IF j <= Len(u) THEN u[j] ELSE more[j - Len(u)]
    BY <1>5, ConcatProperties
  <2> QED
    BY <2>2, <2>3, <2>4
<1>7. PICK t \in Seq(Nat) : t = u \o more /\ Len(t) = k - 1 + Len(more)
        /\ \A j \in 1 .. k - 1 + Len(more) : t[j] = IF j <= k - 1 THEN u[j] ELSE more[j - (k - 1)]
  BY <1>6
<1>8. Len(more) \in Nat
  OBVIOUS
<1>9. \A j \in 1 .. k - 1 : t[j] = s[j]
  <2>1. \A j \in 1 .. k - 1 : j \in 1 .. k - 1 + Len(more) /\ j <= k - 1
    BY <1>8
  <2> QED
    BY <1>5, <1>7, <2>1
<1>10. \A j \in 1 .. Len(more) : t[k - 1 + j] = more[j]
  <2>1. \A j \in 1 .. Len(more) : /\ k - 1 + j \in 1 .. k - 1 + Len(more)
                                 /\ ~ (k - 1 + j <= k - 1) /\ (k - 1 + j) - (k - 1) = j
    BY <1>8
  <2> QED
    BY <1>7, <2>1
<1>11. t = Restack(s, more)
  BY <1>1, <1>5, <1>7 DEF Restack
<1> QED
  BY <1>1, <1>7, <1>9, <1>10, <1>11

\* The innermost activation after a step of its traversal.
ProceedAs(f, more, values) ==
    [f EXCEPT !.stack = SubSeq(@, 1, Len(@) - 1) \o more, !.flattened = @ \o values]

LEMMA ProceedFields ==
    ASSUME NEW f \in FrameRecord, f.stack # << >>, NEW more \in Seq(Nat), NEW values \in Values
    PROVE  /\ ProceedAs(f, more, values) \in FrameRecord
           /\ ProceedAs(f, more, values).node = f.node
           /\ ProceedAs(f, more, values).stack = Restack(f.stack, more)
           /\ ProceedAs(f, more, values).flattened = Followed(f.flattened, values)
<1>1. f.node \in Nat /\ f.stack \in Seq(Nat) /\ f.flattened \in Values
  BY DEF FrameRecord
<1>2. PICK t \in Seq(Nat) : t = Restack(f.stack, more)
  BY <1>1, Restacked
<1>3. PICK w \in Values : w = Followed(f.flattened, values)
  BY <1>1, JoinedTwo
<1>4. ProceedAs(f, more, values) = [f EXCEPT !.stack = t, !.flattened = w]
  BY <1>2, <1>3 DEF ProceedAs, Followed, Restack
<1>5. /\ [f EXCEPT !.stack = t, !.flattened = w] \in FrameRecord
      /\ [f EXCEPT !.stack = t, !.flattened = w].node = f.node
      /\ [f EXCEPT !.stack = t, !.flattened = w].stack = t
      /\ [f EXCEPT !.stack = t, !.flattened = w].flattened = w
  BY <1>1, <1>2, <1>3 DEF FrameRecord
<1> QED
  BY <1>2, <1>3, <1>4, <1>5

\* A traversal with a new stack and more values.
LEMMA FrameGoesOn ==
    ASSUME NEW f, NEW n, NEW m, FrameOK(f, n, m), f.stack # << >>,
           NEW more \in Seq(Nat), NEW values \in Values,
           \A j \in 1 .. Len(Restack(f.stack, more)) : Restack(f.stack, more)[j] \in 1 .. f.node,
           Remaining(f.node, Restack(f.stack, more), Len(Restack(f.stack, more)),
                     Followed(f.flattened, values), m)
    PROVE  FrameOK(ProceedAs(f, more, values), n, m)
<1>1. PICK g : g = ProceedAs(f, more, values)
  OBVIOUS
<1>2. /\ g \in FrameRecord /\ g.node = f.node
      /\ g.stack = Restack(f.stack, more) /\ g.flattened = Followed(f.flattened, values)
  BY <1>1, ProceedFields DEF FrameOK
<1>3. FrameOK(g, n, m)
  BY <1>2 DEF FrameOK
<1> QED
  BY <1>1, <1>3

LEMMA FrameParts ==
    ASSUME NEW f, NEW n, NEW m, FrameOK(f, n, m)
    PROVE  \E h \in Nat, s \in Seq(Nat), v \in Values, k \in Nat :
             /\ h = f.node /\ s = f.stack /\ v = f.flattened /\ k = Len(s)
             /\ h \in 1 .. Len(n) /\ n[h].kind # "leaf"
             /\ \A j \in 1 .. k : s[j] \in 1 .. h
             /\ Remaining(h, s, k, v, m)
<1>1. f.node \in Nat /\ f.stack \in Seq(Nat) /\ f.flattened \in Values
  BY DEF FrameRecord, FrameOK
<1>2. Len(f.stack) \in Nat
  BY <1>1
<1> QED
  BY <1>1, <1>2 DEF FrameOK

\* A leaf, or a slice of a leaf, is taken from the stack and flattened.
LEMMA PoppedStack ==
    ASSUME NEW h \in Nat, NEW s \in Seq(Nat), s # << >>, NEW v \in Values, NEW m,
           \A j \in 1 .. Len(s) : s[j] \in 1 .. h,
           Remaining(h, s, Len(s), v, m),
           NEW values \in Values, values = m[s[Len(s)]]
    PROVE  /\ \A j \in 1 .. Len(Restack(s, Nothing)) : Restack(s, Nothing)[j] \in 1 .. h
           /\ Remaining(h, Restack(s, Nothing), Len(Restack(s, Nothing)), Followed(v, values), m)
<1>1. /\ Len(s) \in Nat \ {0}
      /\ Restack(s, Nothing) \in Seq(Nat)
      /\ Len(Restack(s, Nothing)) = Len(s) - 1
      /\ \A j \in 1 .. Len(s) - 1 : Restack(s, Nothing)[j] = s[j]
  <2>1. Nothing \in Seq(Nat)
    BY NothingIs
  <2>2. /\ Len(s) \in Nat \ {0}
        /\ Restack(s, Nothing) \in Seq(Nat)
        /\ Len(Restack(s, Nothing)) = Len(s) - 1 + Len(Nothing)
        /\ \A j \in 1 .. Len(s) - 1 : Restack(s, Nothing)[j] = s[j]
    BY <2>1, Restacked
  <2> QED
    BY <2>2, NothingIs
<1>2. PICK t \in Seq(Nat), k \in Nat \ {0} :
             /\ t = Restack(s, Nothing)
             /\ k = Len(s)
             /\ Len(t) = k - 1
             /\ \A j \in 1 .. k - 1 : t[j] = s[j]
  BY <1>1
<1>3. Remaining(h, t, k - 1, Followed(v, values), m)
  BY <1>2, RemainsLess
<1>4. ASSUME NEW j \in 1 .. k - 1 PROVE t[j] \in 1 .. h
  <2>1. k \in Nat /\ k = Len(s) /\ t[j] = s[j]
    BY <1>2
  <2>2. j \in 1 .. k
    BY <2>1
  <2> QED
    BY <2>1, <2>2, Zenon
<1> QED
  BY <1>2, <1>3, <1>4

LEMMA Popped ==
    ASSUME NEW f, NEW n, NEW m, FrameOK(f, n, m), f.stack # << >>,
           NEW values \in Values, m[f.stack[Len(f.stack)]] = values
    PROVE  FrameOK(ProceedAs(f, Nothing, values), n, m)
<1>1. PICK h \in Nat, s \in Seq(Nat), v \in Values, k \in Nat :
             /\ h = f.node /\ s = f.stack /\ v = f.flattened /\ k = Len(s)
             /\ h \in 1 .. Len(n) /\ n[h].kind # "leaf"
             /\ \A j \in 1 .. k : s[j] \in 1 .. h
             /\ Remaining(h, s, k, v, m)
  BY FrameParts
<1>2. s # << >> /\ values = m[s[Len(s)]] /\ \A j \in 1 .. Len(s) : s[j] \in 1 .. h
  BY <1>1
<1>3. /\ \A j \in 1 .. Len(Restack(s, Nothing)) : Restack(s, Nothing)[j] \in 1 .. h
      /\ Remaining(h, Restack(s, Nothing), Len(Restack(s, Nothing)), Followed(v, values), m)
  BY <1>1, <1>2, PoppedStack
<1> QED
  BY <1>1, <1>2, <1>3, NothingIs, FrameGoesOn

\* A concat gives way to its parts, the left one on top.
LEMMA ExpandedStack ==
    ASSUME NEW h \in Nat, NEW s \in Seq(Nat), s # << >>, NEW v \in Values, NEW m,
           \A j \in 1 .. Len(s) : s[j] \in 1 .. h,
           Remaining(h, s, Len(s), v, m),
           NEW left \in Nat, NEW right \in Nat, left \in 1 .. h, right \in 1 .. h,
           m[left] \in Values, m[right] \in Values,
           m[s[Len(s)]] = Followed(m[left], m[right])
    PROVE  /\ \A j \in 1 .. Len(Restack(s, Two(right, left))) : Restack(s, Two(right, left))[j] \in 1 .. h
           /\ Remaining(h, Restack(s, Two(right, left)), Len(Restack(s, Two(right, left))), v, m)
<1>1. PICK two \in Seq(Nat) :
             /\ two = Two(right, left)
             /\ Len(two) = 2
             /\ two[1] = right
             /\ two[2] = left
  BY TwoIs
<1>2. /\ Len(s) \in Nat \ {0}
      /\ Restack(s, two) \in Seq(Nat)
      /\ Len(Restack(s, two)) = Len(s) - 1 + Len(two)
      /\ \A j \in 1 .. Len(s) - 1 : Restack(s, two)[j] = s[j]
      /\ \A j \in 1 .. Len(two) : Restack(s, two)[Len(s) - 1 + j] = two[j]
  BY <1>1, Restacked
<1>3. PICK t \in Seq(Nat), k \in Nat \ {0} :
             /\ t = Restack(s, two)
             /\ k = Len(s)
             /\ Len(t) = k - 1 + Len(two)
             /\ \A j \in 1 .. k - 1 : t[j] = s[j]
             /\ \A j \in 1 .. Len(two) : t[k - 1 + j] = two[j]
  BY <1>2
<1>4. Len(t) = k + 1 /\ t[k] = right /\ t[k + 1] = left
  <2>1. 1 \in 1 .. Len(two) /\ 2 \in 1 .. Len(two) /\ k - 1 + 1 = k /\ k - 1 + 2 = k + 1
    BY <1>1
  <2>2. t[k - 1 + 1] = two[1] /\ t[k - 1 + 2] = two[2]
    BY <1>3, <2>1
  <2> QED
    BY <1>1, <1>3, <2>1, <2>2
<1>5. Remaining(h, t, k + 1, v, m)
  <2>1. m[s[k]] = Followed(m[t[k + 1]], m[t[k]]) /\ m[t[k]] \in Values /\ m[t[k + 1]] \in Values
    BY <1>3, <1>4
  <2>2. k \in Nat \ {0} /\ Remaining(h, s, k, v, m) /\ \A j \in 1 .. k - 1 : t[j] = s[j]
    BY <1>3, Zenon
  <2> QED
    BY <2>1, <2>2, RemainsMore, Zenon
<1>6. ASSUME NEW j \in 1 .. k + 1 PROVE t[j] \in 1 .. h
  <2>1. CASE j \in 1 .. k - 1
    <3>1. t[j] = s[j]
      BY <1>3, <2>1
    <3>2. j \in 1 .. k /\ k = Len(s)
      BY <1>3, <2>1
    <3> QED
      BY <3>1, <3>2
  <2>2. CASE j = k
    BY <1>4, <2>2
  <2>3. CASE j = k + 1
    BY <1>4, <2>3
  <2> QED
    BY <1>3, <2>1, <2>2, <2>3
<1> QED
  BY <1>1, <1>3, <1>4, <1>5, <1>6

LEMMA Expanded ==
    ASSUME NEW f, NEW n, NEW m, FrameOK(f, n, m), f.stack # << >>,
           NEW left \in Nat, NEW right \in Nat, left \in 1 .. f.node, right \in 1 .. f.node,
           m[left] \in Values, m[right] \in Values,
           m[f.stack[Len(f.stack)]] = Followed(m[left], m[right])
    PROVE  FrameOK(ProceedAs(f, Two(right, left), Nothing), n, m)
<1>1. PICK h \in Nat, s \in Seq(Nat), v \in Values, k \in Nat :
             /\ h = f.node /\ s = f.stack /\ v = f.flattened /\ k = Len(s)
             /\ h \in 1 .. Len(n) /\ n[h].kind # "leaf"
             /\ \A j \in 1 .. k : s[j] \in 1 .. h
             /\ Remaining(h, s, k, v, m)
  BY FrameParts
<1>2. /\ s # << >> /\ m[s[Len(s)]] = Followed(m[left], m[right])
      /\ left \in 1 .. h /\ right \in 1 .. h
      /\ \A j \in 1 .. Len(s) : s[j] \in 1 .. h
  BY <1>1
<1>3. /\ \A j \in 1 .. Len(Restack(s, Two(right, left))) : Restack(s, Two(right, left))[j] \in 1 .. h
      /\ Remaining(h, Restack(s, Two(right, left)), Len(Restack(s, Two(right, left))), v, m)
  BY <1>1, <1>2, ExpandedStack
<1>4. v = Followed(v, Nothing)
  BY <1>1, NothingJoined
<1>5. Two(right, left) \in Seq(Nat) /\ Nothing \in Values
  BY NothingIs, TwoIs
<1> QED
  BY <1>1, <1>2, <1>3, <1>4, <1>5, FrameGoesOn

\* An activation that starts.
LEMMA FrameAtFirst ==
    ASSUME NEW n, NEW m, Denotation(n, m), NEW h \in 1 .. Len(n), n[h].kind # "leaf"
    PROVE  FrameOK(Frame(h), n, m) /\ Frame(h).node = h
<1>1. m[h] \in Values /\ h \in Nat
  BY DEF Denotation, Denotes
<1>2. << >> \in Values
  BY <1>1, JoinedEmpty
<1>3. PICK s \in Seq(Nat) : s = <<h>> /\ Len(s) = 1 /\ s[1] = h
  <2>1. <<h>> \in Seq(Nat) /\ Len(<<h>>) = 1 /\ <<h>>[1] = h
    BY <1>1
  <2> QED
    BY <2>1
<1>4. PICK f : f = Frame(h)
  OBVIOUS
<1>5. f \in FrameRecord /\ f.node = h /\ f.stack = s /\ f.flattened = << >>
  BY <1>1, <1>2, <1>3, <1>4 DEF Frame, FrameRecord
<1>6. Remaining(h, s, 1, << >>, m)
  BY <1>1, <1>3, RemainsAtFirst
<1>7. \A j \in 1 .. 1 : s[j] \in 1 .. h
  BY <1>1, <1>3
<1>8. FrameOK(f, n, m)
  BY <1>3, <1>5, <1>6, <1>7 DEF FrameOK
<1> QED
  BY <1>4, <1>5, <1>8

Front(s) == SubSeq(s, 1, Len(s) - 1)

LEMMA FrontIs ==
    ASSUME NEW S, NEW s \in Seq(S), s # << >>
    PROVE  /\ Len(s) \in Nat \ {0} /\ s[Len(s)] \in S
           /\ Front(s) \in Seq(S)
           /\ Len(Front(s)) = Len(s) - 1
           /\ \A i \in 1 .. Len(s) - 1 : Front(s)[i] = s[i]
<1>1. PICK k \in Nat \ {0} : k = Len(s)
  BY EmptySeq
<1>2. \A i \in 1 .. k - 1 : s[i] \in S
  BY <1>1, ElementOfSeq
<1>3. k - 1 \in Int /\ 1 \in Int /\ (k - 1) - 1 + 1 = k - 1
  OBVIOUS
<1>4. /\ SubSeq(s, 1, k - 1) \in Seq(S)
      /\ Len(SubSeq(s, 1, k - 1)) = k - 1
      /\ \A i \in 1 .. k - 1 : SubSeq(s, 1, k - 1)[i] = s[i]
  BY <1>1
<1>5. s[k] \in S
  BY <1>1, ElementOfSeq
<1> QED
  BY <1>1, <1>4, <1>5 DEF Front

\* The innermost activation goes on.
LEMMA InnermostGoesOn ==
    ASSUME NEW fs, NEW n, NEW m, FramesOK(fs, n, m), fs # << >>,
           NEW g, FrameOK(g, n, m), g.node = fs[Len(fs)].node
    PROVE  FramesOK(Append(Front(fs), g), n, m)
<1>1. fs \in Seq(FrameRecord) /\ g \in FrameRecord
  BY DEF FramesOK, FrameOK
<1>2. PICK k \in Nat \ {0}, u \in Seq(FrameRecord) :
             /\ k = Len(fs)
             /\ u = Front(fs)
             /\ Len(u) = k - 1
             /\ \A i \in 1 .. k - 1 : u[i] = fs[i]
  BY <1>1, FrontIs
<1>3. PICK gs \in Seq(FrameRecord) :
             /\ gs = Append(u, g)
             /\ Len(gs) = k
             /\ gs[k] = g
             /\ \A i \in 1 .. k - 1 : gs[i] = u[i]
  <2>1. u \in Seq(FrameRecord) /\ Len(u) = k - 1 /\ k - 1 + 1 = k
    BY <1>2
  <2>2. /\ Append(u, g) \in Seq(FrameRecord) /\ Len(Append(u, g)) = Len(u) + 1
        /\ Append(u, g)[Len(u) + 1] = g
        /\ \A i \in 1 .. Len(u) : Append(u, g)[i] = u[i]
    BY <1>1, <2>1, AppendProperties
  <2> QED
    BY <2>1, <2>2
<1>4. \A i \in 1 .. k : gs[i].node = fs[i].node
  <2>1. ASSUME NEW i \in 1 .. k PROVE gs[i].node = fs[i].node
    <3>1. CASE i = k
      BY <1>2, <1>3, <3>1
    <3>2. CASE i \in 1 .. k - 1
      BY <1>2, <1>3, <3>2
    <3> QED
      BY <3>1, <3>2
  <2> QED
    BY <2>1
<1>5. ASSUME NEW i \in 1 .. k PROVE FrameOK(gs[i], n, m)
  <2>1. CASE i = k
    BY <1>3, <2>1
  <2>2. CASE i \in 1 .. k - 1
    <3>1. gs[i] = fs[i] /\ i \in 1 .. Len(fs)
      BY <1>2, <1>3, <2>2
    <3> QED
      BY <3>1 DEF FramesOK
  <2> QED
    BY <2>1, <2>2
<1>6. \A i, j \in 1 .. k : i < j => gs[j].node < gs[i].node
  BY <1>2, <1>4 DEF FramesOK
<1>7. FramesOK(gs, n, m)
  BY <1>3, <1>5, <1>6 DEF FramesOK
<1> QED
  BY <1>2, <1>3, <1>7

\* An activation starts inside another one, for an older node.
LEMMA OneMoreActivation ==
    ASSUME NEW fs, NEW n, NEW m, FramesOK(fs, n, m), fs # << >>,
           NEW g, FrameOK(g, n, m), g.node < fs[Len(fs)].node
    PROVE  FramesOK(Append(fs, g), n, m)
<1>1. fs \in Seq(FrameRecord) /\ g \in FrameRecord
  BY DEF FramesOK, FrameOK
<1>2. PICK k \in Nat \ {0} : k = Len(fs)
  BY <1>1, FrontIs
<1>3. PICK gs \in Seq(FrameRecord) :
             /\ gs = Append(fs, g)
             /\ Len(gs) = k + 1
             /\ gs[k + 1] = g
             /\ \A i \in 1 .. k : gs[i] = fs[i]
  <2>1. /\ Append(fs, g) \in Seq(FrameRecord) /\ Len(Append(fs, g)) = Len(fs) + 1
        /\ Append(fs, g)[Len(fs) + 1] = g
        /\ \A i \in 1 .. Len(fs) : Append(fs, g)[i] = fs[i]
    BY <1>1, AppendProperties
  <2> QED
    BY <1>2, <2>1
<1>4. ASSUME NEW i \in 1 .. k + 1 PROVE FrameOK(gs[i], n, m)
  <2>1. CASE i = k + 1
    BY <1>3, <2>1
  <2>2. CASE i \in 1 .. k
    BY <1>2, <1>3, <2>2 DEF FramesOK
  <2> QED
    BY <2>1, <2>2
<1>5. \A i \in 1 .. k : fs[i].node \in Nat /\ fs[k].node <= fs[i].node
  <2>1. ASSUME NEW i \in 1 .. k PROVE fs[i].node \in Nat /\ fs[k].node <= fs[i].node
    <3>1. fs[i].node \in Nat /\ fs[k].node \in Nat /\ k \in 1 .. k
      <4>1. k \in 1 .. k /\ fs[i] \in FrameRecord /\ fs[k] \in FrameRecord
        BY <1>1, <1>2, ElementOfSeq
      <4> QED
        BY <4>1 DEF FrameRecord
    <3>2. i = k \/ i < k
      OBVIOUS
    <3>3. i < k => fs[k].node < fs[i].node
      BY <1>2, <3>1 DEF FramesOK
    <3> QED
      BY <3>1, <3>2, <3>3
  <2> QED
    BY <2>1
<1>6. g.node \in Nat /\ g.node < fs[k].node
  BY <1>1, <1>2 DEF FrameRecord
<1>7. ASSUME NEW i \in 1 .. k + 1, NEW j \in 1 .. k + 1, i < j
      PROVE  gs[j].node < gs[i].node
  <2>1. i \in 1 .. k /\ gs[i] = fs[i]
    BY <1>3, <1>7
  <2>2. CASE j = k + 1
    <3>1. gs[j].node = g.node /\ gs[i].node = fs[i].node
      BY <1>3, <2>1, <2>2
    <3>2. k \in 1 .. k /\ fs[k].node \in Nat
      BY <1>5
    <3> QED
      BY <1>5, <1>6, <2>1, <3>1, <3>2
  <2>3. CASE j \in 1 .. k
    BY <1>2, <1>3, <1>7, <2>1, <2>3 DEF FramesOK
  <2> QED
    BY <2>2, <2>3
<1>8. FramesOK(gs, n, m)
  BY <1>3, <1>4, <1>7 DEF FramesOK
<1> QED
  BY <1>3, <1>8

\* The innermost activation returns: its node becomes a leaf.
LEMMA InnermostReturns ==
    ASSUME NEW fs, NEW n, HeapOK(n), NEW m, FramesOK(fs, n, m), fs # << >>,
           NEW p \in Seq(NodeRecord), Len(p) = Len(n),
           \A h \in 1 .. Len(n) : h # fs[Len(fs)].node => p[h] = n[h]
    PROVE  FramesOK(Front(fs), p, m)
<1>1. fs \in Seq(FrameRecord)
  BY DEF FramesOK
<1>2. PICK k \in Nat \ {0}, u \in Seq(FrameRecord) :
             /\ k = Len(fs)
             /\ u = Front(fs)
             /\ Len(u) = k - 1
             /\ \A i \in 1 .. k - 1 : u[i] = fs[i]
  BY <1>1, FrontIs
<1>3. ASSUME NEW i \in 1 .. k - 1 PROVE FrameOK(u[i], p, m)
  <2>1. u[i] = fs[i] /\ i \in 1 .. k /\ k \in 1 .. k /\ i < k
    BY <1>2
  <2>2. FrameOK(fs[i], n, m) /\ FrameOK(fs[k], n, m) /\ fs[k].node < fs[i].node
    BY <1>2, <2>1 DEF FramesOK
  <2>3. fs[i].node \in Nat /\ fs[k].node \in Nat /\ fs[i].node \in 1 .. Len(n)
    BY <2>2 DEF FrameOK, FrameRecord
  <2>4. p[fs[i].node] = n[fs[i].node]
    BY <1>2, <2>2, <2>3
  <2>5. FrameOK(fs[i], p, m)
    BY <2>2, <2>4 DEF FrameOK
  <2> QED
    BY <2>1, <2>5
<1>4. ASSUME NEW i \in 1 .. k - 1, NEW j \in 1 .. k - 1, i < j
      PROVE  u[j].node < u[i].node
  <2>1. i \in 1 .. k /\ j \in 1 .. k /\ u[i] = fs[i] /\ u[j] = fs[j]
    BY <1>2
  <2>2. fs[j].node < fs[i].node
    BY <1>2, <1>4, <2>1 DEF FramesOK
  <2> QED
    BY <2>1, <2>2
<1>5. FramesOK(u, p, m)
  BY <1>2, <1>3, <1>4 DEF FramesOK
<1> QED
  BY <1>2, <1>5

\* The outermost activation starts.
LEMMA FirstActivation ==
    ASSUME NEW g, NEW n, NEW m, FrameOK(g, n, m)
    PROVE  FramesOK(<<g>>, n, m)
<1>1. g \in FrameRecord
  BY DEF FrameOK
<1>2. PICK gs \in Seq(FrameRecord) :
             /\ gs = <<g>>
             /\ Len(gs) = 1
             /\ gs[1] = g
  <2>1. <<g>> \in Seq(FrameRecord) /\ Len(<<g>>) = 1 /\ <<g>>[1] = g
    BY <1>1
  <2> QED
    BY <2>1
<1>3. \A i \in 1 .. Len(gs) : i = 1 /\ FrameOK(gs[i], n, m)
  BY <1>2
<1>4. FramesOK(gs, n, m)
  BY <1>2, <1>3 DEF FramesOK
<1> QED
  BY <1>2, <1>4

LEMMA NoActivation ==
    ASSUME NEW n, NEW m
    PROVE  FramesOK(<< >>, n, m)
<1>1. PICK gs \in Seq(FrameRecord) : gs = << >> /\ Len(gs) = 0
  <2>1. << >> \in Seq(FrameRecord) /\ Len(<< >>) = 0
    BY EmptySeq
  <2> QED
    BY <2>1
<1>2. FramesOK(gs, n, m)
  BY <1>1 DEF FramesOK
<1> QED
  BY <1>1, <1>2

-----------------------------------------------------------------------------
(* The inductive invariant, and the steps that answer no call.             *)

CallOK ==
    /\ call \in Abstract!Calls(Handle) \cup {Idle}
    /\ call # Idle /\ call.op = "update" => call.index < node[call.of].length

IInv == HeapOK(node) /\ FramesOK(frames, node, Meaning) /\ CallOK

LEMMA NextMeaning ==
    ASSUME NEW m, HeapOK(node'), Denotation(node', m)
    PROVE  Meaning' = m
<1>1. MeaningFits'
  BY MeaningIs, PTL
<1> QED
  BY <1>1 DEF MeaningFits

LEMMA SameMeaning ==
    ASSUME HeapOK(node), UNCHANGED node
    PROVE  Meaning' = Meaning
<1>1. Denotation(node, Meaning)
  BY MeaningDenotes
<1>2. PICK m : m = Meaning
  OBVIOUS
<1>3. HeapOK(node') /\ Denotation(node', m)
  BY <1>1, <1>2
<1> QED
  BY <1>2, <1>3, NextMeaning

\* What a handle denotes.
LEMMA HandleIs ==
    ASSUME HeapOK(node), NEW h \in 1 .. Len(node)
    PROVE  /\ Meaning[h] \in Values
           /\ Meaning[h] = Content(node[h], Meaning)
           /\ Len(Meaning[h]) = node[h].length
           /\ node[h] \in NodeRecord
           /\ NodeOK(node, node[h], h)
           /\ h \in Nat
BY MeaningDenotes, HeapNode DEF Denotation, Denotes

LEMMA Handles ==
    ASSUME HeapOK(node)
    PROVE  Handle = 1 .. Len(node) /\ Len(node) \in Nat
BY DEF Handle, HeapOK

\* The innermost activation and the top of its stack.
LEMMA RunningIs ==
    ASSUME HeapOK(node), FramesOK(frames, node, Meaning), frames # << >>
    PROVE  /\ FrameOK(Running, node, Meaning)
           /\ Running.node \in 1 .. Len(node) /\ Running.node \in Nat
           /\ Running.stack # << >> => Current \in 1 .. Running.node /\ Current \in 1 .. Len(node)
<1>1. FrameOK(Running, node, Meaning)
  <2>1. frames \in Seq(FrameRecord)
    BY DEF FramesOK
  <2>2. PICK k \in Nat \ {0} : k = Len(frames)
    BY <2>1, FrontIs
  <2>3. FrameOK(frames[k], node, Meaning)
    BY <2>2 DEF FramesOK
  <2> QED
    BY <2>2, <2>3 DEF Running
<1>2. PICK f : f = Running
  OBVIOUS
<1>3. PICK h \in Nat, s \in Seq(Nat), v \in Values, k \in Nat :
             /\ h = f.node /\ s = f.stack /\ v = f.flattened /\ k = Len(s)
             /\ h \in 1 .. Len(node) /\ node[h].kind # "leaf"
             /\ \A j \in 1 .. k : s[j] \in 1 .. h
             /\ Remaining(h, s, k, v, Meaning)
  BY <1>1, <1>2, FrameParts
<1>4. ASSUME s # << >> PROVE s[k] \in 1 .. h /\ s[k] \in 1 .. Len(node)
  <2>1. k \in 1 .. k
    BY <1>3, <1>4, FrontIs
  <2> QED
    BY <1>3, <2>1, Handles
<1>5. Running.stack # << >> => Current = s[k]
  BY <1>2, <1>3 DEF Current
<1> QED
  BY <1>1, <1>2, <1>3, <1>4, <1>5

\* A step of the traversal leaves the heap and the call alone.
LEMMA TraversalKeeps ==
    ASSUME IInv, UNCHANGED <<node, call, answer>>,
           NEW fs, frames' = fs, FramesOK(fs, node, Meaning)
    PROVE  IInv' /\ Meaning' = Meaning
<1>1. Meaning' = Meaning
  BY SameMeaning DEF IInv
<1>2. HeapOK(node)' /\ CallOK'
  <2>1. HeapOK(node) /\ CallOK
    BY DEF IInv
  <2>2. Handle' = Handle
    BY DEF Handle
  <2>3. Abstract!Calls(Handle)' = Abstract!Calls(Handle)
    BY <2>2 DEF Abstract!Calls
  <2> QED
    BY <2>1, <2>3 DEF CallOK
<1>3. FramesOK(frames, node, Meaning)'
  BY <1>1
<1> QED
  BY <1>1, <1>2, <1>3 DEF IInv

\* The innermost activation goes on, with a stack and values that fit.
LEMMA ProceedKeeps ==
    ASSUME IInv, UNCHANGED <<node, call, answer>>, frames # << >>,
           NEW more, NEW values, Proceed(more, values),
           FrameOK(ProceedAs(Running, more, values), node, Meaning),
           ProceedAs(Running, more, values).node = Running.node
    PROVE  IInv' /\ Meaning' = Meaning
<1>1. PICK g : g = ProceedAs(Running, more, values)
  OBVIOUS
<1>2. frames' = Append(Front(frames), g)
  BY <1>1 DEF Proceed, Callers, Front, ProceedAs
<1>3. FramesOK(Append(Front(frames), g), node, Meaning)
  <2>1. FrameOK(g, node, Meaning) /\ g.node = frames[Len(frames)].node
    BY <1>1 DEF Running
  <2> QED
    BY <2>1, InnermostGoesOn DEF IInv
<1> QED
  BY <1>2, <1>3, TraversalKeeps

LEMMA FlattenLeafKeeps ==
    ASSUME IInv, FlattenLeaf
    PROVE  IInv' /\ Meaning' = Meaning
<1>1. HeapOK(node) /\ FramesOK(frames, node, Meaning)
  BY DEF IInv
<1>2. frames # << >> /\ Running.stack # << >> /\ node[Current].kind = "leaf"
  BY DEF FlattenLeaf
<1>3. FrameOK(Running, node, Meaning) /\ Current \in 1 .. Len(node)
  BY <1>1, <1>2, RunningIs
<1>4. node[Current].values \in Values /\ Meaning[Current] = node[Current].values
  BY <1>1, <1>2, <1>3, HandleIs DEF Content
<1>5. PICK values \in Values : values = node[Current].values
  BY <1>4
<1>6. Meaning[Running.stack[Len(Running.stack)]] = values
  BY <1>4, <1>5 DEF Current
<1>7. FrameOK(ProceedAs(Running, Nothing, values), node, Meaning)
  BY <1>2, <1>3, <1>5, <1>6, Popped
<1>8. ProceedAs(Running, Nothing, values).node = Running.node
  BY <1>2, <1>3, <1>5, NothingIs, ProceedFields DEF FrameOK
<1>9. Proceed(Nothing, values) /\ UNCHANGED <<node, call, answer>>
  BY <1>5 DEF FlattenLeaf, Nothing
<1> QED
  BY <1>2, <1>7, <1>8, <1>9, ProceedKeeps

LEMMA FlattenConcatKeeps ==
    ASSUME IInv, FlattenConcat
    PROVE  IInv' /\ Meaning' = Meaning
<1>1. HeapOK(node) /\ FramesOK(frames, node, Meaning)
  BY DEF IInv
<1>2. frames # << >> /\ Running.stack # << >> /\ node[Current].kind = "concat"
  BY DEF FlattenConcat
<1>3. /\ FrameOK(Running, node, Meaning) /\ Current \in 1 .. Len(node)
      /\ Current \in 1 .. Running.node /\ Running.node \in 1 .. Len(node) /\ Running.node \in Nat
  BY <1>1, <1>2, RunningIs
<1>4. /\ node[Current].left \in 1 .. Current - 1 /\ node[Current].right \in 1 .. Current - 1
      /\ Meaning[Current] = Followed(Meaning[node[Current].left], Meaning[node[Current].right])
  BY <1>1, <1>2, <1>3, HandleIs DEF Content, NodeOK, Followed
<1>5. PICK left \in Nat, right \in Nat :
             /\ left = node[Current].left /\ right = node[Current].right
             /\ left \in 1 .. Running.node /\ right \in 1 .. Running.node
             /\ left \in 1 .. Len(node) /\ right \in 1 .. Len(node)
  BY <1>1, <1>3, <1>4, Handles
<1>6. /\ Meaning[Running.stack[Len(Running.stack)]] = Followed(Meaning[left], Meaning[right])
      /\ Meaning[left] \in Values /\ Meaning[right] \in Values
  BY <1>1, <1>4, <1>5, HandleIs DEF Current
<1>7. FrameOK(ProceedAs(Running, Two(right, left), Nothing), node, Meaning)
  BY <1>2, <1>3, <1>5, <1>6, Expanded
<1>8. ProceedAs(Running, Two(right, left), Nothing).node = Running.node
  <2>1. Two(right, left) \in Seq(Nat) /\ Nothing \in Values /\ Running \in FrameRecord
    BY <1>3, <1>5, NothingIs, TwoIs DEF FrameOK
  <2> QED
    BY <1>2, <2>1, ProceedFields
<1>9. Proceed(Two(right, left), Nothing) /\ UNCHANGED <<node, call, answer>>
  BY <1>5 DEF FlattenConcat, Nothing, Two
<1> QED
  BY <1>2, <1>7, <1>8, <1>9, ProceedKeeps

LEMMA FlattenSliceKeeps ==
    ASSUME IInv, FlattenSlice
    PROVE  IInv' /\ Meaning' = Meaning
<1>1. HeapOK(node) /\ FramesOK(frames, node, Meaning)
  BY DEF IInv
<1>2. frames # << >> /\ Running.stack # << >> /\ node[Current].kind = "slice"
  BY DEF FlattenSlice
<1>3. /\ FrameOK(Running, node, Meaning) /\ Current \in 1 .. Len(node)
      /\ Current \in 1 .. Running.node /\ Running.node \in 1 .. Len(node) /\ Running.node \in Nat
  BY <1>1, <1>2, RunningIs
<1>4. /\ node[Current].base \in 1 .. Current - 1
      /\ Meaning[Current] = SubSeq(Meaning[node[Current].base], node[Current].start + 1,
                                   node[Current].start + node[Current].length)
      /\ Meaning[Current] \in Values
  BY <1>1, <1>2, <1>3, HandleIs DEF Content, NodeOK
<1>5. PICK base \in Nat :
             /\ base = node[Current].base /\ base < Running.node /\ base \in 1 .. Len(node)
  BY <1>1, <1>3, <1>4, Handles
<1>6. UNCHANGED <<node, call, answer>>
  BY DEF FlattenSlice
<1>7. CASE node[base].kind = "leaf"
  <2>1. Meaning[base] = node[base].values
    BY <1>1, <1>5, <1>7, HandleIs DEF Content
  <2>2. PICK values \in Values : values = Meaning[Current]
    BY <1>4
  <2>3. Meaning[Running.stack[Len(Running.stack)]] = values
    BY <2>2 DEF Current
  <2>4. FrameOK(ProceedAs(Running, Nothing, values), node, Meaning)
    BY <1>2, <1>3, <2>2, <2>3, Popped
  <2>5. ProceedAs(Running, Nothing, values).node = Running.node
    BY <1>2, <1>3, <2>2, NothingIs, ProceedFields DEF FrameOK
  <2>6. Proceed(Nothing, values)
    <3>1. Proceed(<< >>, SubSeq(node[node[Current].base].values, node[Current].start + 1,
                                node[Current].start + node[Current].length))
      BY <1>5, <1>7 DEF FlattenSlice
    <3>2. SubSeq(node[node[Current].base].values, node[Current].start + 1,
                 node[Current].start + node[Current].length) = values
      BY <1>4, <1>5, <2>1, <2>2
    <3> QED
      BY <3>1, <3>2 DEF Nothing
  <2> QED
    BY <1>2, <1>6, <2>2, <2>4, <2>5, <2>6, ProceedKeeps
<1>8. CASE node[base].kind # "leaf"
  <2>1. frames' = Append(frames, Frame(base))
    BY <1>5, <1>8 DEF FlattenSlice
  <2>2. FrameOK(Frame(base), node, Meaning) /\ Frame(base).node = base
    BY <1>1, <1>5, <1>8, MeaningDenotes, FrameAtFirst
  <2>3. Frame(base).node < frames[Len(frames)].node
    BY <1>5, <2>2 DEF Running
  <2>4. FramesOK(Append(frames, Frame(base)), node, Meaning)
    BY <1>1, <1>2, <2>2, <2>3, OneMoreActivation
  <2> QED
    BY <1>6, <2>1, <2>4, TraversalKeeps
<1> QED
  BY <1>7, <1>8

\* An activation that has nothing left to visit flattened what its node denotes.
LEMMA FrameDone ==
    ASSUME NEW f, NEW n, NEW m, FrameOK(f, n, m), f.stack = << >>
    PROVE  m[f.node] = f.flattened
<1>1. PICK h \in Nat, s \in Seq(Nat), v \in Values, k \in Nat :
             /\ h = f.node /\ s = f.stack /\ v = f.flattened /\ k = Len(s)
             /\ h \in 1 .. Len(n) /\ n[h].kind # "leaf"
             /\ \A j \in 1 .. k : s[j] \in 1 .. h
             /\ Remaining(h, s, k, v, m)
  BY FrameParts
<1>2. k = 0
  BY <1>1, EmptySeq
<1>3. m[h] = Followed(v, << >>)
  BY <1>1, <1>2 DEF Remaining, Remains
<1> QED
  BY <1>1, <1>3, JoinedEmpty

\* Materialize rewrites the node of the innermost activation into the leaf of
\* what it denotes.
LEMMA MaterializeIs ==
    ASSUME IInv, Materialize
    PROVE  /\ node' = [node EXCEPT ![Running.node] = LeafNode(Meaning[Running.node])]
           /\ node[Running.node].kind # "leaf" /\ Running.node \in 1 .. Len(node)
           /\ Meaning[Running.node] \in Values
           /\ Len(Meaning[Running.node]) = node[Running.node].length
           /\ frames' = Front(frames) /\ frames # << >>
<1>1. HeapOK(node) /\ FramesOK(frames, node, Meaning)
  BY DEF IInv
<1>2. frames # << >> /\ Running.stack = << >>
  BY DEF Materialize
<1>3. FrameOK(Running, node, Meaning) /\ Running.node \in 1 .. Len(node)
  BY <1>1, <1>2, RunningIs
<1>4. Meaning[Running.node] = Running.flattened
  BY <1>2, <1>3, FrameDone
<1>5. node[Running.node].kind # "leaf"
  BY <1>3 DEF FrameOK
<1> QED
  BY <1>1, <1>2, <1>3, <1>4, <1>5, HandleIs DEF Materialize, Callers, Front

LEMMA MaterializeKeeps ==
    ASSUME IInv, Materialize
    PROVE  IInv' /\ Meaning' = Meaning
<1>1. HeapOK(node) /\ FramesOK(frames, node, Meaning) /\ CallOK
  BY DEF IInv
<1>2. PICK m, h :
             /\ m = Meaning /\ h = Running.node /\ h \in 1 .. Len(node)
             /\ node' = [node EXCEPT ![h] = LeafNode(m[h])]
             /\ Len(m[h]) = node[h].length
             /\ frames' = Front(frames) /\ frames # << >>
  BY MaterializeIs
<1>3. Denotation(node, m)
  BY <1>1, <1>2, MeaningDenotes
<1>4. HeapOK(node') /\ Denotation(node', m)
  BY <1>1, <1>2, <1>3, Flattened
<1>5. Meaning' = m
  BY <1>4, NextMeaning
<1>6. /\ node' \in Seq(NodeRecord) /\ Len(node') = Len(node) /\ Handle' = Handle
      /\ \A x \in 1 .. Len(node) : x # h => node'[x] = node[x]
      /\ \A x \in 1 .. Len(node) : node'[x].length = node[x].length
  <2>1. node \in Seq(NodeRecord) /\ node' \in Seq(NodeRecord)
    BY <1>1, <1>4 DEF HeapOK
  <2>2. DOMAIN node' = DOMAIN node /\ \A x \in 1 .. Len(node) : x # h => node'[x] = node[x]
    BY <1>2, <2>1
  <2>3. node'[h].length = node[h].length
    BY <1>2, <2>1 DEF LeafNode
  <2> QED
    BY <2>1, <2>2, <2>3 DEF Handle
<1>7. FramesOK(frames', node', m)
  <2>1. h = frames[Len(frames)].node
    BY <1>2 DEF Running
  <2>2. PICK p \in Seq(NodeRecord) :
             /\ p = node'
             /\ Len(p) = Len(node)
             /\ \A x \in 1 .. Len(node) : x # frames[Len(frames)].node => p[x] = node[x]
    BY <1>6, <2>1
  <2>3. FramesOK(Front(frames), p, m)
    BY <1>1, <1>2, <2>2, InnermostReturns
  <2> QED
    BY <1>2, <2>2, <2>3
<1>8. CallOK'
  <2>1. call' = call
    BY DEF Materialize
  <2>2. Abstract!Calls(Handle)' = Abstract!Calls(Handle)
    BY <1>6 DEF Abstract!Calls
  <2>3. call \in Abstract!Calls(Handle) \cup {Idle}
    BY <1>1 DEF CallOK
  <2>4. ASSUME call # Idle, call.op = "update"
        PROVE  call.index < node'[call.of].length
    <3>1. call.of \in 1 .. Len(node)
      BY <1>1, <2>3, <2>4, Handles DEF Abstract!Calls
    <3> QED
      BY <1>1, <1>6, <2>4, <3>1 DEF CallOK
  <2> QED
    BY <2>1, <2>2, <2>3, <2>4 DEF CallOK
<1> QED
  BY <1>2, <1>4, <1>5, <1>7, <1>8 DEF IInv

-----------------------------------------------------------------------------
(* Calls.                                                                  *)

\* The calls there can be.
LEMMA CallIs ==
    ASSUME NEW H, NEW c \in Abstract!Calls(H)
    PROVE  \/ c.op = "of" /\ c.values \in Literal
           \/ c.op \in {"concat", "equals", "prefix", "properPrefix"} /\ c.left \in H /\ c.right \in H
           \/ /\ c.op = "slice" /\ c.of \in H
              /\ c.from \in Offset \cup {Omitted} /\ c.until \in Offset \cup {Omitted}
           \/ c.op = "select" /\ c.of \in H /\ c.index \in Offset
           \/ c.op = "update" /\ c.of \in H /\ c.index \in Offset \cap Nat /\ c.value \in Element
           \/ c.op = "contains" /\ c.of \in H /\ c.value \in Element
           \/ c.op = "elements" /\ c.of \in H
BY DEF Abstract!Calls

LEMMA SourceIs ==
    ASSUME HeapOK(node), NEW h \in 1 .. Len(node)
    PROVE  Source(h) \in 1 .. Len(node)
BY HandleIs, Handles DEF Source, NodeOK

\* A call demands handles.
LEMMA DemandsAreHandles ==
    ASSUME HeapOK(node), NEW c \in Abstract!Calls(Handle), NEW i \in DOMAIN Demands(c)
    PROVE  i \in Nat /\ Demands(c)[i] \in 1 .. Len(node)
<1> DEFINE H == 1 .. Len(node)
<1>1. H = Handle /\ \A h \in H : Source(h) \in H
  BY Handles, SourceIs
<1>2. c \in Abstract!Calls(H)
  BY <1>1
<1> HIDE DEF H
<1>3. CASE c.op \in {"update", "contains", "elements"}
  <2>1. Demands(c) = <<c.of>>
    BY <1>3 DEF Demands
  <2>2. c.of \in H
    BY <1>2, <1>3, CallIs
  <2>3. i = 1
    BY <2>1
  <2> QED
    BY <2>1, <2>2, <2>3 DEF H
<1>4. CASE c.op = "select"
  <2>1. Demands(c) = << >> \/ Demands(c) = <<Source(c.of)>>
    BY <1>4 DEF Demands
  <2>2. Source(c.of) \in H
    BY <1>1, <1>2, <1>4, CallIs
  <2>3. Demands(c) = <<Source(c.of)>> /\ i = 1
    BY <2>1
  <2> QED
    BY <2>2, <2>3 DEF H
<1>5. CASE c.op \in {"equals", "prefix", "properPrefix"}
  <2>1. c.left \in H /\ c.right \in H
    BY <1>2, <1>5, CallIs
  <2>2. PICK l, r : l \in H /\ r \in H /\ l = Source(c.left) /\ r = Source(c.right)
    BY <1>1, <2>1
  <2>3. Demands(c) \in {<< >>, <<c.left>>, <<c.left, r>>, <<l, r>>}
    <3>1. CASE c.op = "equals"
      BY <2>2, <3>1 DEF Demands
    <3>2. CASE c.op \in {"prefix", "properPrefix"}
      BY <2>2, <3>2 DEF Demands
    <3> QED
      BY <1>5, <3>1, <3>2
  <2>4. CASE Demands(c) = << >>
    BY <2>4
  <2>5. CASE Demands(c) = <<c.left>>
    BY <2>1, <2>5 DEF H
  <2>6. CASE Demands(c) = <<c.left, r>>
    BY <2>1, <2>2, <2>6 DEF H
  <2>7. CASE Demands(c) = <<l, r>>
    BY <2>2, <2>7 DEF H
  <2> QED
    BY <2>3, <2>4, <2>5, <2>6, <2>7
<1>6. CASE c.op \in {"of", "concat", "slice"}
  <2>1. Demands(c) = << >>
    BY <1>6 DEF Demands
  <2> QED
    BY <2>1
<1> QED
  BY <1>2, <1>3, <1>4, <1>5, <1>6, CallIs

LEMMA ForceKeeps ==
    ASSUME IInv, ForceDemand
    PROVE  IInv' /\ Meaning' = Meaning
<1>1. HeapOK(node) /\ CallOK
  BY DEF IInv
<1>2. call \in Abstract!Calls(Handle) /\ Unforced(call) # {} /\ UNCHANGED <<node, call, answer>>
  BY <1>1 DEF ForceDemand, CallOK
<1>3. \E k \in Unforced(call) : frames' = <<Frame(Demands(call)[k])>>
  <2> DEFINE first == CHOOSE i \in Unforced(call) : \A j \in Unforced(call) : i <= j
  <2>1. Unforced(call) \in SUBSET Nat
    BY <1>1, <1>2, DemandsAreHandles DEF Unforced
  <2>2. \E i \in Unforced(call) : \A j \in Unforced(call) : i <= j
    BY <1>2, <2>1, Least
  <2>3. first \in Unforced(call)
    BY <2>2
  <2>4. frames' = <<Frame(Demands(call)[first])>>
    BY DEF ForceDemand
  <2> HIDE DEF first
  <2> QED
    BY <2>3, <2>4
<1>4. PICK k, h :
             k \in Unforced(call) /\ h = Demands(call)[k] /\ frames' = <<Frame(h)>>
  BY <1>3
<1>5. h \in 1 .. Len(node) /\ node[h].kind # "leaf"
  BY <1>1, <1>2, <1>4, DemandsAreHandles DEF Unforced
<1>6. FrameOK(Frame(h), node, Meaning)
  BY <1>1, <1>5, MeaningDenotes, FrameAtFirst
<1>7. FramesOK(<<Frame(h)>>, node, Meaning)
  BY <1>6, FirstActivation
<1> QED
  BY <1>2, <1>4, <1>7, TraversalKeeps

\* A caller calls and takes its answer.
LEMMA CallerKeeps ==
    ASSUME IInv, Invoke \/ Take \/ UNCHANGED vars
    PROVE  IInv' /\ Meaning' = Meaning
<1>1. HeapOK(node) /\ FramesOK(frames, node, Meaning) /\ CallOK
  BY DEF IInv
<1>2. node' = node /\ frames' = frames
  BY DEF Invoke, Take, vars
<1>3. Meaning' = Meaning
  BY <1>1, <1>2, SameMeaning
<1>4. Abstract!Calls(Handle)' = Abstract!Calls(Handle)
  BY <1>2 DEF Abstract!Calls, Handle
<1>5. CallOK'
  <2>1. CASE Invoke
    <3>1. PICK c \in Abstract!Calls(Handle) : WithinBounds(c) /\ call' = c
      BY <2>1 DEF Invoke
    <3>2. c.op = "update" => c.index < node[c.of].length
      BY <3>1 DEF WithinBounds
    <3> QED
      BY <1>2, <1>4, <3>1, <3>2 DEF CallOK
  <2>2. CASE Take \/ UNCHANGED vars
    <3>1. call' = call
      BY <2>2 DEF Take, vars
    <3> QED
      BY <1>1, <1>2, <1>4, <3>1 DEF CallOK
  <2> QED
    BY <2>1, <2>2
<1>6. HeapOK(node') /\ FramesOK(frames', node', Meaning')
  BY <1>1, <1>2, <1>3
<1> QED
  BY <1>3, <1>5, <1>6 DEF IInv

-----------------------------------------------------------------------------
(* Sequences of elements: parts, prefixes and slices.                      *)

LEMMA PartIs ==
    ASSUME NEW s \in Values, NEW from \in Nat, NEW size \in Nat, from + size <= Len(s)
    PROVE  /\ SubSeq(s, from + 1, from + size) \in Values
           /\ Len(SubSeq(s, from + 1, from + size)) = size
           /\ \A i \in 1 .. size : SubSeq(s, from + 1, from + size)[i] = s[from + i]
<1>1. PICK a \in Int, b \in Int, n \in Nat :
             /\ a = from + 1
             /\ b = from + size
             /\ n = Len(s)
  BY DEF Values
<1>2. \A i \in a .. b : s[i] \in Element
  BY <1>1, ElementOfSeq DEF Values
<1>3. /\ SubSeq(s, a, b) \in Seq(Element)
      /\ Len(SubSeq(s, a, b)) = IF a <= b THEN b - a + 1 ELSE 0
      /\ \A i \in 1 .. b - a + 1 : SubSeq(s, a, b)[i] = s[a + i - 1]
  BY <1>2, SubSeqProperties
<1>4. (IF a <= b THEN b - a + 1 ELSE 0) = size /\ b - a + 1 = size
  BY <1>1
<1>5. \A i \in 1 .. size : a + i - 1 = from + i
  BY <1>1
<1>6. /\ SubSeq(s, a, b) \in Values
      /\ Len(SubSeq(s, a, b)) = size
      /\ \A i \in 1 .. size : SubSeq(s, a, b)[i] = s[from + i]
  BY <1>3, <1>4, <1>5 DEF Values
<1> QED
  BY <1>1, <1>6

\* Sequences are the same when they have the same elements.
LEMMA SameIs ==
    ASSUME NEW s \in Values, NEW t \in Values
    PROVE  s = t <=> /\ Len(s) = Len(t)
                     /\ \A i \in 0 .. Len(s) - 1 : s[i + 1] = t[i + 1]
<1>1. ASSUME Len(s) = Len(t), \A i \in 0 .. Len(s) - 1 : s[i + 1] = t[i + 1]
      PROVE  s = t
  <2>1. PICK n \in Nat : n = Len(s)
    BY DEF Values
  <2>2. ASSUME NEW j \in 1 .. n PROVE s[j] = t[j]
    <3>1. j - 1 \in 0 .. n - 1 /\ (j - 1) + 1 = j
      OBVIOUS
    <3>2. s[(j - 1) + 1] = t[(j - 1) + 1]
      BY <1>1, <2>1, <3>1
    <3> QED
      BY <3>1, <3>2
  <2> QED
    BY <1>1, <2>1, <2>2, SeqEqual DEF Values
<1> QED
  BY <1>1

LEMMA PrefixIs ==
    ASSUME NEW s \in Values, NEW t \in Values
    PROVE  s \in Abstract!Prefixes(t) <=>
             /\ Len(s) <= Len(t)
             /\ \A i \in 0 .. Len(s) - 1 : s[i + 1] = t[i + 1]
<1>1. Len(s) \in Nat /\ Len(t) \in Nat
  BY DEF Values
<1>2. ASSUME NEW n \in 0 .. Len(t)
      PROVE  /\ SubSeq(t, 1, n) \in Values
             /\ Len(SubSeq(t, 1, n)) = n
             /\ \A i \in 1 .. n : SubSeq(t, 1, n)[i] = t[i]
  <2>1. 0 \in Nat /\ n \in Nat /\ 0 + n <= Len(t) /\ 0 + 1 = 1 /\ 0 + n = n
    BY <1>1
  <2>2. /\ SubSeq(t, 0 + 1, 0 + n) \in Values
        /\ Len(SubSeq(t, 0 + 1, 0 + n)) = n
        /\ \A i \in 1 .. n : SubSeq(t, 0 + 1, 0 + n)[i] = t[0 + i]
    BY <2>1, PartIs
  <2>3. \A i \in 1 .. n : 0 + i = i
    OBVIOUS
  <2> QED
    BY <2>1, <2>2, <2>3
<1>3. ASSUME s \in Abstract!Prefixes(t)
      PROVE  Len(s) <= Len(t) /\ \A i \in 0 .. Len(s) - 1 : s[i + 1] = t[i + 1]
  <2>1. PICK n \in 0 .. Len(t) : s = SubSeq(t, 1, n)
    BY <1>3 DEF Abstract!Prefixes
  <2>2. Len(s) = n /\ \A i \in 1 .. n : s[i] = t[i]
    BY <1>2, <2>1
  <2>3. \A i \in 0 .. n - 1 : i + 1 \in 1 .. n
    BY <1>1
  <2> QED
    BY <1>1, <2>2, <2>3
<1>4. ASSUME Len(s) <= Len(t), \A i \in 0 .. Len(s) - 1 : s[i + 1] = t[i + 1]
      PROVE  s \in Abstract!Prefixes(t)
  <2>1. PICK n \in 0 .. Len(t) : n = Len(s)
    BY <1>1, <1>4
  <2>2. PICK u \in Values :
             /\ u = SubSeq(t, 1, n)
             /\ Len(u) = n
             /\ \A i \in 1 .. n : u[i] = t[i]
    BY <1>2
  <2>3. \A i \in 0 .. n - 1 : s[i + 1] = u[i + 1]
    <3>1. \A i \in 0 .. n - 1 : i + 1 \in 1 .. n
      BY <1>1
    <3> QED
      BY <1>4, <2>1, <2>2, <3>1
  <2>4. s = u
    BY <2>1, <2>2, <2>3, SameIs
  <2> QED
    BY <2>2, <2>4 DEF Abstract!Prefixes
<1> QED
  BY <1>3, <1>4

\* A part of a part is a part.
LEMMA PartOfPart ==
    ASSUME NEW s \in Values, NEW start \in Nat, NEW length \in Nat, start + length <= Len(s),
           NEW first \in Nat, NEW size \in Nat, first + size <= length
    PROVE  SubSeq(SubSeq(s, start + 1, start + length), first + 1, first + size)
             = SubSeq(s, start + first + 1, start + first + size)
<1>1. PICK t \in Values :
             /\ t = SubSeq(s, start + 1, start + length)
             /\ Len(t) = length
             /\ \A i \in 1 .. length : t[i] = s[start + i]
  BY PartIs
<1>2. PICK u \in Values :
             /\ u = SubSeq(t, first + 1, first + size)
             /\ Len(u) = size
             /\ \A i \in 1 .. size : u[i] = t[first + i]
  <2>1. t \in Values /\ first + size <= Len(t)
    BY <1>1
  <2>2. /\ SubSeq(t, first + 1, first + size) \in Values
        /\ Len(SubSeq(t, first + 1, first + size)) = size
        /\ \A i \in 1 .. size : SubSeq(t, first + 1, first + size)[i] = t[first + i]
    BY <2>1, PartIs
  <2> QED
    BY <2>2
<1>3. PICK w \in Values :
             /\ w = SubSeq(s, start + first + 1, start + first + size)
             /\ Len(w) = size
             /\ \A i \in 1 .. size : w[i] = s[start + first + i]
  <2>1. PICK at \in Nat : at = start + first /\ at + size <= Len(s)
    BY DEF Values
  <2>3. at \in Nat /\ at + size <= Len(s)
    BY <2>1, Zenon
  <2>2. /\ SubSeq(s, at + 1, at + size) \in Values
        /\ Len(SubSeq(s, at + 1, at + size)) = size
        /\ \A i \in 1 .. size : SubSeq(s, at + 1, at + size)[i] = s[at + i]
    BY <2>3, PartIs, Zenon
  <2> QED
    BY <2>1, <2>2
<1>4. ASSUME NEW i \in 0 .. size - 1 PROVE u[i + 1] = w[i + 1]
  <2>1. i + 1 \in 1 .. size /\ first + (i + 1) \in 1 .. length
    OBVIOUS
  <2>2. start + (first + (i + 1)) = start + first + (i + 1)
    OBVIOUS
  <2>3. u[i + 1] = t[first + (i + 1)] /\ t[first + (i + 1)] = s[start + (first + (i + 1))]
    BY <1>1, <1>2, <2>1
  <2>4. w[i + 1] = s[start + first + (i + 1)]
    BY <1>3, <2>1
  <2> QED
    BY <2>2, <2>3, <2>4
<1>5. u = w
  <2>1. u \in Values /\ w \in Values /\ Len(u) = Len(w) /\ Len(u) = size
    BY <1>2, <1>3
  <2>2. \A i \in 0 .. Len(u) - 1 : u[i + 1] = w[i + 1]
    BY <1>4, <2>1
  <2> QED
    BY <2>1, <2>2, SameIs
<1> QED
  BY <1>1, <1>2, <1>3, <1>5

\* The bounds of a slice are the positions its arguments name.
LEMMA ClampIs ==
    ASSUME NEW n \in Nat, NEW a \in Int
    PROVE  /\ Clamp(a, n) \in 0 .. n
           /\ \A i \in 0 .. n - 1 : Clamp(a, n) <= i <=> (IF a < 0 THEN n + a ELSE a) <= i
BY DEF Clamp, Maximum, Minimum

LEMMA BoundIs ==
    ASSUME NEW n \in Nat, NEW a \in Int \cup {Omitted}, NEW d \in {0, n}
    PROVE  /\ Clamp(Given(a, d), n) \in 0 .. n
           /\ \A i \in 0 .. n - 1 :
                Clamp(Given(a, d), n) <= i <=> Abstract!Position(a, n, d) <= i
<1>1. CASE a = Omitted
  <2>1. Given(a, d) = d /\ Abstract!Position(a, n, d) = d
    BY <1>1 DEF Given, Abstract!Position
  <2>2. d \in Int /\ ~ (d < 0)
    OBVIOUS
  <2>3. Clamp(d, n) \in 0 .. n /\ \A i \in 0 .. n - 1 : Clamp(d, n) <= i <=> d <= i
    BY <2>2, ClampIs
  <2> QED
    BY <2>1, <2>3
<1>2. CASE a # Omitted
  <2>1. a \in Int /\ Given(a, d) = a /\ Abstract!Position(a, n, d) = IF a < 0 THEN n + a ELSE a
    BY <1>2 DEF Given, Abstract!Position
  <2> QED
    BY <2>1, ClampIs
<1> QED
  BY <1>1, <1>2

\* The instance has a Cardinality of its own.
LEMMA SameCardinality == \A S : Abstract!Cardinality(S) = Cardinality(S)
BY Zenon DEF Abstract!Cardinality, Cardinality

\* A slice is the part between its bounds.
LEMMA SlicedBetween ==
    ASSUME NEW s \in Values, NEW from, NEW until, Len(s) \in Nat,
           NEW first \in 0 .. Len(s), NEW last \in 0 .. Len(s),
           Abstract!Position(until, Len(s), Len(s)) \in Int,
           \A i \in 0 .. Len(s) - 1 : first <= i <=> Abstract!Position(from, Len(s), 0) <= i,
           \A i \in 0 .. Len(s) - 1 : last <= i <=> Abstract!Position(until, Len(s), Len(s)) <= i
    PROVE  Abstract!Sliced(s, from, until)
             = IF last <= first THEN << >> ELSE SubSeq(s, first + 1, first + (last - first))
<1> DEFINE In == { i \in 0 .. Len(s) - 1 : /\ Abstract!Position(from, Len(s), 0) <= i
                                           /\ i < Abstract!Position(until, Len(s), Len(s)) }
           least == CHOOSE i \in In : \A j \in In : i <= j
<1>1. In = first .. last - 1
  <2>1. ASSUME NEW i \in 0 .. Len(s) - 1
        PROVE  i < Abstract!Position(until, Len(s), Len(s)) <=> i < last
    <3>1. last <= i <=> Abstract!Position(until, Len(s), Len(s)) <= i
      OBVIOUS
    <3> QED
      BY <3>1
  <2>2. \A i : i \in In <=> i \in 0 .. Len(s) - 1 /\ first <= i /\ i < last
    BY <2>1
  <2>3. \A i : i \in first .. last - 1 <=> i \in 0 .. Len(s) - 1 /\ first <= i /\ i < last
    OBVIOUS
  <2> HIDE DEF In
  <2> QED
    BY <2>2, <2>3
<1>2. Abstract!Sliced(s, from, until) =
        IF In = {} THEN << >> ELSE SubSeq(s, least + 1, least + Cardinality(In))
  <2>1. Abstract!Cardinality(In) = Cardinality(In)
    BY SameCardinality
  <2>2. Abstract!Sliced(s, from, until) =
          IF In = {} THEN << >> ELSE SubSeq(s, least + 1, least + Abstract!Cardinality(In))
    BY Zenon DEF Abstract!Sliced
  <2> HIDE DEF In, least
  <2> QED
    BY <2>1, <2>2
<1> HIDE DEF In
<1>3. CASE last <= first
  <2>1. In = {}
    BY <1>1, <1>3
  <2> QED
    BY <1>2, <1>3, <2>1
<1>4. CASE ~ (last <= first)
  <2>1. first \in In /\ (\A j \in In : first <= j) /\ In \subseteq Int
    BY <1>1, <1>4
  <2>2. least = first
    <3>1. \A i \in In : (\A j \in In : i <= j) => i = first
      BY <2>1
    <3> QED
      BY <2>1, <3>1
  <2>3. Cardinality(In) = last - first
    <3>1. /\ last - 1 \in Int /\ first \in Int /\ ~ (first > last - 1)
          /\ (last - 1) - first + 1 = last - first
      BY <1>4
    <3>2. Cardinality(first .. last - 1) = (last - 1) - first + 1
      BY <3>1, FS_Interval
    <3> QED
      BY <1>1, <3>1, <3>2
  <2> HIDE DEF least
  <2> QED
    BY <1>2, <1>4, <2>1, <2>2, <2>3
<1> QED
  BY <1>3, <1>4

LEMMA SlicedIs ==
    ASSUME NEW s \in Values, NEW from \in Int \cup {Omitted}, NEW until \in Int \cup {Omitted}
    PROVE  \E first \in Nat, last \in Nat, size \in Nat :
             /\ first = Clamp(Given(from, 0), Len(s))
             /\ last = Clamp(Given(until, Len(s)), Len(s))
             /\ size = Maximum(last - first, 0)
             /\ first + size <= Len(s)
             /\ Abstract!Sliced(s, from, until)
                  = IF size = 0 THEN << >> ELSE SubSeq(s, first + 1, first + size)
<1>1. Len(s) \in Nat
  BY DEF Values
<1>2. PICK first, last :
             /\ first = Clamp(Given(from, 0), Len(s))
             /\ last = Clamp(Given(until, Len(s)), Len(s))
  OBVIOUS
<1>3. /\ first \in 0 .. Len(s)
      /\ \A i \in 0 .. Len(s) - 1 : first <= i <=> Abstract!Position(from, Len(s), 0) <= i
  BY <1>1, <1>2, BoundIs
<1>4. /\ last \in 0 .. Len(s)
      /\ \A i \in 0 .. Len(s) - 1 : last <= i <=> Abstract!Position(until, Len(s), Len(s)) <= i
  BY <1>1, <1>2, BoundIs
<1>5. Abstract!Position(until, Len(s), Len(s)) \in Int
  BY <1>1 DEF Abstract!Position
<1>6. Abstract!Sliced(s, from, until)
        = IF last <= first THEN << >> ELSE SubSeq(s, first + 1, first + (last - first))
  <2>1. first \in 0 .. Len(s) /\ last \in 0 .. Len(s)
    BY <1>3, <1>4
  <2> QED
    BY <1>1, <1>3, <1>4, <1>5, <2>1, SlicedBetween, SMTT(60)
<1>7. PICK size \in Nat :
             /\ size = Maximum(last - first, 0)
             /\ size = 0 <=> last <= first
             /\ size # 0 => size = last - first
             /\ first + size <= Len(s)
  <2>1. PICK n \in Nat : n = Len(s) /\ first \in 0 .. n /\ last \in 0 .. n
    BY <1>1, <1>3, <1>4
  <2>2. PICK a \in Nat, z \in Nat : a = first /\ z = last /\ a <= n /\ z <= n
    BY <2>1
  <2>3. /\ Maximum(z - a, 0) \in Nat
        /\ Maximum(z - a, 0) = 0 <=> z <= a
        /\ Maximum(z - a, 0) # 0 => Maximum(z - a, 0) = z - a
        /\ a + Maximum(z - a, 0) <= n
    BY <2>2 DEF Maximum
  <2> QED
    BY <2>1, <2>2, <2>3
<1> QED
  BY <1>1, <1>2, <1>3, <1>4, <1>6, <1>7

-----------------------------------------------------------------------------
(* What a call reads.                                                      *)

LEMMA ForcedIs ==
    ASSUME NEW c, Unforced(c) = {}, NEW i \in DOMAIN Demands(c)
    PROVE  node[Demands(c)[i]].kind = "leaf"
BY DEF Unforced

LEMMA LeafIs ==
    ASSUME HeapOK(node), NEW h \in 1 .. Len(node), node[h].kind = "leaf"
    PROVE  node[h].values = Meaning[h]
BY HandleIs DEF Content

\* Once its source is a leaf, an element of a sequence is one of what it denotes.
LEMMA ElementAtIs ==
    ASSUME HeapOK(node), NEW h \in 1 .. Len(node), node[Source(h)].kind = "leaf",
           NEW i \in 0 .. Len(Meaning[h]) - 1
    PROVE  ElementAt(h, i) = Meaning[h][i + 1]
<1>1. CASE node[h].kind = "slice"
  <2>1. /\ node[h].base \in 1 .. Len(node) /\ node[node[h].base].kind = "leaf"
        /\ node[h].start \in Nat /\ node[h].length \in Nat
        /\ node[h].start + node[h].length <= node[node[h].base].length
    BY <1>1, HandleIs, Handles, Kinds DEF Source, NodeOK
  <2>2. PICK b \in 1 .. Len(node), start \in Nat, length \in Nat, s \in Values :
             /\ b = node[h].base /\ start = node[h].start /\ length = node[h].length
             /\ s = Meaning[b] /\ s = node[b].values
             /\ start + length <= Len(s)
    <3>1. PICK b \in 1 .. Len(node) :
               /\ b = node[h].base
               /\ node[b].kind = "leaf"
               /\ node[h].start + node[h].length <= node[b].length
      BY <2>1
    <3>2. Meaning[b] \in Values /\ Len(Meaning[b]) = node[b].length /\ node[b].values = Meaning[b]
      BY <3>1, HandleIs, LeafIs
    <3> QED
      BY <2>1, <3>1, <3>2
  <2>3. Meaning[h] = SubSeq(s, start + 1, start + length)
    BY <1>1, <2>2, HandleIs DEF Content
  <2>4. /\ Len(SubSeq(s, start + 1, start + length)) = length
        /\ \A j \in 1 .. length : SubSeq(s, start + 1, start + length)[j] = s[start + j]
    <3>1. s \in Values /\ start + length <= Len(s)
      BY <2>2
    <3> QED
      BY <3>1, PartIs
  <2>5. i \in Int /\ i + 1 \in 1 .. length /\ start + (i + 1) = start + i + 1
    <3>1. length \in Nat /\ start \in Nat /\ Len(Meaning[h]) = length
      BY <2>2, HandleIs
    <3>2. i \in 0 .. length - 1
      BY <3>1
    <3>3. i \in Int /\ 0 <= i /\ i + 1 <= length
      BY <3>1, <3>2
    <3> QED
      BY <3>1, <3>3
  <2>6. Meaning[h][i + 1] = s[start + i + 1]
    BY <2>3, <2>4, <2>5
  <2>7. ElementAt(h, i) = s[start + i + 1]
    BY <1>1, <2>2 DEF ElementAt
  <2> QED
    BY <2>6, <2>7
<1>2. CASE node[h].kind # "slice"
  <2>1. node[h].values = Meaning[h]
    BY <1>2, LeafIs DEF Source
  <2> QED
    BY <1>2, <2>1 DEF ElementAt
<1> QED
  BY <1>1, <1>2

-----------------------------------------------------------------------------
(* What a call answers.                                                    *)

\* Meaning as a sequence of sequences.
LEMMA MeaningSeq ==
    ASSUME HeapOK(node)
    PROVE  DOMAIN Meaning = 1 .. Len(node) /\ Meaning \in Seq(Values) /\ Len(Meaning) = Len(node)
<1>1. Meaning \in [1 .. Len(node) -> Values] /\ Len(node) \in Nat
  BY MeaningDenotes, Handles DEF Denotation, Denotes
<1> QED
  BY <1>1

\* A new handle denotes what its node makes of the others.
LEMMA MakeAnswers ==
    ASSUME HeapOK(node), NEW x \in NodeRecord, NodeOK(node, x, Len(node) + 1), Make(x)
    PROVE  /\ HeapOK(node') /\ \A h \in 1 .. Len(node) : node'[h] = node[h]
           /\ Abstract!AnswersHandle(Content(x, Meaning))
<1>1. node' = Append(node, x) /\ answer' = [handle |-> Len(node) + 1]
  BY DEF Make
<1>2. PICK m : m = Meaning
  OBVIOUS
<1>3. Denotation(node, m)
  BY <1>2, MeaningDenotes
<1>4. HeapOK(node') /\ Denotation(node', Append(m, Content(x, m)))
  BY <1>1, <1>3, Grown
<1>5. Meaning' = Append(m, Content(x, m))
  <2>1. PICK o : o = Append(m, Content(x, m))
    OBVIOUS
  <2>2. Meaning' = o
    BY <1>4, <2>1, NextMeaning
  <2> QED
    BY <2>1, <2>2
<1>6. \A h \in 1 .. Len(node) : node'[h] = node[h]
  BY <1>1 DEF HeapOK
<1>7. answer' = [handle |-> Len(Meaning) + 1]
  BY <1>1, MeaningSeq
<1> QED
  BY <1>2, <1>4, <1>5, <1>6, <1>7 DEF Abstract!AnswersHandle

\* A handle that denotes the result already.
LEMMA ShareAnswers ==
    ASSUME HeapOK(node), NEW h \in 1 .. Len(node), Share(h)
    PROVE  /\ HeapOK(node') /\ UNCHANGED node
           /\ Abstract!AnswersHandle(Meaning[h])
<1>1. node' = node /\ answer' = [handle |-> h]
  BY DEF Share
<1>2. Meaning' = Meaning
  BY <1>1, SameMeaning
<1>3. h \in DOMAIN Meaning
  BY MeaningSeq
<1> QED
  BY <1>1, <1>2, <1>3 DEF Abstract!AnswersHandle

LEMMA TellAnswers ==
    ASSUME HeapOK(node), NEW plain, Tell(plain)
    PROVE  HeapOK(node') /\ UNCHANGED node /\ Abstract!Answers(plain)
<1>1. node' = node /\ answer' = plain
  BY DEF Tell
<1>2. Meaning' = Meaning
  BY <1>1, SameMeaning
<1> QED
  BY <1>1, <1>2 DEF Abstract!Answers

\* A literal, an updated copy and an empty slice are leaves.
LEMMA LeafAnswers ==
    ASSUME HeapOK(node), NEW values \in Values, Make(LeafNode(values))
    PROVE  HeapOK(node') /\ Abstract!AnswersHandle(values)
<1>1. PICK x : x = LeafNode(values)
  OBVIOUS
<1>2. x \in NodeRecord /\ NodeOK(node, x, Len(node) + 1) /\ Content(x, Meaning) = values
  BY <1>1 DEF LeafNode, NodeRecord, NodeOK, Content, Values
<1> QED
  BY <1>1, <1>2, MakeAnswers

LEMMA ConcatAnswers ==
    ASSUME HeapOK(node), NEW left \in 1 .. Len(node), NEW right \in 1 .. Len(node),
           Concat(left, right)
    PROVE  HeapOK(node') /\ Abstract!AnswersHandle(Meaning[left] \o Meaning[right])
<1>1. /\ Meaning[left] \in Values /\ Len(Meaning[left]) = node[left].length
      /\ Meaning[right] \in Values /\ Len(Meaning[right]) = node[right].length
  BY HandleIs
<1>2. node[left].length \in Nat /\ node[right].length \in Nat /\ Len(node) \in Nat
  BY HandleIs, Kinds, Handles
<1>3. CASE node[left].length = 0
  <2>1. Meaning[left] \o Meaning[right] = Meaning[right]
    <3>1. Meaning[left] = << >>
      BY <1>1, <1>3, EmptySeq DEF Values
    <3> QED
      BY <1>1, <3>1, ConcatEmptySeq DEF Values
  <2>2. Share(right)
    BY <1>3 DEF Concat
  <2> QED
    BY <2>1, <2>2, ShareAnswers
<1>4. CASE node[left].length # 0 /\ node[right].length = 0
  <2>1. Meaning[left] \o Meaning[right] = Meaning[left]
    <3>1. Meaning[right] = << >>
      BY <1>1, <1>4, EmptySeq DEF Values
    <3> QED
      BY <1>1, <3>1, ConcatEmptySeq DEF Values
  <2>2. Share(left)
    BY <1>4 DEF Concat
  <2> QED
    BY <2>1, <2>2, ShareAnswers
<1>5. CASE node[left].length # 0 /\ node[right].length # 0
  <2>1. PICK x : x = ConcatNode(left, right)
    OBVIOUS
  <2>2. /\ x \in NodeRecord /\ NodeOK(node, x, Len(node) + 1)
        /\ Content(x, Meaning) = Meaning[left] \o Meaning[right]
    <3>1. PICK n \in Nat, a \in Nat, b \in Nat :
               /\ n = Len(node) /\ left \in 1 .. n /\ right \in 1 .. n
               /\ a = node[left].length /\ b = node[right].length /\ a + b > 0 /\ a + b \in Nat
      BY <1>2, <1>5
    <3>2. /\ x.kind = "concat" /\ x.length = a + b /\ x.left = left /\ x.right = right
          /\ x = [kind |-> "concat", length |-> a + b, left |-> left, right |-> right]
      BY <2>1, <3>1 DEF ConcatNode
    <3>3. x \in NodeRecord
      BY <3>1, <3>2 DEF NodeRecord
    <3>4. NodeOK(node, x, n + 1)
      BY <3>1, <3>2 DEF NodeOK
    <3>5. Content(x, Meaning) = Meaning[left] \o Meaning[right]
      BY <3>2 DEF Content
    <3> QED
      BY <3>1, <3>3, <3>4, <3>5
  <2>3. Make(x)
    BY <1>5, <2>1 DEF Concat
  <2> QED
    BY <2>2, <2>3, MakeAnswers
<1> QED
  BY <1>3, <1>4, <1>5

LEMMA SliceAnswers ==
    ASSUME HeapOK(node), NEW h \in 1 .. Len(node),
           NEW from \in Int \cup {Omitted}, NEW until \in Int \cup {Omitted},
           Slice(h, from, until)
    PROVE  HeapOK(node') /\ Abstract!AnswersHandle(Abstract!Sliced(Meaning[h], from, until))
<1>1. Meaning[h] \in Values /\ Len(Meaning[h]) = node[h].length /\ h \in Nat /\ Len(node) \in Nat
  BY HandleIs, Handles
<1>2. PICK s \in Values : s = Meaning[h] /\ Len(s) = node[h].length
  BY <1>1
<1>3. PICK first \in Nat, last \in Nat, size \in Nat :
             /\ first = Clamp(Given(from, 0), Len(s))
             /\ last = Clamp(Given(until, Len(s)), Len(s))
             /\ size = Maximum(last - first, 0)
             /\ first + size <= Len(s)
             /\ Abstract!Sliced(s, from, until)
                  = IF size = 0 THEN << >> ELSE SubSeq(s, first + 1, first + size)
  BY <1>2, SlicedIs
<1>4. IF size = 0 THEN Make(LeafNode(<< >>))
      ELSE IF first = 0 /\ size = node[h].length THEN Share(h)
      ELSE Make(Rebased(h, first, size))
  BY <1>2, <1>3 DEF Slice
<1>5. CASE size = 0
  <2>1. << >> \in Values
    BY <1>1, JoinedEmpty
  <2>2. Make(LeafNode(<< >>))
    BY <1>4, <1>5
  <2>3. HeapOK(node') /\ Abstract!AnswersHandle(<< >>)
    BY <2>1, <2>2, LeafAnswers
  <2> QED
    BY <1>2, <1>3, <1>5, <2>3
<1>6. CASE size # 0 /\ first = 0 /\ size = node[h].length
  <2>1. Abstract!Sliced(s, from, until) = s
    <3>1. PICK u \in Values :
             /\ u = SubSeq(s, first + 1, first + size)
             /\ Len(u) = size
             /\ \A i \in 1 .. size : u[i] = s[first + i]
      <4>1. first \in Nat /\ size \in Nat /\ first + size <= Len(s)
        BY <1>3
      <4>2. /\ SubSeq(s, first + 1, first + size) \in Values
            /\ Len(SubSeq(s, first + 1, first + size)) = size
            /\ \A i \in 1 .. size : SubSeq(s, first + 1, first + size)[i] = s[first + i]
        BY <1>2, <4>1, PartIs
      <4> QED
        BY <4>2
    <3>2. \A i \in 0 .. size - 1 : u[i + 1] = s[i + 1]
      <4>1. \A i \in 0 .. size - 1 : i + 1 \in 1 .. size /\ first + (i + 1) = i + 1
        BY <1>6
      <4> QED
        BY <3>1, <4>1
    <3>3. Len(u) = Len(s) /\ Len(u) = size
      BY <1>2, <1>6, <3>1
    <3>4. u = s
      <4>1. u \in Values /\ \A i \in 0 .. Len(u) - 1 : u[i + 1] = s[i + 1]
        BY <3>1, <3>2, <3>3
      <4> QED
        BY <3>3, <4>1, SameIs
    <3> QED
      BY <1>3, <1>6, <3>1, <3>4
  <2>2. Share(h)
    BY <1>4, <1>6
  <2> QED
    BY <1>2, <2>1, <2>2, ShareAnswers
<1>7. CASE size # 0 /\ ~ (first = 0 /\ size = node[h].length)
  <2>1. PICK x : x = Rebased(h, first, size)
    OBVIOUS
  <2>2. Make(x)
    BY <1>4, <1>7, <2>1
  <2>3. /\ x \in NodeRecord /\ NodeOK(node, x, Len(node) + 1)
        /\ Content(x, Meaning) = SubSeq(s, first + 1, first + size)
    <3>1. CASE node[h].kind = "slice"
      <4>1. /\ node[h].base \in 1 .. h - 1 /\ node[node[h].base].kind # "slice"
            /\ node[h].start \in Nat /\ node[h].length \in Nat
            /\ node[h].start + node[h].length <= node[node[h].base].length
        BY <3>1, HandleIs, Kinds DEF NodeOK
      <4>2. PICK b \in Nat, start \in Nat, length \in Nat, t \in Values :
                 /\ b = node[h].base /\ b \in 1 .. Len(node) /\ node[b].kind # "slice"
                 /\ start = node[h].start /\ length = node[h].length
                 /\ t = Meaning[b] /\ Len(t) = node[b].length
                 /\ start + length <= Len(t)
        <5>1. PICK b \in Nat :
                   /\ b = node[h].base /\ b \in 1 .. Len(node) /\ node[b].kind # "slice"
                   /\ node[h].start + node[h].length <= node[b].length
          <6>1. node[h].base \in Nat /\ node[h].base \in 1 .. Len(node)
            BY <1>1, <4>1
          <6> QED
            BY <4>1, <6>1, Zenon
        <5>2. Meaning[b] \in Values /\ Len(Meaning[b]) = node[b].length
          BY <5>1, HandleIs
        <5> QED
          BY <4>1, <5>1, <5>2
      <4>3. s = SubSeq(t, start + 1, start + length)
        BY <1>2, <3>1, <4>2, HandleIs DEF Content
      <4>4. first + size <= length
        BY <1>2, <1>3, <4>2
      <4>5. SubSeq(s, first + 1, first + size) = SubSeq(t, start + first + 1, start + first + size)
        <5>1. t \in Values /\ start + length <= Len(t) /\ start \in Nat /\ length \in Nat
          BY <4>2
        <5>2. first \in Nat /\ size \in Nat
          BY <1>3
        <5>3. SubSeq(SubSeq(t, start + 1, start + length), first + 1, first + size)
                = SubSeq(t, start + first + 1, start + first + size)
          BY <4>4, <5>1, <5>2, PartOfPart
        <5> QED
          BY <4>3, <5>3
      <4>6. x = SliceNode(b, start + first, size)
        BY <2>1, <3>1, <4>2 DEF Rebased
      <4>7. x \in NodeRecord /\ NodeOK(node, x, Len(node) + 1)
        <5>1. PICK n \in Nat, a \in Nat, l \in Nat :
                   /\ n = Len(node) /\ b \in 1 .. n /\ a = start + first
                   /\ size \in Nat /\ size > 0 /\ l = node[b].length /\ a + size <= l
          <6>1. node[b].length \in Nat /\ b \in 1 .. Len(node) /\ Len(node) \in Nat
            BY <1>1, <4>2, HandleIs, Kinds
          <6>2. start + length <= node[b].length /\ start \in Nat /\ length \in Nat
            BY <4>2
          <6>3. first \in Nat /\ size \in Nat /\ size > 0
            <7>1. first \in Nat /\ size \in Nat /\ size # 0
              BY <1>3, <1>7, Zenon
            <7> QED
              BY <7>1
          <6>4. start + first \in Nat /\ start + first + size <= node[b].length
            <7> DEFINE o == start
                       l == length
                       m == node[b].length
            <7>1. o \in Nat /\ l \in Nat /\ m \in Nat /\ o + l <= m /\ first \in Nat /\ size \in Nat
              BY <6>1, <6>2, <6>3
            <7>2. first + size <= l
              BY <4>4
            <7> HIDE DEF o, l, m
            <7>3. o + first \in Nat /\ o + first + size <= m
              BY <7>1, <7>2
            <7> QED
              BY <7>3 DEF o, m
          <6> QED
            BY <6>1, <6>3, <6>4
        <5>2. /\ x.kind = "slice" /\ x.length = size /\ x.base = b /\ x.start = a
              /\ x = [kind |-> "slice", length |-> size, base |-> b, start |-> a]
          BY <4>6, <5>1 DEF SliceNode
        <5>3. x \in NodeRecord
          BY <4>2, <5>1, <5>2 DEF NodeRecord
        <5>4. NodeOK(node, x, n + 1)
          BY <4>2, <5>1, <5>2 DEF NodeOK
        <5> QED
          BY <5>1, <5>3, <5>4
      <4>8. Content(x, Meaning) = SubSeq(t, start + first + 1, start + first + size)
        BY <4>2, <4>6 DEF SliceNode, Content
      <4> QED
        BY <4>5, <4>7, <4>8
    <3>2. CASE node[h].kind # "slice"
      <4>1. x = SliceNode(h, first, size)
        BY <2>1, <3>2 DEF Rebased
      <4>2. x \in NodeRecord /\ NodeOK(node, x, Len(node) + 1)
        BY <1>1, <1>2, <1>3, <1>7, <3>2, <4>1 DEF SliceNode, NodeRecord, NodeOK
      <4>3. Content(x, Meaning) = SubSeq(s, first + 1, first + size)
        BY <1>2, <4>1 DEF SliceNode, Content
      <4> QED
        BY <4>2, <4>3
    <3> QED
      BY <3>1, <3>2
  <2>4. HeapOK(node') /\ Abstract!AnswersHandle(Content(x, Meaning))
    BY <2>2, <2>3, MakeAnswers
  <2> QED
    BY <1>2, <1>3, <1>7, <2>3, <2>4
<1> QED
  BY <1>5, <1>6, <1>7

LEMMA UpdateAnswers ==
    ASSUME HeapOK(node), NEW h \in 1 .. Len(node), node[h].kind = "leaf",
           NEW index \in Nat, index < node[h].length, NEW value \in Element,
           Update(h, index, value)
    PROVE  HeapOK(node') /\ Abstract!AnswersHandle([Meaning[h] EXCEPT ![index + 1] = value])
<1>1. node[h].values = Meaning[h] /\ Meaning[h] \in Values
  BY HandleIs, LeafIs
<1>2. PICK values : values = [Meaning[h] EXCEPT ![index + 1] = value]
  OBVIOUS
<1>3. values \in Values
  <2>1. PICK s \in Seq(Element) : s = Meaning[h]
    BY <1>1 DEF Values
  <2>2. PICK n \in Nat : n = Len(s) /\ s \in [1 .. n -> Element]
    BY <2>1
  <2>3. [s EXCEPT ![index + 1] = value] \in [1 .. n -> Element]
    BY <2>2
  <2>4. [s EXCEPT ![index + 1] = value] \in Seq(Element)
    BY <2>2, <2>3
  <2> QED
    BY <1>2, <2>1, <2>4 DEF Values
<1>4. Make(LeafNode(values))
  BY <1>1, <1>2 DEF Update
<1>5. HeapOK(node') /\ Abstract!AnswersHandle(values)
  BY <1>3, <1>4, LeafAnswers
<1> QED
  BY <1>2, <1>5

\* An element in range, once its source is a leaf.
LEMMA SelectIs ==
    ASSUME HeapOK(node), NEW h \in 1 .. Len(node), NEW index \in Int,
           index \in 0 .. node[h].length - 1 => node[Source(h)].kind = "leaf"
    PROVE  (IF index \in 0 .. node[h].length - 1 THEN ElementAt(h, index) ELSE Undefined)
             = IF index + 1 \in DOMAIN Meaning[h] THEN Meaning[h][index + 1] ELSE Undefined
<1>1. PICK n \in Nat :
             /\ n = node[h].length
             /\ n = Len(Meaning[h])
             /\ DOMAIN Meaning[h] = 1 .. n
  BY HandleIs DEF Values
<1>2. index \in 0 .. n - 1 <=> index + 1 \in 1 .. n
  BY <1>1
<1>3. ASSUME index \in 0 .. n - 1 PROVE ElementAt(h, index) = Meaning[h][index + 1]
  BY <1>1, <1>3, ElementAtIs
<1> QED
  BY <1>1, <1>2, <1>3

\* Comparing the elements of two sequences compares those of what they denote.
LEMMA ComparedIs ==
    ASSUME HeapOK(node), NEW left \in 1 .. Len(node), NEW right \in 1 .. Len(node),
           node[left].length <= node[right].length,
           \/ node[left].length = 0
           \/ node[Source(left)].kind = "leaf" /\ node[Source(right)].kind = "leaf"
    PROVE  (\A i \in 0 .. node[left].length - 1 : ElementAt(left, i) = ElementAt(right, i))
             <=> \A i \in 0 .. Len(Meaning[left]) - 1 : Meaning[left][i + 1] = Meaning[right][i + 1]
<1>1. PICK n \in Nat, k \in Nat :
             /\ n = node[left].length /\ n = Len(Meaning[left])
             /\ k = node[right].length /\ k = Len(Meaning[right])
  BY HandleIs, Kinds
<1>2. CASE n = 0
  BY <1>1, <1>2
<1>3. CASE n # 0
  <2>1. node[Source(left)].kind = "leaf" /\ node[Source(right)].kind = "leaf" /\ n <= k
    BY <1>1, <1>3
  <2>2. ASSUME NEW i \in 0 .. n - 1
        PROVE  /\ ElementAt(left, i) = Meaning[left][i + 1]
               /\ ElementAt(right, i) = Meaning[right][i + 1]
    <3>1. i \in 0 .. Len(Meaning[left]) - 1 /\ i \in 0 .. Len(Meaning[right]) - 1
      <4>1. i \in 0 .. n - 1 /\ i \in 0 .. k - 1
        BY <2>1
      <4> QED
        BY <1>1, <4>1
    <3> QED
      BY <2>1, <3>1, ElementAtIs
  <2> QED
    BY <1>1, <2>2
<1> QED
  BY <1>2, <1>3

LEMMA EqualIs ==
    ASSUME HeapOK(node), NEW c, c.op = "equals", Unforced(c) = {},
           c.left \in 1 .. Len(node), c.right \in 1 .. Len(node)
    PROVE  Equal(c.left, c.right) <=> Meaning[c.left] = Meaning[c.right]
<1>1. PICK l \in 1 .. Len(node), r \in 1 .. Len(node) : l = c.left /\ r = c.right
  OBVIOUS
<1>2. /\ Meaning[l] \in Values /\ Len(Meaning[l]) = node[l].length
      /\ Meaning[r] \in Values /\ Len(Meaning[r]) = node[r].length
      /\ node[l].length \in Nat /\ node[r].length \in Nat
  BY HandleIs, Kinds
<1>3. Meaning[l] = Meaning[r] <=>
        /\ node[l].length = node[r].length
        /\ \A i \in 0 .. Len(Meaning[l]) - 1 : Meaning[l][i + 1] = Meaning[r][i + 1]
  <2>1. Meaning[l] \in Values /\ Meaning[r] \in Values
    BY <1>2
  <2>2. Meaning[l] = Meaning[r] <=>
          /\ Len(Meaning[l]) = Len(Meaning[r])
          /\ \A i \in 0 .. Len(Meaning[l]) - 1 : Meaning[l][i + 1] = Meaning[r][i + 1]
    BY <2>1, SameIs
  <2>3. Len(Meaning[l]) = Len(Meaning[r]) <=> node[l].length = node[r].length
    BY <1>2
  <2> QED
    BY <2>2, <2>3
<1>4. CASE l = r
  BY <1>1, <1>4 DEF Equal
<1>5. CASE l # r /\ node[l].length # node[r].length
  BY <1>1, <1>3, <1>5 DEF Equal
<1>6. CASE l # r /\ node[l].length = node[r].length
  <2>1. \/ node[l].length = 0
        \/ node[Source(l)].kind = "leaf" /\ node[Source(r)].kind = "leaf"
    <3>1. CASE node[l].length # 0
      <4>1. Demands(c) = <<l, Source(r)>>
        BY <1>1, <1>6, <3>1 DEF Demands
      <4>2. node[l].kind = "leaf" /\ node[Source(r)].kind = "leaf"
        <5>1. 1 \in DOMAIN Demands(c) /\ 2 \in DOMAIN Demands(c)
          BY <4>1
        <5>2. node[Demands(c)[1]].kind = "leaf" /\ node[Demands(c)[2]].kind = "leaf"
          BY <5>1, ForcedIs
        <5> QED
          BY <4>1, <5>2
      <4> QED
        BY <4>2 DEF Source
    <3> QED
      BY <3>1
  <2>2. node[l].length <= node[r].length
    BY <1>2, <1>6
  <2>3. (\A i \in 0 .. node[l].length - 1 : ElementAt(l, i) = ElementAt(r, i))
          <=> \A i \in 0 .. Len(Meaning[l]) - 1 : Meaning[l][i + 1] = Meaning[r][i + 1]
    BY <2>1, <2>2, ComparedIs
  <2> QED
    BY <1>1, <1>3, <1>6, <2>3 DEF Equal
<1> QED
  BY <1>4, <1>5, <1>6

\* A prefix test that is not decided by the lengths reads both sequences flat.
LEMMA PrefixHolds ==
    ASSUME HeapOK(node), NEW c, c.op \in {"prefix", "properPrefix"}, Unforced(c) = {},
           c.left \in 1 .. Len(node), c.right \in 1 .. Len(node),
           c.op = "properPrefix" => node[c.left].length # node[c.right].length
    PROVE  IsPrefixOf(c.left, c.right) <=> Meaning[c.left] \in Abstract!Prefixes(Meaning[c.right])
<1>1. PICK l \in 1 .. Len(node), r \in 1 .. Len(node) : l = c.left /\ r = c.right
  OBVIOUS
<1>2. /\ Meaning[l] \in Values /\ Len(Meaning[l]) = node[l].length
      /\ Meaning[r] \in Values /\ Len(Meaning[r]) = node[r].length
      /\ node[l].length \in Nat /\ node[r].length \in Nat
  BY HandleIs, Kinds
<1>3. Meaning[l] \in Abstract!Prefixes(Meaning[r]) <=>
        /\ node[l].length <= node[r].length
        /\ \A i \in 0 .. Len(Meaning[l]) - 1 : Meaning[l][i + 1] = Meaning[r][i + 1]
  BY <1>2, PrefixIs
<1>4. CASE ~ (node[l].length <= node[r].length)
  BY <1>1, <1>3, <1>4 DEF IsPrefixOf
<1>5. CASE node[l].length <= node[r].length
  <2>1. \/ node[l].length = 0
        \/ node[Source(l)].kind = "leaf" /\ node[Source(r)].kind = "leaf"
    <3>1. CASE node[l].length # 0
      <4>1. ~ (node[r].length < node[l].length)
        BY <1>2, <1>5
      <4>2. Demands(c) = <<Source(l), Source(r)>>
        BY <1>1, <3>1, <4>1 DEF Demands
      <4>3. 1 \in DOMAIN Demands(c) /\ 2 \in DOMAIN Demands(c)
        BY <4>2
      <4>4. node[Demands(c)[1]].kind = "leaf" /\ node[Demands(c)[2]].kind = "leaf"
        BY <4>3, ForcedIs
      <4> QED
        BY <4>2, <4>4
    <3> QED
      BY <3>1
  <2>2. (\A i \in 0 .. node[l].length - 1 : ElementAt(l, i) = ElementAt(r, i))
          <=> \A i \in 0 .. Len(Meaning[l]) - 1 : Meaning[l][i + 1] = Meaning[r][i + 1]
    BY <1>5, <2>1, ComparedIs
  <2> QED
    BY <1>1, <1>3, <1>5, <2>2 DEF IsPrefixOf
<1> QED
  BY <1>4, <1>5

LEMMA ProperPrefixIs ==
    ASSUME HeapOK(node), NEW c, c.op = "properPrefix", Unforced(c) = {},
           c.left \in 1 .. Len(node), c.right \in 1 .. Len(node)
    PROVE  (node[c.left].length < node[c.right].length /\ IsPrefixOf(c.left, c.right))
             <=> (/\ Meaning[c.left] \in Abstract!Prefixes(Meaning[c.right])
                  /\ Meaning[c.left] # Meaning[c.right])
<1>1. PICK l \in 1 .. Len(node), r \in 1 .. Len(node) : l = c.left /\ r = c.right
  OBVIOUS
<1>2. /\ Meaning[l] \in Values /\ Len(Meaning[l]) = node[l].length
      /\ Meaning[r] \in Values /\ Len(Meaning[r]) = node[r].length
      /\ node[l].length \in Nat /\ node[r].length \in Nat
  BY HandleIs, Kinds
<1>3. Meaning[l] \in Abstract!Prefixes(Meaning[r]) <=>
        /\ Len(Meaning[l]) <= Len(Meaning[r])
        /\ \A i \in 0 .. Len(Meaning[l]) - 1 : Meaning[l][i + 1] = Meaning[r][i + 1]
  BY <1>2, PrefixIs
<1>4. Meaning[l] = Meaning[r] <=>
        /\ Len(Meaning[l]) = Len(Meaning[r])
        /\ \A i \in 0 .. Len(Meaning[l]) - 1 : Meaning[l][i + 1] = Meaning[r][i + 1]
  <2>1. Meaning[l] \in Values /\ Meaning[r] \in Values
    BY <1>2
  <2> QED
    BY <2>1, SameIs
<1>5. CASE node[l].length = node[r].length
  <2>1. Meaning[l] \in Abstract!Prefixes(Meaning[r]) => Meaning[l] = Meaning[r]
    BY <1>2, <1>3, <1>4, <1>5
  <2>2. ~ (node[l].length < node[r].length)
    BY <1>2, <1>5
  <2> QED
    BY <1>1, <2>1, <2>2
<1>6. CASE node[l].length # node[r].length
  <2>1. IsPrefixOf(l, r) <=> Meaning[l] \in Abstract!Prefixes(Meaning[r])
    BY <1>1, <1>6, PrefixHolds
  <2>2. Meaning[l] # Meaning[r]
    BY <1>2, <1>6
  <2>3. Meaning[l] \in Abstract!Prefixes(Meaning[r]) => node[l].length < node[r].length
    <3>1. Meaning[l] \in Abstract!Prefixes(Meaning[r]) => node[l].length <= node[r].length
      BY <1>2, <1>3
    <3> QED
      BY <1>2, <1>6, <3>1
  <2> QED
    BY <1>1, <2>1, <2>2, <2>3
<1> QED
  BY <1>5, <1>6

\* A call that tests something answers with the truth.
LEMMA TestAnswers ==
    ASSUME HeapOK(node), NEW p \in BOOLEAN, NEW q \in BOOLEAN, p <=> q, Tell([holds |-> p])
    PROVE  HeapOK(node') /\ Abstract!Answers([holds |-> q])
<1>1. p = q
  OBVIOUS
<1> QED
  BY <1>1, TellAnswers

\* Whatever the call, the reply is the one the values behind the handles give.
LEMMA ReplyAnswers ==
    ASSUME IInv, Reply
    PROVE  HeapOK(node') /\ Abstract!Reply
<1>1. HeapOK(node) /\ call \in Abstract!Calls(Handle) /\ Handle = 1 .. Len(node)
  BY Handles DEF IInv, CallOK, Reply
<1>2. call # Idle /\ call' = Idle /\ Unforced(call) = {}
  BY DEF Reply
<1>3. Literal \subseteq Values /\ Offset \subseteq Int
  BY SequenceAssumption DEF Values
<1>4. PICK c : c = call /\ c \in Abstract!Calls(1 .. Len(node)) /\ Unforced(c) = {}
  BY <1>1, <1>2
<1>5. CASE c.op = "of"
  <2>1. c.values \in Values
    BY <1>3, <1>4, <1>5, CallIs
  <2>2. Make(LeafNode(c.values))
    BY <1>4, <1>5 DEF Reply
  <2>3. HeapOK(node') /\ Abstract!AnswersHandle(c.values)
    BY <1>1, <2>1, <2>2, LeafAnswers
  <2> QED
    BY <1>2, <1>4, <1>5, <2>3 DEF Abstract!Reply
<1>6. CASE c.op = "concat"
  <2>1. c.left \in 1 .. Len(node) /\ c.right \in 1 .. Len(node)
    BY <1>4, <1>6, CallIs
  <2>2. Concat(c.left, c.right)
    BY <1>4, <1>6 DEF Reply
  <2>3. HeapOK(node') /\ Abstract!AnswersHandle(Meaning[c.left] \o Meaning[c.right])
    BY <1>1, <2>1, <2>2, ConcatAnswers
  <2> QED
    BY <1>2, <1>4, <1>6, <2>3 DEF Abstract!Reply
<1>7. CASE c.op = "slice"
  <2>1. /\ c.of \in 1 .. Len(node)
        /\ c.from \in Int \cup {Omitted} /\ c.until \in Int \cup {Omitted}
    BY <1>3, <1>4, <1>7, CallIs
  <2>2. Slice(c.of, c.from, c.until)
    BY <1>4, <1>7 DEF Reply
  <2>3. HeapOK(node') /\ Abstract!AnswersHandle(Abstract!Sliced(Meaning[c.of], c.from, c.until))
    BY <1>1, <2>1, <2>2, SliceAnswers
  <2> QED
    BY <1>2, <1>4, <1>7, <2>3 DEF Abstract!Reply
<1>8. CASE c.op = "update"
  <2>1. c.of \in 1 .. Len(node) /\ c.index \in Nat /\ c.value \in Element
    BY <1>4, <1>8, CallIs
  <2>2. c.index < node[c.of].length
    BY <1>2, <1>4, <1>8 DEF IInv, CallOK
  <2>3. Update(c.of, c.index, c.value)
    BY <1>4, <1>8 DEF Reply
  <2>4. node[c.of].kind = "leaf"
    <3>1. Demands(c) = <<c.of>>
      BY <1>8 DEF Demands
    <3> QED
      BY <1>4, <3>1, ForcedIs
  <2>5. HeapOK(node') /\ Abstract!AnswersHandle([Meaning[c.of] EXCEPT ![c.index + 1] = c.value])
    <3>1. PICK h \in 1 .. Len(node), index \in Nat, value \in Element :
               h = c.of /\ index = c.index /\ value = c.value
      BY <2>1
    <3>2. HeapOK(node') /\ Abstract!AnswersHandle([Meaning[h] EXCEPT ![index + 1] = value])
      BY <1>1, <2>2, <2>3, <2>4, <3>1, UpdateAnswers
    <3> QED
      BY <3>1, <3>2
  <2> QED
    BY <1>2, <1>4, <1>8, <2>5 DEF Abstract!Reply
<1>9. CASE c.op = "select"
  <2>1. PICK h \in 1 .. Len(node), index \in Int : h = c.of /\ index = c.index
    BY <1>3, <1>4, <1>9, CallIs
  <2>2. index \in 0 .. node[h].length - 1 => node[Source(h)].kind = "leaf"
    <3>1. ASSUME index \in 0 .. node[h].length - 1 PROVE node[Source(h)].kind = "leaf"
      <4>1. Demands(c) = <<Source(h)>>
        BY <1>9, <2>1, <3>1 DEF Demands
      <4> QED
        BY <1>4, <4>1, ForcedIs
    <3> QED
      BY <3>1
  <2>3. PICK found :
             /\ found = IF index \in 0 .. node[h].length - 1 THEN ElementAt(h, index) ELSE Undefined
             /\ found = IF index + 1 \in DOMAIN Meaning[h] THEN Meaning[h][index + 1] ELSE Undefined
    BY <1>1, <2>2, SelectIs
  <2>4. Tell([element |-> found])
    BY <1>4, <1>9, <2>1, <2>3 DEF Reply, Select
  <2>5. HeapOK(node') /\ Abstract!Answers([element |-> found])
    BY <1>1, <2>4, TellAnswers
  <2> QED
    BY <1>2, <1>4, <1>9, <2>1, <2>3, <2>5 DEF Abstract!Reply
<1>10. CASE c.op = "equals"
  <2>1. c.left \in 1 .. Len(node) /\ c.right \in 1 .. Len(node)
    BY <1>4, <1>10, CallIs
  <2>2. Equal(c.left, c.right) <=> Meaning[c.left] = Meaning[c.right]
    BY <1>1, <1>4, <1>10, <2>1, EqualIs
  <2>3. Tell([holds |-> Equal(c.left, c.right)])
    BY <1>4, <1>10 DEF Reply
  <2>4. Equal(c.left, c.right) \in BOOLEAN
    BY DEF Equal
  <2>5. HeapOK(node') /\ Abstract!Answers([holds |-> Meaning[c.left] = Meaning[c.right]])
    BY <1>1, <2>2, <2>3, <2>4, TestAnswers
  <2> QED
    BY <1>2, <1>4, <1>10, <2>5 DEF Abstract!Reply
<1>11. CASE c.op = "prefix"
  <2>1. c.left \in 1 .. Len(node) /\ c.right \in 1 .. Len(node)
    BY <1>4, <1>11, CallIs
  <2>2. IsPrefixOf(c.left, c.right) <=> Meaning[c.left] \in Abstract!Prefixes(Meaning[c.right])
    BY <1>1, <1>4, <1>11, <2>1, PrefixHolds
  <2>3. Tell([holds |-> IsPrefixOf(c.left, c.right)])
    BY <1>4, <1>11 DEF Reply
  <2>4. IsPrefixOf(c.left, c.right) \in BOOLEAN
    BY DEF IsPrefixOf
  <2>5. HeapOK(node')
          /\ Abstract!Answers([holds |-> Meaning[c.left] \in Abstract!Prefixes(Meaning[c.right])])
    BY <1>1, <2>2, <2>3, <2>4, TestAnswers
  <2> QED
    BY <1>2, <1>4, <1>11, <2>5 DEF Abstract!Reply
<1>12. CASE c.op = "properPrefix"
  <2>1. c.left \in 1 .. Len(node) /\ c.right \in 1 .. Len(node)
    BY <1>4, <1>12, CallIs
  <2>2. (node[c.left].length < node[c.right].length /\ IsPrefixOf(c.left, c.right))
          <=> (/\ Meaning[c.left] \in Abstract!Prefixes(Meaning[c.right])
               /\ Meaning[c.left] # Meaning[c.right])
    BY <1>1, <1>4, <1>12, <2>1, ProperPrefixIs
  <2>3. Tell([holds |-> node[c.left].length < node[c.right].length /\ IsPrefixOf(c.left, c.right)])
    BY <1>4, <1>12 DEF Reply
  <2>4. HeapOK(node')
          /\ Abstract!Answers([holds |-> /\ Meaning[c.left] \in Abstract!Prefixes(Meaning[c.right])
                                         /\ Meaning[c.left] # Meaning[c.right]])
    BY <1>1, <2>2, <2>3, TestAnswers
  <2> QED
    BY <1>2, <1>4, <1>12, <2>4 DEF Abstract!Reply
<1>13. CASE c.op = "contains"
  <2>1. c.of \in 1 .. Len(node)
    BY <1>4, <1>13, CallIs
  <2>2. node[c.of].values = Meaning[c.of]
    <3>1. Demands(c) = <<c.of>>
      BY <1>13 DEF Demands
    <3>2. node[c.of].kind = "leaf"
      BY <1>4, <3>1, ForcedIs
    <3> QED
      BY <1>1, <2>1, <3>2, LeafIs
  <2>3. Tell([holds |-> \E i \in DOMAIN Meaning[c.of] : Meaning[c.of][i] = c.value])
    BY <1>4, <1>13, <2>2 DEF Reply, Contains
  <2>4. /\ HeapOK(node')
        /\ Abstract!Answers([holds |-> \E i \in DOMAIN Meaning[c.of] : Meaning[c.of][i] = c.value])
    BY <1>1, <2>3, TellAnswers
  <2> QED
    BY <1>2, <1>4, <1>13, <2>4 DEF Abstract!Reply
<1>14. CASE c.op = "elements"
  <2>1. c.of \in 1 .. Len(node)
    BY <1>4, <1>14, CallIs
  <2>2. node[c.of].values = Meaning[c.of]
    <3>1. Demands(c) = <<c.of>>
      BY <1>14 DEF Demands
    <3>2. node[c.of].kind = "leaf"
      BY <1>4, <3>1, ForcedIs
    <3> QED
      BY <1>1, <2>1, <3>2, LeafIs
  <2>3. Tell([values |-> Meaning[c.of]])
    BY <1>4, <1>14, <2>2 DEF Reply
  <2>4. HeapOK(node') /\ Abstract!Answers([values |-> Meaning[c.of]])
    BY <1>1, <2>3, TellAnswers
  <2> QED
    BY <1>2, <1>4, <1>14, <2>4 DEF Abstract!Reply
<1> QED
  BY <1>4, <1>5, <1>6, <1>7, <1>8, <1>9, <1>10, <1>11, <1>12, <1>13, <1>14, CallIs

LEMMA ReplyKeeps ==
    ASSUME IInv, Reply
    PROVE  IInv'
<1>1. HeapOK(node')
  BY ReplyAnswers
<1>2. call' = Idle /\ frames' = << >>
  BY DEF Reply
<1>3. PICK n, m : n = node' /\ m = Meaning'
  OBVIOUS
<1>4. FramesOK(<< >>, n, m)
  BY NoActivation
<1>5. CallOK'
  BY <1>2 DEF CallOK
<1> QED
  BY <1>1, <1>2, <1>3, <1>4, <1>5 DEF IInv

-----------------------------------------------------------------------------
(* The invariant holds, and every step is one of immutable sequences.      *)

LEMMA InitIInv == Init => IInv /\ Abstract!Init
<1> SUFFICES ASSUME Init PROVE IInv /\ Abstract!Init
  OBVIOUS
<1>1. node = << >> /\ frames = << >> /\ call = Idle /\ answer = << >>
  BY DEF Init
<1>2. PICK n : n = node
  OBVIOUS
<1>3. n \in Seq(NodeRecord) /\ Len(n) = 0
  BY <1>1, <1>2, EmptySeq
<1>4. HeapOK(n)
  BY <1>3 DEF HeapOK
<1>5. Denotation(n, << >>)
  BY <1>3 DEF Denotation, Denotes
<1>6. Meaning = << >>
  BY <1>2, <1>4, <1>5, MeaningIs DEF MeaningFits
<1>7. FramesOK(frames, node, Meaning)
  BY <1>1, NoActivation
<1>8. CallOK
  BY <1>1 DEF CallOK
<1> QED
  BY <1>1, <1>2, <1>4, <1>6, <1>7, <1>8 DEF IInv, Abstract!Init

\* What the steps between a call and its reply do is not to be seen.
LEMMA QuietSteps ==
    ASSUME IInv,
           FlattenLeaf \/ FlattenConcat \/ FlattenSlice \/ Materialize \/ ForceDemand \/ UNCHANGED vars
    PROVE  IInv' /\ UNCHANGED <<Meaning, call, answer>>
<1>1. IInv' /\ Meaning' = Meaning
  BY FlattenLeafKeeps, FlattenConcatKeeps, FlattenSliceKeeps, MaterializeKeeps, ForceKeeps, CallerKeeps
<1>2. UNCHANGED <<call, answer>>
  BY DEF FlattenLeaf, FlattenConcat, FlattenSlice, Materialize, ForceDemand, vars
<1> QED
  BY <1>1, <1>2

LEMMA CallerSteps ==
    ASSUME IInv, Invoke \/ Take
    PROVE  IInv' /\ (Abstract!Invoke \/ Abstract!Take)
<1>1. IInv' /\ Meaning' = Meaning
  BY CallerKeeps
<1>2. HeapOK(node) /\ DOMAIN Meaning = Handle
  BY Handles, MeaningSeq DEF IInv
<1>3. CASE Invoke
  <2>1. PICK c \in Abstract!Calls(Handle) : WithinBounds(c) /\ call' = c
    BY <1>3 DEF Invoke
  <2>2. Abstract!Admissible(c)
    <3>1. CASE c.op = "update"
      <4>1. c.of \in 1 .. Len(node)
        BY <1>2, <2>1, <3>1, CallIs, Handles
      <4>2. Len(Meaning[c.of]) = node[c.of].length
        BY <1>2, <4>1, HandleIs
      <4> QED
        BY <2>1, <3>1, <4>2 DEF WithinBounds, Abstract!Admissible
    <3>2. CASE c.op # "update"
      BY <3>2 DEF Abstract!Admissible
    <3> QED
      BY <3>1, <3>2
  <2>3. call = Idle /\ answer = << >> /\ answer' = answer
    BY <1>3 DEF Invoke
  <2>4. Abstract!Invoke
    BY <1>1, <1>2, <2>1, <2>2, <2>3 DEF Abstract!Invoke
  <2> QED
    BY <1>1, <2>4
<1>4. CASE Take
  BY <1>1, <1>4 DEF Take, Abstract!Take
<1> QED
  BY <1>3, <1>4

LEMMA NextIInv ==
    ASSUME IInv, [Next]_vars
    PROVE  IInv' /\ [Abstract!Next]_<<Meaning, call, answer>>
<1>1. CASE Invoke \/ Take
  BY <1>1, CallerSteps DEF Abstract!Next
<1>2. CASE Reply
  BY <1>2, ReplyKeeps, ReplyAnswers DEF Abstract!Next
<1>3. CASE FlattenLeaf \/ FlattenConcat \/ FlattenSlice \/ Materialize \/ ForceDemand \/ UNCHANGED vars
  BY <1>3, QuietSteps
<1> QED
  BY <1>1, <1>2, <1>3 DEF Next, Work

LEMMA Inductive == Spec => []IInv
<1>1. Init => IInv
  BY InitIInv
<1>2. IInv /\ [Next]_vars => IInv'
  BY NextIInv
<1> QED
  BY <1>1, <1>2, PTL DEF Spec

-----------------------------------------------------------------------------
(* What the sequences promise.                                             *)

\* The heap holds leaves, concats and slices of known handles, with lengths
\* that add up, and the activations hold handles and elements.
THEOREM TypeCorrect == Spec => []TypeOK
<1>1. IInv => TypeOK
  <2> SUFFICES ASSUME IInv PROVE TypeOK
    OBVIOUS
  <2>1. HeapOK(node) /\ FramesOK(frames, node, Meaning) /\ Handle = 1 .. Len(node)
    BY Handles DEF IInv
  <2>2. ASSUME NEW h \in Handle
        PROVE  \/ /\ node[h].kind = "leaf" /\ node[h].values \in Seq(Element)
                  /\ node[h].length = Len(node[h].values)
               \/ /\ node[h].kind = "concat" /\ {node[h].left, node[h].right} \subseteq Handle
                  /\ node[h].length = node[node[h].left].length + node[node[h].right].length
               \/ /\ node[h].kind = "slice" /\ node[h].base \in Handle
                  /\ node[h].start \in Nat /\ node[h].length \in Nat
    <3>1. node[h] \in NodeRecord /\ NodeOK(node, node[h], h) /\ h \in 1 .. Len(node)
      BY <2>1, <2>2, HandleIs
    <3>2. \A g \in 1 .. h - 1 : g \in Handle
      BY <2>1, <3>1, Handles
    <3>3. CASE node[h].kind = "leaf"
      BY <3>1, <3>3, Kinds DEF NodeOK, Values
    <3>4. CASE node[h].kind = "concat"
      BY <3>1, <3>2, <3>4 DEF NodeOK
    <3>5. CASE node[h].kind = "slice"
      BY <3>1, <3>2, <3>5, Kinds DEF NodeOK
    <3> QED
      BY <3>1, <3>3, <3>4, <3>5, Kinds
  <2>3. ASSUME NEW i \in DOMAIN frames
        PROVE  /\ frames[i].node \in Handle
               /\ frames[i].stack \in Seq(Handle)
               /\ frames[i].flattened \in Seq(Element)
    <3>1. FrameOK(frames[i], node, Meaning)
      BY <2>1 DEF FramesOK
    <3>2. PICK h \in Nat, s \in Seq(Nat), v \in Values, k \in Nat :
               /\ h = frames[i].node /\ s = frames[i].stack /\ v = frames[i].flattened /\ k = Len(s)
               /\ h \in 1 .. Len(node)
               /\ \A j \in 1 .. k : s[j] \in 1 .. h
      BY <3>1, FrameParts
    <3>3. s \in Seq(Handle)
      <4>1. \A j \in 1 .. Len(s) : s[j] \in Handle
        BY <2>1, <3>2, Handles
      <4>2. s \in Seq(Nat)
        BY <3>2, Zenon
      <4> QED
        BY <4>1, <4>2
    <3> QED
      BY <2>1, <3>2, <3>3 DEF Values
  <2>4. call \in Abstract!Calls(Handle) \cup {Idle}
    BY DEF IInv, CallOK
  <2> QED
    BY <2>2, <2>3, <2>4 DEF TypeOK
<1> QED
  BY <1>1, Inductive, PTL

\* Views refer to older sequences, slices to no slice and never past the end of
\* their base, and no view is empty: what bounds every traversal (_select and
\* _forceValues of dafny-seq.js).
THEOREM LooksBack == Spec => []ViewsLookBack
<1>1. IInv => ViewsLookBack
  <2> SUFFICES ASSUME IInv, NEW h \in Handle
               PROVE  /\ node[h].kind = "concat" => /\ node[h].left < h /\ node[h].right < h
                                                    /\ node[h].length > 0
                      /\ node[h].kind = "slice" =>
                           /\ node[h].base < h /\ node[node[h].base].kind # "slice"
                           /\ 0 < node[h].length
                           /\ node[h].start + node[h].length <= node[node[h].base].length
    BY DEF ViewsLookBack
  <2>1. HeapOK(node) /\ h \in 1 .. Len(node)
    BY Handles DEF IInv
  <2>2. NodeOK(node, node[h], h) /\ h \in Nat /\ node[h].length \in Nat
    BY <2>1, HandleIs, Kinds
  <2> QED
    BY <2>2 DEF NodeOK
<1> QED
  BY <1>1, Inductive, PTL

\* A reply may add a node and changes none.
LEMMA ReplyOnlyAdds ==
    ASSUME IInv, Reply
    PROVE  \A h \in Handle : node'[h] = node[h]
<1>1. node \in Seq(NodeRecord) /\ Handle = 1 .. Len(node)
  BY Handles DEF IInv, HeapOK
<1>2. node' = node \/ \E x : Make(x)
  <2>1. \A h : Share(h) => node' = node
    BY DEF Share
  <2>2. \A plain : Tell(plain) => node' = node
    BY DEF Tell
  <2>3. \A l, r : Concat(l, r) => node' = node \/ \E x : Make(x)
    BY <2>1 DEF Concat
  <2>4. \A h, from, until : Slice(h, from, until) => node' = node \/ \E x : Make(x)
    BY <2>1 DEF Slice
  <2>5. \A h, index, value : Update(h, index, value) => \E x : Make(x)
    BY DEF Update
  <2>6. \A h, index : Select(h, index) => node' = node
    BY <2>2 DEF Select
  <2>7. call \in Abstract!Calls(Handle)
    BY DEF IInv, CallOK, Reply
  <2>8. CASE call.op \in {"of", "concat", "slice", "update"}
    BY <2>3, <2>4, <2>5, <2>8 DEF Reply
  <2>9. CASE call.op \in {"select", "equals", "prefix", "properPrefix", "contains", "elements"}
    BY <2>2, <2>6, <2>9 DEF Reply
  <2> QED
    BY <2>7, <2>8, <2>9, CallIs
<1>3. ASSUME NEW x, Make(x) PROVE \A h \in Handle : node'[h] = node[h]
  <2>1. PICK S : S = NodeRecord \cup {x}
    OBVIOUS
  <2>2. node \in Seq(S) /\ x \in S
    BY <1>1, <2>1
  <2>3. \A h \in 1 .. Len(node) : Append(node, x)[h] = node[h]
    BY <2>2, AppendProperties
  <2> QED
    BY <1>1, <1>3, <2>3 DEF Make
<1> QED
  BY <1>2, <1>3

\* The outermost activation returns only when its node became a leaf.
LEMMA LastReturns ==
    ASSUME IInv, [Next]_vars, frames # << >>, frames' = << >>
    PROVE  Materialize /\ frames[1] = Running
<1>1. frames \in Seq(FrameRecord)
  BY DEF IInv, FramesOK
<1>2. PICK k \in Nat \ {0}, u \in Seq(FrameRecord) :
             /\ k = Len(frames)
             /\ u = Front(frames)
             /\ Len(u) = k - 1
  BY <1>1, FrontIs
<1>3. \A more, values : ~ Proceed(more, values)
  <2>1. \A g : Append(u, g) # << >>
    <3>1. ASSUME NEW g PROVE Append(u, g) # << >>
      <4>1. PICK S : S = FrameRecord \cup {g}
        OBVIOUS
      <4>2. u \in Seq(S) /\ g \in S
        BY <1>2, <4>1
      <4> QED
        BY <4>2, AppendProperties
    <3> QED
      BY <3>1
  <2> QED
    BY <1>2, <2>1 DEF Proceed, Callers, Front
<1>4. \A h : frames' # Append(frames, Frame(h))
  <2>1. ASSUME NEW h PROVE frames' # Append(frames, Frame(h))
    <3>1. PICK g, S : g = Frame(h) /\ S = FrameRecord \cup {g}
      OBVIOUS
    <3>2. frames \in Seq(S) /\ g \in S
      BY <1>1, <3>1
    <3>3. Append(frames, g) # << >>
      BY <3>2, AppendProperties
    <3> QED
      BY <3>1, <3>3
  <2> QED
    BY <2>1
<1>5. ~ FlattenLeaf /\ ~ FlattenConcat /\ ~ FlattenSlice
  BY <1>3, <1>4 DEF FlattenLeaf, FlattenConcat, FlattenSlice
<1>6. ~ Invoke /\ ~ Take /\ ~ ForceDemand /\ ~ Reply /\ ~ UNCHANGED vars
  BY DEF Invoke, Take, ForceDemand, Reply, vars
<1>7. Materialize
  BY <1>5, <1>6 DEF Next, Work
<1>8. u = << >>
  BY <1>2, <1>7, MaterializeIs
<1>9. k = 1
  <2>1. Len(u) = 0
    BY <1>8
  <2>2. k \in Nat /\ Len(u) = k - 1
    BY <1>2
  <2> QED
    BY <2>1, <2>2
<1> QED
  BY <1>2, <1>7, <1>9 DEF Running

\* A node changes once, from a view into the leaf of what it denoted, and no
\* activation forces a node another one is still to force (_forceValues).
THEOREM MaterializesEachOnce == Spec => MaterializesOnce
<1> DEFINE Once ==
      /\ \A h \in Handle :
            node'[h] # node[h] => /\ node[h].kind # "leaf"
                                  /\ node'[h] = LeafNode(Meaning[h])
      /\ \A i, j \in DOMAIN frames' : i # j => frames'[i].node # frames'[j].node
      /\ frames # << >> /\ frames' = << >> => node'[frames[1].node].kind = "leaf"
<1>1. ASSUME IInv, IInv', [Next]_vars PROVE [Once]_vars
  <2>1. ASSUME NEW h \in Handle, node'[h] # node[h]
        PROVE  node[h].kind # "leaf" /\ node'[h] = LeafNode(Meaning[h])
    <3>1. CASE Materialize
      <4>1. PICK r, m :
                 /\ node' = [node EXCEPT ![r] = LeafNode(m[r])]
                 /\ node[r].kind # "leaf" /\ m = Meaning
        BY <1>1, <3>1, MaterializeIs
      <4>2. h = r
        BY <2>1, <4>1 DEF Handle
      <4> QED
        BY <2>1, <4>1, <4>2 DEF Handle
    <3>2. CASE ~ Materialize
      BY <1>1, <2>1, <3>2, ReplyOnlyAdds
         DEF Next, Work, Invoke, Take, FlattenLeaf, FlattenConcat, FlattenSlice, ForceDemand, vars
    <3> QED
      BY <3>1, <3>2
  <2>2. ASSUME NEW i \in DOMAIN frames', NEW j \in DOMAIN frames', i # j
        PROVE  frames'[i].node # frames'[j].node
    <3>1. PICK fs, n, m : fs = frames' /\ n = node' /\ m = Meaning' /\ FramesOK(fs, n, m)
      BY <1>1 DEF IInv
    <3>2. fs \in Seq(FrameRecord) /\ i \in 1 .. Len(fs) /\ j \in 1 .. Len(fs)
      BY <2>2, <3>1 DEF FramesOK
    <3>3. fs[i].node \in Nat /\ fs[j].node \in Nat
      <4>1. fs[i] \in FrameRecord /\ fs[j] \in FrameRecord
        BY <3>2, ElementOfSeq
      <4> QED
        BY <4>1 DEF FrameRecord
    <3>4. i < j \/ j < i
      BY <2>2, <3>2
    <3>5. fs[j].node < fs[i].node \/ fs[i].node < fs[j].node
      BY <3>1, <3>2, <3>4 DEF FramesOK
    <3> QED
      BY <3>1, <3>3, <3>5
  <2>3. ASSUME frames # << >>, frames' = << >>
        PROVE  node'[frames[1].node].kind = "leaf"
    <3>1. Materialize /\ frames[1] = Running
      BY <1>1, <2>3, LastReturns
    <3>2. PICK h, v :
               /\ h = Running.node /\ h \in 1 .. Len(node)
               /\ node' = [node EXCEPT ![h] = LeafNode(v)]
      BY <1>1, <3>1, MaterializeIs
    <3>3. node'[h] = LeafNode(v)
      BY <3>2 DEF IInv, HeapOK
    <3> QED
      BY <3>1, <3>2, <3>3 DEF LeafNode
  <2> QED
    BY <2>1, <2>2, <2>3
<1>2. IInv /\ IInv' /\ [Next]_vars => [Once]_vars
  BY <1>1
<1> QED
  BY <1>2, Inductive, PTL DEF Spec, MaterializesOnce

\* Sharing, slicing and forcing in place are invisible to the callers.
THEOREM Implements == Spec => ImplementsPersistentSequence
<1>1. Init => Abstract!Init
  BY InitIInv
<1>2. IInv /\ [Next]_vars => [Abstract!Next]_<<Meaning, call, answer>>
  BY NextIInv
<1> QED
  BY <1>1, <1>2, Inductive, PTL DEF Spec, ImplementsPersistentSequence, Abstract!Spec, Abstract!vars

-----------------------------------------------------------------------------
(* Inner maps.                                                             *)

Item       == Key \cup { PairOf(k, v) : k, v \in Key }
EntryOf    == [key : Item, value : Item]
SetEntries == { [key |-> e, value |-> e] : e \in Item }
MapEntries == [key : Key, value : Key]

Inner(E) == [linear : BOOLEAN, entries : Seq(E)]

Distinct(x) == \A i, j \in DOMAIN x.entries :
                  Value(x.entries[i].key) = Value(x.entries[j].key) => i = j

GoodInner(E) == { x \in Inner(E) : Distinct(x) }

Held(x) == Objects(x.entries)

\* Entries of Sets and of Maps are entries of items.
LEMMA EntrySets == SetEntries \subseteq EntryOf /\ MapEntries \subseteq EntryOf
BY DEF SetEntries, MapEntries, EntryOf, Item

\* Keys are no pairs.
LEMMA KeyValue ==
    ASSUME NEW k \in Key
    PROVE  Value(k) = SingleValue(k) /\ Text(k) = SingleText(k)
BY KeyAssumption DEF Value, Text

\* The value and the text of a pair are made from those of its sides.
LEMMA PairValue ==
    ASSUME NEW k \in Key, NEW v \in Key
    PROVE  /\ Value(PairOf(k, v)) = PairOf(Value(k), Value(v))
           /\ Text(PairOf(k, v)) = <<40>> \o Joined(<<SingleText(k), SingleText(v)>>) \o <<41>>
<1>1. /\ "left" \in DOMAIN PairOf(k, v)
      /\ PairOf(k, v).left = k /\ PairOf(k, v).right = v
  BY DEF PairOf
<1> QED
  BY <1>1, KeyValue, Zenon DEF Value, Text

\* No key has the value of a pair: a set of items never mixes them up.
LEMMA PairsAreNoKeys ==
    ASSUME NEW k, NEW v, NEW l \in Key
    PROVE  Value(l) # PairOf(k, v)
<1>1. "left" \in DOMAIN PairOf(k, v) /\ "members" \notin DOMAIN PairOf(k, v)
  BY DEF PairOf
<1>2. Value(l) = l \/ Value(l) = [members |-> Objects(l.members)]
  BY KeyValue DEF SingleValue
<1>3. "left" \notin DOMAIN l
  BY KeyAssumption
<1>4. "left" \notin DOMAIN [members |-> Objects(l.members)]
  OBVIOUS
<1> QED
  BY <1>1, <1>2, <1>3, <1>4

\* Where equal keys have one text, so have equal pairs of keys.
LEMMA OneHash ==
    ASSUME OneText, NEW k \in Item, NEW l \in Item, Value(k) = Value(l)
    PROVE  HashCode(k) = HashCode(l)
<1>1. Text(k) = Text(l)
  <2>1. CASE k \in Key /\ l \in Key
    BY <2>1, Zenon DEF OneText, AreEqual
  <2>2. CASE k \notin Key /\ l \in Key
    <3>1. PICK m \in Key, v \in Key : k = PairOf(m, v)
      BY <2>2 DEF Item
    <3>2. Value(k) = PairOf(Value(m), Value(v))
      BY <3>1, PairValue, Zenon
    <3>3. Value(l) # PairOf(Value(m), Value(v))
      BY <2>2, PairsAreNoKeys, Zenon
    <3> QED
      BY <3>2, <3>3
  <2>3. CASE k \in Key /\ l \notin Key
    <3>1. PICK m \in Key, v \in Key : l = PairOf(m, v)
      BY <2>3 DEF Item
    <3>2. Value(l) = PairOf(Value(m), Value(v))
      BY <3>1, PairValue, Zenon
    <3>3. Value(k) # PairOf(Value(m), Value(v))
      BY <2>3, PairsAreNoKeys, Zenon
    <3> QED
      BY <3>2, <3>3
  <2>4. CASE k \notin Key /\ l \notin Key
    <3>1. PICK m \in Key, v \in Key : k = PairOf(m, v)
      BY <2>4 DEF Item
    <3>2. PICK n \in Key, w \in Key : l = PairOf(n, w)
      BY <2>4 DEF Item
    <3>3. Value(m) = Value(n) /\ Value(v) = Value(w)
      <4>1. Value(k) = PairOf(Value(m), Value(v)) /\ Value(l) = PairOf(Value(n), Value(w))
        BY <3>1, <3>2, PairValue, Zenon
      <4>2. PairOf(Value(m), Value(v)) = PairOf(Value(n), Value(w))
        BY <4>1
      <4>3. \A a, b : PairOf(a, b).left = a /\ PairOf(a, b).right = b
        BY DEF PairOf
      <4> HIDE DEF PairOf
      <4>4. /\ PairOf(Value(m), Value(v)).left = Value(m) /\ PairOf(Value(m), Value(v)).right = Value(v)
            /\ PairOf(Value(n), Value(w)).left = Value(n) /\ PairOf(Value(n), Value(w)).right = Value(w)
        BY <4>3, Zenon
      <4> QED
        BY <4>2, <4>4
    <3>4. SingleText(m) = SingleText(n) /\ SingleText(v) = SingleText(w)
      <4>1. Text(m) = Text(n) /\ Text(v) = Text(w)
        BY <3>3, Zenon DEF OneText, AreEqual
      <4> QED
        BY <4>1, KeyValue
    <3>5. /\ Text(k) = <<40>> \o Joined(<<SingleText(m), SingleText(v)>>) \o <<41>>
          /\ Text(l) = <<40>> \o Joined(<<SingleText(n), SingleText(w)>>) \o <<41>>
      BY <3>1, <3>2, PairValue, Zenon
    <3> QED
      BY <3>4, <3>5
  <2> QED
    BY <2>1, <2>2, <2>3, <2>4
<1> QED
  BY <1>1, Zenon DEF HashCode

\* What typing says of an inner map.
LEMMA InnerFacts ==
    ASSUME NEW E \in SUBSET EntryOf, NEW x \in GoodInner(E)
    PROVE  /\ x \in Inner(E) /\ Distinct(x)
           /\ x.linear \in BOOLEAN /\ x.entries \in Seq(E)
           /\ x = [linear |-> x.linear, entries |-> x.entries]
           /\ Len(x.entries) \in Nat /\ DOMAIN x.entries = 1..Len(x.entries)
           /\ \A i \in DOMAIN x.entries : /\ x.entries[i] \in E
                                         /\ x.entries[i].key \in Item /\ x.entries[i].value \in Item
BY DEF GoodInner, Inner, EntryOf

\* Where equal keys have one text, a search for a key stops exactly at the
\* entries with its value, in a list as in a trie.
LEMMA FoundMeans ==
    ASSUME OneText, NEW E \in SUBSET EntryOf, NEW x \in GoodInner(E), NEW k \in Item
    PROVE  Found(x, k) = { i \in DOMAIN x.entries : Value(x.entries[i].key) = Value(k) }
<1>1. ASSUME NEW i \in DOMAIN x.entries PROVE Matches(x, i, k) <=> Value(x.entries[i].key) = Value(k)
  <2>1. x.entries[i].key \in Item
    BY InnerFacts
  <2>2. Value(x.entries[i].key) = Value(k) => HashCode(x.entries[i].key) = HashCode(k)
    BY <2>1, OneHash
  <2> QED
    BY <2>2 DEF Matches, AreEqual
<1> QED
  BY <1>1 DEF Found

\* So a key is in an inner map when an equal one is.
LEMMA HasKeyMeans ==
    ASSUME OneText, NEW E \in SUBSET EntryOf, NEW x \in GoodInner(E), NEW k \in Item
    PROVE  /\ HasKey(x, k) <=> \E i \in DOMAIN x.entries : Value(x.entries[i].key) = Value(k)
           /\ HasKey(x, k) <=> \E e \in Held(x) : Value(e.key) = Value(k)
           /\ HasKey(x, k) <=> Value(k) \in Represented(x)
<1>1. HasKey(x, k) <=> \E i \in DOMAIN x.entries : Value(x.entries[i].key) = Value(k)
  BY FoundMeans DEF HasKey
<1>2. (\E i \in DOMAIN x.entries : Value(x.entries[i].key) = Value(k))
      <=> \E e \in Held(x) : Value(e.key) = Value(k)
  BY DEF Held, Objects
<1>3. (\E e \in Held(x) : Value(e.key) = Value(k)) <=> Value(k) \in Represented(x)
  BY DEF Held, Represented
<1> QED
  BY <1>1, <1>2, <1>3

\* The place a search stops at.
LEMMA PlaceFound ==
    ASSUME OneText, NEW E \in SUBSET EntryOf, NEW x \in GoodInner(E), NEW k \in Item, HasKey(x, k),
           NEW i, i = CHOOSE j \in Found(x, k) : TRUE
    PROVE  i \in DOMAIN x.entries /\ Value(x.entries[i].key) = Value(k)
<1>1. i \in Found(x, k)
  BY Zenon DEF HasKey
<1> QED
  BY <1>1, FoundMeans

\* Setting an entry replaces the one with an equal key, or adds one.
LEMMA SetEntryHolds ==
    ASSUME OneText, NEW E \in SUBSET EntryOf, NEW x \in GoodInner(E), NEW k \in Item, NEW v,
           NEW e, e = [key |-> k, value |-> v], e \in E,
           NEW r, r = SetEntry(x, k, v)
    PROVE  /\ r \in GoodInner(E)
           /\ Held(r) = { d \in Held(x) : Value(d.key) # Value(k) } \cup {e}
           /\ Represented(r) = Represented(x) \cup {Value(k)}
<1> DEFINE s == x.entries
           t == r.entries
<1>0. /\ s \in Seq(E) /\ x.linear \in BOOLEAN /\ x = [linear |-> x.linear, entries |-> s]
      /\ DOMAIN s = 1..Len(s) /\ Len(s) \in Nat
      /\ \A i, j \in DOMAIN s : Value(s[i].key) = Value(s[j].key) => i = j
  <2>1. x \in Inner(E) /\ Distinct(x)
    BY DEF GoodInner
  <2> QED
    BY <2>1, InnerFacts DEF Distinct
<1>1. e.key = k
  OBVIOUS
<1>2. CASE HasKey(x, k)
  <2>1. PICK i \in DOMAIN s : /\ Value(s[i].key) = Value(k)
                              /\ r = [x EXCEPT !.entries[i] = e]
    <3> DEFINE i == CHOOSE j \in Found(x, k) : TRUE
    <3>1. r = [x EXCEPT !.entries[i] = e]
      BY <1>2 DEF SetEntry
    <3> HIDE DEF i
    <3>2. i = CHOOSE j \in Found(x, k) : TRUE
      BY DEF i
    <3>3. i \in DOMAIN s /\ Value(s[i].key) = Value(k)
      BY <1>2, <3>2, PlaceFound
    <3> QED
      BY <3>1, <3>3
  <2>2. /\ r.linear = x.linear /\ t = [s EXCEPT ![i] = e] /\ r \in Inner(E)
        /\ t \in Seq(E) /\ DOMAIN t = DOMAIN s /\ t[i] = e
        /\ \A j \in DOMAIN s : j # i => t[j] = s[j]
    <3>1. r = [linear |-> x.linear, entries |-> [s EXCEPT ![i] = e]]
      BY <2>1, <1>0
    <3>2. r.linear = x.linear /\ t = [s EXCEPT ![i] = e]
      BY <3>1
    <3> HIDE DEF s, t
    <3>3. /\ [s EXCEPT ![i] = e] \in Seq(E) /\ DOMAIN [s EXCEPT ![i] = e] = DOMAIN s
          /\ [s EXCEPT ![i] = e][i] = e
          /\ \A j \in DOMAIN s : j # i => [s EXCEPT ![i] = e][j] = s[j]
      BY <2>1, <1>0
    <3>4. r \in Inner(E)
      BY <3>1, <3>3, <1>0 DEF Inner
    <3> QED
      BY <3>2, <3>3, <3>4
  <2> HIDE DEF s, t
  <2>3. \A j \in DOMAIN s : Value(t[j].key) = Value(s[j].key)
    BY <2>1, <2>2, <1>1
  <2>4. Distinct(r)
    BY <2>2, <2>3, <1>0 DEF Distinct, t
  <2>5. Objects(t) = { d \in Objects(s) : Value(d.key) # Value(k) } \cup {e}
    <3>1. ASSUME NEW d \in Objects(t) PROVE d = e \/ (d \in Objects(s) /\ Value(d.key) # Value(k))
      <4>1. PICK j \in DOMAIN t : d = t[j]
        BY DEF Objects
      <4>2. CASE j = i
        BY <4>1, <4>2, <2>2
      <4>3. CASE j # i
        <5>1. d = s[j] /\ j \in DOMAIN s
          BY <4>1, <4>3, <2>2
        <5>2. Value(s[j].key) # Value(k)
          BY <1>0, <2>1, <4>3, <5>1
        <5> QED
          BY <5>1, <5>2 DEF Objects
      <4> QED
        BY <4>2, <4>3
    <3>2. ASSUME NEW d \in Objects(s), Value(d.key) # Value(k) PROVE d \in Objects(t)
      <4>1. PICK j \in DOMAIN s : d = s[j]
        BY DEF Objects
      <4>2. j # i
        BY <4>1, <3>2, <2>1
      <4>3. d = t[j] /\ j \in DOMAIN t
        BY <4>1, <4>2, <2>2
      <4> QED
        BY <4>3 DEF Objects
    <3>3. e \in Objects(t)
      BY <2>1, <2>2 DEF Objects
    <3> QED
      BY <3>1, <3>2, <3>3
  <2>6. Represented(r) = Represented(x) \cup {Value(k)}
    <3>1. \A y : y \in Represented(r) <=> \E j \in DOMAIN t : y = Value(t[j].key)
      BY DEF Represented, Objects, t
    <3>2. \A y : y \in Represented(x) <=> \E j \in DOMAIN s : y = Value(s[j].key)
      BY DEF Represented, Objects, s
    <3>3. \A y : y \in Represented(r) <=> y \in Represented(x)
      BY <3>1, <3>2, <2>2, <2>3
    <3>4. Value(k) \in Represented(x)
      BY <3>2, <2>1
    <3> QED
      BY <3>3, <3>4
  <2> QED
    BY <2>2, <2>4, <2>5, <2>6 DEF GoodInner, Held, s, t
<1>3. CASE ~HasKey(x, k)
  <2>1. r = [linear |-> x.linear /\ Size(x) < LinearLimit, entries |-> Append(s, e)]
    BY <1>3 DEF SetEntry
  <2>2. (x.linear /\ Size(x) < LinearLimit) \in BOOLEAN
    BY <1>0, InnerAssumption DEF Size
  <2>3. /\ t = Append(s, e) /\ r \in Inner(E)
        /\ t \in Seq(E) /\ DOMAIN t = 1..Len(s) + 1 /\ t[Len(s) + 1] = e
        /\ \A j \in DOMAIN s : t[j] = s[j]
    BY <2>1, <2>2, <1>0 DEF Inner
  <2>4. \A j \in DOMAIN s : Value(s[j].key) # Value(k)
    BY <1>3, HasKeyMeans
  <2>41. \A j \in DOMAIN t : j \in DOMAIN s \/ j = Len(s) + 1
    BY <2>3, <1>0
  <2>42. Len(s) + 1 \in DOMAIN t /\ DOMAIN s \subseteq DOMAIN t
    BY <2>3, <1>0
  <2> HIDE DEF s, t
  <2>5. Distinct(r)
    <3>1. ASSUME NEW i \in DOMAIN t, NEW j \in DOMAIN t, Value(t[i].key) = Value(t[j].key) PROVE i = j
      <4>1. CASE i \in DOMAIN s /\ j \in DOMAIN s
        BY <4>1, <3>1, <2>3, <1>0
      <4>2. CASE i = Len(s) + 1 /\ j = Len(s) + 1
        BY <4>2
      <4>3. CASE i \in DOMAIN s /\ j = Len(s) + 1
        BY <4>3, <3>1, <2>3, <2>4, <1>1
      <4>4. CASE i = Len(s) + 1 /\ j \in DOMAIN s
        BY <4>4, <3>1, <2>3, <2>4, <1>1
      <4> QED
        BY <4>1, <4>2, <4>3, <4>4, <2>41
    <3> QED
      BY <3>1 DEF Distinct, t
  <2>6. Objects(t) = { d \in Objects(s) : Value(d.key) # Value(k) } \cup {e}
    <3>1. Objects(t) = Objects(s) \cup {e}
      BY <2>3, <2>41, <2>42 DEF Objects
    <3>2. \A d \in Objects(s) : Value(d.key) # Value(k)
      BY <2>4 DEF Objects
    <3> QED
      BY <3>1, <3>2
  <2>7. Represented(r) = Represented(x) \cup {Value(k)}
    <3>1. \A y : y \in Represented(r) <=> \E j \in DOMAIN t : y = Value(t[j].key)
      BY DEF Represented, Objects, t
    <3>2. \A y : y \in Represented(x) <=> \E j \in DOMAIN s : y = Value(s[j].key)
      BY DEF Represented, Objects, s
    <3>3. \A y : y \in Represented(r) <=> y \in Represented(x) \/ y = Value(k)
      BY <3>1, <3>2, <2>3, <2>41, <2>42, <1>1
    <3> QED
      BY <3>3
  <2> QED
    BY <2>3, <2>5, <2>6, <2>7 DEF GoodInner, Held, s, t
<1> QED
  BY <1>2, <1>3

IsPart(E, s, a, b, t) ==
    /\ t \in Seq(E) /\ Len(t) = b - a + 1
    /\ \A j \in 1..b - a + 1 : t[j] = s[a + j - 1]

IsJoin(E, s, t, u) ==
    /\ u \in Seq(E) /\ Len(u) = Len(s) + Len(t)
    /\ \A j \in 1..Len(s) : u[j] = s[j]
    /\ \A j \in 1..Len(t) : u[Len(s) + j] = t[j]

\* t has the elements of s but the one at the gap, each at a place of its own.
Lacks(E, s, gap, t) ==
    /\ t \in Seq(E) /\ Len(t) = Len(s) - 1
    /\ \E p \in [1..Len(t) -> 1..Len(s)] :
         /\ \A j \in 1..Len(t) : t[j] = s[p[j]] /\ p[j] # gap
         /\ \A i, j \in 1..Len(t) : p[i] = p[j] => i = j
         /\ \A i \in 1..Len(s) : i # gap => \E j \in 1..Len(t) : p[j] = i

\* What SubSeq returns.
LEMMA PartOf ==
    ASSUME NEW E, NEW s \in Seq(E), NEW a \in 1..Len(s) + 1, NEW b \in 0..Len(s), a <= b + 1
    PROVE  IsPart(E, s, a, b, SubSeq(s, a, b))
<1> DEFINE t == SubSeq(s, a, b)
<1>1. t \in Seq(E)
  OBVIOUS
<1>2. Len(t) = b - a + 1
  OBVIOUS
<1>3. \A j \in 1..b - a + 1 : t[j] = s[a + j - 1]
  OBVIOUS
<1> QED
  BY <1>1, <1>2, <1>3 DEF IsPart

\* What concatenation returns.
LEMMA Joining ==
    ASSUME NEW E, NEW s \in Seq(E), NEW t \in Seq(E)
    PROVE  IsJoin(E, s, t, s \o t)
BY DEF IsJoin

\* What a list and a trie leave when they lose the entry at one place: each of
\* the others, at a place of its own.
LEMMA ListRearranged ==
    ASSUME NEW E, NEW s \in Seq(E), NEW gap \in 1..Len(s),
           NEW t, t = Seqs!Front(Seqs!ReplaceAt(s, gap, Seqs!Last(s)))
    PROVE  /\ t \in Seq(E) /\ Len(t) = Len(s) - 1
           /\ \A j \in 1..Len(t) : t[j] = IF j = gap THEN s[Len(s)] ELSE s[j]
<1> DEFINE u == [s EXCEPT ![gap] = s[Len(s)]]
<1>1. t = SubSeq(u, 1, Len(u) - 1)
  BY DEF Seqs!Front, Seqs!ReplaceAt, Seqs!Last
<1>2. u \in Seq(E) /\ Len(u) = Len(s) /\ \A j \in 1..Len(s) : u[j] = IF j = gap THEN s[Len(s)] ELSE s[j]
  OBVIOUS
<1>3. Len(s) \in Nat \ {0}
  OBVIOUS
<1> HIDE DEF u
<1>4. 1 \in 1..Len(u) + 1 /\ Len(u) - 1 \in 0..Len(u) /\ 1 <= (Len(u) - 1) + 1
      /\ (Len(u) - 1) - 1 + 1 = Len(s) - 1
  BY <1>2, <1>3
<1>5. /\ t \in Seq(E) /\ Len(t) = (Len(u) - 1) - 1 + 1
      /\ \A j \in 1..(Len(u) - 1) - 1 + 1 : t[j] = u[1 + j - 1]
  <2>1. IsPart(E, u, 1, Len(u) - 1, SubSeq(u, 1, Len(u) - 1))
    BY <1>2, <1>4, PartOf, Zenon
  <2> QED
    BY <1>1, <2>1, Zenon DEF IsPart
<1>6. ASSUME NEW j \in 1..Len(t) PROVE t[j] = IF j = gap THEN s[Len(s)] ELSE s[j]
  <2>1. t[j] = u[1 + j - 1] /\ 1 + j - 1 = j /\ j \in 1..Len(s)
    BY <1>3, <1>4, <1>5
  <2> QED
    BY <2>1, <1>2
<1> QED
  BY <1>4, <1>5, <1>6

\* A trie keeps the others in their order.
LEMMA TrieRearranged ==
    ASSUME NEW E, NEW s \in Seq(E), NEW gap \in 1..Len(s),
           NEW t, t = Seqs!RemoveAt(s, gap)
    PROVE  /\ t \in Seq(E) /\ Len(t) = Len(s) - 1
           /\ \A j \in 1..Len(t) : t[j] = IF j < gap THEN s[j] ELSE s[j + 1]
<1> DEFINE left == SubSeq(s, 1, gap - 1)
           right == SubSeq(s, gap + 1, Len(s))
<1>1. t = left \o right
  BY DEF Seqs!RemoveAt
<1>2. Len(s) \in Nat \ {0}
  OBVIOUS
<1>3. /\ 1 \in 1..Len(s) + 1 /\ gap - 1 \in 0..Len(s) /\ 1 <= (gap - 1) + 1
      /\ gap + 1 \in 1..Len(s) + 1 /\ Len(s) \in 0..Len(s) /\ gap + 1 <= Len(s) + 1
      /\ (gap - 1) - 1 + 1 = gap - 1 /\ Len(s) - (gap + 1) + 1 = Len(s) - gap
  BY <1>2
<1>4. /\ left \in Seq(E) /\ Len(left) = (gap - 1) - 1 + 1
      /\ \A j \in 1..(gap - 1) - 1 + 1 : left[j] = s[1 + j - 1]
  <2>1. IsPart(E, s, 1, gap - 1, left)
    BY <1>3, PartOf, Zenon
  <2> QED
    BY <2>1, Zenon DEF IsPart
<1>5. /\ right \in Seq(E) /\ Len(right) = Len(s) - (gap + 1) + 1
      /\ \A j \in 1..Len(s) - (gap + 1) + 1 : right[j] = s[gap + 1 + j - 1]
  <2>1. IsPart(E, s, gap + 1, Len(s), right)
    BY <1>3, PartOf, Zenon
  <2> QED
    BY <2>1, Zenon DEF IsPart
<1> HIDE DEF left, right
<1>6. /\ t \in Seq(E) /\ Len(t) = Len(left) + Len(right)
      /\ \A j \in 1..Len(left) : t[j] = left[j]
      /\ \A j \in 1..Len(right) : t[Len(left) + j] = right[j]
  <2>1. left \in Seq(E) /\ right \in Seq(E)
    BY <1>4, <1>5
  <2>2. IsJoin(E, left, right, left \o right)
    BY <2>1, Joining, Zenon
  <2> QED
    BY <1>1, <2>2, Zenon DEF IsJoin
<1>7. Len(t) = Len(s) - 1 /\ Len(left) = gap - 1 /\ Len(right) = Len(s) - gap
  BY <1>2, <1>3, <1>4, <1>5, <1>6
<1>8. ASSUME NEW j \in 1..Len(t) PROVE t[j] = IF j < gap THEN s[j] ELSE s[j + 1]
  <2>1. CASE j < gap
    <3>1. j \in 1..Len(left) /\ 1 + j - 1 = j /\ j \in 1..(gap - 1) - 1 + 1
      BY <2>1, <1>2, <1>7
    <3> QED
      BY <2>1, <3>1, <1>4, <1>6
  <2>2. CASE ~(j < gap)
    <3> DEFINE i == j - (gap - 1)
    <3>1. /\ i \in 1..Len(right) /\ Len(left) + i = j /\ gap + 1 + i - 1 = j + 1
          /\ i \in 1..Len(s) - (gap + 1) + 1
      BY <2>2, <1>2, <1>7
    <3> HIDE DEF i
    <3>2. t[Len(left) + i] = right[i] /\ right[i] = s[gap + 1 + i - 1]
      BY <3>1, <1>5, <1>6
    <3> QED
      BY <2>2, <3>1, <3>2
  <2> QED
    BY <2>1, <2>2
<1> QED
  BY <1>6, <1>7, <1>8

\* Either way the entry at the gap is lost and no other is.
LEMMA Rearranged ==
    ASSUME NEW E, NEW s \in Seq(E), NEW gap \in 1..Len(s), NEW linear,
           NEW t, t = IF linear THEN Seqs!Front(Seqs!ReplaceAt(s, gap, Seqs!Last(s)))
                                ELSE Seqs!RemoveAt(s, gap)
    PROVE  Lacks(E, s, gap, t)
<1>0. Len(s) \in Nat \ {0}
  OBVIOUS
<1>1. CASE linear
  <2>1. /\ t \in Seq(E) /\ Len(t) = Len(s) - 1
        /\ \A j \in 1..Len(t) : t[j] = IF j = gap THEN s[Len(s)] ELSE s[j]
    BY <1>1, ListRearranged
  <2> DEFINE p == [j \in 1..Len(t) |-> IF j = gap THEN Len(s) ELSE j]
  <2>2. \A j \in 1..Len(t) : j \in 1..Len(s) /\ j # Len(s) /\ Len(s) \in 1..Len(s)
    BY <1>0, <2>1
  <2>3. p \in [1..Len(t) -> 1..Len(s)]
    BY <2>2
  <2>4. \A j \in 1..Len(t) : p[j] = IF j = gap THEN Len(s) ELSE j
    OBVIOUS
  <2> HIDE DEF p
  <2>5. \A j \in 1..Len(t) : t[j] = s[p[j]] /\ p[j] # gap
    BY <2>1, <2>2, <2>4
  <2>6. \A i, j \in 1..Len(t) : p[i] = p[j] => i = j
    BY <2>2, <2>4
  <2>7. ASSUME NEW i \in 1..Len(s), i # gap PROVE \E j \in 1..Len(t) : p[j] = i
    <3>1. CASE i = Len(s)
      <4>1. gap \in 1..Len(t)
        BY <2>7, <3>1, <2>1, <1>0
      <4> QED
        BY <3>1, <4>1, <2>4
    <3>2. CASE i # Len(s)
      <4>1. i \in 1..Len(t)
        BY <2>7, <3>2, <2>1, <1>0
      <4> QED
        BY <2>7, <4>1, <2>4
    <3> QED
      BY <3>1, <3>2
  <2> QED
    BY <2>1, <2>3, <2>5, <2>6, <2>7 DEF Lacks
<1>2. CASE ~linear
  <2>1. /\ t \in Seq(E) /\ Len(t) = Len(s) - 1
        /\ \A j \in 1..Len(t) : t[j] = IF j < gap THEN s[j] ELSE s[j + 1]
    BY <1>2, TrieRearranged
  <2> DEFINE p == [j \in 1..Len(t) |-> IF j < gap THEN j ELSE j + 1]
  <2>2. \A j \in 1..Len(t) : j \in 1..Len(s) /\ j + 1 \in 1..Len(s)
    BY <1>0, <2>1
  <2>3. p \in [1..Len(t) -> 1..Len(s)]
    BY <2>2
  <2>4. \A j \in 1..Len(t) : p[j] = IF j < gap THEN j ELSE j + 1
    OBVIOUS
  <2> HIDE DEF p
  <2>5. \A j \in 1..Len(t) : t[j] = s[p[j]] /\ p[j] # gap
    BY <2>1, <2>2, <2>4
  <2>6. \A i, j \in 1..Len(t) : p[i] = p[j] => i = j
    BY <2>2, <2>4
  <2>7. ASSUME NEW i \in 1..Len(s), i # gap PROVE \E j \in 1..Len(t) : p[j] = i
    <3>1. CASE i < gap
      <4>1. i \in 1..Len(t)
        BY <3>1, <2>1, <1>0
      <4> QED
        BY <3>1, <4>1, <2>4
    <3>2. CASE ~(i < gap)
      <4>1. i - 1 \in 1..Len(t) /\ ~(i - 1 < gap) /\ (i - 1) + 1 = i
        BY <2>7, <3>2, <2>1, <1>0
      <4> QED
        BY <4>1, <2>4
    <3> QED
      BY <3>1, <3>2
  <2> QED
    BY <2>1, <2>3, <2>5, <2>6, <2>7 DEF Lacks
<1> QED
  BY <1>1, <1>2

\* Removing a key removes the entry with an equal one.
LEMMA RemoveEntryHolds ==
    ASSUME OneText, NEW E \in SUBSET EntryOf, NEW x \in GoodInner(E), NEW k \in Item,
           NEW r, r = RemoveEntry(x, k)
    PROVE  /\ r \in GoodInner(E)
           /\ Held(r) = { d \in Held(x) : Value(d.key) # Value(k) }
<1> DEFINE s == x.entries
           t == r.entries
<1>0. /\ s \in Seq(E) /\ x.linear \in BOOLEAN /\ x = [linear |-> x.linear, entries |-> s]
      /\ DOMAIN s = 1..Len(s) /\ Len(s) \in Nat
      /\ \A i, j \in DOMAIN s : Value(s[i].key) = Value(s[j].key) => i = j
  <2>1. x \in Inner(E) /\ Distinct(x)
    BY DEF GoodInner
  <2> QED
    BY <2>1, InnerFacts DEF Distinct
<1>1. CASE ~HasKey(x, k)
  <2>1. r = x
    BY <1>1 DEF RemoveEntry
  <2>2. \A e \in Held(x) : Value(e.key) # Value(k)
    BY <1>1, HasKeyMeans
  <2> QED
    BY <2>1, <2>2
<1>2. CASE HasKey(x, k)
  <2>1. PICK i \in DOMAIN s :
          /\ Value(s[i].key) = Value(k)
          /\ r = [linear  |-> x.linear \/ Size(x) = 1,
                  entries |-> IF x.linear THEN Seqs!Front(Seqs!ReplaceAt(s, i, Seqs!Last(s)))
                                          ELSE Seqs!RemoveAt(s, i)]
    <3> DEFINE i == CHOOSE j \in Found(x, k) : TRUE
    <3>1. r = [linear  |-> x.linear \/ Size(x) = 1,
               entries |-> IF x.linear THEN Seqs!Front(Seqs!ReplaceAt(s, i, Seqs!Last(s)))
                                       ELSE Seqs!RemoveAt(s, i)]
      BY <1>2, Zenon DEF RemoveEntry
    <3> HIDE DEF i
    <3>2. i = CHOOSE j \in Found(x, k) : TRUE
      BY DEF i
    <3>3. i \in DOMAIN s /\ Value(s[i].key) = Value(k)
      BY <1>2, <3>2, PlaceFound
    <3> QED
      BY <3>1, <3>3, Zenon
  <2> DEFINE u == IF x.linear THEN Seqs!Front(Seqs!ReplaceAt(s, i, Seqs!Last(s))) ELSE Seqs!RemoveAt(s, i)
  <2>2. /\ t = u /\ r = [linear |-> x.linear \/ Size(x) = 1, entries |-> u]
        /\ (x.linear \/ Size(x) = 1) \in BOOLEAN
    BY <2>1, <1>0
  <2>3. /\ t \in Seq(E) /\ Len(t) = Len(s) - 1
        /\ \E p \in [1..Len(t) -> 1..Len(s)] :
                /\ \A j \in 1..Len(t) : t[j] = s[p[j]] /\ p[j] # i
                /\ \A a, b \in 1..Len(t) : p[a] = p[b] => a = b
                /\ \A a \in 1..Len(s) : a # i => \E j \in 1..Len(t) : p[j] = a
    <3> HIDE DEF s, t
    <3>1. i \in 1..Len(s) /\ s \in Seq(E)
      BY <1>0
    <3>2. t = IF x.linear THEN Seqs!Front(Seqs!ReplaceAt(s, i, Seqs!Last(s))) ELSE Seqs!RemoveAt(s, i)
      BY <2>2
    <3>3. Lacks(E, s, i, t)
      BY <3>1, <3>2, Rearranged, Zenon
    <3> QED
      BY <3>3, Zenon DEF Lacks
  <2> HIDE DEF u, s, t
  <2>4. PICK p \in [1..Len(t) -> 1..Len(s)] :
                /\ \A j \in 1..Len(t) : t[j] = s[p[j]] /\ p[j] # i
                /\ \A a, b \in 1..Len(t) : p[a] = p[b] => a = b
                /\ \A a \in 1..Len(s) : a # i => \E j \in 1..Len(t) : p[j] = a
    BY <2>3
  <2>5. DOMAIN t = 1..Len(t)
    BY <2>3
  <2>6. Distinct(r)
    <3>1. ASSUME NEW a \in DOMAIN t, NEW b \in DOMAIN t, Value(t[a].key) = Value(t[b].key) PROVE a = b
      <4>1. p[a] \in DOMAIN s /\ p[b] \in DOMAIN s /\ t[a] = s[p[a]] /\ t[b] = s[p[b]]
        BY <2>4, <2>5, <1>0
      <4>2. p[a] = p[b]
        BY <4>1, <3>1, <1>0
      <4> QED
        BY <4>2, <2>4, <2>5
    <3> QED
      BY <3>1 DEF Distinct, t
  <2>7. Objects(t) = { d \in Objects(s) : Value(d.key) # Value(k) }
    <3>1. ASSUME NEW d \in Objects(t) PROVE d \in Objects(s) /\ Value(d.key) # Value(k)
      <4>1. PICK j \in DOMAIN t : d = t[j]
        BY DEF Objects
      <4>2. p[j] \in DOMAIN s /\ p[j] # i /\ d = s[p[j]]
        BY <4>1, <2>4, <2>5, <1>0
      <4>3. Value(s[p[j]].key) # Value(k)
        BY <4>2, <2>1, <1>0
      <4> QED
        BY <4>2, <4>3 DEF Objects
    <3>2. ASSUME NEW d \in Objects(s), Value(d.key) # Value(k) PROVE d \in Objects(t)
      <4>1. PICK a \in DOMAIN s : d = s[a]
        BY DEF Objects
      <4>2. a # i /\ a \in 1..Len(s)
        BY <4>1, <3>2, <2>1, <1>0
      <4>3. PICK j \in 1..Len(t) : p[j] = a
        BY <4>2, <2>4
      <4>4. j \in DOMAIN t /\ d = t[j]
        BY <4>1, <4>3, <2>4, <2>5
      <4> QED
        BY <4>4 DEF Objects
    <3> QED
      BY <3>1, <3>2
  <2>8. r \in Inner(E)
    BY <2>2, <2>3, <1>0 DEF Inner
  <2> QED
    BY <2>6, <2>7, <2>8 DEF GoodInner, Held, s, t
<1> QED
  BY <1>1, <1>2

-----------------------------------------------------------------------------
(* Loops over entries, keys and places.                                    *)

\* What n turns of PutAll may leave: the keys of both, each with the entry of
\* the last turn that had it, or with the one that was there first.
AfterPuts(E, x, entries, keep, n, y) ==
    /\ y \in GoodInner(E)
    /\ Represented(y) = Represented(x) \cup { Value(entries[i].key) : i \in 1..n }
    /\ \A d \in Held(y) :
         \/ d \in Held(x) /\ (~keep => \A i \in 1..n : Value(entries[i].key) # Value(d.key))
         \/ \E i \in 1..n :
              /\ d = entries[i]
              /\ keep => Value(d.key) \notin Represented(x)
              /\ ~keep => \A j \in i + 1..n : Value(entries[j].key) # Value(d.key)

\* One more turn of PutAll.
LEMMA PutTurn ==
    ASSUME OneText, NEW E \in SUBSET EntryOf, NEW x \in GoodInner(E), NEW entries \in Seq(E),
           NEW keep \in BOOLEAN, NEW n \in 1..Len(entries), NEW y, AfterPuts(E, x, entries, keep, n - 1, y)
    PROVE  AfterPuts(E, x, entries, keep, n, Put(y, entries[n], keep))
<1> DEFINE e == entries[n]
           r == Put(y, e, keep)
           Keyed(m) == { Value(entries[i].key) : i \in 1..m }
<1>0. /\ e \in E /\ e.key \in Item /\ e = [key |-> e.key, value |-> e.value]
      /\ Len(entries) \in Nat /\ n - 1 \in Nat /\ n \in 1..n
      /\ \A i \in 1..n - 1 : i \in 1..n
      /\ \A i \in 1..n : i \in 1..n - 1 \/ i = n
  <2>1. e \in E /\ Len(entries) \in Nat
    OBVIOUS
  <2>2. e \in EntryOf
    BY <2>1
  <2>3. e.key \in Item /\ e = [key |-> e.key, value |-> e.value]
    BY <2>2 DEF EntryOf
  <2> QED
    BY <2>1, <2>3
<1>1. /\ y \in GoodInner(E)
      /\ Represented(y) = Represented(x) \cup Keyed(n - 1)
      /\ \A d \in Held(y) :
           \/ d \in Held(x) /\ (~keep => \A i \in 1..n - 1 : Value(entries[i].key) # Value(d.key))
           \/ \E i \in 1..n - 1 :
                /\ d = entries[i]
                /\ keep => Value(d.key) \notin Represented(x)
                /\ ~keep => \A j \in i + 1..n - 1 : Value(entries[j].key) # Value(d.key)
  BY DEF AfterPuts
<1>2. Keyed(n) = Keyed(n - 1) \cup {Value(e.key)}
  BY <1>0
<1>3. CASE keep /\ HasKey(y, e.key)
  <2>1. r = y
    BY <1>3 DEF Put
  <2>2. Value(e.key) \in Represented(y)
    BY <1>0, <1>1, <1>3, HasKeyMeans
  <2>3. Represented(r) = Represented(x) \cup Keyed(n)
    BY <1>1, <1>2, <2>1, <2>2
  <2> HIDE DEF e, r
  <2>4. ASSUME NEW d \in Held(r)
        PROVE  \/ d \in Held(x) /\ (~keep => \A i \in 1..n : Value(entries[i].key) # Value(d.key))
               \/ \E i \in 1..n :
                    /\ d = entries[i]
                    /\ keep => Value(d.key) \notin Represented(x)
                    /\ ~keep => \A j \in i + 1..n : Value(entries[j].key) # Value(d.key)
    BY <1>0, <1>1, <1>3, <2>1, <2>4
  <2> QED
    BY <1>1, <2>1, <2>3, <2>4 DEF AfterPuts, r, e
<1>4. CASE ~(keep /\ HasKey(y, e.key))
  <2>1. r = SetEntry(y, e.key, e.value)
    BY <1>4 DEF Put
  <2> HIDE DEF e, r
  <2>2. /\ r \in GoodInner(E)
        /\ Held(r) = { d \in Held(y) : Value(d.key) # Value(e.key) } \cup {e}
        /\ Represented(r) = Represented(y) \cup {Value(e.key)}
    BY <1>0, <1>1, <2>1, SetEntryHolds
  <2>3. Represented(r) = Represented(x) \cup Keyed(n)
    BY <1>1, <1>2, <2>2
  <2>4. ASSUME NEW d \in Held(r)
        PROVE  \/ d \in Held(x) /\ (~keep => \A i \in 1..n : Value(entries[i].key) # Value(d.key))
               \/ \E i \in 1..n :
                    /\ d = entries[i]
                    /\ keep => Value(d.key) \notin Represented(x)
                    /\ ~keep => \A j \in i + 1..n : Value(entries[j].key) # Value(d.key)
    <3>1. CASE d = e
      <4>1. keep => Value(e.key) \notin Represented(y)
        BY <1>0, <1>1, <1>4, HasKeyMeans
      <4>2. keep => Value(d.key) \notin Represented(x)
        BY <4>1, <1>1, <3>1
      <4>3. n + 1..n = {}
        BY <1>0
      <4> QED
        BY <1>0, <3>1, <4>2, <4>3 DEF e
    <3>2. CASE d # e
      <4>1. d \in Held(y) /\ Value(d.key) # Value(e.key)
        BY <2>2, <3>2
      <4>2. CASE d \in Held(x) /\ (~keep => \A i \in 1..n - 1 : Value(entries[i].key) # Value(d.key))
        BY <4>1, <4>2, <1>0 DEF e
      <4>3. CASE \E i \in 1..n - 1 :
                /\ d = entries[i]
                /\ keep => Value(d.key) \notin Represented(x)
                /\ ~keep => \A j \in i + 1..n - 1 : Value(entries[j].key) # Value(d.key)
        <5>1. PICK i \in 1..n - 1 :
                /\ d = entries[i]
                /\ keep => Value(d.key) \notin Represented(x)
                /\ ~keep => \A j \in i + 1..n - 1 : Value(entries[j].key) # Value(d.key)
          BY <4>3
        <5>2. \A j \in i + 1..n : j \in i + 1..n - 1 \/ j = n
          BY <1>0
        <5>3. ~keep => \A j \in i + 1..n : Value(entries[j].key) # Value(d.key)
          BY <4>1, <5>1, <5>2 DEF e
        <5> QED
          BY <1>0, <5>1, <5>3
      <4> QED
        BY <4>1, <4>2, <4>3, <1>1
    <3> QED
      BY <3>1, <3>2
  <2> QED
    BY <2>2, <2>3, <2>4 DEF AfterPuts, r, e
<1> QED
  BY <1>3, <1>4

\* PutAll adds the keys it is given, and which of two entries of one key stays
\* is what `keep` says.
LEMMA PutAllHolds ==
    ASSUME OneText, NEW E \in SUBSET EntryOf, NEW x \in GoodInner(E), NEW entries \in Seq(E),
           NEW keep \in BOOLEAN
    PROVE  AfterPuts(E, x, entries, keep, Len(entries), PutAll(x, entries, keep))
<1> DEFINE m == Len(entries)
           Body(f) == [n \in 0..m |-> IF n = 0 THEN x ELSE Put(f[n - 1], entries[n], keep)]
           good == [n \in 0..m |-> { y \in GoodInner(E) : AfterPuts(E, x, entries, keep, n, y) }]
           turn == [n \in 1..m |-> [y \in good[n - 1] |-> Put(y, entries[n], keep)]]
<1>0. m \in Nat
  OBVIOUS
<1>1. x \in good[0]
  <2>1. 1..0 = {}
    OBVIOUS
  <2>2. AfterPuts(E, x, entries, keep, 0, x)
    BY <2>1 DEF AfterPuts
  <2> QED
    BY <1>0, <2>2
<1>2. ASSUME NEW n \in 1..m, NEW y \in good[n - 1] PROVE Put(y, entries[n], keep) \in good[n]
  <2>1. n - 1 \in 0..m /\ n \in 0..m
    BY <1>0
  <2>2. AfterPuts(E, x, entries, keep, n - 1, y)
    BY <2>1
  <2>3. AfterPuts(E, x, entries, keep, n, Put(y, entries[n], keep))
    BY <2>2, PutTurn
  <2>4. Put(y, entries[n], keep) \in GoodInner(E)
    BY <2>3 DEF AfterPuts
  <2> QED
    BY <2>1, <2>3, <2>4
<1>3. \A n \in 0..m : \A y \in good[n] : AfterPuts(E, x, entries, keep, n, y)
  OBVIOUS
<1> HIDE DEF m, good
<1>4. \A n \in 1..m : \A y \in good[n - 1] : turn[n][y] \in good[n]
  BY <1>2
<1>5. \E f : f = Body(f)
  <2>0. PICK f : Recorded(m, good, x, turn, f)
    <3> HIDE DEF turn
    <3>1. Leads(m, good, x, turn)
      BY <1>1, <1>4 DEF Leads
    <3> QED
      BY <1>0, <3>1, LoopExists, Zenon
  <2>1. /\ f = [n \in 0..m |-> IF n = 0 THEN x ELSE turn[n][f[n - 1]]]
        /\ \A n \in 0..m : f[n] \in good[n]
    BY <2>0 DEF Recorded
  <2>2. ASSUME NEW n \in 0..m, n # 0 PROVE turn[n][f[n - 1]] = Put(f[n - 1], entries[n], keep)
    <3>1. n \in 1..m /\ n - 1 \in 0..m
      BY <2>2, <1>0
    <3> QED
      BY <3>1, <2>1
  <2>3. f = Body(f)
    BY <2>1, <2>2
  <2> QED
    BY <2>3
<1>6. PICK f : f = Body(f) /\ PutAll(x, entries, keep) = f[m]
  <2> DEFINE f == CHOOSE g : g = Body(g)
  <2>1. f = Body(f)
    BY <1>5
  <2>2. PutAll(x, entries, keep) = f[m]
    BY DEF PutAll, m
  <2> QED
    BY <2>1, <2>2
<1>7. f[0] \in good[0]
  <2>1. f[0] = x
    BY <1>0, <1>6
  <2> QED
    BY <2>1, <1>1
<1>8. ASSUME NEW n \in 1..m, f[n - 1] \in good[n - 1] PROVE f[n] \in good[n]
  <2>1. n \in 0..m /\ n # 0
    BY <1>0
  <2>2. f[n] = Put(f[n - 1], entries[n], keep)
    BY <1>6, <2>1
  <2> QED
    BY <1>2, <1>8, <2>2
<1>9. f[m] \in good[m]
  BY <1>0, <1>7, <1>8, LoopKeeps, Zenon
<1>10. m \in 0..m
  BY <1>0
<1>11. AfterPuts(E, x, entries, keep, m, f[m])
  BY <1>3, <1>9, <1>10
<1> QED
  BY <1>6, <1>11 DEF m

\* What n turns of RemoveAll leave.
AfterRemovals(E, x, keys, n, y) ==
    /\ y \in GoodInner(E)
    /\ Held(y) = { d \in Held(x) : \A i \in 1..n : Value(keys[i]) # Value(d.key) }

\* One more turn of RemoveAll.
LEMMA RemovalTurn ==
    ASSUME OneText, NEW E \in SUBSET EntryOf, NEW x \in GoodInner(E), NEW keys \in Seq(Item),
           NEW n \in 1..Len(keys), NEW y, AfterRemovals(E, x, keys, n - 1, y)
    PROVE  AfterRemovals(E, x, keys, n, RemoveEntry(y, keys[n]))
<1> DEFINE k == keys[n]
           r == RemoveEntry(y, k)
<1>0. /\ k \in Item /\ Len(keys) \in Nat
      /\ \A i \in 1..n - 1 : i \in 1..n
      /\ \A i \in 1..n : i \in 1..n - 1 \/ i = n
      /\ n \in 1..n
  OBVIOUS
<1>1. /\ y \in GoodInner(E)
      /\ Held(y) = { d \in Held(x) : \A i \in 1..n - 1 : Value(keys[i]) # Value(d.key) }
  BY DEF AfterRemovals
<1> HIDE DEF k, r
<1>2. r = RemoveEntry(y, k)
  BY DEF r
<1>3. /\ r \in GoodInner(E)
      /\ Held(r) = { d \in Held(y) : Value(d.key) # Value(k) }
  BY <1>0, <1>1, <1>2, RemoveEntryHolds
<1>4. Held(r) = { d \in Held(x) : \A i \in 1..n : Value(keys[i]) # Value(d.key) }
  BY <1>0, <1>1, <1>3 DEF k
<1> QED
  BY <1>3, <1>4 DEF AfterRemovals, r, k

\* RemoveAll removes the entries of the keys it is given and no other.
LEMMA RemoveAllHolds ==
    ASSUME OneText, NEW E \in SUBSET EntryOf, NEW x \in GoodInner(E), NEW keys \in Seq(Item)
    PROVE  AfterRemovals(E, x, keys, Len(keys), RemoveAll(x, keys))
<1> DEFINE m == Len(keys)
           Body(f) == [n \in 0..m |-> IF n = 0 THEN x ELSE RemoveEntry(f[n - 1], keys[n])]
           good == [n \in 0..m |-> { y \in GoodInner(E) : AfterRemovals(E, x, keys, n, y) }]
           turn == [n \in 1..m |-> [y \in good[n - 1] |-> RemoveEntry(y, keys[n])]]
<1>0. m \in Nat
  OBVIOUS
<1>1. x \in good[0]
  <2>1. 1..0 = {}
    OBVIOUS
  <2>2. AfterRemovals(E, x, keys, 0, x)
    BY <2>1 DEF AfterRemovals
  <2> QED
    BY <1>0, <2>2
<1>2. ASSUME NEW n \in 1..m, NEW y \in good[n - 1] PROVE RemoveEntry(y, keys[n]) \in good[n]
  <2>1. n - 1 \in 0..m /\ n \in 0..m
    BY <1>0
  <2>2. AfterRemovals(E, x, keys, n - 1, y)
    BY <2>1
  <2>3. AfterRemovals(E, x, keys, n, RemoveEntry(y, keys[n]))
    BY <2>2, RemovalTurn
  <2>4. RemoveEntry(y, keys[n]) \in GoodInner(E)
    BY <2>3 DEF AfterRemovals
  <2> QED
    BY <2>1, <2>3, <2>4
<1>3. \A n \in 0..m : \A y \in good[n] : AfterRemovals(E, x, keys, n, y)
  OBVIOUS
<1> HIDE DEF m, good
<1>4. \A n \in 1..m : \A y \in good[n - 1] : turn[n][y] \in good[n]
  BY <1>2
<1>5. \E f : f = Body(f)
  <2>0. PICK f : Recorded(m, good, x, turn, f)
    <3> HIDE DEF turn
    <3>1. Leads(m, good, x, turn)
      BY <1>1, <1>4 DEF Leads
    <3> QED
      BY <1>0, <3>1, LoopExists, Zenon
  <2>1. /\ f = [n \in 0..m |-> IF n = 0 THEN x ELSE turn[n][f[n - 1]]]
        /\ \A n \in 0..m : f[n] \in good[n]
    BY <2>0 DEF Recorded
  <2>2. ASSUME NEW n \in 0..m, n # 0 PROVE turn[n][f[n - 1]] = RemoveEntry(f[n - 1], keys[n])
    <3>1. n \in 1..m /\ n - 1 \in 0..m
      BY <2>2, <1>0
    <3> QED
      BY <3>1, <2>1
  <2>3. f = Body(f)
    BY <2>1, <2>2
  <2> QED
    BY <2>3
<1>6. PICK f : f = Body(f) /\ RemoveAll(x, keys) = f[m]
  <2> DEFINE f == CHOOSE g : g = Body(g)
  <2>1. f = Body(f)
    BY <1>5
  <2>2. RemoveAll(x, keys) = f[m]
    BY DEF RemoveAll, m
  <2> QED
    BY <2>1, <2>2
<1>7. f[0] \in good[0]
  <2>1. f[0] = x
    BY <1>0, <1>6
  <2> QED
    BY <2>1, <1>1
<1>8. ASSUME NEW n \in 1..m, f[n - 1] \in good[n - 1] PROVE f[n] \in good[n]
  <2>1. n \in 0..m /\ n # 0
    BY <1>0
  <2>2. f[n] = RemoveEntry(f[n - 1], keys[n])
    BY <1>6, <2>1
  <2> QED
    BY <1>2, <1>8, <2>2
<1>9. f[m] \in good[m]
  BY <1>0, <1>7, <1>8, LoopKeeps, Zenon
<1>10. m \in 0..m
  BY <1>0
<1>11. AfterRemovals(E, x, keys, m, f[m])
  BY <1>3, <1>9, <1>10
<1> QED
  BY <1>6, <1>11 DEF m

\* What n turns of Chosen have taken.
AfterChoices(S, seq, places, n, y) ==
    y \in Seq(S) /\ Objects(y) = { seq[i] : i \in places \cap (1..n) }

\* An appended object joins the others.
LEMMA AppendObjects ==
    ASSUME NEW S, NEW y \in Seq(S), NEW e \in S
    PROVE  Append(y, e) \in Seq(S) /\ Objects(Append(y, e)) = Objects(y) \cup {e}
<1>1. /\ Append(y, e) \in Seq(S) /\ DOMAIN Append(y, e) = 1..Len(y) + 1
      /\ Append(y, e)[Len(y) + 1] = e /\ DOMAIN y = 1..Len(y) /\ Len(y) \in Nat
      /\ \A i \in 1..Len(y) : Append(y, e)[i] = y[i]
  OBVIOUS
<1>2. \A i : i \in 1..Len(y) + 1 <=> i \in 1..Len(y) \/ i = Len(y) + 1
  BY <1>1
<1> QED
  BY <1>1, <1>2 DEF Objects

\* One more turn of Chosen.
LEMMA ChoiceTurn ==
    ASSUME NEW S, NEW seq \in Seq(S), NEW places, NEW n \in 1..Len(seq), NEW y,
           AfterChoices(S, seq, places, n - 1, y)
    PROVE  AfterChoices(S, seq, places, n, IF n \in places THEN Append(y, seq[n]) ELSE y)
<1>0. seq[n] \in S /\ \A i : i \in 1..n <=> i \in 1..n - 1 \/ i = n
  OBVIOUS
<1>1. CASE n \in places
  <2>1. y \in Seq(S)
    BY DEF AfterChoices
  <2>2. Append(y, seq[n]) \in Seq(S) /\ Objects(Append(y, seq[n])) = Objects(y) \cup {seq[n]}
    BY <1>0, <2>1, AppendObjects
  <2>3. { seq[i] : i \in places \cap (1..n) } = { seq[i] : i \in places \cap (1..n - 1) } \cup {seq[n]}
    BY <1>0, <1>1
  <2> QED
    BY <1>1, <2>2, <2>3 DEF AfterChoices
<1>2. CASE n \notin places
  <2>1. places \cap (1..n) = places \cap (1..n - 1)
    BY <1>0, <1>2
  <2> QED
    BY <1>2, <2>1 DEF AfterChoices
<1> QED
  BY <1>1, <1>2

\* Chosen keeps what stands at the places.
LEMMA ChosenHolds ==
    ASSUME NEW S, NEW seq \in Seq(S), NEW places
    PROVE  AfterChoices(S, seq, places, Len(seq), Chosen(seq, places))
<1> DEFINE m == Len(seq)
           Turn(y, n) == IF n \in places THEN Append(y, seq[n]) ELSE y
           Body(f) == [n \in 0..m |-> IF n = 0 THEN << >>
                                      ELSE IF n \in places THEN Append(f[n - 1], seq[n]) ELSE f[n - 1]]
           good == [n \in 0..m |-> { y \in Seq(S) : AfterChoices(S, seq, places, n, y) }]
           turn == [n \in 1..m |-> [y \in good[n - 1] |-> Turn(y, n)]]
<1>0. m \in Nat
  OBVIOUS
<1>1. << >> \in good[0]
  <2>1. places \cap (1..0) = {}
    OBVIOUS
  <2>2. Objects(<< >>) = {}
    BY DEF Objects
  <2>3. AfterChoices(S, seq, places, 0, << >>)
    BY <2>1, <2>2 DEF AfterChoices
  <2> QED
    BY <1>0, <2>3
<1>2. ASSUME NEW n \in 1..m, NEW y \in good[n - 1] PROVE Turn(y, n) \in good[n]
  <2>1. n - 1 \in 0..m /\ n \in 0..m
    BY <1>0
  <2>2. AfterChoices(S, seq, places, n - 1, y)
    BY <2>1
  <2>3. AfterChoices(S, seq, places, n, Turn(y, n))
    BY <2>2, ChoiceTurn
  <2>4. Turn(y, n) \in Seq(S)
    BY <2>3 DEF AfterChoices
  <2> QED
    BY <2>1, <2>3, <2>4
<1>3. \A n \in 0..m : \A y \in good[n] : AfterChoices(S, seq, places, n, y)
  OBVIOUS
<1> HIDE DEF m, good
<1>4. \A n \in 1..m : \A y \in good[n - 1] : turn[n][y] \in good[n]
  BY <1>2
<1>5. \E f : f = Body(f)
  <2>0. PICK f : Recorded(m, good, << >>, turn, f)
    <3> HIDE DEF turn
    <3>1. Leads(m, good, << >>, turn)
      BY <1>1, <1>4 DEF Leads
    <3> QED
      BY <1>0, <3>1, LoopExists, Zenon
  <2>1. /\ f = [n \in 0..m |-> IF n = 0 THEN << >> ELSE turn[n][f[n - 1]]]
        /\ \A n \in 0..m : f[n] \in good[n]
    BY <2>0 DEF Recorded
  <2>2. ASSUME NEW n \in 0..m, n # 0 PROVE turn[n][f[n - 1]] = Turn(f[n - 1], n)
    <3>1. n \in 1..m /\ n - 1 \in 0..m
      BY <2>2, <1>0
    <3> QED
      BY <3>1, <2>1
  <2>3. f = Body(f)
    BY <2>1, <2>2
  <2> QED
    BY <2>3
<1>6. PICK f : f = Body(f) /\ Chosen(seq, places) = f[m]
  <2> DEFINE f == CHOOSE g : g = Body(g)
  <2>1. f = Body(f)
    BY <1>5
  <2>2. Chosen(seq, places) = f[m]
    BY DEF Chosen, m
  <2> QED
    BY <2>1, <2>2
<1>7. f[0] \in good[0]
  <2>1. f[0] = << >>
    BY <1>0, <1>6
  <2> QED
    BY <2>1, <1>1
<1>8. ASSUME NEW n \in 1..m, f[n - 1] \in good[n - 1] PROVE f[n] \in good[n]
  <2>1. n \in 0..m /\ n # 0
    BY <1>0
  <2>2. f[n] = Turn(f[n - 1], n)
    BY <1>6, <2>1
  <2> QED
    BY <1>2, <1>8, <2>2
<1>9. f[m] \in good[m]
  BY <1>0, <1>7, <1>8, LoopKeeps, Zenon
<1>10. m \in 0..m
  BY <1>0
<1>11. AfterChoices(S, seq, places, m, f[m])
  BY <1>3, <1>9, <1>10
<1> QED
  BY <1>6, <1>11 DEF m

-----------------------------------------------------------------------------
(* What inner maps represent.                                              *)

\* The values of a sequence of objects.
ValuesOf(seq) == { Value(seq[i]) : i \in DOMAIN seq }

\* An inner map has as many entries as it represents keys.
LEMMA SizeIsCardinality ==
    ASSUME NEW E \in SUBSET EntryOf, NEW x \in GoodInner(E)
    PROVE  /\ IsFiniteSet(Represented(x)) /\ Cardinality(Represented(x)) = Size(x)
           /\ Size(x) \in Nat
<1> DEFINE s == x.entries
           m == Len(x.entries)
           f == [i \in 1..m |-> Value(s[i].key)]
<1>1. /\ m \in Nat /\ DOMAIN s = 1..m
      /\ \A i, j \in 1..m : Value(s[i].key) = Value(s[j].key) => i = j
  <2>1. Distinct(x) /\ m \in Nat /\ DOMAIN s = 1..m
    BY InnerFacts
  <2> QED
    BY <2>1 DEF Distinct
<1>2. Represented(x) = { Value(s[i].key) : i \in 1..m }
  BY <1>1 DEF Represented, Objects
<1> HIDE DEF s, m
<1>3. f \in Bijection(1..m, Represented(x))
  <2>1. f \in [1..m -> Represented(x)]
    BY <1>2
  <2>2. \A i, j \in 1..m : f[i] = f[j] => i = j
    BY <1>1
  <2>3. \A v \in Represented(x) : \E i \in 1..m : f[i] = v
    BY <1>2
  <2> HIDE DEF f
  <2> QED
    BY <2>1, <2>2, <2>3 DEF Bijection, Injection, Surjection, IsInjective
<1>4. ExistsBijection(1..m, Represented(x))
  BY <1>3 DEF ExistsBijection
<1>5. IsFiniteSet(1..m) /\ Cardinality(1..m) = m
  BY <1>1, FS_Interval
<1>6. IsFiniteSet(Represented(x)) /\ Cardinality(Represented(x)) = Cardinality(1..m)
  BY <1>4, <1>5, FS_Bijection, Zenon
<1> QED
  BY <1>1, <1>5, <1>6 DEF Size, m

\* An inner map without entries represents no key.
LEMMA EmptyWhenNoSize ==
    ASSUME NEW E \in SUBSET EntryOf, NEW x \in GoodInner(E)
    PROVE  Size(x) = 0 <=> Represented(x) = {}
<1>1. IsFiniteSet(Represented(x)) /\ Cardinality(Represented(x)) = Size(x)
  BY SizeIsCardinality
<1> QED
  BY <1>1, FS_EmptySet

\* A set lists what it represents.
LEMMA ElementsOf ==
    ASSUME NEW x \in GoodInner(SetEntries)
    PROVE  /\ Elements(x) \in Seq(Item) /\ Len(Elements(x)) = Size(x)
           /\ DOMAIN Elements(x) = DOMAIN x.entries
           /\ \A i \in DOMAIN x.entries : Elements(x)[i] = x.entries[i].key
           /\ ValuesOf(Elements(x)) = Represented(x)
           /\ { Value(e) : e \in Objects(Elements(x)) } = Represented(x)
<1>0. SetEntries \in SUBSET EntryOf
  BY EntrySets
<1>1. /\ x.entries \in Seq(SetEntries) /\ Len(x.entries) \in Nat /\ DOMAIN x.entries = 1..Len(x.entries)
      /\ \A i \in DOMAIN x.entries : x.entries[i] \in SetEntries
  BY <1>0, InnerFacts
<1>2. \A d \in SetEntries : d.value = d.key /\ d.key \in Item
  BY DEF SetEntries
<1>3. /\ DOMAIN Elements(x) = DOMAIN x.entries
      /\ \A i \in DOMAIN x.entries : Elements(x)[i] = x.entries[i].key /\ Elements(x)[i] \in Item
  BY <1>1, <1>2 DEF Elements
<1>4. Elements(x) \in Seq(Item) /\ Len(Elements(x)) = Size(x)
  <2>1. Elements(x) = [i \in 1..Len(x.entries) |-> x.entries[i].value]
    BY <1>1 DEF Elements
  <2>2. \A i \in 1..Len(x.entries) : x.entries[i].value \in Item
    BY <1>1, <1>2
  <2> QED
    BY <2>1, <2>2, <1>1 DEF Size
<1>5. ValuesOf(Elements(x)) = Represented(x)
  BY <1>3 DEF ValuesOf, Represented, Objects
<1>6. { Value(e) : e \in Objects(Elements(x)) } = ValuesOf(Elements(x))
  BY DEF ValuesOf, Objects
<1> QED
  BY <1>3, <1>4, <1>5, <1>6

\* The entries a set is made from represent its elements.
LEMMA MembersAre ==
    ASSUME NEW elements \in Seq(Item)
    PROVE  /\ Members(elements) \in Seq(SetEntries) /\ Len(Members(elements)) = Len(elements)
           /\ \A i \in 1..Len(elements) : Members(elements)[i].key = elements[i]
<1>1. DOMAIN elements = 1..Len(elements) /\ Len(elements) \in Nat
      /\ \A i \in 1..Len(elements) : elements[i] \in Item
  OBVIOUS
<1>2. \A e \in Item : [key |-> e, value |-> e] \in SetEntries
  BY DEF SetEntries
<1>3. Members(elements) = [i \in 1..Len(elements) |-> [key |-> elements[i], value |-> elements[i]]]
  BY <1>1 DEF Members
<1> HIDE DEF SetEntries
<1>4. \A i \in 1..Len(elements) : [key |-> elements[i], value |-> elements[i]] \in SetEntries
  BY <1>1, <1>2
<1> QED
  BY <1>1, <1>3, <1>4

\* The empty inner map represents the empty set.
LEMMA EmptyIs ==
    ASSUME NEW E
    PROVE  /\ EmptyInner \in GoodInner(E) /\ Held(EmptyInner) = {} /\ Represented(EmptyInner) = {}
BY DEF EmptyInner, GoodInner, Inner, Distinct, Held, Objects, Represented

\* Adding elements adds their values.
LEMMA AddAllIs ==
    ASSUME OneText, NEW x \in GoodInner(SetEntries), NEW elements \in Seq(Item)
    PROVE  /\ AddAll(x, elements) \in GoodInner(SetEntries)
           /\ Represented(AddAll(x, elements)) = Represented(x) \cup ValuesOf(elements)
<1>0. SetEntries \in SUBSET EntryOf /\ FALSE \in BOOLEAN
  BY EntrySets
<1> DEFINE entries == Members(elements)
<1>1. /\ entries \in Seq(SetEntries) /\ Len(entries) = Len(elements)
      /\ \A i \in 1..Len(elements) : entries[i].key = elements[i]
  BY MembersAre
<1> HIDE DEF entries
<1>2. AfterPuts(SetEntries, x, entries, FALSE, Len(entries), PutAll(x, entries, FALSE))
  BY <1>0, <1>1, PutAllHolds
<1>3. AddAll(x, elements) = PutAll(x, entries, FALSE)
  BY DEF AddAll, entries
<1>4. /\ AddAll(x, elements) \in GoodInner(SetEntries)
      /\ Represented(AddAll(x, elements)) = Represented(x) \cup { Value(entries[i].key) : i \in 1..Len(entries) }
  BY <1>2, <1>3 DEF AfterPuts
<1>5. { Value(entries[i].key) : i \in 1..Len(entries) } = ValuesOf(elements)
  <2>1. DOMAIN elements = 1..Len(entries)
    BY <1>1
  <2> QED
    BY <2>1, <1>1 DEF ValuesOf
<1> QED
  BY <1>4, <1>5

\* An inner map made from elements represents their values.
LEMMA FromElementsIs ==
    ASSUME OneText, NEW elements \in Seq(Item)
    PROVE  /\ FromElements(elements) \in GoodInner(SetEntries)
           /\ Represented(FromElements(elements)) = ValuesOf(elements)
<1>1. EmptyInner \in GoodInner(SetEntries) /\ Represented(EmptyInner) = {}
  BY EntrySets, EmptyIs
<1>2. /\ AddAll(EmptyInner, elements) \in GoodInner(SetEntries)
      /\ Represented(AddAll(EmptyInner, elements)) = Represented(EmptyInner) \cup ValuesOf(elements)
  BY <1>1, AddAllIs
<1> QED
  BY <1>1, <1>2 DEF FromElements

\* Removing keys removes their values from what is represented.
LEMMA RemoveAllIs ==
    ASSUME OneText, NEW E \in SUBSET EntryOf, NEW x \in GoodInner(E), NEW keys \in Seq(Item)
    PROVE  /\ RemoveAll(x, keys) \in GoodInner(E)
           /\ Held(RemoveAll(x, keys)) = { d \in Held(x) : Value(d.key) \notin ValuesOf(keys) }
           /\ Represented(RemoveAll(x, keys)) = Represented(x) \ ValuesOf(keys)
<1>1. AfterRemovals(E, x, keys, Len(keys), RemoveAll(x, keys))
  BY RemoveAllHolds
<1>2. \A v : v \notin ValuesOf(keys) <=> \A i \in 1..Len(keys) : Value(keys[i]) # v
  <2>1. DOMAIN keys = 1..Len(keys)
    OBVIOUS
  <2> QED
    BY <2>1 DEF ValuesOf
<1>3. /\ RemoveAll(x, keys) \in GoodInner(E)
      /\ Held(RemoveAll(x, keys)) = { d \in Held(x) : \A i \in 1..Len(keys) : Value(keys[i]) # Value(d.key) }
  BY <1>1 DEF AfterRemovals
<1>4. Held(RemoveAll(x, keys)) = { d \in Held(x) : Value(d.key) \notin ValuesOf(keys) }
  BY <1>2, <1>3
<1>5. \A y : Represented(y) = { Value(d.key) : d \in Held(y) }
  BY DEF Represented, Held
<1>6. Represented(RemoveAll(x, keys)) = Represented(x) \ ValuesOf(keys)
  BY <1>4, <1>5
<1> QED
  BY <1>3, <1>4, <1>6

-----------------------------------------------------------------------------
(* The function a Map represents.                                          *)

\* One entry of an inner map has a key.
LEMMA HeldOnce ==
    ASSUME NEW E \in SUBSET EntryOf, NEW x \in GoodInner(E), NEW d \in Held(x), NEW e \in Held(x),
           Value(d.key) = Value(e.key)
    PROVE  d = e
<1>1. PICK i \in DOMAIN x.entries : d = x.entries[i]
  BY DEF Held, Objects
<1>2. PICK j \in DOMAIN x.entries : e = x.entries[j]
  BY DEF Held, Objects
<1>3. Distinct(x)
  BY DEF GoodInner
<1>4. i = j
  BY <1>1, <1>2, <1>3 DEF Distinct
<1> QED
  BY <1>1, <1>2, <1>4

\* Held entries are entries of their map.
LEMMA HeldEntries ==
    ASSUME NEW E \in SUBSET EntryOf, NEW x \in GoodInner(E)
    PROVE  Held(x) \subseteq E
<1>1. \A i \in DOMAIN x.entries : x.entries[i] \in E
  BY InnerFacts
<1> QED
  BY <1>1 DEF Held, Objects

\* What is represented is what the held entries have for keys.
LEMMA RepresentedHeld ==
    ASSUME NEW x
    PROVE  Represented(x) = { Value(d.key) : d \in Held(x) }
BY DEF Represented, Held

\* The abstraction of a map takes the value of the one entry of each key.
LEMMA AbstractionAt ==
    ASSUME NEW x \in GoodInner(MapEntries)
    PROVE  /\ DOMAIN Abstraction(x) = Represented(x)
           /\ \A d \in Held(x) : Abstraction(x)[Value(d.key)] = Value(d.value)
<1>0. MapEntries \in SUBSET EntryOf
  BY EntrySets
<1>1. DOMAIN Abstraction(x) = Represented(x)
  BY DEF Abstraction
<1>2. ASSUME NEW d \in Held(x) PROVE Abstraction(x)[Value(d.key)] = Value(d.value)
  <2> DEFINE e == CHOOSE c \in Held(x) : Value(c.key) = Value(d.key)
  <2>1. Value(d.key) \in Represented(x)
    BY RepresentedHeld
  <2>2. Abstraction(x)[Value(d.key)] = Value(e.value)
    BY <2>1 DEF Abstraction, Held
  <2>3. e \in Held(x) /\ Value(e.key) = Value(d.key)
    OBVIOUS
  <2> HIDE DEF e
  <2>4. e = d
    BY <1>0, <2>3, HeldOnce
  <2> QED
    BY <2>2, <2>4
<1> QED
  BY <1>1, <1>2

\* A function with the keys and the values of an inner map is its abstraction.
IsFunction(f) == f = [k \in DOMAIN f |-> f[k]]

\* An inner map represents a function when its entries are those of it.
LEMMA AbstractionIs ==
    ASSUME NEW x \in GoodInner(MapEntries), NEW f, IsFunction(f), DOMAIN f = Represented(x),
           \A d \in Held(x) : f[Value(d.key)] = Value(d.value)
    PROVE  Abstraction(x) = f
<1>1. ASSUME NEW k \in Represented(x)
      PROVE  Value((CHOOSE e \in Held(x) : Value(e.key) = k).value) = f[k]
  <2> DEFINE e == CHOOSE c \in Held(x) : Value(c.key) = k
  <2>1. e \in Held(x) /\ Value(e.key) = k
    BY RepresentedHeld
  <2> HIDE DEF e
  <2>2. Value(e.value) = f[k]
    BY <2>1
  <2> QED
    BY <2>2 DEF e
<1>2. Abstraction(x) = [k \in Represented(x) |->
                          Value((CHOOSE e \in Held(x) : Value(e.key) = k).value)]
  BY DEF Abstraction, Held
<1>3. f = [k \in Represented(x) |-> f[k]]
  BY DEF IsFunction
<1> QED
  BY <1>1, <1>2, <1>3

\* The abstraction is a function on what is represented.
LEMMA AbstractionIsFunction ==
    ASSUME NEW x
    PROVE  IsFunction(Abstraction(x)) /\ DOMAIN Abstraction(x) = Represented(x)
BY DEF IsFunction, Abstraction

\* Functions with the same domain and values are the same.
LEMMA SameFunction ==
    ASSUME NEW f, NEW g, IsFunction(f), IsFunction(g), DOMAIN f = DOMAIN g,
           \A k \in DOMAIN f : f[k] = g[k]
    PROVE  f = g
BY DEF IsFunction

\* What the override of the specification returns.
LEMMA OverrideFacts ==
    ASSUME NEW f, NEW g
    PROVE  /\ IsFunction(Persistent!Override(f, g))
           /\ DOMAIN Persistent!Override(f, g) = DOMAIN f \cup DOMAIN g
           /\ \A k \in DOMAIN g : Persistent!Override(f, g)[k] = g[k]
           /\ \A k \in DOMAIN f : k \notin DOMAIN g => Persistent!Override(f, g)[k] = f[k]
BY DEF IsFunction, Persistent!Override

\* The entries of a literal, each with the value of the last one of its key.
LEMMA EntriesFacts ==
    ASSUME NEW entries \in Seq(Key \X Key)
    PROVE  /\ IsFunction(Persistent!Entries(entries))
           /\ DOMAIN Persistent!Entries(entries) = { Value(entries[i][1]) : i \in DOMAIN entries }
           /\ \A i \in DOMAIN entries :
                (\A j \in DOMAIN entries : Value(entries[j][1]) = Value(entries[i][1]) => j <= i)
                => Persistent!Entries(entries)[Value(entries[i][1])] = Value(entries[i][2])
<1>1. IsFunction(Persistent!Entries(entries))
      /\ DOMAIN Persistent!Entries(entries) = { Value(entries[i][1]) : i \in DOMAIN entries }
  BY DEF IsFunction, Persistent!Entries
<1>2. ASSUME NEW i \in DOMAIN entries,
             \A j \in DOMAIN entries : Value(entries[j][1]) = Value(entries[i][1]) => j <= i
      PROVE  Persistent!Entries(entries)[Value(entries[i][1])] = Value(entries[i][2])
  <2> DEFINE k == Value(entries[i][1])
             Last(l) == /\ Value(entries[l][1]) = k
                        /\ \A j \in DOMAIN entries : Value(entries[j][1]) = k => j <= l
             last == CHOOSE l \in DOMAIN entries : Last(l)
  <2>0. DOMAIN entries \subseteq Nat
    OBVIOUS
  <2>1. Last(i)
    BY <1>2
  <2>2. last \in DOMAIN entries /\ Last(last)
    BY <2>1
  <2>3. Persistent!Entries(entries)[k] = Value(entries[last][2])
    BY <1>1 DEF Persistent!Entries
  <2> HIDE DEF last
  <2>4. last = i
    BY <2>0, <2>1, <2>2
  <2> QED
    BY <2>3, <2>4
<1> QED
  BY <1>1, <1>2

\* The entries a map is made from.
LEMMA EntriesAre ==
    ASSUME NEW entries \in Seq(Key \X Key)
    PROVE  /\ [i \in DOMAIN entries |-> Entry(entries[i])] \in Seq(MapEntries)
           /\ Len([i \in DOMAIN entries |-> Entry(entries[i])]) = Len(entries)
           /\ DOMAIN entries = 1..Len(entries) /\ Len(entries) \in Nat
           /\ \A i \in DOMAIN entries : /\ Entry(entries[i]) = [key |-> entries[i][1], value |-> entries[i][2]]
                                        /\ Entry(entries[i]) \in MapEntries
<1>1. DOMAIN entries = 1..Len(entries) /\ Len(entries) \in Nat
      /\ \A i \in 1..Len(entries) : entries[i][1] \in Key /\ entries[i][2] \in Key
  OBVIOUS
<1>2. \A i \in 1..Len(entries) : /\ Entry(entries[i]) = [key |-> entries[i][1], value |-> entries[i][2]]
                                 /\ Entry(entries[i]) \in MapEntries
  BY <1>1 DEF Entry, MapEntries
<1> HIDE DEF MapEntries
<1> QED
  BY <1>1, <1>2

\* A literal's entries, put one after the other.
LEMMA FromEntriesIs ==
    ASSUME OneText, NEW entries \in Seq(Key \X Key)
    PROVE  /\ FromEntries(entries) \in GoodInner(MapEntries)
           /\ Abstraction(FromEntries(entries)) = Persistent!Entries(entries)
<1> DEFINE list == [i \in DOMAIN entries |-> Entry(entries[i])]
           r == FromEntries(entries)
<1>0. MapEntries \in SUBSET EntryOf /\ FALSE \in BOOLEAN
  BY EntrySets
<1>1. /\ list \in Seq(MapEntries) /\ Len(list) = Len(entries)
      /\ DOMAIN entries = 1..Len(entries) /\ Len(entries) \in Nat
      /\ \A i \in 1..Len(entries) : list[i].key = entries[i][1] /\ list[i].value = entries[i][2]
  BY EntriesAre
<1> HIDE DEF list
<1>2. EmptyInner \in GoodInner(MapEntries) /\ Held(EmptyInner) = {} /\ Represented(EmptyInner) = {}
  BY EmptyIs
<1>3. AfterPuts(MapEntries, EmptyInner, list, FALSE, Len(list), PutAll(EmptyInner, list, FALSE))
  BY <1>0, <1>1, <1>2, PutAllHolds
<1>4. r = PutAll(EmptyInner, list, FALSE)
  BY DEF FromEntries, list
<1>5. /\ r \in GoodInner(MapEntries)
      /\ Represented(r) = { Value(list[i].key) : i \in 1..Len(list) }
      /\ \A d \in Held(r) : \E i \in 1..Len(list) :
           d = list[i] /\ \A j \in i + 1..Len(list) : Value(list[j].key) # Value(d.key)
  BY <1>2, <1>3, <1>4 DEF AfterPuts
<1> HIDE DEF r
<1>6. /\ IsFunction(Persistent!Entries(entries))
      /\ DOMAIN Persistent!Entries(entries) = { Value(entries[i][1]) : i \in DOMAIN entries }
      /\ \A i \in DOMAIN entries :
           (\A j \in DOMAIN entries : Value(entries[j][1]) = Value(entries[i][1]) => j <= i)
           => Persistent!Entries(entries)[Value(entries[i][1])] = Value(entries[i][2])
  BY EntriesFacts
<1>7. DOMAIN Persistent!Entries(entries) = Represented(r)
  <2>1. { Value(list[i].key) : i \in 1..Len(entries) } = { Value(entries[i][1]) : i \in 1..Len(entries) }
    BY <1>1
  <2>2. Represented(r) = { Value(list[i].key) : i \in 1..Len(entries) }
    BY <1>1, <1>5
  <2>3. DOMAIN Persistent!Entries(entries) = { Value(entries[i][1]) : i \in 1..Len(entries) }
    BY <1>1, <1>6
  <2> QED
    BY <2>1, <2>2, <2>3, Zenon
<1>8. ASSUME NEW d \in Held(r) PROVE Persistent!Entries(entries)[Value(d.key)] = Value(d.value)
  <2>1. PICK i \in 1..Len(list) : d = list[i] /\ \A j \in i + 1..Len(list) : Value(list[j].key) # Value(d.key)
    BY <1>5
  <2>2. i \in DOMAIN entries /\ d.key = entries[i][1] /\ d.value = entries[i][2]
    BY <2>1, <1>1
  <2>3. \A j \in DOMAIN entries : Value(entries[j][1]) = Value(entries[i][1]) => j <= i
    <3> SUFFICES ASSUME NEW j \in DOMAIN entries, ~(j <= i) PROVE Value(entries[j][1]) # Value(entries[i][1])
      OBVIOUS
    <3>1. j \in i + 1..Len(list)
      BY <1>1
    <3>2. list[j].key = entries[j][1]
      BY <1>1
    <3> QED
      BY <3>1, <3>2, <2>1, <2>2
  <2>4. Persistent!Entries(entries)[Value(entries[i][1])] = Value(entries[i][2])
    BY <2>2, <2>3, <1>6
  <2> QED
    BY <2>2, <2>4
<1>9. Abstraction(r) = Persistent!Entries(entries)
  BY <1>5, <1>6, <1>7, <1>8, AbstractionIs
<1> QED
  BY <1>5, <1>9 DEF r

-----------------------------------------------------------------------------
(* Map operations.                                                         *)

\* Map.updateUnsafe represents the function with one argument overridden.
LEMMA UpdateIs ==
    ASSUME OneText, NEW x \in GoodInner(MapEntries), NEW k \in Key, NEW v \in Key,
           NEW one, one = <<<<k, v>>>>
    PROVE  /\ SetEntry(x, k, v) \in GoodInner(MapEntries)
           /\ Abstraction(SetEntry(x, k, v)) = Persistent!Override(Abstraction(x), Persistent!Entries(one))
<1> DEFINE e == [key |-> k, value |-> v]
           r == SetEntry(x, k, v)
           f == Abstraction(x)
           g == Persistent!Entries(one)
           h == Persistent!Override(f, g)
<1>0. MapEntries \in SUBSET EntryOf /\ k \in Item /\ e \in MapEntries /\ e.key = k /\ e.value = v
  BY EntrySets DEF MapEntries, Item
<1>1. /\ r \in GoodInner(MapEntries)
      /\ Held(r) = { d \in Held(x) : Value(d.key) # Value(k) } \cup {e}
      /\ Represented(r) = Represented(x) \cup {Value(k)}
  BY <1>0, SetEntryHolds
<1>2. one \in Seq(Key \X Key) /\ DOMAIN one = {1} /\ one[1][1] = k /\ one[1][2] = v
  <2>1. <<k, v>> \in Key \X Key
    OBVIOUS
  <2> QED
    BY <2>1
<1>3. /\ IsFunction(g) /\ DOMAIN g = { Value(one[i][1]) : i \in DOMAIN one }
      /\ \A i \in DOMAIN one :
           (\A j \in DOMAIN one : Value(one[j][1]) = Value(one[i][1]) => j <= i)
           => g[Value(one[i][1])] = Value(one[i][2])
  BY <1>2, EntriesFacts
<1>4. DOMAIN g = {Value(k)} /\ g[Value(k)] = Value(v)
  <2>1. DOMAIN g = {Value(k)}
    BY <1>2, <1>3
  <2>2. \A j \in DOMAIN one : Value(one[j][1]) = Value(one[1][1]) => j <= 1
    BY <1>2
  <2>3. g[Value(one[1][1])] = Value(one[1][2])
    BY <1>2, <1>3, <2>2
  <2> QED
    BY <1>2, <2>1, <2>3
<1> HIDE DEF f, g
<1>5. /\ IsFunction(h) /\ DOMAIN h = DOMAIN f \cup DOMAIN g
      /\ \A y \in DOMAIN g : h[y] = g[y]
      /\ \A y \in DOMAIN f : y \notin DOMAIN g => h[y] = f[y]
  BY OverrideFacts
<1>6. DOMAIN f = Represented(x) /\ \A d \in Held(x) : f[Value(d.key)] = Value(d.value)
  BY AbstractionAt DEF f
<1> HIDE DEF e, r, h
<1>7. DOMAIN h = Represented(r)
  BY <1>1, <1>4, <1>5, <1>6
<1>8. ASSUME NEW d \in Held(r) PROVE h[Value(d.key)] = Value(d.value)
  <2>1. CASE d = e
    BY <2>1, <1>0, <1>4, <1>5
  <2>2. CASE d \in Held(x) /\ Value(d.key) # Value(k)
    <3>1. Value(d.key) \in DOMAIN f
      BY <2>2, <1>6, RepresentedHeld
    <3> QED
      BY <3>1, <2>2, <1>4, <1>5, <1>6
  <2> QED
    BY <2>1, <2>2, <1>1
<1>9. Abstraction(r) = h
  BY <1>1, <1>5, <1>7, <1>8, AbstractionIs
<1> QED
  BY <1>1, <1>9 DEF r, f, g, h

\* The entries of the right map, and those of the left one it lacks.
LEMMA MergeIs ==
    ASSUME OneText, NEW l \in GoodInner(MapEntries), NEW x \in GoodInner(MapEntries)
    PROVE  /\ PutAll(x, l.entries, TRUE) \in GoodInner(MapEntries)
           /\ Abstraction(PutAll(x, l.entries, TRUE))
              = Persistent!Override(Abstraction(l), Abstraction(x))
<1> DEFINE r == PutAll(x, l.entries, TRUE)
           f == Abstraction(l)
           g == Abstraction(x)
           h == Persistent!Override(f, g)
           s == l.entries
<1>0. MapEntries \in SUBSET EntryOf /\ TRUE \in BOOLEAN
  BY EntrySets
<1>1. s \in Seq(MapEntries) /\ DOMAIN s = 1..Len(s)
  BY <1>0, InnerFacts
<1>2. AfterPuts(MapEntries, x, s, TRUE, Len(s), r)
  BY <1>0, <1>1, PutAllHolds
<1>3. /\ r \in GoodInner(MapEntries)
      /\ Represented(r) = Represented(x) \cup { Value(s[i].key) : i \in 1..Len(s) }
      /\ \A d \in Held(r) : d \in Held(x)
                            \/ \E i \in 1..Len(s) : d = s[i] /\ Value(d.key) \notin Represented(x)
  BY <1>2 DEF AfterPuts
<1>4. /\ Represented(l) = { Value(s[i].key) : i \in 1..Len(s) }
      /\ \A i \in 1..Len(s) : s[i] \in Held(l)
  BY <1>1 DEF Represented, Held, Objects
<1>5. /\ IsFunction(h) /\ DOMAIN h = DOMAIN f \cup DOMAIN g
      /\ \A y \in DOMAIN g : h[y] = g[y]
      /\ \A y \in DOMAIN f : y \notin DOMAIN g => h[y] = f[y]
  BY OverrideFacts
<1>6. /\ DOMAIN f = Represented(l) /\ \A d \in Held(l) : f[Value(d.key)] = Value(d.value)
      /\ DOMAIN g = Represented(x) /\ \A d \in Held(x) : g[Value(d.key)] = Value(d.value)
  BY AbstractionAt
<1> HIDE DEF r, f, g, h, s
<1>7. DOMAIN h = Represented(r)
  BY <1>3, <1>4, <1>5, <1>6
<1>8. ASSUME NEW d \in Held(r) PROVE h[Value(d.key)] = Value(d.value)
  <2>1. CASE d \in Held(x)
    <3>1. Value(d.key) \in DOMAIN g
      BY <2>1, <1>6, RepresentedHeld
    <3> QED
      BY <3>1, <2>1, <1>5, <1>6
  <2>2. CASE \E i \in 1..Len(s) : d = s[i] /\ Value(d.key) \notin Represented(x)
    <3>1. d \in Held(l) /\ Value(d.key) \notin Represented(x)
      BY <2>2, <1>4
    <3>2. Value(d.key) \in DOMAIN f /\ Value(d.key) \notin DOMAIN g
      BY <3>1, <1>6, RepresentedHeld
    <3> QED
      BY <3>1, <3>2, <1>5, <1>6
  <2> QED
    BY <2>1, <2>2, <1>3
<1>9. Abstraction(r) = h
  BY <1>3, <1>5, <1>7, <1>8, AbstractionIs
<1> QED
  BY <1>3, <1>9 DEF r, f, g, h, s

\* Map.Subtract represents the function restricted to the keys left.
LEMMA SubtractIs ==
    ASSUME OneText, NEW x \in GoodInner(MapEntries), NEW keys \in Seq(Item),
           NEW K, K = ValuesOf(keys)
    PROVE  /\ RemoveAll(x, keys) \in GoodInner(MapEntries)
           /\ Abstraction(RemoveAll(x, keys))
              = [k \in DOMAIN Abstraction(x) \ K |-> Abstraction(x)[k]]
<1> DEFINE r == RemoveAll(x, keys)
           f == Abstraction(x)
           h == [k \in DOMAIN f \ K |-> f[k]]
<1>0. MapEntries \in SUBSET EntryOf
  BY EntrySets
<1>1. /\ r \in GoodInner(MapEntries)
      /\ Held(r) = { d \in Held(x) : Value(d.key) \notin K }
      /\ Represented(r) = Represented(x) \ K
  BY <1>0, RemoveAllIs
<1>2. DOMAIN f = Represented(x) /\ \A d \in Held(x) : f[Value(d.key)] = Value(d.value)
  BY AbstractionAt
<1> HIDE DEF r, f
<1>3. IsFunction(h) /\ DOMAIN h = Represented(r)
  BY <1>1, <1>2 DEF IsFunction
<1>4. ASSUME NEW d \in Held(r) PROVE h[Value(d.key)] = Value(d.value)
  <2>1. d \in Held(x) /\ Value(d.key) \notin K /\ Value(d.key) \in DOMAIN f
    BY <1>1, <1>2, RepresentedHeld
  <2> QED
    BY <2>1, <1>2
<1> HIDE DEF h
<1>5. Abstraction(r) = h
  BY <1>1, <1>3, <1>4, AbstractionIs
<1> QED
  BY <1>1, <1>5 DEF r, f, h

\* Map.get returns the value of the function, or nothing outside its domain.
LEMMA GetIs ==
    ASSUME OneText, NEW x \in GoodInner(MapEntries), NEW k \in Item
    PROVE  /\ HasKey(x, k) <=> Value(k) \in DOMAIN Abstraction(x)
           /\ HasKey(x, k) => /\ Value(ValueOf(x, k)) = Abstraction(x)[Value(k)]
                              /\ ValueOf(x, k) \in Key
<1>0. MapEntries \in SUBSET EntryOf
  BY EntrySets
<1>1. HasKey(x, k) <=> Value(k) \in Represented(x)
  BY <1>0, HasKeyMeans
<1>2. DOMAIN Abstraction(x) = Represented(x)
      /\ \A d \in Held(x) : Abstraction(x)[Value(d.key)] = Value(d.value)
  BY AbstractionAt
<1>3. ASSUME HasKey(x, k)
      PROVE  Value(ValueOf(x, k)) = Abstraction(x)[Value(k)] /\ ValueOf(x, k) \in Key
  <2> DEFINE i == CHOOSE j \in Found(x, k) : TRUE
  <2>1. ValueOf(x, k) = x.entries[i].value
    BY DEF ValueOf
  <2> HIDE DEF i
  <2>2. i = CHOOSE j \in Found(x, k) : TRUE
    BY DEF i
  <2>3. i \in DOMAIN x.entries /\ Value(x.entries[i].key) = Value(k)
    BY <1>0, <1>3, <2>2, PlaceFound
  <2>4. x.entries[i] \in Held(x)
    BY <2>3 DEF Held, Objects
  <2>5. x.entries[i] \in MapEntries
    BY <1>0, <2>3, InnerFacts
  <2> QED
    BY <1>2, <2>1, <2>3, <2>4, <2>5 DEF MapEntries
<1> QED
  BY <1>1, <1>2, <1>3

-----------------------------------------------------------------------------
(* Selections in the order of binary numbers, the first place the lowest.  *)

Selections(n) == [1..n -> BOOLEAN]

Before(n, u, v) == \E i \in 1..n : ~u[i] /\ v[i] /\ \A j \in 1..n : j > i => u[j] = v[j]

\* Two selections that differ do so at a last place.
LEMMA LastDifference ==
    ASSUME NEW n \in Nat, NEW u \in Selections(n), NEW v \in Selections(n), u # v
    PROVE  \E i \in 1..n : u[i] # v[i] /\ \A j \in 1..n : j > i => u[j] = v[j]
<1> DEFINE T == { m \in 0..n : \E i \in 1..n : u[i] # v[i] /\ m = n - i }
<1>1. \E i \in 1..n : u[i] # v[i]
  BY DEF Selections
<1>2. T # {} /\ T \in SUBSET Nat
  <2>1. PICK i \in 1..n : u[i] # v[i]
    BY <1>1
  <2>2. n - i \in T
    BY <2>1
  <2>3. T \in SUBSET (0..n)
    OBVIOUS
  <2> HIDE DEF T
  <2> QED
    BY <2>2, <2>3
<1>3. \A m : m \in T <=> m \in 0..n /\ \E i \in 1..n : u[i] # v[i] /\ m = n - i
  OBVIOUS
<1> HIDE DEF T
<1>4. PICK m \in T : \A k \in T : m <= k
  BY <1>2, Least
<1>5. PICK i \in 1..n : u[i] # v[i] /\ m = n - i
  BY <1>3, <1>4
<1>6. ASSUME NEW j \in 1..n, j > i PROVE u[j] = v[j]
  <2>1. n - j \in 0..n /\ ~(m <= n - j)
    BY <1>5, <1>6
  <2>2. n - j \notin T
    BY <1>4, <2>1
  <2> QED
    BY <1>3, <2>1, <2>2
<1> QED
  BY <1>5, <1>6

\* The order is irreflexive, the empty selection the first and the full one
\* the last.
LEMMA NotBeforeItself ==
    ASSUME NEW n, NEW u
    PROVE  ~Before(n, u, u)
BY DEF Before

LEMMA NoneBeforeEmpty ==
    ASSUME NEW n \in Nat, NEW u, NEW v, \A i \in 1..n : ~v[i]
    PROVE  ~Before(n, u, v)
BY DEF Before

LEMMA AllBeforeFull ==
    ASSUME NEW n \in Nat, NEW u \in Selections(n), NEW v \in Selections(n), \A i \in 1..n : v[i]
    PROVE  Before(n, u, v) \/ u = v
<1> SUFFICES ASSUME u # v PROVE Before(n, u, v)
  OBVIOUS
<1>1. PICK i \in 1..n : u[i] # v[i] /\ \A j \in 1..n : j > i => u[j] = v[j]
  BY LastDifference
<1>2. u[i] \in BOOLEAN
  BY DEF Selections
<1> QED
  BY <1>1, <1>2 DEF Before

\* `next` is the first place that u leaves out; w takes it, drops the ones
\* before it and keeps the ones after it.
Follows(n, u, next, w) ==
    /\ next \in 1..n /\ ~u[next] /\ \A j \in 1..next - 1 : u[j]
    /\ w = [i \in 1..n |-> i = next \/ (i > next /\ u[i])]

\* It is the next selection: before it are those before u, and u.
LEMMA NextInOrder ==
    ASSUME NEW n \in Nat, NEW u \in Selections(n), NEW next, NEW w, Follows(n, u, next, w),
           NEW v \in Selections(n)
    PROVE  w \in Selections(n) /\ (Before(n, v, w) <=> Before(n, v, u) \/ v = u)
<1>0. /\ next \in 1..n /\ ~u[next] /\ \A j \in 1..n : j < next => u[j]
      /\ w \in Selections(n) /\ w[next]
      /\ \A j \in 1..n : j < next => ~w[j]
      /\ \A j \in 1..n : j > next => w[j] = u[j]
      /\ \A j \in 1..n : u[j] \in BOOLEAN /\ v[j] \in BOOLEAN /\ w[j] \in BOOLEAN
  <2>1. next \in 1..n /\ ~u[next] /\ \A j \in 1..next - 1 : u[j]
    BY DEF Follows
  <2>2. \A j \in 1..n : j < next => j \in 1..next - 1
    BY <2>1
  <2>3. \A j \in 1..n : u[j] \in BOOLEAN /\ v[j] \in BOOLEAN
    BY DEF Selections
  <2>4. /\ w \in Selections(n)
        /\ \A j \in 1..n : w[j] <=> j = next \/ (j > next /\ u[j])
    BY <2>1, <2>3 DEF Follows, Selections
  <2>5. \A j \in 1..n : w[j] \in BOOLEAN
    BY <2>4 DEF Selections
  <2> QED
    BY <2>1, <2>2, <2>3, <2>4, <2>5
<1>1. ASSUME v = u PROVE Before(n, v, w)
  BY <1>0, <1>1 DEF Before
<1>2. ASSUME Before(n, v, u) PROVE Before(n, v, w)
  <2>1. PICK k \in 1..n : ~v[k] /\ u[k] /\ \A j \in 1..n : j > k => v[j] = u[j]
    BY <1>2 DEF Before
  <2>2. CASE k > next
    <3>1. w[k] /\ \A j \in 1..n : j > k => v[j] = w[j]
      BY <1>0, <2>1, <2>2
    <3> QED
      BY <2>1, <3>1 DEF Before
  <2>3. CASE k < next
    <3>1. ~v[next] /\ \A j \in 1..n : j > next => v[j] = w[j]
      BY <1>0, <2>1, <2>3
    <3> QED
      BY <1>0, <3>1 DEF Before
  <2>4. k # next
    BY <1>0, <2>1
  <2> QED
    BY <1>0, <2>2, <2>3, <2>4
<1>3. ASSUME Before(n, v, w) PROVE Before(n, v, u) \/ v = u
  <2>1. PICK k \in 1..n : ~v[k] /\ w[k] /\ \A j \in 1..n : j > k => v[j] = w[j]
    BY <1>3 DEF Before
  <2>2. ~(k < next)
    BY <1>0, <2>1
  <2>3. CASE k > next
    <3>1. u[k] /\ \A j \in 1..n : j > k => v[j] = u[j]
      BY <1>0, <2>1, <2>3
    <3> QED
      BY <2>1, <3>1 DEF Before
  <2>4. CASE k = next
    <3> SUFFICES ASSUME v # u PROVE Before(n, v, u)
      OBVIOUS
    <3>1. PICK i \in 1..n : v[i] # u[i] /\ \A j \in 1..n : j > i => v[j] = u[j]
      BY LastDifference
    <3>2. \A j \in 1..n : j >= next => v[j] = u[j]
      BY <1>0, <2>1, <2>4
    <3>3. i < next
      BY <1>0, <3>1, <3>2
    <3>4. u[i] /\ ~v[i]
      BY <1>0, <3>1, <3>3
    <3> QED
      BY <3>1, <3>4 DEF Before
  <2> QED
    BY <1>0, <2>2, <2>3, <2>4
<1> QED
  BY <1>0, <1>1, <1>2, <1>3

-----------------------------------------------------------------------------
(* The subset generator.                                                   *)

\* The subset of values a selection of elements stands for.
Picked(elements, u) == { Value(elements[i]) : i \in { j \in 1..Len(elements) : u[j] } }

\* The elements are those of a set, each value once.
OneEach(elements) ==
    /\ elements \in Seq(Item)
    /\ \A i, j \in 1..Len(elements) : Value(elements[i]) = Value(elements[j]) => i = j

\* The elements of a set are distinct values.
LEMMA ElementsOnce ==
    ASSUME NEW x \in GoodInner(SetEntries)
    PROVE  OneEach(Elements(x))
<1>0. SetEntries \in SUBSET EntryOf
  BY EntrySets
<1>1. Distinct(x) /\ DOMAIN x.entries = 1..Len(x.entries)
  BY <1>0, InnerFacts
<1>2. /\ Elements(x) \in Seq(Item) /\ Len(Elements(x)) = Size(x)
      /\ \A i \in DOMAIN x.entries : Elements(x)[i] = x.entries[i].key
  BY ElementsOf
<1>3. DOMAIN x.entries = 1..Len(Elements(x))
  BY <1>1, <1>2 DEF Size
<1> QED
  BY <1>1, <1>2, <1>3 DEF OneEach, Distinct

\* Different selections pick different subsets.
LEMMA PickedOnce ==
    ASSUME NEW elements, OneEach(elements), NEW n, n = Len(elements),
           NEW u \in Selections(n), NEW v \in Selections(n), Picked(elements, u) = Picked(elements, v)
    PROVE  u = v
<1>1. \A i \in 1..n : u[i] \in BOOLEAN /\ v[i] \in BOOLEAN
  BY DEF Selections
<1>2. ASSUME NEW i \in 1..n PROVE u[i] <=> Value(elements[i]) \in Picked(elements, u)
  BY DEF OneEach, Picked
<1>3. ASSUME NEW i \in 1..n PROVE v[i] <=> Value(elements[i]) \in Picked(elements, v)
  BY DEF OneEach, Picked
<1>4. \A i \in 1..n : u[i] = v[i]
  BY <1>1, <1>2, <1>3
<1> QED
  BY <1>4 DEF Selections

\* Every subset is picked.
LEMMA PickedAll ==
    ASSUME NEW elements, OneEach(elements), NEW n, n = Len(elements)
    PROVE  { Picked(elements, u) : u \in Selections(n) } = SUBSET ValuesOf(elements)
<1>0. DOMAIN elements = 1..n
  BY DEF OneEach
<1>1. ASSUME NEW u \in Selections(n) PROVE Picked(elements, u) \in SUBSET ValuesOf(elements)
  BY <1>0 DEF Picked, ValuesOf
<1>2. ASSUME NEW s \in SUBSET ValuesOf(elements) PROVE \E u \in Selections(n) : s = Picked(elements, u)
  <2> DEFINE u == [i \in 1..n |-> Value(elements[i]) \in s]
  <2>1. u \in Selections(n)
    BY DEF Selections
  <2>2. \A y : y \in Picked(elements, u) <=> \E i \in 1..n : u[i] /\ y = Value(elements[i])
    BY DEF Picked
  <2>3. \A y : y \in Picked(elements, u) <=> y \in s
    <3>1. \A i \in 1..n : u[i] <=> Value(elements[i]) \in s
      OBVIOUS
    <3>2. \A y \in s : \E i \in 1..n : y = Value(elements[i])
      BY <1>0 DEF ValuesOf
    <3> HIDE DEF u
    <3> QED
      BY <2>2, <3>1, <3>2
  <2>4. s = Picked(elements, u)
    BY <2>3
  <2> QED
    BY <2>1, <2>4
<1> QED
  BY <1>1, <1>2

\* What the generator of a set with these elements keeps.
GeneratorOf(elements, g) ==
    /\ g \in [elements : Seq(Item), selected : Selections(Len(elements)), current : Seq(Item),
              yielded : Seq(SUBSET ValuesOf(elements)), done : BOOLEAN]
    /\ g.elements = elements

\* The subsets picked before a selection.
SeenBefore(elements, n, u) == { Picked(elements, v) : v \in { w \in Selections(n) : Before(n, w, u) } }

\* `current` picks what is selected, and the subsets yielded are, once each,
\* those of the selections before.
Generates(elements, g) ==
    /\ GeneratorOf(elements, g)
    /\ ~g.done => ValuesOf(g.current) = Picked(elements, g.selected)
    /\ \A i, j \in DOMAIN g.yielded : g.yielded[i] = g.yielded[j] => i = j
    /\ ~g.done => Objects(g.yielded) = SeenBefore(elements, Len(elements), g.selected)
    /\ g.done => Objects(g.yielded) = SUBSET ValuesOf(elements)

\* A generator starts at the empty selection, with nothing yielded.
LEMMA StartGenerates ==
    ASSUME NEW elements, OneEach(elements),
           NEW g, g = [elements |-> elements, selected |-> [i \in DOMAIN elements |-> FALSE],
                       current |-> << >>, yielded |-> << >>, done |-> FALSE]
    PROVE  Generates(elements, g)
<1> DEFINE n == Len(elements)
           none == [i \in 1..n |-> FALSE]
<1>0. elements \in Seq(Item) /\ DOMAIN elements = 1..n /\ n \in Nat
  BY DEF OneEach
<1>1. g = [elements |-> elements, selected |-> none, current |-> << >>, yielded |-> << >>, done |-> FALSE]
  BY <1>0
<1>2. none \in Selections(n) /\ \A i \in 1..n : ~none[i]
  BY DEF Selections
<1> HIDE DEF n, none
<1>3. GeneratorOf(elements, g)
  <2>1. none \in Selections(Len(elements)) /\ elements \in Seq(Item)
    BY <1>0, <1>2 DEF n
  <2>2. \A S : << >> \in Seq(S)
    OBVIOUS
  <2> DEFINE S == Selections(Len(elements))
             Y == SUBSET ValuesOf(elements)
  <2> HIDE DEF S, Y
  <2>3. none \in S /\ << >> \in Seq(Item) /\ << >> \in Seq(Y) /\ FALSE \in BOOLEAN
    BY <2>1, <2>2 DEF S
  <2> HIDE DEF S
  <2>4. \A d \in BOOLEAN : \A c \in Seq(Item) : \A y \in Seq(Y) : \A u \in S : \A l \in Seq(Item) :
          [elements |-> l, selected |-> u, current |-> c, yielded |-> y, done |-> d]
            \in [elements : Seq(Item), selected : S, current : Seq(Item), yielded : Seq(Y), done : BOOLEAN]
    OBVIOUS
  <2> DEFINE R == [elements : Seq(Item), selected : S, current : Seq(Item), yielded : Seq(Y), done : BOOLEAN]
  <2> HIDE DEF R
  <2>5. [elements |-> elements, selected |-> none, current |-> << >>, yielded |-> << >>, done |-> FALSE] \in R
    BY <2>1, <2>3, <2>4, Zenon DEF R
  <2>51. g \in R
    BY <1>1, <2>5, Zenon
  <2>6. g.elements = elements
    BY <1>1
  <2> QED
    BY <2>51, <2>6 DEF GeneratorOf, R, S, Y
<1>4. Picked(elements, none) = {} /\ ValuesOf(<< >>) = {} /\ Objects(<< >>) = {}
  BY <1>2 DEF Picked, ValuesOf, Objects, n
<1>5. \A w : ~Before(n, w, none)
  BY <1>0, <1>2, NoneBeforeEmpty
<1>6. g.selected = none /\ g.current = << >> /\ g.yielded = << >> /\ ~g.done
  BY <1>1
<1>7. { w \in Selections(n) : Before(n, w, none) } = {}
  BY <1>5
<1>8. SeenBefore(elements, n, g.selected) = {}
  BY <1>6, <1>7 DEF SeenBefore
<1>9. \A i, j \in DOMAIN g.yielded : g.yielded[i] = g.yielded[j] => i = j
  BY <1>6
<1> QED
  BY <1>3, <1>4, <1>6, <1>8, <1>9 DEF Generates, n

\* A selection that is not full leaves a first place out.
LEMMA FirstLeftOut ==
    ASSUME NEW n \in Nat, NEW u, \E i \in 1..n : ~u[i]
    PROVE  \E i \in 1..n : ~u[i] /\ \A j \in 1..i - 1 : u[j]
<1> DEFINE T == { i \in 1..n : ~u[i] }
<1>1. T # {} /\ T \in SUBSET Nat
  OBVIOUS
<1> HIDE DEF T
<1>2. PICK i \in T : \A j \in T : i <= j
  BY <1>1, Least
<1>3. i \in 1..n /\ ~u[i]
  BY DEF T
<1>4. ASSUME NEW j \in 1..i - 1 PROVE u[j]
  <2>1. j \in 1..n /\ ~(i <= j)
    BY <1>3
  <2> QED
    BY <1>2, <2>1 DEF T
<1> QED
  BY <1>3, <1>4

\* The kept elements and the next one are what the next selection picks.
LEMMA NextSelectionIs ==
    ASSUME NEW elements, OneEach(elements), NEW n, n = Len(elements), NEW u \in Selections(n),
           NEW current \in Seq(Item), ValuesOf(current) = Picked(elements, u),
           \E i \in 1..n : ~u[i], NEW r, r = NextSelection(elements, u, current)
    PROVE  /\ \E next : Follows(n, u, next, r.selected)
           /\ r.current \in Seq(Item)
           /\ ValuesOf(r.current) = Picked(elements, r.selected)
<1> DEFINE next == CHOOSE i \in DOMAIN elements : ~u[i] /\ \A j \in 1..i - 1 : u[j]
           kept == { p \in DOMAIN current : \A j \in 1..next - 1 : ~AreEqual(current[p], elements[j]) }
           w == [i \in DOMAIN elements |-> i = next \/ (i > next /\ u[i])]
           rest == Chosen(current, kept)
<1>1. r.selected = w /\ r.current = Append(rest, elements[next])
  BY DEF NextSelection
<1>2. /\ elements \in Seq(Item) /\ n \in Nat /\ DOMAIN elements = 1..n
      /\ \A i, j \in 1..n : Value(elements[i]) = Value(elements[j]) => i = j
      /\ DOMAIN current = 1..Len(current) /\ Len(current) \in Nat
  BY DEF OneEach
<1>3. next \in 1..n /\ ~u[next] /\ \A j \in 1..next - 1 : u[j]
  <2>1. \E i \in DOMAIN elements : ~u[i] /\ \A j \in 1..i - 1 : u[j]
    BY <1>2, FirstLeftOut
  <2> QED
    BY <1>2, <2>1
<1> HIDE DEF next
<1>4. Follows(n, u, next, w)
  BY <1>2, <1>3 DEF Follows
<1>5. AfterChoices(Item, current, kept, Len(current), rest)
  BY ChosenHolds
<1>6. rest \in Seq(Item) /\ Objects(rest) = { current[p] : p \in kept }
  <2>1. kept \cap (1..Len(current)) = kept
    BY <1>2
  <2> HIDE DEF kept, rest
  <2> QED
    BY <1>5, <2>1 DEF AfterChoices
<1>7. elements[next] \in Item
  BY <1>2, <1>3
<1> HIDE DEF rest
<1>8. /\ Append(rest, elements[next]) \in Seq(Item)
      /\ Objects(Append(rest, elements[next])) = Objects(rest) \cup {elements[next]}
  BY <1>6, <1>7, AppendObjects
<1>9. ASSUME NEW y PROVE y \in ValuesOf(r.current) <=> y \in Picked(elements, w)
  <2>1. y \in ValuesOf(r.current) <=> \E e \in Objects(r.current) : y = Value(e)
    BY DEF ValuesOf, Objects
  <2>2. y \in ValuesOf(r.current) <=> y = Value(elements[next]) \/ \E p \in kept : y = Value(current[p])
    BY <2>1, <1>1, <1>6, <1>8
  <2>3. (\E p \in kept : y = Value(current[p]))
        <=> y \in ValuesOf(current) /\ \A j \in 1..next - 1 : y # Value(elements[j])
    BY DEF ValuesOf, AreEqual
  <2>4. y \in ValuesOf(current) <=> \E i \in 1..n : u[i] /\ y = Value(elements[i])
    BY DEF Picked
  <2>5. y \in Picked(elements, w) <=> \E i \in 1..n : w[i] /\ y = Value(elements[i])
    BY DEF Picked
  <2>6. \A i \in 1..n : w[i] <=> i = next \/ (i > next /\ u[i])
    BY <1>2
  <2> HIDE DEF w, kept
  <2>7. ASSUME y \in Picked(elements, w)
        PROVE  y \in ValuesOf(r.current)
    <3>1. PICK i \in 1..n : w[i] /\ y = Value(elements[i])
      BY <2>5, <2>7
    <3>2. CASE i = next
      BY <2>2, <3>1, <3>2
    <3>3. CASE i > next /\ u[i]
      <4>1. y \in ValuesOf(current)
        BY <2>4, <3>1, <3>3
      <4>2. \A j \in 1..next - 1 : j \in 1..n /\ j # i
        BY <1>3, <3>3, <1>2
      <4>3. \A j \in 1..next - 1 : y # Value(elements[j])
        BY <1>2, <3>1, <4>2
      <4> QED
        BY <2>2, <2>3, <4>1, <4>3
    <3> QED
      BY <2>6, <3>1, <3>2, <3>3
  <2>8. ASSUME y \in ValuesOf(r.current)
        PROVE  y \in Picked(elements, w)
    <3>1. CASE y = Value(elements[next])
      BY <1>3, <2>5, <2>6, <3>1
    <3>2. CASE \E p \in kept : y = Value(current[p])
      <4>1. y \in ValuesOf(current) /\ \A j \in 1..next - 1 : y # Value(elements[j])
        BY <2>3, <3>2
      <4>2. PICK i \in 1..n : u[i] /\ y = Value(elements[i])
        BY <2>4, <4>1
      <4>3. i \notin 1..next - 1
        BY <4>1, <4>2
      <4>4. i # next
        BY <1>3, <4>2
      <4>5. i > next
        BY <1>2, <1>3, <4>3, <4>4
      <4> QED
        BY <2>5, <2>6, <4>2, <4>5
    <3> QED
      BY <2>2, <2>8, <3>1, <3>2
  <2> QED
    BY <2>7, <2>8
<1>10. ValuesOf(r.current) = Picked(elements, w)
  BY <1>9
<1> QED
  BY <1>1, <1>4, <1>8, <1>10

\* What the generator yields, and how it goes on.
Yields(g) == Append(g.yielded, { Value(e) : e \in Objects(Elements(FromElements(g.current))) })

Ends(g, h) == h = [g EXCEPT !.yielded = Yields(g), !.done = TRUE]

GoesOn(g, r, h) ==
    /\ r = NextSelection(g.elements, g.selected, g.current)
    /\ h = [g EXCEPT !.yielded = Yields(g), !.selected = r.selected, !.current = r.current]

\* Selections before the next one are those before this one, and this one.
LEMMA SelectionsBefore ==
    ASSUME NEW elements, NEW n \in Nat, NEW u \in Selections(n), NEW next, NEW w, Follows(n, u, next, w)
    PROVE  SeenBefore(elements, n, w) = SeenBefore(elements, n, u) \cup {Picked(elements, u)}
<1>1. \A v \in Selections(n) : Before(n, v, w) <=> Before(n, v, u) \/ v = u
  BY NextInOrder
<1>2. { v \in Selections(n) : Before(n, v, w) } = { v \in Selections(n) : Before(n, v, u) } \cup {u}
  BY <1>1
<1> QED
  BY <1>2 DEF SeenBefore

\* The subset yielded is the one selected, and it is new.
LEMMA YieldsNew ==
    ASSUME OneText, NEW elements, OneEach(elements), NEW g, Generates(elements, g), ~g.done,
           NEW s, s = Picked(elements, g.selected), NEW n, n = Len(elements)
    PROVE  /\ Yields(g) \in Seq(SUBSET ValuesOf(elements))
           /\ Objects(Yields(g)) = Objects(g.yielded) \cup {s}
           /\ \A i, j \in DOMAIN Yields(g) : Yields(g)[i] = Yields(g)[j] => i = j
<1> DEFINE V == SUBSET ValuesOf(elements)
           inner == FromElements(g.current)
           y == g.yielded
<1>1. /\ g.current \in Seq(Item) /\ y \in Seq(V) /\ g.selected \in Selections(n)
      /\ ValuesOf(g.current) = s
      /\ \A i, j \in DOMAIN y : y[i] = y[j] => i = j
      /\ Objects(y) = SeenBefore(elements, n, g.selected)
  <2>1. GeneratorOf(elements, g)
    BY DEF Generates
  <2>2. g.current \in Seq(Item) /\ y \in Seq(V) /\ g.selected \in Selections(n)
    BY <2>1 DEF GeneratorOf
  <2> QED
    BY <2>2 DEF Generates
<1>2. inner \in GoodInner(SetEntries) /\ Represented(inner) = s
  BY <1>1, FromElementsIs
<1> HIDE DEF inner
<1>3. { Value(e) : e \in Objects(Elements(inner)) } = s
  BY <1>2, ElementsOf
<1>4. Yields(g) = Append(y, s)
  BY <1>3 DEF Yields, inner
<1>5. s \in V
  BY <1>1, PickedAll
<1> HIDE DEF V, y
<1>6. Append(y, s) \in Seq(V) /\ Objects(Append(y, s)) = Objects(y) \cup {s}
  BY <1>1, <1>5, AppendObjects
<1>7. s \notin Objects(y)
  <2> SUFFICES ASSUME s \in Objects(y) PROVE FALSE
    OBVIOUS
  <2>1. PICK u \in Selections(n) : Before(n, u, g.selected) /\ s = Picked(elements, u)
    BY <1>1 DEF SeenBefore
  <2>2. u = g.selected
    BY <1>1, <2>1, PickedOnce
  <2> QED
    BY <2>1, <2>2, NotBeforeItself
<1>8. \A i, j \in DOMAIN Append(y, s) : Append(y, s)[i] = Append(y, s)[j] => i = j
  <2>1. /\ DOMAIN Append(y, s) = 1..Len(y) + 1 /\ Append(y, s)[Len(y) + 1] = s
        /\ DOMAIN y = 1..Len(y) /\ Len(y) \in Nat
        /\ \A i \in 1..Len(y) : Append(y, s)[i] = y[i]
    BY <1>1
  <2>2. \A i \in DOMAIN Append(y, s) : i \in 1..Len(y) \/ i = Len(y) + 1
    BY <2>1
  <2>3. \A i \in 1..Len(y) : y[i] # s
    BY <1>7, <2>1 DEF Objects
  <2> QED
    BY <1>1, <2>1, <2>2, <2>3
<1> QED
  BY <1>4, <1>6, <1>8 DEF V, y

\* A generator that has selected everything has yielded every subset, once.
LEMMA EndGenerates ==
    ASSUME OneText, NEW elements, OneEach(elements), NEW g, Generates(elements, g), ~g.done,
           \A i \in DOMAIN g.selected : g.selected[i], NEW h, Ends(g, h)
    PROVE  Generates(elements, h)
<1> DEFINE V == SUBSET ValuesOf(elements)
           n == Len(elements)
           R == [elements : Seq(Item), selected : Selections(n), current : Seq(Item),
                 yielded : Seq(V), done : BOOLEAN]
<1>0. elements \in Seq(Item) /\ n \in Nat
  BY DEF OneEach
<1>1. g \in R /\ g.elements = elements
  BY DEF Generates, GeneratorOf
<1>2. g.selected \in Selections(n) /\ \A i \in 1..n : g.selected[i]
  <2>1. g.selected \in Selections(n)
    BY <1>1
  <2> QED
    BY <2>1 DEF Selections
<1>3. /\ Yields(g) \in Seq(V)
      /\ Objects(Yields(g)) = Objects(g.yielded) \cup {Picked(elements, g.selected)}
      /\ \A i, j \in DOMAIN Yields(g) : Yields(g)[i] = Yields(g)[j] => i = j
  BY YieldsNew
<1>4. Objects(g.yielded) = SeenBefore(elements, n, g.selected)
  BY DEF Generates
<1>5. \A u \in Selections(n) : Before(n, u, g.selected) \/ u = g.selected
  BY <1>0, <1>2, AllBeforeFull
<1>6. Objects(Yields(g)) = { Picked(elements, u) : u \in Selections(n) }
  <2>1. Objects(Yields(g)) = SeenBefore(elements, n, g.selected) \cup {Picked(elements, g.selected)}
    BY <1>3, <1>4
  <2> QED
    BY <2>1, <1>2, <1>5 DEF SeenBefore
<1>7. Objects(Yields(g)) = V
  BY <1>6, PickedAll
<1> HIDE DEF V, n
<1>8. h \in R /\ h.elements = elements /\ h.yielded = Yields(g) /\ h.done
  BY <1>1, <1>3 DEF Ends
<1> QED
  BY <1>3, <1>7, <1>8 DEF Generates, GeneratorOf, V, n

\* Before that, the subset it yields is new and it moves to the next selection.
LEMMA GoOnGenerates ==
    ASSUME OneText, NEW elements, OneEach(elements), NEW g, Generates(elements, g), ~g.done,
           \E i \in DOMAIN g.selected : ~g.selected[i], NEW r, NEW h, GoesOn(g, r, h)
    PROVE  Generates(elements, h)
<1> DEFINE V == SUBSET ValuesOf(elements)
           n == Len(elements)
           R == [elements : Seq(Item), selected : Selections(n), current : Seq(Item),
                 yielded : Seq(V), done : BOOLEAN]
<1>0. elements \in Seq(Item) /\ n \in Nat
  BY DEF OneEach
<1>1. g \in R /\ g.elements = elements
  BY DEF Generates, GeneratorOf
<1>2. /\ g.selected \in Selections(n) /\ g.current \in Seq(Item)
      /\ ValuesOf(g.current) = Picked(elements, g.selected)
      /\ \E i \in 1..n : ~g.selected[i]
  <2>1. g.selected \in Selections(n) /\ g.current \in Seq(Item)
    BY <1>1
  <2>2. \E i \in 1..n : ~g.selected[i]
    BY <2>1 DEF Selections
  <2> QED
    BY <2>1, <2>2 DEF Generates
<1>3. /\ Yields(g) \in Seq(V)
      /\ Objects(Yields(g)) = Objects(g.yielded) \cup {Picked(elements, g.selected)}
      /\ \A i, j \in DOMAIN Yields(g) : Yields(g)[i] = Yields(g)[j] => i = j
  BY YieldsNew
<1>4. Objects(g.yielded) = SeenBefore(elements, n, g.selected)
  BY DEF Generates
<1> HIDE DEF V, n
<1>50. n = Len(elements) /\ r = NextSelection(elements, g.selected, g.current)
  BY <1>1 DEF n, GoesOn
<1>5. /\ \E next : Follows(n, g.selected, next, r.selected)
      /\ r.current \in Seq(Item)
      /\ ValuesOf(r.current) = Picked(elements, r.selected)
  BY <1>2, <1>50, NextSelectionIs
<1>6. PICK next : Follows(n, g.selected, next, r.selected)
  BY <1>5
<1>7. r.selected \in Selections(n)
  BY <1>0, <1>2, <1>6, NextInOrder
<1>8. Objects(Yields(g)) = SeenBefore(elements, n, r.selected)
  <2>1. SeenBefore(elements, n, r.selected)
        = SeenBefore(elements, n, g.selected) \cup {Picked(elements, g.selected)}
    BY <1>0, <1>2, <1>6, SelectionsBefore
  <2> QED
    BY <1>3, <1>4, <2>1
<1>9. /\ h \in R /\ h.elements = elements /\ h.yielded = Yields(g) /\ h.done = g.done
      /\ h.selected = r.selected /\ h.current = r.current
  BY <1>1, <1>3, <1>5, <1>7 DEF GoesOn
<1> QED
  BY <1>3, <1>5, <1>8, <1>9 DEF Generates, GeneratorOf, V, n

\* What a generator that is done has yielded.
LEMMA DoneYieldsAll ==
    ASSUME NEW elements, NEW g, Generates(elements, g), g.done
    PROVE  /\ { g.yielded[i] : i \in DOMAIN g.yielded } = SUBSET ValuesOf(elements)
           /\ Len(g.yielded) = Cardinality(SUBSET ValuesOf(elements))
<1> DEFINE V == SUBSET ValuesOf(elements)
           y == g.yielded
           m == Len(y)
           f == [i \in 1..m |-> y[i]]
<1>1. y \in Seq(V)
  BY DEF Generates, GeneratorOf
<1>2. { y[i] : i \in DOMAIN y } = V /\ \A i, j \in DOMAIN y : y[i] = y[j] => i = j
  BY DEF Generates, Objects
<1> HIDE DEF V, y
<1>3. m \in Nat /\ DOMAIN y = 1..m
  BY <1>1
<1> HIDE DEF m
<1>4. f \in Bijection(1..m, V)
  <2>1. f \in [1..m -> V]
    BY <1>2, <1>3
  <2>2. \A i, j \in 1..m : f[i] = f[j] => i = j
    BY <1>2, <1>3
  <2>3. \A v \in V : \E i \in 1..m : f[i] = v
    BY <1>2, <1>3
  <2> HIDE DEF f
  <2> QED
    BY <2>1, <2>2, <2>3 DEF Bijection, Injection, Surjection, IsInjective
<1>5. ExistsBijection(1..m, V)
  BY <1>4 DEF ExistsBijection
<1>6. IsFiniteSet(1..m) /\ Cardinality(1..m) = m
  BY <1>3, FS_Interval
<1>7. Cardinality(V) = Cardinality(1..m)
  BY <1>5, <1>6, FS_Bijection, Zenon
<1> QED
  BY <1>2, <1>6, <1>7 DEF V, y, m

-----------------------------------------------------------------------------
(* Handles.                                                                *)

\* The sets and functions behind handles.
AbstractSets(s) == [h \in DOMAIN s |-> Represented(s[h])]
AbstractMaps(m) == [h \in DOMAIN m |-> Abstraction(m[h])]

\* A new handle leaves what the others stand for.
LEMMA SetsAppended ==
    ASSUME NEW T, NEW s \in Seq(T), NEW x \in T
    PROVE  /\ AbstractSets(Append(s, x)) = Append(AbstractSets(s), Represented(x))
           /\ Len(AbstractSets(s)) = Len(s)
<1>1. /\ DOMAIN s = 1..Len(s) /\ Len(s) \in Nat /\ DOMAIN Append(s, x) = 1..Len(s) + 1
      /\ Append(s, x)[Len(s) + 1] = x /\ \A h \in 1..Len(s) : Append(s, x)[h] = s[h]
  OBVIOUS
<1> DEFINE V == { Represented(s[h]) : h \in 1..Len(s) } \cup {Represented(x)}
           a == AbstractSets(s)
           b == AbstractSets(Append(s, x))
<1>2. a = [h \in 1..Len(s) |-> Represented(s[h])]
  BY <1>1 DEF AbstractSets
<1>3. b = [h \in 1..Len(s) + 1 |-> Represented(Append(s, x)[h])]
  BY <1>1 DEF AbstractSets
<1>4. Represented(x) \in V /\ \A h \in 1..Len(s) : Represented(s[h]) \in V
  OBVIOUS
<1> HIDE DEF V, a, b
<1>5. a \in Seq(V) /\ Len(a) = Len(s) /\ DOMAIN a = 1..Len(s)
  BY <1>1, <1>2, <1>4
<1> DEFINE c == Append(a, Represented(x))
<1>6. /\ DOMAIN c = 1..Len(s) + 1 /\ c[Len(s) + 1] = Represented(x) /\ \A h \in 1..Len(s) : c[h] = a[h]
      /\ c \in Seq(V)
  BY <1>4, <1>5
<1> HIDE DEF c
<1>7. \A h \in 1..Len(s) + 1 : h \in 1..Len(s) \/ h = Len(s) + 1
  BY <1>1
<1>8. \A h \in 1..Len(s) + 1 : c[h] = b[h]
  BY <1>1, <1>2, <1>3, <1>6, <1>7
<1>9. c = [h \in 1..Len(s) + 1 |-> c[h]] /\ b = [h \in 1..Len(s) + 1 |-> b[h]]
  BY <1>3, <1>6
<1>10. b = c
  BY <1>8, <1>9
<1> QED
  BY <1>5, <1>10 DEF a, b, c

LEMMA MapsAppended ==
    ASSUME NEW T, NEW s \in Seq(T), NEW x \in T
    PROVE  /\ AbstractMaps(Append(s, x)) = Append(AbstractMaps(s), Abstraction(x))
           /\ Len(AbstractMaps(s)) = Len(s)
<1>1. /\ DOMAIN s = 1..Len(s) /\ Len(s) \in Nat /\ DOMAIN Append(s, x) = 1..Len(s) + 1
      /\ Append(s, x)[Len(s) + 1] = x /\ \A h \in 1..Len(s) : Append(s, x)[h] = s[h]
  OBVIOUS
<1> DEFINE V == { Abstraction(s[h]) : h \in 1..Len(s) } \cup {Abstraction(x)}
           a == AbstractMaps(s)
           b == AbstractMaps(Append(s, x))
<1>2. a = [h \in 1..Len(s) |-> Abstraction(s[h])]
  BY <1>1 DEF AbstractMaps
<1>3. b = [h \in 1..Len(s) + 1 |-> Abstraction(Append(s, x)[h])]
  BY <1>1 DEF AbstractMaps
<1>4. Abstraction(x) \in V /\ \A h \in 1..Len(s) : Abstraction(s[h]) \in V
  OBVIOUS
<1> HIDE DEF V, a, b
<1>5. a \in Seq(V) /\ Len(a) = Len(s) /\ DOMAIN a = 1..Len(s)
  BY <1>1, <1>2, <1>4
<1> DEFINE c == Append(a, Abstraction(x))
<1>6. /\ DOMAIN c = 1..Len(s) + 1 /\ c[Len(s) + 1] = Abstraction(x) /\ \A h \in 1..Len(s) : c[h] = a[h]
      /\ c \in Seq(V)
  BY <1>4, <1>5
<1> HIDE DEF c
<1>7. \A h \in 1..Len(s) + 1 : h \in 1..Len(s) \/ h = Len(s) + 1
  BY <1>1
<1>8. \A h \in 1..Len(s) + 1 : c[h] = b[h]
  BY <1>1, <1>2, <1>3, <1>6, <1>7
<1>9. c = [h \in 1..Len(s) + 1 |-> c[h]] /\ b = [h \in 1..Len(s) + 1 |-> b[h]]
  BY <1>3, <1>6
<1>10. b = c
  BY <1>8, <1>9
<1> QED
  BY <1>5, <1>10 DEF a, b, c

Typed(s, m) == s \in Seq(GoodInner(SetEntries)) /\ m \in Seq(GoodInner(MapEntries))

\* What the operations answer is what they promise, and well typed.
SetAnswered(v) == Persistent!AnswersSet(v) /\ Typed(sets', maps')
MapAnswered(f) == Persistent!AnswersMap(f) /\ Typed(sets', maps')
PlainAnswered(plain) == Persistent!Answers(plain) /\ Typed(sets', maps')

\* What the ways of answering mean for the specification: a new set, a shared
\* one, a new map, a shared one, a plain answer.
LEMMA MadeSet ==
    ASSUME Typed(sets, maps), NEW x \in GoodInner(SetEntries), NEW v, v = Represented(x), MakeSet(x)
    PROVE  SetAnswered(v)
<1>1. /\ sets \in Seq(GoodInner(SetEntries)) /\ maps \in Seq(GoodInner(MapEntries))
      /\ sets' = Append(sets, x) /\ reply' = [set |-> Len(sets) + 1] /\ maps' = maps
  BY DEF Typed, MakeSet
<1>2. sets' \in Seq(GoodInner(SetEntries))
  BY <1>1
<1>3. /\ AbstractSets(sets') = Append(AbstractSets(sets), v)
      /\ Len(AbstractSets(sets)) = Len(sets)
  BY <1>1, SetsAppended
<1>4. Persistent!AnswersSet(v)
  BY <1>1, <1>3 DEF Persistent!AnswersSet, AbstractSets
<1> QED
  BY <1>1, <1>2, <1>4 DEF SetAnswered, Typed

LEMMA SharedSet ==
    ASSUME Typed(sets, maps), NEW h \in DOMAIN sets, NEW v, v = Represented(sets[h]), ShareSet(h)
    PROVE  SetAnswered(v)
<1>1. reply' = [set |-> h] /\ maps' = maps /\ sets' = sets
  BY DEF ShareSet
<1>2. h \in DOMAIN AbstractSets(sets) /\ AbstractSets(sets)[h] = v
  BY DEF AbstractSets
<1>3. Persistent!AnswersSet(v)
  BY <1>1, <1>2 DEF Persistent!AnswersSet, AbstractSets
<1> QED
  BY <1>1, <1>3 DEF SetAnswered, Typed

LEMMA MadeMap ==
    ASSUME Typed(sets, maps), NEW x \in GoodInner(MapEntries), NEW v, v = Abstraction(x), MakeMap(x)
    PROVE  MapAnswered(v)
<1>1. /\ sets \in Seq(GoodInner(SetEntries)) /\ maps \in Seq(GoodInner(MapEntries))
      /\ maps' = Append(maps, x) /\ reply' = [map |-> Len(maps) + 1] /\ sets' = sets
  BY DEF Typed, MakeMap
<1>2. maps' \in Seq(GoodInner(MapEntries))
  BY <1>1
<1>3. /\ AbstractMaps(maps') = Append(AbstractMaps(maps), v)
      /\ Len(AbstractMaps(maps)) = Len(maps)
  BY <1>1, MapsAppended
<1>4. Persistent!AnswersMap(v)
  BY <1>1, <1>3 DEF Persistent!AnswersMap, AbstractMaps
<1> QED
  BY <1>1, <1>2, <1>4 DEF MapAnswered, Typed

LEMMA SharedMap ==
    ASSUME Typed(sets, maps), NEW h \in DOMAIN maps, NEW v, v = Abstraction(maps[h]), ShareMap(h)
    PROVE  MapAnswered(v)
<1>1. reply' = [map |-> h] /\ maps' = maps /\ sets' = sets
  BY DEF ShareMap
<1>2. h \in DOMAIN AbstractMaps(maps) /\ AbstractMaps(maps)[h] = v
  BY DEF AbstractMaps
<1>3. Persistent!AnswersMap(v)
  BY <1>1, <1>2 DEF Persistent!AnswersMap, AbstractMaps
<1> QED
  BY <1>1, <1>3 DEF MapAnswered, Typed

LEMMA PlainAnswer ==
    ASSUME Typed(sets, maps), NEW plain, AnswerPlain(plain)
    PROVE  PlainAnswered(plain)
<1>1. reply' = plain /\ maps' = maps /\ sets' = sets
  BY DEF AnswerPlain
<1>2. Persistent!Answers(plain)
  BY <1>1 DEF Persistent!Answers
<1> QED
  BY <1>1, <1>2 DEF PlainAnswered, Typed

-----------------------------------------------------------------------------
(* The operations, one by one.                                             *)

\* Behind every handle is a good inner map of its kind.
LEMMA HandlesGood ==
    ASSUME NEW s, NEW m, Typed(s, m)
    PROVE  /\ \A h \in DOMAIN s : s[h] \in GoodInner(SetEntries)
           /\ \A h \in DOMAIN m : m[h] \in GoodInner(MapEntries)
           /\ SetEntries \in SUBSET EntryOf /\ MapEntries \in SUBSET EntryOf
BY EntrySets DEF Typed

\* What an operation needs to know of the set behind a handle.
SetFacts(x) ==
    /\ x \in GoodInner(SetEntries)
    /\ Size(x) \in Nat /\ IsFiniteSet(Represented(x)) /\ Cardinality(Represented(x)) = Size(x)
    /\ Size(x) = 0 <=> Represented(x) = {}
    /\ Elements(x) \in Seq(Item) /\ ValuesOf(Elements(x)) = Represented(x)

\* They hold behind every handle.
LEMMA SetHandle ==
    ASSUME NEW x \in GoodInner(SetEntries)
    PROVE  SetFacts(x)
<1>0. SetEntries \in SUBSET EntryOf
  BY EntrySets
<1>1. Size(x) \in Nat /\ IsFiniteSet(Represented(x)) /\ Cardinality(Represented(x)) = Size(x)
  BY <1>0, SizeIsCardinality
<1>2. Size(x) = 0 <=> Represented(x) = {}
  BY <1>0, EmptyWhenNoSize
<1>3. Elements(x) \in Seq(Item) /\ ValuesOf(Elements(x)) = Represented(x)
  BY ElementsOf
<1> QED
  BY <1>1, <1>2, <1>3 DEF SetFacts

\* Whether a set has each, or any, of the elements of another.
LEMMA HasAll ==
    ASSUME OneText, NEW x \in GoodInner(SetEntries), NEW y \in GoodInner(SetEntries)
    PROVE  /\ (\A e \in Objects(Elements(x)) : HasKey(y, e)) <=> Represented(x) \subseteq Represented(y)
           /\ (\A e \in Objects(Elements(x)) : ~HasKey(y, e)) <=> Represented(x) \cap Represented(y) = {}
<1>0. SetEntries \in SUBSET EntryOf
  BY EntrySets
<1>1. Elements(x) \in Seq(Item) /\ { Value(e) : e \in Objects(Elements(x)) } = Represented(x)
  BY ElementsOf
<1>2. \A e \in Objects(Elements(x)) : e \in Item
  BY <1>1 DEF Objects
<1>3. \A e \in Objects(Elements(x)) : HasKey(y, e) <=> Value(e) \in Represented(y)
  BY <1>0, <1>2, HasKeyMeans
<1> QED
  BY <1>1, <1>3

\* Union, whichever operand it starts from or hands out.
LEMMA UnionAnswers ==
    ASSUME OneText, Typed(sets, maps), NEW a \in DOMAIN sets, NEW b \in DOMAIN sets, Union(a, b),
           NEW v, v = Represented(sets[a]) \cup Represented(sets[b])
    PROVE  SetAnswered(v)
<1> DEFINE larger == IF Size(sets[a]) >= Size(sets[b]) THEN a ELSE b
           smaller == IF larger = a THEN b ELSE a
           x == sets[larger]
           y == sets[smaller]
<1>1. SetFacts(sets[a]) /\ SetFacts(sets[b])
  BY HandlesGood, SetHandle
<1>2. CASE Size(sets[a]) = 0
  <2>1. ShareSet(b) /\ v = Represented(sets[b])
    BY <1>1, <1>2 DEF Union, SetFacts
  <2> QED
    BY <2>1, SharedSet
<1>3. CASE Size(sets[a]) # 0 /\ Size(sets[b]) = 0
  <2>1. ShareSet(a) /\ v = Represented(sets[a])
    BY <1>1, <1>3 DEF Union, SetFacts
  <2> QED
    BY <2>1, SharedSet
<1>4. CASE Size(sets[a]) # 0 /\ Size(sets[b]) # 0
  <2>1. MakeSet(AddAll(x, Elements(y)))
    BY <1>4 DEF Union
  <2>2. (larger = a /\ smaller = b) \/ (larger = b /\ smaller = a)
    OBVIOUS
  <2>3. SetFacts(x) /\ SetFacts(y) /\ v = Represented(x) \cup Represented(y)
    <3>1. CASE larger = a /\ smaller = b
      BY <1>1, <3>1, Zenon
    <3>2. CASE larger = b /\ smaller = a
      <4>1. x = sets[b] /\ y = sets[a]
        BY <3>2, Zenon
      <4> HIDE DEF x, y
      <4> QED
        BY <1>1, <4>1
    <3> QED
      BY <2>2, <3>1, <3>2
  <2> HIDE DEF x, y
  <2>4. /\ AddAll(x, Elements(y)) \in GoodInner(SetEntries)
        /\ Represented(AddAll(x, Elements(y))) = Represented(x) \cup ValuesOf(Elements(y))
    BY <2>3, AddAllIs DEF SetFacts
  <2>5. v = Represented(AddAll(x, Elements(y)))
    BY <2>3, <2>4 DEF SetFacts
  <2> QED
    BY <2>1, <2>4, <2>5, MadeSet
<1> QED
  BY <1>2, <1>3, <1>4

\* What a set keeps of the elements of another.
LEMMA CommonElements ==
    ASSUME OneText, NEW x \in GoodInner(SetEntries), NEW y \in GoodInner(SetEntries),
           NEW s, s = Elements(x), NEW places, places = { i \in DOMAIN s : HasKey(y, s[i]) },
           NEW r, r = FromElements(Chosen(s, places))
    PROVE  r \in GoodInner(SetEntries) /\ Represented(r) = Represented(x) \cap Represented(y)
<1>0. SetEntries \in SUBSET EntryOf
  BY EntrySets
<1>1. s \in Seq(Item) /\ ValuesOf(s) = Represented(x) /\ DOMAIN s = 1..Len(s)
  <2>1. Elements(x) \in Seq(Item) /\ ValuesOf(Elements(x)) = Represented(x)
    BY ElementsOf
  <2>2. s \in Seq(Item)
    BY <2>1
  <2> QED
    BY <2>1, <2>2
<1>2. \A i \in DOMAIN s : s[i] \in Item
  BY <1>1
<1>3. \A i \in DOMAIN s : HasKey(y, s[i]) <=> Value(s[i]) \in Represented(y)
  BY <1>0, <1>2, HasKeyMeans
<1> DEFINE c == Chosen(s, places)
<1>4. AfterChoices(Item, s, places, Len(s), c)
  BY <1>1, ChosenHolds
<1> HIDE DEF c
<1>5. c \in Seq(Item) /\ Objects(c) = { s[i] : i \in places \cap (1..Len(s)) }
  BY <1>4 DEF AfterChoices
<1>6. r \in GoodInner(SetEntries) /\ Represented(r) = ValuesOf(c)
  BY <1>5, FromElementsIs DEF c
<1>7. \A z : z \in ValuesOf(c) <=> \E o \in Objects(c) : z = Value(o)
  BY DEF ValuesOf, Objects
<1>8. \A z : z \in ValuesOf(c) <=> \E i \in DOMAIN s : HasKey(y, s[i]) /\ z = Value(s[i])
  BY <1>1, <1>5, <1>7
<1>9. \A z : z \in ValuesOf(s) <=> \E i \in DOMAIN s : z = Value(s[i])
  BY DEF ValuesOf
<1>10. \A z : z \in ValuesOf(c) <=> z \in Represented(x) /\ z \in Represented(y)
  BY <1>1, <1>3, <1>8, <1>9
<1> QED
  BY <1>6, <1>10

\* Intersect.
LEMMA IntersectAnswers ==
    ASSUME OneText, Typed(sets, maps), NEW a \in DOMAIN sets, NEW b \in DOMAIN sets, Intersect(a, b),
           NEW v, v = Represented(sets[a]) \cap Represented(sets[b])
    PROVE  SetAnswered(v)
<1> DEFINE smaller == IF Size(sets[a]) <= Size(sets[b]) THEN a ELSE b
           larger == IF smaller = a THEN b ELSE a
           x == sets[smaller]
           y == sets[larger]
           s == Elements(x)
           places == { i \in DOMAIN s : HasKey(y, s[i]) }
           r == FromElements(Chosen(s, places))
<1>1. SetFacts(sets[a]) /\ SetFacts(sets[b])
  BY HandlesGood, SetHandle
<1>2. CASE Size(sets[a]) = 0
  <2>1. ShareSet(a) /\ v = Represented(sets[a])
    BY <1>1, <1>2 DEF Intersect, SetFacts
  <2> QED
    BY <2>1, SharedSet
<1>3. CASE Size(sets[a]) # 0 /\ Size(sets[b]) = 0
  <2>1. ShareSet(b) /\ v = Represented(sets[b])
    BY <1>1, <1>3 DEF Intersect, SetFacts
  <2> QED
    BY <2>1, SharedSet
<1>4. CASE Size(sets[a]) # 0 /\ Size(sets[b]) # 0
  <2>1. MakeSet(r)
    BY <1>4 DEF Intersect
  <2>2. (smaller = a /\ larger = b) \/ (smaller = b /\ larger = a)
    OBVIOUS
  <2>3. SetFacts(x) /\ SetFacts(y) /\ v = Represented(x) \cap Represented(y)
    <3>1. CASE smaller = a /\ larger = b
      BY <1>1, <3>1, Zenon
    <3>2. CASE smaller = b /\ larger = a
      <4>1. x = sets[b] /\ y = sets[a]
        BY <3>2, Zenon
      <4> HIDE DEF x, y
      <4> QED
        BY <1>1, <4>1
    <3> QED
      BY <2>2, <3>1, <3>2
  <2> HIDE DEF x, y
  <2>4. x \in GoodInner(SetEntries) /\ y \in GoodInner(SetEntries)
    BY <2>3 DEF SetFacts
  <2>5. r \in GoodInner(SetEntries) /\ Represented(r) = Represented(x) \cap Represented(y)
    BY <2>4, CommonElements
  <2> HIDE DEF r
  <2> QED
    BY <2>1, <2>3, <2>5, MadeSet
<1> QED
  BY <1>2, <1>3, <1>4

\* Difference.
LEMMA DifferenceAnswers ==
    ASSUME OneText, Typed(sets, maps), NEW a \in DOMAIN sets, NEW b \in DOMAIN sets, Difference(a, b),
           NEW v, v = Represented(sets[a]) \ Represented(sets[b])
    PROVE  SetAnswered(v)
<1> DEFINE r == RemoveAll(sets[a], Elements(sets[b]))
<1>1. SetFacts(sets[a]) /\ SetFacts(sets[b])
  BY HandlesGood, SetHandle
<1>2. CASE Size(sets[a]) = 0 \/ Size(sets[b]) = 0
  <2>1. ShareSet(a) /\ v = Represented(sets[a])
    BY <1>1, <1>2 DEF Difference, SetFacts
  <2> QED
    BY <2>1, SharedSet
<1>3. CASE ~(Size(sets[a]) = 0 \/ Size(sets[b]) = 0)
  <2>1. MakeSet(r)
    BY <1>3 DEF Difference
  <2>2. SetEntries \in SUBSET EntryOf
    BY EntrySets
  <2>3. r \in GoodInner(SetEntries) /\ Represented(r) = Represented(sets[a]) \ ValuesOf(Elements(sets[b]))
    BY <1>1, <2>2, RemoveAllIs DEF SetFacts
  <2> HIDE DEF r
  <2>4. v = Represented(r)
    BY <1>1, <2>3 DEF SetFacts
  <2> QED
    BY <2>1, <2>3, <2>4, MadeSet
<1> QED
  BY <1>2, <1>3

\* The sizes decide nothing that the elements do not.
LEMMA SizesAgree ==
    ASSUME NEW x, NEW y, SetFacts(x), SetFacts(y)
    PROVE  /\ Represented(x) \subseteq Represented(y) => Size(x) <= Size(y)
           /\ Represented(x) \subseteq Represented(y) /\ Size(x) = Size(y) => Represented(x) = Represented(y)
           /\ Represented(x) = Represented(y) => Size(x) = Size(y)
<1> DEFINE s == Represented(x)
           t == Represented(y)
<1>1. /\ IsFiniteSet(s) /\ Cardinality(s) = Size(x) /\ Size(x) \in Nat
      /\ IsFiniteSet(t) /\ Cardinality(t) = Size(y) /\ Size(y) \in Nat
  BY DEF SetFacts
<1> HIDE DEF s, t
<1>2. ASSUME s \subseteq t PROVE Cardinality(s) <= Cardinality(t) /\ (Cardinality(t) = Cardinality(s) => t = s)
  <2>1. s \in SUBSET t
    BY <1>2
  <2> QED
    BY <1>1, <2>1, FS_Subset
<1>3. s = t => Size(x) = Size(y)
  BY <1>1
<1> QED
  BY <1>1, <1>2, <1>3 DEF s, t

\* Comparisons decide what the represented sets are, whatever sizes and
\* identities they look at first.
LEMMA SubsetDecided ==
    ASSUME OneText, Typed(sets, maps), NEW a \in DOMAIN sets, NEW b \in DOMAIN sets
    PROVE  /\ IsSubsetOf(a, b) <=> Represented(sets[a]) \subseteq Represented(sets[b])
           /\ Size(sets[a]) < Size(sets[b]) /\ IsSubsetOf(a, b)
              <=> Represented(sets[a]) \subseteq Represented(sets[b]) /\ Represented(sets[a]) # Represented(sets[b])
           /\ SetEquals(a, b) <=> Represented(sets[a]) = Represented(sets[b])
           /\ IsDisjointFrom(a, b) <=> Represented(sets[a]) \cap Represented(sets[b]) = {}
<1> DEFINE s == Represented(sets[a])
           t == Represented(sets[b])
           All == \A e \in Objects(Elements(sets[a])) : HasKey(sets[b], e)
<1>1. sets[a] \in GoodInner(SetEntries) /\ sets[b] \in GoodInner(SetEntries)
  BY HandlesGood
<1>2. All <=> s \subseteq t
  BY <1>1, HasAll
<1>3. /\ s \subseteq t => Size(sets[a]) <= Size(sets[b])
      /\ s \subseteq t /\ Size(sets[a]) = Size(sets[b]) => s = t
      /\ s = t => Size(sets[a]) = Size(sets[b])
  BY <1>1, SetHandle, SizesAgree
<1>4. Size(sets[a]) \in Nat /\ Size(sets[b]) \in Nat
  BY <1>1, SetHandle DEF SetFacts
<1>5. IsSubsetOf(a, b) <=> Size(sets[a]) <= Size(sets[b]) /\ All
  BY DEF IsSubsetOf
<1>6. SetEquals(a, b) <=> a = b \/ (Size(sets[a]) = Size(sets[b]) /\ All)
  BY DEF SetEquals
<1>7. a = b => s = t
  OBVIOUS
<1>8. IsDisjointFrom(a, b) <=> s \cap t = {}
  <2> DEFINE smaller == IF Size(sets[a]) <= Size(sets[b]) THEN a ELSE b
             larger  == IF smaller = a THEN b ELSE a
  <2>1. IsDisjointFrom(a, b) <=> \A e \in Objects(Elements(sets[smaller])) : ~HasKey(sets[larger], e)
    BY DEF IsDisjointFrom
  <2>2. (smaller = a /\ larger = b) \/ (smaller = b /\ larger = a)
    OBVIOUS
  <2> HIDE DEF smaller, larger
  <2>3. (\A e \in Objects(Elements(sets[a])) : ~HasKey(sets[b], e)) <=> s \cap t = {}
    BY <1>1, HasAll
  <2>4. (\A e \in Objects(Elements(sets[b])) : ~HasKey(sets[a], e)) <=> t \cap s = {}
    BY <1>1, HasAll
  <2>5. t \cap s = s \cap t
    OBVIOUS
  <2>6. CASE smaller = a /\ larger = b
    BY <2>1, <2>3, <2>6, Zenon
  <2>7. CASE smaller = b /\ larger = a
    BY <2>1, <2>4, <2>5, <2>7, Zenon
  <2> QED
    BY <2>2, <2>6, <2>7
<1> HIDE DEF s, t, All
<1>9. IsSubsetOf(a, b) <=> s \subseteq t
  BY <1>2, <1>3, <1>5
<1>10. Size(sets[a]) < Size(sets[b]) /\ IsSubsetOf(a, b) <=> s \subseteq t /\ s # t
  BY <1>3, <1>4, <1>9
<1>11. SetEquals(a, b) <=> s = t
  BY <1>2, <1>3, <1>6, <1>7
<1> QED
  BY <1>8, <1>9, <1>10, <1>11 DEF s, t

\* Maps are equal when the functions they represent are.
LEMMA MapEqualsDecided ==
    ASSUME OneText, Typed(sets, maps), NEW a \in DOMAIN maps, NEW b \in DOMAIN maps
    PROVE  MapEquals(a, b) <=> Abstraction(maps[a]) = Abstraction(maps[b])
<1> DEFINE x == maps[a]
           y == maps[b]
           f == Abstraction(x)
           g == Abstraction(y)
           Same == \A e \in Held(x) : HasKey(y, e.key) /\ AreEqual(e.value, ValueOf(y, e.key))
<1>0. x \in GoodInner(MapEntries) /\ y \in GoodInner(MapEntries) /\ MapEntries \in SUBSET EntryOf
  BY HandlesGood
<1>1. MapEquals(a, b) <=> a = b \/ (Size(x) = Size(y) /\ Same)
  BY DEF MapEquals, Held
<1>2. a = b => f = g
  OBVIOUS
<1> HIDE DEF x, y
<1>3. /\ IsFunction(f) /\ DOMAIN f = Represented(x) /\ \A d \in Held(x) : f[Value(d.key)] = Value(d.value)
      /\ IsFunction(g) /\ DOMAIN g = Represented(y)
  BY <1>0, AbstractionAt, AbstractionIsFunction
<1>4. ASSUME NEW e \in Held(x)
      PROVE  /\ e.key \in Item
             /\ HasKey(y, e.key) <=> Value(e.key) \in DOMAIN g
             /\ HasKey(y, e.key) => Value(ValueOf(y, e.key)) = g[Value(e.key)]
  <2>1. e \in MapEntries
    BY <1>0, HeldEntries
  <2>2. e.key \in Item
    BY <2>1 DEF MapEntries, Item
  <2> QED
    BY <1>0, <2>2, GetIs
<1> HIDE DEF f, g
<1>5. Same <=> \A e \in Held(x) : Value(e.key) \in DOMAIN g /\ f[Value(e.key)] = g[Value(e.key)]
  BY <1>3, <1>4 DEF AreEqual
<1>6. Represented(x) = { Value(d.key) : d \in Held(x) }
  BY RepresentedHeld
<1>7. Same <=> DOMAIN f \subseteq DOMAIN g /\ \A k \in DOMAIN f : f[k] = g[k]
  BY <1>3, <1>5, <1>6
<1>8. /\ IsFiniteSet(DOMAIN f) /\ Cardinality(DOMAIN f) = Size(x)
      /\ IsFiniteSet(DOMAIN g) /\ Cardinality(DOMAIN g) = Size(y)
  BY <1>0, <1>3, SizeIsCardinality
<1>9. ASSUME DOMAIN f \subseteq DOMAIN g, Size(x) = Size(y) PROVE DOMAIN f = DOMAIN g
  <2>1. DOMAIN f \in SUBSET DOMAIN g
    BY <1>9
  <2> QED
    BY <1>8, <1>9, <2>1, FS_Subset
<1> HIDE DEF Same
<1>10. ASSUME Size(x) = Size(y), Same PROVE f = g
  <2>1. DOMAIN f = DOMAIN g /\ \A k \in DOMAIN f : f[k] = g[k]
    BY <1>7, <1>9, <1>10
  <2> QED
    BY <1>3, <2>1, SameFunction
<1>11. ASSUME f = g PROVE Size(x) = Size(y) /\ Same
  <2>1. Size(x) = Size(y)
    BY <1>8, <1>11
  <2>2. Same
    BY <1>7, <1>11
  <2> QED
    BY <2>1, <2>2
<1>12. MapEquals(a, b) <=> f = g
  BY <1>1, <1>2, <1>10, <1>11
<1> QED
  BY <1>12 DEF f, g, x, y

\* Keys, values and items.
LEMMA MapLists ==
    ASSUME NEW x \in GoodInner(MapEntries), NEW f, f = Abstraction(x)
    PROVE  /\ Keys(x) \in Seq(Item) /\ ValuesOf(Keys(x)) = DOMAIN f
           /\ Elements(x) \in Seq(Item) /\ ValuesOf(Elements(x)) = { f[k] : k \in DOMAIN f }
           /\ Items(x) \in Seq(Item) /\ ValuesOf(Items(x)) = { PairOf(k, f[k]) : k \in DOMAIN f }
<1> DEFINE s == x.entries
           m == Len(x.entries)
<1>0. MapEntries \in SUBSET EntryOf
  BY EntrySets
<1>1. m \in Nat /\ DOMAIN s = 1..m /\ \A i \in 1..m : s[i] \in MapEntries
  BY <1>0, InnerFacts
<1>2. \A i \in 1..m : /\ s[i].key \in Key /\ s[i].value \in Key
                      /\ s[i].key \in Item /\ s[i].value \in Item /\ PairOf(s[i].key, s[i].value) \in Item
  BY <1>1 DEF MapEntries, Item
<1>3. DOMAIN f = { Value(s[i].key) : i \in 1..m } /\ \A i \in 1..m : f[Value(s[i].key)] = Value(s[i].value)
  <2>1. DOMAIN f = Represented(x) /\ \A d \in Held(x) : f[Value(d.key)] = Value(d.value)
    BY AbstractionAt
  <2>2. Represented(x) = { Value(s[i].key) : i \in 1..m } /\ \A i \in 1..m : s[i] \in Held(x)
    BY <1>1 DEF Represented, Held, Objects
  <2> QED
    BY <2>1, <2>2
<1>4. /\ Keys(x) = [i \in 1..m |-> s[i].key] /\ Elements(x) = [i \in 1..m |-> s[i].value]
      /\ Items(x) = [i \in 1..m |-> PairOf(s[i].key, s[i].value)]
  BY <1>1 DEF Keys, Elements, Items
<1> HIDE DEF s, m
<1>5. Keys(x) \in Seq(Item) /\ Elements(x) \in Seq(Item) /\ Items(x) \in Seq(Item)
  <2>1. Keys(x) \in [1..m -> Item]
    BY <1>2, <1>4
  <2>2. Elements(x) \in [1..m -> Item]
    BY <1>2, <1>4
  <2>3. Items(x) \in [1..m -> Item]
    <3> DEFINE p == [i \in 1..m |-> PairOf(s[i].key, s[i].value)]
    <3>1. p \in [1..m -> Item]
      BY <1>2
    <3> QED
      BY <3>1, <1>4, Zenon
  <2>4. \A q \in [1..m -> Item] : q \in Seq(Item)
    BY <1>1
  <2> QED
    BY <2>1, <2>2, <2>3, <2>4, Zenon
<1>6. /\ ValuesOf(Keys(x)) = { Value(s[i].key) : i \in 1..m }
      /\ ValuesOf(Elements(x)) = { Value(s[i].value) : i \in 1..m }
      /\ ValuesOf(Items(x)) = { Value(PairOf(s[i].key, s[i].value)) : i \in 1..m }
  BY <1>4 DEF ValuesOf
<1>7. { Value(s[i].value) : i \in 1..m } = { f[k] : k \in DOMAIN f }
  BY <1>3
<1>8. \A i \in 1..m : Value(PairOf(s[i].key, s[i].value)) = PairOf(Value(s[i].key), f[Value(s[i].key)])
  BY <1>2, <1>3, PairValue
<1>9. { Value(PairOf(s[i].key, s[i].value)) : i \in 1..m } = { PairOf(k, f[k]) : k \in DOMAIN f }
  BY <1>3, <1>8
<1> QED
  BY <1>3, <1>5, <1>6, <1>7, <1>9

-----------------------------------------------------------------------------
(* Calls.                                                                  *)

\* What the parts of a call range over.
LEMMA CallFacts ==
    ASSUME NEW S, NEW M, NEW c \in Persistent!Calls(S, M)
    PROVE  /\ c.op = "setOf" => c.elements \in SetLiteral
           /\ c.op \in {"union", "intersect", "difference", "equals", "subset", "properSubset", "disjoint"}
              => c.left \in S /\ c.right \in S
           /\ c.op = "contains" => c.of \in S /\ c.key \in Key
           /\ c.op = "subsets" => c.of \in S
           /\ c.op = "mapOf" => c.entries \in MapLiteral
           /\ c.op = "mapUpdate" => c.of \in M /\ c.key \in Key /\ c.value \in Key
           /\ c.op = "mapGet" => c.of \in M /\ c.key \in Key
           /\ c.op \in {"mapMerge", "mapEquals"} => c.left \in M /\ c.right \in M
           /\ c.op = "mapSubtract" => c.of \in M /\ c.keys \in S
           /\ c.op \in {"mapKeys", "mapValues", "mapItems"} => c.of \in M
           /\ c.op \in {"setOf", "union", "intersect", "difference", "equals", "subset", "properSubset",
                        "disjoint", "contains", "subsets", "mapOf", "mapUpdate", "mapGet", "mapMerge",
                        "mapEquals", "mapSubtract", "mapKeys", "mapValues", "mapItems"}
BY DEF Persistent!Calls

\* What is behind a handle.
LEMMA Behind ==
    ASSUME NEW s, NEW m
    PROVE  /\ \A h \in DOMAIN s : AbstractSets(s)[h] = Represented(s[h])
           /\ \A h \in DOMAIN m : AbstractMaps(m)[h] = Abstraction(m[h])
           /\ DOMAIN AbstractSets(s) = DOMAIN s /\ DOMAIN AbstractMaps(m) = DOMAIN m
BY DEF AbstractSets, AbstractMaps

CallMade == request # NoCall => request \in Persistent!Calls(DOMAIN sets, DOMAIN maps)

\* A generator runs for a call of "subsets", over the elements of its set.
GeneratorMade ==
    generator # << >> => /\ request # NoCall /\ request.op = "subsets"
                         /\ Generates(Elements(sets[request.of]), generator)

CollectionsIInv == Typed(sets, maps) /\ CallMade /\ GeneratorMade

\* A reply to a call of an operation answers as promised.
Replies(op) ==
    OneText /\ CollectionsIInv /\ CollectionsReply /\ request.op = op => Persistent!Reply /\ Typed(sets', maps')

\* What a reply starts from.
LEMMA Replying ==
    ASSUME CollectionsIInv, CollectionsReply
    PROVE  /\ Typed(sets, maps) /\ request # NoCall /\ request' = NoCall
           /\ request \in Persistent!Calls(DOMAIN sets, DOMAIN maps)
BY DEF CollectionsIInv, CallMade, CollectionsReply

\* One lemma for each operation.
LEMMA UnionReplies == Replies("union")
<1> SUFFICES ASSUME OneText, CollectionsIInv, CollectionsReply, request.op = "union"
             PROVE  Persistent!Reply /\ Typed(sets', maps')
  BY DEF Replies
<1> DEFINE v == AbstractSets(sets)[request.left] \cup AbstractSets(sets)[request.right]
<1>1. /\ Typed(sets, maps) /\ request # NoCall /\ request' = NoCall
      /\ request.left \in DOMAIN sets /\ request.right \in DOMAIN sets
  BY Replying, CallFacts
<1>2. Union(request.left, request.right)
  BY DEF CollectionsReply
<1>3. v = Represented(sets[request.left]) \cup Represented(sets[request.right])
  BY <1>1, Behind
<1> HIDE DEF v
<1>4. SetAnswered(v)
  BY <1>1, <1>2, <1>3, UnionAnswers
<1>5. Persistent!AnswersSet(v) /\ Typed(sets', maps')
  BY <1>4 DEF SetAnswered
<1> QED
  BY <1>1, <1>5 DEF Persistent!Reply, AbstractSets, v

LEMMA IntersectReplies == Replies("intersect")
<1> SUFFICES ASSUME OneText, CollectionsIInv, CollectionsReply, request.op = "intersect"
             PROVE  Persistent!Reply /\ Typed(sets', maps')
  BY DEF Replies
<1> DEFINE v == AbstractSets(sets)[request.left] \cap AbstractSets(sets)[request.right]
<1>1. /\ Typed(sets, maps) /\ request # NoCall /\ request' = NoCall
      /\ request.left \in DOMAIN sets /\ request.right \in DOMAIN sets
  BY Replying, CallFacts
<1>2. Intersect(request.left, request.right)
  BY DEF CollectionsReply
<1>3. v = Represented(sets[request.left]) \cap Represented(sets[request.right])
  BY <1>1, Behind
<1> HIDE DEF v
<1>4. SetAnswered(v)
  BY <1>1, <1>2, <1>3, IntersectAnswers
<1>5. Persistent!AnswersSet(v) /\ Typed(sets', maps')
  BY <1>4 DEF SetAnswered
<1> QED
  BY <1>1, <1>5 DEF Persistent!Reply, AbstractSets, v

LEMMA DifferenceReplies == Replies("difference")
<1> SUFFICES ASSUME OneText, CollectionsIInv, CollectionsReply, request.op = "difference"
             PROVE  Persistent!Reply /\ Typed(sets', maps')
  BY DEF Replies
<1> DEFINE v == AbstractSets(sets)[request.left] \ AbstractSets(sets)[request.right]
<1>1. /\ Typed(sets, maps) /\ request # NoCall /\ request' = NoCall
      /\ request.left \in DOMAIN sets /\ request.right \in DOMAIN sets
  BY Replying, CallFacts
<1>2. Difference(request.left, request.right)
  BY DEF CollectionsReply
<1>3. v = Represented(sets[request.left]) \ Represented(sets[request.right])
  BY <1>1, Behind
<1> HIDE DEF v
<1>4. SetAnswered(v)
  BY <1>1, <1>2, <1>3, DifferenceAnswers
<1>5. Persistent!AnswersSet(v) /\ Typed(sets', maps')
  BY <1>4 DEF SetAnswered
<1> QED
  BY <1>1, <1>5 DEF Persistent!Reply, AbstractSets, v

LEMMA EqualsReplies == Replies("equals")
<1> SUFFICES ASSUME OneText, CollectionsIInv, CollectionsReply, request.op = "equals"
             PROVE  Persistent!Reply /\ Typed(sets', maps')
  BY DEF Replies
<1> DEFINE p == SetEquals(request.left, request.right)
           q == AbstractSets(sets)[request.left] = AbstractSets(sets)[request.right]
<1>1. /\ Typed(sets, maps) /\ request # NoCall /\ request' = NoCall
      /\ request.left \in DOMAIN sets /\ request.right \in DOMAIN sets
  BY Replying, CallFacts
<1>2. AnswerPlain([holds |-> p])
  BY DEF CollectionsReply, Holds
<1>3. p = q
  <2>1. /\ AbstractSets(sets)[request.left] = Represented(sets[request.left])
        /\ AbstractSets(sets)[request.right] = Represented(sets[request.right])
    BY <1>1, Behind
  <2>2. p <=> q
    BY <1>1, <2>1, SubsetDecided
  <2>3. p \in BOOLEAN /\ q \in BOOLEAN
    BY DEF SetEquals
  <2> HIDE DEF p, q
  <2> QED
    BY <2>2, <2>3
<1> HIDE DEF p, q
<1>4. PlainAnswered([holds |-> q])
  BY <1>1, <1>2, <1>3, PlainAnswer
<1>5. Persistent!Answers([holds |-> q]) /\ Typed(sets', maps')
  BY <1>4 DEF PlainAnswered
<1> QED
  BY <1>1, <1>5 DEF Persistent!Reply, AbstractSets, q

LEMMA SubsetReplies == Replies("subset")
<1> SUFFICES ASSUME OneText, CollectionsIInv, CollectionsReply, request.op = "subset"
             PROVE  Persistent!Reply /\ Typed(sets', maps')
  BY DEF Replies
<1> DEFINE p == IsSubsetOf(request.left, request.right)
           q == AbstractSets(sets)[request.left] \subseteq AbstractSets(sets)[request.right]
<1>1. /\ Typed(sets, maps) /\ request # NoCall /\ request' = NoCall
      /\ request.left \in DOMAIN sets /\ request.right \in DOMAIN sets
  BY Replying, CallFacts
<1>2. AnswerPlain([holds |-> p])
  BY DEF CollectionsReply, Holds
<1>3. p = q
  <2>1. /\ AbstractSets(sets)[request.left] = Represented(sets[request.left])
        /\ AbstractSets(sets)[request.right] = Represented(sets[request.right])
    BY <1>1, Behind
  <2>2. p <=> q
    BY <1>1, <2>1, SubsetDecided
  <2>3. p \in BOOLEAN /\ q \in BOOLEAN
    BY DEF IsSubsetOf
  <2> HIDE DEF p, q
  <2> QED
    BY <2>2, <2>3
<1> HIDE DEF p, q
<1>4. PlainAnswered([holds |-> q])
  BY <1>1, <1>2, <1>3, PlainAnswer
<1>5. Persistent!Answers([holds |-> q]) /\ Typed(sets', maps')
  BY <1>4 DEF PlainAnswered
<1> QED
  BY <1>1, <1>5 DEF Persistent!Reply, AbstractSets, q

LEMMA ProperSubsetReplies == Replies("properSubset")
<1> SUFFICES ASSUME OneText, CollectionsIInv, CollectionsReply, request.op = "properSubset"
             PROVE  Persistent!Reply /\ Typed(sets', maps')
  BY DEF Replies
<1> DEFINE p == (Size(sets[request.left]) < Size(sets[request.right]) /\ IsSubsetOf(request.left, request.right))
           q == (AbstractSets(sets)[request.left] \subseteq AbstractSets(sets)[request.right] /\ AbstractSets(sets)[request.left] # AbstractSets(sets)[request.right])
<1>1. /\ Typed(sets, maps) /\ request # NoCall /\ request' = NoCall
      /\ request.left \in DOMAIN sets /\ request.right \in DOMAIN sets
  BY Replying, CallFacts
<1>2. AnswerPlain([holds |-> p])
  BY DEF CollectionsReply, Holds
<1>3. p = q
  <2>1. /\ AbstractSets(sets)[request.left] = Represented(sets[request.left])
        /\ AbstractSets(sets)[request.right] = Represented(sets[request.right])
    BY <1>1, Behind
  <2>2. p <=> q
    BY <1>1, <2>1, SubsetDecided
  <2>3. p \in BOOLEAN /\ q \in BOOLEAN
    BY DEF IsSubsetOf
  <2> HIDE DEF p, q
  <2> QED
    BY <2>2, <2>3
<1> HIDE DEF p, q
<1>4. PlainAnswered([holds |-> q])
  BY <1>1, <1>2, <1>3, PlainAnswer
<1>5. Persistent!Answers([holds |-> q]) /\ Typed(sets', maps')
  BY <1>4 DEF PlainAnswered
<1> QED
  BY <1>1, <1>5 DEF Persistent!Reply, AbstractSets, q

LEMMA DisjointReplies == Replies("disjoint")
<1> SUFFICES ASSUME OneText, CollectionsIInv, CollectionsReply, request.op = "disjoint"
             PROVE  Persistent!Reply /\ Typed(sets', maps')
  BY DEF Replies
<1> DEFINE p == IsDisjointFrom(request.left, request.right)
           q == AbstractSets(sets)[request.left] \cap AbstractSets(sets)[request.right] = {}
<1>1. /\ Typed(sets, maps) /\ request # NoCall /\ request' = NoCall
      /\ request.left \in DOMAIN sets /\ request.right \in DOMAIN sets
  BY Replying, CallFacts
<1>2. AnswerPlain([holds |-> p])
  BY DEF CollectionsReply, Holds
<1>3. p = q
  <2>1. /\ AbstractSets(sets)[request.left] = Represented(sets[request.left])
        /\ AbstractSets(sets)[request.right] = Represented(sets[request.right])
    BY <1>1, Behind
  <2>2. p <=> q
    BY <1>1, <2>1, SubsetDecided
  <2>3. p \in BOOLEAN /\ q \in BOOLEAN
    BY DEF IsDisjointFrom
  <2> HIDE DEF p, q
  <2> QED
    BY <2>2, <2>3
<1> HIDE DEF p, q
<1>4. PlainAnswered([holds |-> q])
  BY <1>1, <1>2, <1>3, PlainAnswer
<1>5. Persistent!Answers([holds |-> q]) /\ Typed(sets', maps')
  BY <1>4 DEF PlainAnswered
<1> QED
  BY <1>1, <1>5 DEF Persistent!Reply, AbstractSets, q

\* Literals are sequences of items and of map entries.
LEMMA KeySequences ==
    /\ Key \subseteq Item /\ SetLiteral \subseteq Seq(Item) /\ MapLiteral \subseteq Seq(Key \X Key)
<1>1. Key \subseteq Item
  BY DEF Item
<1>2. SetLiteral \subseteq Seq(Key) /\ MapLiteral \subseteq Seq(Key \X Key)
  BY KeyAssumption
<1>3. \A s \in Seq(Key) : s \in Seq(Item)
  BY <1>1
<1> QED
  BY <1>1, <1>2, <1>3

LEMMA SetOfReplies == Replies("setOf")
<1> SUFFICES ASSUME OneText, CollectionsIInv, CollectionsReply, request.op = "setOf"
             PROVE  Persistent!Reply /\ Typed(sets', maps')
  BY DEF Replies
<1> DEFINE v == Persistent!Values(request.elements)
           r == FromElements(request.elements)
<1>1. /\ Typed(sets, maps) /\ request # NoCall /\ request' = NoCall
      /\ request.elements \in SetLiteral
  BY Replying, CallFacts
<1>2. MakeSet(r)
  BY DEF CollectionsReply
<1>3. request.elements \in Seq(Item)
  BY <1>1, KeySequences
<1>4. v = ValuesOf(request.elements)
  BY DEF Persistent!Values, ValuesOf
<1>5. r \in GoodInner(SetEntries) /\ v = Represented(r)
  BY <1>3, <1>4, FromElementsIs
<1> HIDE DEF v, r
<1>6. SetAnswered(v)
  BY <1>1, <1>2, <1>5, MadeSet
<1>7. Persistent!AnswersSet(v) /\ Typed(sets', maps')
  BY <1>6 DEF SetAnswered
<1> QED
  BY <1>1, <1>7 DEF Persistent!Reply, v

LEMMA ContainsReplies == Replies("contains")
<1> SUFFICES ASSUME OneText, CollectionsIInv, CollectionsReply, request.op = "contains"
             PROVE  Persistent!Reply /\ Typed(sets', maps')
  BY DEF Replies
<1> DEFINE p == HasKey(sets[request.of], request.key)
           q == Value(request.key) \in AbstractSets(sets)[request.of]
<1>1. /\ Typed(sets, maps) /\ request # NoCall /\ request' = NoCall
      /\ request.of \in DOMAIN sets /\ request.key \in Key
  BY Replying, CallFacts
<1>2. AnswerPlain([holds |-> p])
  BY DEF CollectionsReply, Holds
<1>3. p = q
  <2>1. sets[request.of] \in GoodInner(SetEntries) /\ SetEntries \in SUBSET EntryOf /\ request.key \in Item
    BY <1>1, HandlesGood, KeySequences
  <2>2. p <=> Value(request.key) \in Represented(sets[request.of])
    BY <2>1, HasKeyMeans
  <2>3. AbstractSets(sets)[request.of] = Represented(sets[request.of])
    BY <1>1, Behind
  <2>4. p \in BOOLEAN /\ q \in BOOLEAN
    BY DEF HasKey
  <2> QED
    BY <2>2, <2>3, <2>4
<1> HIDE DEF p, q
<1>4. PlainAnswered([holds |-> q])
  BY <1>1, <1>2, <1>3, PlainAnswer
<1>5. Persistent!Answers([holds |-> q]) /\ Typed(sets', maps')
  BY <1>4 DEF PlainAnswered
<1> QED
  BY <1>1, <1>5 DEF Persistent!Reply, AbstractSets, q

LEMMA MapOfReplies == Replies("mapOf")
<1> SUFFICES ASSUME OneText, CollectionsIInv, CollectionsReply, request.op = "mapOf"
             PROVE  Persistent!Reply /\ Typed(sets', maps')
  BY DEF Replies
<1> DEFINE v == Persistent!Entries(request.entries)
           r == FromEntries(request.entries)
<1>1. /\ Typed(sets, maps) /\ request # NoCall /\ request' = NoCall
      /\ request.entries \in MapLiteral
  BY Replying, CallFacts
<1>2. MakeMap(r)
  BY DEF CollectionsReply
<1>3. request.entries \in Seq(Key \X Key)
  BY <1>1, KeySequences
<1>4. r \in GoodInner(MapEntries) /\ v = Abstraction(r)
  BY <1>3, FromEntriesIs
<1> HIDE DEF v, r
<1>5. MapAnswered(v)
  BY <1>1, <1>2, <1>4, MadeMap
<1>6. Persistent!AnswersMap(v) /\ Typed(sets', maps')
  BY <1>5 DEF MapAnswered
<1> QED
  BY <1>1, <1>6 DEF Persistent!Reply, v

LEMMA UpdateReplies == Replies("mapUpdate")
<1> SUFFICES ASSUME OneText, CollectionsIInv, CollectionsReply, request.op = "mapUpdate"
             PROVE  Persistent!Reply /\ Typed(sets', maps')
  BY DEF Replies
<1> DEFINE one == <<<<request.key, request.value>>>>
           v == Persistent!Override(AbstractMaps(maps)[request.of], Persistent!Entries(one))
           r == SetEntry(maps[request.of], request.key, request.value)
<1>1. /\ Typed(sets, maps) /\ request # NoCall /\ request' = NoCall
      /\ request.of \in DOMAIN maps /\ request.key \in Key /\ request.value \in Key
  BY Replying, CallFacts
<1>2. MakeMap(r)
  BY DEF CollectionsReply
<1>3. maps[request.of] \in GoodInner(MapEntries)
  BY <1>1, HandlesGood
<1>4. AbstractMaps(maps)[request.of] = Abstraction(maps[request.of])
  BY <1>1, Behind
<1>5. /\ r \in GoodInner(MapEntries)
      /\ Abstraction(r) = Persistent!Override(Abstraction(maps[request.of]), Persistent!Entries(one))
  BY <1>1, <1>3, UpdateIs
<1>6. v = Abstraction(r)
  BY <1>4, <1>5
<1> HIDE DEF v, r
<1>7. MapAnswered(v)
  BY <1>1, <1>2, <1>5, <1>6, MadeMap
<1>8. Persistent!AnswersMap(v) /\ Typed(sets', maps')
  BY <1>7 DEF MapAnswered
<1> QED
  BY <1>1, <1>8 DEF Persistent!Reply, AbstractMaps, v

LEMMA GetReplies == Replies("mapGet")
<1> SUFFICES ASSUME OneText, CollectionsIInv, CollectionsReply, request.op = "mapGet"
             PROVE  Persistent!Reply /\ Typed(sets', maps')
  BY DEF Replies
<1> DEFINE x == maps[request.of]
           f == AbstractMaps(maps)[request.of]
           p == IF HasKey(x, request.key) THEN Value(ValueOf(x, request.key)) ELSE Absent
           q == IF Value(request.key) \in DOMAIN f THEN f[Value(request.key)] ELSE Absent
<1>1. /\ Typed(sets, maps) /\ request # NoCall /\ request' = NoCall
      /\ request.of \in DOMAIN maps /\ request.key \in Key
  BY Replying, CallFacts
<1>2. AnswerPlain([value |-> p])
  BY DEF CollectionsReply, MapGet
<1>3. p = q
  <2>1. x \in GoodInner(MapEntries) /\ request.key \in Item
    BY <1>1, HandlesGood, KeySequences
  <2>2. f = Abstraction(x)
    BY <1>1, Behind
  <2> HIDE DEF x, f
  <2>3. /\ HasKey(x, request.key) <=> Value(request.key) \in DOMAIN f
        /\ HasKey(x, request.key) => Value(ValueOf(x, request.key)) = f[Value(request.key)]
    BY <2>1, <2>2, GetIs
  <2> QED
    BY <2>3
<1> HIDE DEF p, q
<1>4. PlainAnswered([value |-> q])
  BY <1>1, <1>2, <1>3, PlainAnswer
<1>5. Persistent!Answers([value |-> q]) /\ Typed(sets', maps')
  BY <1>4 DEF PlainAnswered
<1> QED
  BY <1>1, <1>5 DEF Persistent!Reply, AbstractMaps, q

LEMMA MergeReplies == Replies("mapMerge")
<1> SUFFICES ASSUME OneText, CollectionsIInv, CollectionsReply, request.op = "mapMerge"
             PROVE  Persistent!Reply /\ Typed(sets', maps')
  BY DEF Replies
<1> DEFINE v == Persistent!Override(AbstractMaps(maps)[request.left], AbstractMaps(maps)[request.right])
           r == PutAll(maps[request.right], maps[request.left].entries, TRUE)
<1>1. /\ Typed(sets, maps) /\ request # NoCall /\ request' = NoCall
      /\ request.left \in DOMAIN maps /\ request.right \in DOMAIN maps
  BY Replying, CallFacts
<1>2. MakeMap(r)
  BY DEF CollectionsReply, Merge
<1>3. maps[request.left] \in GoodInner(MapEntries) /\ maps[request.right] \in GoodInner(MapEntries)
  BY <1>1, HandlesGood
<1>4. /\ AbstractMaps(maps)[request.left] = Abstraction(maps[request.left])
      /\ AbstractMaps(maps)[request.right] = Abstraction(maps[request.right])
  BY <1>1, Behind
<1>5. /\ r \in GoodInner(MapEntries)
      /\ Abstraction(r) = Persistent!Override(Abstraction(maps[request.left]), Abstraction(maps[request.right]))
  BY <1>3, MergeIs
<1>6. v = Abstraction(r)
  BY <1>4, <1>5
<1> HIDE DEF v, r
<1>7. MapAnswered(v)
  BY <1>1, <1>2, <1>5, <1>6, MadeMap
<1>8. Persistent!AnswersMap(v) /\ Typed(sets', maps')
  BY <1>7 DEF MapAnswered
<1> QED
  BY <1>1, <1>8 DEF Persistent!Reply, AbstractMaps, v

LEMMA MapEqualsReplies == Replies("mapEquals")
<1> SUFFICES ASSUME OneText, CollectionsIInv, CollectionsReply, request.op = "mapEquals"
             PROVE  Persistent!Reply /\ Typed(sets', maps')
  BY DEF Replies
<1> DEFINE p == MapEquals(request.left, request.right)
           q == AbstractMaps(maps)[request.left] = AbstractMaps(maps)[request.right]
<1>1. /\ Typed(sets, maps) /\ request # NoCall /\ request' = NoCall
      /\ request.left \in DOMAIN maps /\ request.right \in DOMAIN maps
  BY Replying, CallFacts
<1>2. AnswerPlain([holds |-> p])
  BY DEF CollectionsReply, Holds
<1>3. p = q
  <2>1. /\ AbstractMaps(maps)[request.left] = Abstraction(maps[request.left])
        /\ AbstractMaps(maps)[request.right] = Abstraction(maps[request.right])
    BY <1>1, Behind
  <2>2. p <=> q
    BY <1>1, <2>1, MapEqualsDecided
  <2>3. p \in BOOLEAN /\ q \in BOOLEAN
    BY DEF MapEquals
  <2> HIDE DEF p, q
  <2> QED
    BY <2>2, <2>3
<1> HIDE DEF p, q
<1>4. PlainAnswered([holds |-> q])
  BY <1>1, <1>2, <1>3, PlainAnswer
<1>5. Persistent!Answers([holds |-> q]) /\ Typed(sets', maps')
  BY <1>4 DEF PlainAnswered
<1> QED
  BY <1>1, <1>5 DEF Persistent!Reply, AbstractMaps, q

LEMMA SubtractReplies == Replies("mapSubtract")
<1> SUFFICES ASSUME OneText, CollectionsIInv, CollectionsReply, request.op = "mapSubtract"
             PROVE  Persistent!Reply /\ Typed(sets', maps')
  BY DEF Replies
<1> DEFINE x == maps[request.of]
           y == sets[request.keys]
           f == AbstractMaps(maps)[request.of]
           K == AbstractSets(sets)[request.keys]
           v == [k \in DOMAIN f \ K |-> f[k]]
           r == RemoveAll(x, Elements(y))
<1>1. /\ Typed(sets, maps) /\ request # NoCall /\ request' = NoCall
      /\ request.of \in DOMAIN maps /\ request.keys \in DOMAIN sets
  BY Replying, CallFacts
<1>2. Subtract(request.of, request.keys)
  BY DEF CollectionsReply
<1>3. /\ x \in GoodInner(MapEntries) /\ y \in GoodInner(SetEntries) /\ MapEntries \in SUBSET EntryOf
      /\ f = Abstraction(x) /\ K = Represented(y)
  BY <1>1, HandlesGood, Behind
<1>4. MapAnswered(v)
  <2>1. CASE Size(x) = 0 \/ Size(y) = 0
    <3>1. ShareMap(request.of)
      BY <1>2, <2>1 DEF Subtract
    <3>2. Size(x) = 0 <=> Represented(x) = {}
      BY <1>3, EmptyWhenNoSize
    <3>3. Size(y) = 0 <=> Represented(y) = {}
      BY <1>3, SetHandle DEF SetFacts
    <3>4. IsFunction(f) /\ DOMAIN f = Represented(x)
      BY <1>3, AbstractionIsFunction
    <3> HIDE DEF x, y, f, K
    <3>5. DOMAIN f \ K = DOMAIN f
      BY <1>3, <2>1, <3>2, <3>3, <3>4
    <3>6. v = [k \in DOMAIN f |-> f[k]]
      BY <3>5
    <3>7. v = f
      BY <3>4, <3>6 DEF IsFunction
    <3> HIDE DEF v
    <3>8. v = Abstraction(maps[request.of])
      BY <1>3, <3>7 DEF x
    <3> QED
      BY <1>1, <3>1, <3>8, SharedMap
  <2>2. CASE ~(Size(x) = 0 \/ Size(y) = 0)
    <3>1. MakeMap(r)
      BY <1>2, <2>2 DEF Subtract
    <3> HIDE DEF x, y, f
    <3>2. Elements(y) \in Seq(Item) /\ K = ValuesOf(Elements(y))
      BY <1>3, SetHandle DEF SetFacts
    <3> HIDE DEF K
    <3>3. r \in GoodInner(MapEntries) /\ Abstraction(r) = [k \in DOMAIN Abstraction(x) \ K |-> Abstraction(x)[k]]
      BY <1>3, <3>2, SubtractIs
    <3>4. v = Abstraction(r)
      BY <1>3, <3>3
    <3> HIDE DEF r, v
    <3> QED
      BY <1>1, <3>1, <3>3, <3>4, MadeMap
  <2> QED
    BY <2>1, <2>2
<1> HIDE DEF v
<1>5. Persistent!AnswersMap(v) /\ Typed(sets', maps')
  BY <1>4 DEF MapAnswered
<1> QED
  BY <1>1, <1>5 DEF Persistent!Reply, AbstractMaps, AbstractSets, v, f, K

LEMMA MapKeysReplies == Replies("mapKeys")
<1> SUFFICES ASSUME OneText, CollectionsIInv, CollectionsReply, request.op = "mapKeys"
             PROVE  Persistent!Reply /\ Typed(sets', maps')
  BY DEF Replies
<1> DEFINE x == maps[request.of]
           f == AbstractMaps(maps)[request.of]
           v == DOMAIN f
           r == FromElements(Keys(x))
<1>1. /\ Typed(sets, maps) /\ request # NoCall /\ request' = NoCall /\ request.of \in DOMAIN maps
  BY Replying, CallFacts
<1>2. MakeSet(r)
  BY DEF CollectionsReply
<1>3. x \in GoodInner(MapEntries) /\ f = Abstraction(x)
  BY <1>1, HandlesGood, Behind
<1> HIDE DEF x, f
<1>4. Keys(x) \in Seq(Item) /\ ValuesOf(Keys(x)) = v
  BY <1>3, MapLists
<1> HIDE DEF v
<1>5. r \in GoodInner(SetEntries) /\ v = Represented(r)
  BY <1>4, FromElementsIs
<1> HIDE DEF r
<1>6. SetAnswered(v)
  BY <1>1, <1>2, <1>5, MadeSet
<1>7. Persistent!AnswersSet(v) /\ Typed(sets', maps')
  BY <1>6 DEF SetAnswered
<1> QED
  BY <1>1, <1>7 DEF Persistent!Reply, AbstractMaps, v, f

LEMMA MapValuesReplies == Replies("mapValues")
<1> SUFFICES ASSUME OneText, CollectionsIInv, CollectionsReply, request.op = "mapValues"
             PROVE  Persistent!Reply /\ Typed(sets', maps')
  BY DEF Replies
<1> DEFINE x == maps[request.of]
           f == AbstractMaps(maps)[request.of]
           v == { f[k] : k \in DOMAIN f }
           r == FromElements(Elements(x))
<1>1. /\ Typed(sets, maps) /\ request # NoCall /\ request' = NoCall /\ request.of \in DOMAIN maps
  BY Replying, CallFacts
<1>2. MakeSet(r)
  BY DEF CollectionsReply
<1>3. x \in GoodInner(MapEntries) /\ f = Abstraction(x)
  BY <1>1, HandlesGood, Behind
<1> HIDE DEF x, f
<1>4. Elements(x) \in Seq(Item) /\ ValuesOf(Elements(x)) = v
  BY <1>3, MapLists
<1> HIDE DEF v
<1>5. r \in GoodInner(SetEntries) /\ v = Represented(r)
  BY <1>4, FromElementsIs
<1> HIDE DEF r
<1>6. SetAnswered(v)
  BY <1>1, <1>2, <1>5, MadeSet
<1>7. Persistent!AnswersSet(v) /\ Typed(sets', maps')
  BY <1>6 DEF SetAnswered
<1> QED
  BY <1>1, <1>7 DEF Persistent!Reply, AbstractMaps, v, f

LEMMA MapItemsReplies == Replies("mapItems")
<1> SUFFICES ASSUME OneText, CollectionsIInv, CollectionsReply, request.op = "mapItems"
             PROVE  Persistent!Reply /\ Typed(sets', maps')
  BY DEF Replies
<1> DEFINE x == maps[request.of]
           f == AbstractMaps(maps)[request.of]
           v == { PairOf(k, f[k]) : k \in DOMAIN f }
           r == FromElements(Items(x))
<1>1. /\ Typed(sets, maps) /\ request # NoCall /\ request' = NoCall /\ request.of \in DOMAIN maps
  BY Replying, CallFacts
<1>2. MakeSet(r)
  BY DEF CollectionsReply
<1>3. x \in GoodInner(MapEntries) /\ f = Abstraction(x)
  BY <1>1, HandlesGood, Behind
<1> HIDE DEF x, f
<1>4. Items(x) \in Seq(Item) /\ ValuesOf(Items(x)) = v
  BY <1>3, MapLists
<1> HIDE DEF v
<1>5. r \in GoodInner(SetEntries) /\ v = Represented(r)
  BY <1>4, FromElementsIs
<1> HIDE DEF r
<1>6. SetAnswered(v)
  BY <1>1, <1>2, <1>5, MadeSet
<1>7. Persistent!AnswersSet(v) /\ Typed(sets', maps')
  BY <1>6 DEF SetAnswered
<1> QED
  BY <1>1, <1>7 DEF Persistent!Reply, AbstractMaps, v, f

LEMMA SubsetsReplies == Replies("subsets")
<1> SUFFICES ASSUME OneText, CollectionsIInv, CollectionsReply, request.op = "subsets"
             PROVE  Persistent!Reply /\ Typed(sets', maps')
  BY DEF Replies
<1> DEFINE elements == Elements(sets[request.of])
           s == AbstractSets(sets)[request.of]
<1>1. /\ Typed(sets, maps) /\ request # NoCall /\ request' = NoCall /\ request.of \in DOMAIN sets
  BY Replying, CallFacts
<1>2. generator # << >> /\ generator.done /\ AnswerPlain([subsets |-> generator.yielded])
  BY DEF CollectionsReply
<1>3. Generates(elements, generator)
  BY <1>2 DEF CollectionsIInv, GeneratorMade
<1>4. ValuesOf(elements) = s
  <2>1. sets[request.of] \in GoodInner(SetEntries)
    BY <1>1, HandlesGood
  <2> QED
    BY <1>1, <2>1, ElementsOf, Behind
<1> HIDE DEF elements, s
<1>5. /\ { generator.yielded[i] : i \in DOMAIN generator.yielded } = SUBSET s
      /\ Len(generator.yielded) = Cardinality(SUBSET s)
  BY <1>2, <1>3, <1>4, DoneYieldsAll
<1>6. reply' = [subsets |-> generator.yielded] /\ sets' = sets /\ maps' = maps
  BY <1>2 DEF AnswerPlain
<1>7. DOMAIN reply' = {"subsets"} /\ reply'.subsets = generator.yielded
  BY <1>6
<1>8. Persistent!AnswersSubsets(s)
  <2>1. { reply'.subsets[i] : i \in DOMAIN reply'.subsets } = SUBSET s
    BY <1>5, <1>7
  <2>2. Len(reply'.subsets) = Cardinality(SUBSET s)
    BY <1>5, <1>7
  <2>3. AbstractSets(sets') = AbstractSets(sets) /\ AbstractMaps(maps') = AbstractMaps(maps)
    BY <1>6
  <2>4. UNCHANGED <<[h \in DOMAIN sets |-> Represented(sets[h])], [h \in DOMAIN maps |-> Abstraction(maps[h])]>>
    BY <2>3 DEF AbstractSets, AbstractMaps
  <2>5. Persistent!Cardinality(SUBSET s) = Cardinality(SUBSET s)
    BY Zenon DEF Persistent!Cardinality, Cardinality
  <2> QED
    BY <1>7, <2>1, <2>2, <2>4, <2>5, Zenon DEF Persistent!AnswersSubsets
<1> QED
  BY <1>1, <1>6, <1>8 DEF Persistent!Reply, AbstractSets, s

-----------------------------------------------------------------------------
(* Steps.                                                                  *)

\* Every reply answers as promised.
LEMMA ReplyImplements ==
    ASSUME OneText, CollectionsIInv, CollectionsReply
    PROVE  Persistent!Reply /\ CollectionsIInv'
<1>1. request.op \in {"setOf", "union", "intersect", "difference", "equals", "subset", "properSubset",
                      "disjoint", "contains", "subsets", "mapOf", "mapUpdate", "mapGet", "mapMerge",
                      "mapEquals", "mapSubtract", "mapKeys", "mapValues", "mapItems"}
  BY Replying, CallFacts
<1>2. \A op \in {"setOf", "union", "intersect", "difference", "equals", "subset", "properSubset",
                 "disjoint", "contains", "subsets", "mapOf", "mapUpdate", "mapGet", "mapMerge",
                 "mapEquals", "mapSubtract", "mapKeys", "mapValues", "mapItems"} : Replies(op)
  BY SetOfReplies, UnionReplies, IntersectReplies, DifferenceReplies, EqualsReplies, SubsetReplies,
     ProperSubsetReplies, DisjointReplies, ContainsReplies, SubsetsReplies, MapOfReplies, UpdateReplies,
     GetReplies, MergeReplies, MapEqualsReplies, SubtractReplies, MapKeysReplies, MapValuesReplies,
     MapItemsReplies
<1>3. Replies(request.op)
  BY <1>1, <1>2
<1>4. Persistent!Reply /\ Typed(sets', maps')
  BY <1>3 DEF Replies
<1>5. request' = NoCall /\ generator' = << >>
  BY DEF CollectionsReply
<1> QED
  BY <1>4, <1>5 DEF CollectionsIInv, CallMade, GeneratorMade

\* A call is one of the specification.
LEMMA InvokeImplements ==
    ASSUME CollectionsIInv, CollectionsInvoke
    PROVE  Persistent!Invoke /\ CollectionsIInv'
<1>1. /\ request = NoCall /\ reply = << >>
      /\ sets' = sets /\ maps' = maps /\ generator' = generator /\ reply' = reply
  BY DEF CollectionsInvoke
<1>2. PICK c \in Persistent!Calls(DOMAIN sets, DOMAIN maps) : request' = c
  BY DEF CollectionsInvoke
<1>3. Typed(sets, maps) /\ generator = << >>
  BY <1>1 DEF CollectionsIInv, GeneratorMade
<1>4. CollectionsIInv'
  BY <1>1, <1>2, <1>3 DEF CollectionsIInv, CallMade, GeneratorMade, Typed
<1>5. \E d \in Persistent!Calls(DOMAIN AbstractSets(sets), DOMAIN AbstractMaps(maps)) : request' = d
  BY <1>2, Behind
<1>6. AbstractSets(sets') = AbstractSets(sets) /\ AbstractMaps(maps') = AbstractMaps(maps)
  BY <1>1
<1>7. Persistent!Invoke
  BY <1>1, <1>5, <1>6 DEF Persistent!Invoke, AbstractSets, AbstractMaps
<1> QED
  BY <1>4, <1>7

\* So is taking an answer.
LEMMA TakeImplements ==
    ASSUME CollectionsIInv, CollectionsTake
    PROVE  Persistent!Take /\ CollectionsIInv'
<1>1. /\ request = NoCall /\ reply # << >> /\ reply' = << >>
      /\ sets' = sets /\ maps' = maps /\ generator' = generator /\ request' = request
  BY DEF CollectionsTake
<1>2. CollectionsIInv'
  BY <1>1 DEF CollectionsIInv, CallMade, GeneratorMade, Typed
<1>3. Persistent!Take
  BY <1>1 DEF Persistent!Take
<1> QED
  BY <1>2, <1>3

\* The set a generator was started for.
LEMMA GeneratorSet ==
    ASSUME CollectionsIInv, request # NoCall, request.op = "subsets"
    PROVE  OneEach(Elements(sets[request.of]))
<1>1. Typed(sets, maps) /\ request \in Persistent!Calls(DOMAIN sets, DOMAIN maps)
  BY DEF CollectionsIInv, CallMade
<1>2. request.of \in DOMAIN sets
  BY <1>1, CallFacts
<1>3. sets[request.of] \in GoodInner(SetEntries)
  BY <1>1, <1>2, HandlesGood
<1> QED
  BY <1>3, ElementsOnce

\* Starting a generator and yielding a subset are not seen outside: the sets
\* are handed over together.
LEMMA StartStutters ==
    ASSUME CollectionsIInv, StartSubsets
    PROVE  UNCHANGED <<sets, maps, request, reply>> /\ CollectionsIInv'
<1> DEFINE elements == Elements(sets[request.of])
<1>1. /\ request # NoCall /\ request.op = "subsets"
      /\ generator' = [elements |-> elements, selected |-> [i \in DOMAIN elements |-> FALSE],
                       current |-> << >>, yielded |-> << >>, done |-> FALSE]
      /\ sets' = sets /\ maps' = maps /\ request' = request /\ reply' = reply
  BY DEF StartSubsets
<1>2. OneEach(elements)
  BY <1>1, GeneratorSet
<1> HIDE DEF elements
<1>3. Generates(elements, generator')
  BY <1>1, <1>2, StartGenerates
<1>4. Generates(Elements(sets'[request'.of]), generator')
  BY <1>1, <1>3 DEF elements
<1> QED
  BY <1>1, <1>4 DEF CollectionsIInv, CallMade, GeneratorMade, Typed

LEMMA YieldStutters ==
    ASSUME OneText, CollectionsIInv, YieldSubset
    PROVE  UNCHANGED <<sets, maps, request, reply>> /\ CollectionsIInv'
<1> DEFINE elements == Elements(sets[request.of])
           r == NextSelection(generator.elements, generator.selected, generator.current)
<1>1. /\ generator # << >> /\ ~generator.done
      /\ sets' = sets /\ maps' = maps /\ request' = request /\ reply' = reply
  BY DEF YieldSubset
<1>2. request # NoCall /\ request.op = "subsets" /\ Generates(elements, generator)
  BY <1>1 DEF CollectionsIInv, GeneratorMade
<1>3. OneEach(elements)
  BY <1>2, GeneratorSet
<1>4. (\A i \in DOMAIN generator.selected : generator.selected[i]) => Ends(generator, generator')
  BY DEF YieldSubset, Ends, Yields
<1>5. ~(\A i \in DOMAIN generator.selected : generator.selected[i]) => GoesOn(generator, r, generator')
  BY DEF YieldSubset, GoesOn, Yields
<1> HIDE DEF elements, r
<1>6. Generates(elements, generator')
  <2>1. CASE \A i \in DOMAIN generator.selected : generator.selected[i]
    BY <1>1, <1>2, <1>3, <1>4, <2>1, EndGenerates
  <2>2. CASE ~(\A i \in DOMAIN generator.selected : generator.selected[i])
    <3>1. \E i \in DOMAIN generator.selected : ~generator.selected[i]
      BY <2>2
    <3> QED
      BY <1>1, <1>2, <1>3, <1>5, <2>2, <3>1, GoOnGenerates
  <2> QED
    BY <2>1, <2>2
<1>7. Generates(Elements(sets'[request'.of]), generator')
  BY <1>1, <1>6 DEF elements
<1> QED
  BY <1>1, <1>2, <1>7 DEF CollectionsIInv, CallMade, GeneratorMade, Typed

\* Every step is one that is promised, or none.
LEMMA StepImplements ==
    ASSUME OneText, CollectionsIInv, [CollectionsNext]_collectionVars
    PROVE  [Persistent!Next]_(Persistent!vars) /\ CollectionsIInv'
<1>1. CASE CollectionsInvoke
  BY <1>1, InvokeImplements DEF Persistent!Next
<1>2. CASE CollectionsTake
  BY <1>2, TakeImplements DEF Persistent!Next
<1>3. CASE CollectionsReply
  BY <1>3, ReplyImplements DEF Persistent!Next
<1>4. ASSUME sets' = sets, maps' = maps, request' = request, reply' = reply PROVE UNCHANGED Persistent!vars
  BY <1>4 DEF Persistent!vars
<1>5. CASE StartSubsets
  BY <1>4, <1>5, StartStutters
<1>6. CASE YieldSubset
  BY <1>4, <1>6, YieldStutters
<1>7. CASE UNCHANGED collectionVars
  BY <1>4, <1>7 DEF collectionVars, CollectionsIInv, CallMade, GeneratorMade, Typed
<1> QED
  BY <1>1, <1>2, <1>3, <1>5, <1>6, <1>7 DEF CollectionsNext, CollectionsWork

\* At first there are no handles.
LEMMA CollectionsInitially ==
    ASSUME CollectionsInit
    PROVE  Persistent!Init /\ CollectionsIInv
<1>1. sets = << >> /\ maps = << >> /\ generator = << >> /\ request = NoCall /\ reply = << >>
  BY DEF CollectionsInit
<1>2. CollectionsIInv
  BY <1>1 DEF CollectionsIInv, CallMade, GeneratorMade, Typed
<1>3. AbstractSets(sets) = << >> /\ AbstractMaps(maps) = << >>
  BY <1>1 DEF AbstractSets, AbstractMaps
<1>4. Persistent!Init
  BY <1>1, <1>3 DEF Persistent!Init, AbstractSets, AbstractMaps
<1> QED
  BY <1>2, <1>4

\* Whatever handles share an inner map and however a result was built by
\* adding in place, Set and Map of dafny-set.js and dafny-map.js answer each
\* call by the structure of the values, leave every set and map made before as
\* it was, and AllSubsets_ yields each subset of a set once.  OneText excludes
\* the keys with which the code does not: equal ones with different texts.
THEOREM CollectionsImplement ==
    OneText => (CollectionsSpec => ImplementsPersistentCollections)
<1>1. CollectionsInit => Persistent!Init /\ CollectionsIInv
  BY CollectionsInitially
<1>2. OneText /\ CollectionsIInv /\ [CollectionsNext]_collectionVars => [Persistent!Next]_(Persistent!vars) /\ CollectionsIInv'
  BY StepImplements
<1>3. OneText => OneText'
  BY DEF OneText
<1> QED
  BY <1>1, <1>2, <1>3, PTL DEF CollectionsSpec, ImplementsPersistentCollections, Persistent!Spec

\* Where equal keys have one text, `contains` of dafny-set.js says yes exactly
\* when the set holds an element that DafnyKey.equals takes for the same.
THEOREM CollectionsMembership ==
    OneText => (CollectionsSpec => []StructuralMembership)
<1>1. CollectionsInit => CollectionsIInv
  BY CollectionsInitially
<1>2. OneText /\ CollectionsIInv /\ [CollectionsNext]_collectionVars => CollectionsIInv'
  BY StepImplements
<1>3. OneText => OneText'
  BY DEF OneText
<1>4. OneText /\ CollectionsIInv => StructuralMembership
  <2> SUFFICES ASSUME OneText, CollectionsIInv, NEW h \in DOMAIN sets, NEW k \in Key
               PROVE  HasKey(sets[h], k) = \E e \in Objects(Elements(sets[h])) : AreEqual(e, k)
    BY DEF StructuralMembership
  <2>1. sets[h] \in GoodInner(SetEntries) /\ SetEntries \in SUBSET EntryOf /\ k \in Item
    BY HandlesGood, KeySequences DEF CollectionsIInv
  <2>2. HasKey(sets[h], k) <=> Value(k) \in Represented(sets[h])
    BY <2>1, HasKeyMeans
  <2>3. { Value(e) : e \in Objects(Elements(sets[h])) } = Represented(sets[h])
    BY <2>1, ElementsOf
  <2>4. HasKey(sets[h], k) \in BOOLEAN
    BY DEF HasKey
  <2> DEFINE Met == \E e \in Objects(Elements(sets[h])) : AreEqual(e, k)
  <2>5. Value(k) \in Represented(sets[h]) <=> Met
    BY <2>3 DEF AreEqual
  <2>6. Met \in BOOLEAN
    OBVIOUS
  <2> HIDE DEF Met
  <2>7. HasKey(sets[h], k) = Met
    BY <2>2, <2>4, <2>5, <2>6
  <2> QED
    BY <2>7 DEF Met
<1> QED
  BY <1>1, <1>2, <1>3, <1>4, PTL DEF CollectionsSpec
=============================================================================
