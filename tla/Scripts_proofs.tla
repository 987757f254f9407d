--------------------------- MODULE Scripts_proofs ---------------------------
(***************************************************************************)
(* Two of the scripts report what is so.                                   *)
(*                                                                         *)
(* The published closure is exact and fails for the right reasons, for any *)
(* rows and usages in any order, any languages and any roots.  The         *)
(* definitions always summarise the rows read so far (Known), so that they *)
(* attribute a usage as the rows do and contradict each other when the     *)
(* rows do.  The graph is then the one of the rows.  The search keeps what *)
(* it found between the root and every closed set that holds the root      *)
(* (Search); when nothing is pending it is closed itself, hence the least  *)
(* of them.                                                                *)
(*                                                                         *)
(* The summary of proof efforts counts them as they were written, for any  *)
(* texts, files and cuts.  The columns lie one after another in a file     *)
(* (Layout), and what was read of one that was written is the text itself  *)
(* in the end (ReadOf, ReadFurther).  So the parser is always at one place *)
(* of the file and holds the lines and columns before it (Reading), or it  *)
(* met the cut between two quotes (CutOff); what it hands on are the       *)
(* efforts, but for the last one of a file cut off (Parsed).  Judging      *)
(* removes one effort of the rows and adds it to the summary (JudgeInv),   *)
(* and summaries of two parts make that of the whole (AggregatedTallies).  *)
(***************************************************************************)
EXTENDS SourceClosure, ProofEffort, Loops, TLAPS

-----------------------------------------------------------------------------
(* The rows of the closure.                                                *)

Rows(given) == { given.definitions[i] : i \in DOMAIN given.definitions }

Described(given) ==
    [name    : { line.name : line \in Rows(given) },
     path    : { line.path : line \in Rows(given) },
     by      : { line.by : line \in Rows(given) },
     row     : Int,
     end     : Int,
     private : { line.private : line \in Rows(given) },
     rowOf   : SUBSET ({ line.lang : line \in Rows(given) } \X Int)]

\* Definition d agrees with row i, which is one of its own.
Agrees(given, i, d) ==
    /\ given.definitions[i].path = d.path /\ given.definitions[i].by = d.by
    /\ given.definitions[i].private = d.private
    /\ <<given.definitions[i].lang, given.definitions[i].row>> \in d.rowOf
    /\ d.row <= given.definitions[i].row /\ given.definitions[i].end <= d.end

\* Nothing in definition d is from elsewhere than its first k rows.
Founded(given, k, d) ==
    /\ \E i \in 1 .. k : IsOf(given, i, d.name) /\ given.definitions[i].row = d.row
    /\ \E i \in 1 .. k : IsOf(given, i, d.name) /\ given.definitions[i].end = d.end
    /\ \A p \in d.rowOf : \E i \in 1 .. k :
         IsOf(given, i, d.name) /\ p = <<given.definitions[i].lang, given.definitions[i].row>>
    /\ \A p, q \in d.rowOf : p[1] = q[1] => p[2] = q[2]

Summarises(given, k, d) ==
    /\ \A i \in 1 .. k : IsOf(given, i, d.name) => Agrees(given, i, d)
    /\ Founded(given, k, d)

\* The definitions are those of the first k rows, in the order they were met.
Known(given, k, defs) ==
    /\ defs \in Seq(Described(given))
    /\ \A i \in 1 .. Len(defs) : Summarises(given, k, defs[i])
    /\ \A i \in 1 .. k : Taken(given.definitions[i]) =>
         \E j \in 1 .. Len(defs) : defs[j].name = given.definitions[i].name
    /\ \A i, j \in 1 .. Len(defs) : i # j => defs[i].name # defs[j].name
    /\ \A i, j \in 1 .. Len(defs) : i < j => MetBefore(given, defs[i].name, defs[j].name)

-----------------------------------------------------------------------------
(* One definition.                                                         *)

LEMMA Listing ==
    ASSUME NEW given, Listed(given), NEW i \in DOMAIN given.definitions
    PROVE  /\ given.definitions[i] \in Rows(given)
           /\ given.definitions[i].row \in Int /\ given.definitions[i].end \in Int
           /\ i \in Nat /\ i \in 1 .. Len(given.definitions)
<1>1. i \in 1 .. Len(given.definitions) /\ Len(given.definitions) \in Nat
  BY Zenon DEF Listed
<1>2. i \in Nat
  BY <1>1
<1> QED
  BY <1>1, <1>2, Zenon DEF Listed, Rows

\* A fresh definition is one and carries its row.
LEMMA FreshDescribed ==
    ASSUME NEW given, Listed(given), NEW i \in DOMAIN given.definitions
    PROVE  Fresh(given.definitions[i]) \in Described(given)
<1> DEFINE r == given.definitions[i]
<1>1. r \in Rows(given) /\ r.row \in Int /\ r.end \in Int
  BY Listing, Zenon
<1> HIDE DEF r
<1>2. /\ r.name \in { line.name : line \in Rows(given) }
      /\ r.path \in { line.path : line \in Rows(given) }
      /\ r.by \in { line.by : line \in Rows(given) }
      /\ r.private \in { line.private : line \in Rows(given) }
      /\ r.lang \in { line.lang : line \in Rows(given) }
  BY <1>1, Zenon
<1>3. {<<r.lang, r.row>>} \in SUBSET ({ line.lang : line \in Rows(given) } \X Int)
  BY <1>1, <1>2
<1>4. Fresh(r) \in Described(given)
  BY <1>1, <1>2, <1>3 DEF Fresh, Described
<1> QED
  BY <1>4, Zenon DEF r

\* Merging changes the span and the rows of a definition and nothing else.
LEMMA MergedDescribed ==
    ASSUME NEW given, NEW r \in Rows(given), r.row \in Int, r.end \in Int,
           NEW d \in Described(given)
    PROVE  /\ Merged(d, r) \in Described(given)
           /\ Merged(d, r).name = d.name /\ Merged(d, r).path = d.path
           /\ Merged(d, r).by = d.by /\ Merged(d, r).private = d.private
           /\ Merged(d, r).rowOf = d.rowOf \cup {<<r.lang, r.row>>}
           /\ Merged(d, r).row = Earlier(d.row, r.row)
           /\ Merged(d, r).end = Later(d.end, r.end)
<1>2. r.lang \in { line.lang : line \in Rows(given) }
  BY Zenon
<1>3. d.row \in Int /\ d.end \in Int
      /\ d.rowOf \in SUBSET ({ line.lang : line \in Rows(given) } \X Int)
  BY DEF Described
<1>4. /\ d.rowOf \cup {<<r.lang, r.row>>} \in SUBSET ({ line.lang : line \in Rows(given) } \X Int)
      /\ Earlier(d.row, r.row) \in Int /\ Later(d.end, r.end) \in Int
  BY <1>2, <1>3 DEF Earlier, Later
<1> QED
  BY <1>4 DEF Merged, Described

\* A definition summarises one row more when that row is not one of its own.
LEMMA SummarisesOther ==
    ASSUME NEW given, NEW k \in Nat, NEW d, Summarises(given, k, d), ~IsOf(given, k + 1, d.name)
    PROVE  Summarises(given, k + 1, d)
<1>1. 1 .. k + 1 = (1 .. k) \cup {k + 1}
  OBVIOUS
<1>2. \A i \in 1 .. k + 1 : IsOf(given, i, d.name) => Agrees(given, i, d)
  BY <1>1, Zenon DEF Summarises
<1>3. Founded(given, k + 1, d)
  BY <1>1, Zenon DEF Summarises, Founded
<1> QED
  BY <1>2, <1>3, Zenon DEF Summarises

\* The definition of a row met for the first time.
LEMMA SummarisesFresh ==
    ASSUME NEW given, Listed(given), NEW k \in Nat, k + 1 \in DOMAIN given.definitions,
           Taken(given.definitions[k + 1]),
           \A i \in 1 .. k : ~IsOf(given, i, given.definitions[k + 1].name)
    PROVE  Summarises(given, k + 1, Fresh(given.definitions[k + 1]))
<1> DEFINE r == given.definitions[k + 1]
           d == Fresh(r)
<1>1. 1 .. k + 1 = (1 .. k) \cup {k + 1}
  OBVIOUS
<1>2. r.row \in Int /\ r.end \in Int
  BY Listing, Zenon
<1>3. /\ d.name = r.name /\ d.path = r.path /\ d.by = r.by /\ d.row = r.row /\ d.end = r.end
      /\ d.private = r.private /\ d.rowOf = {<<r.lang, r.row>>}
  BY DEF Fresh
<1>4. IsOf(given, k + 1, d.name)
  BY <1>3, Zenon DEF IsOf
<1>5. r.row <= r.row /\ r.end <= r.end
  BY <1>2
<1>6. Agrees(given, k + 1, d)
  <2>1. <<r.lang, r.row>> \in d.rowOf
    BY <1>3, Zenon
  <2> QED
    BY <1>3, <1>5, <2>1, Zenon DEF Agrees
<1>7. \A i \in 1 .. k + 1 : IsOf(given, i, d.name) => Agrees(given, i, d)
  <2>1. \A i \in 1 .. k : ~IsOf(given, i, d.name)
    BY <1>3, Zenon
  <2> QED
    BY <1>1, <1>6, <2>1, Zenon
<1>8. Founded(given, k + 1, d)
  <2>1. k + 1 \in 1 .. k + 1
    OBVIOUS
  <2>2. \A p \in d.rowOf : p = <<r.lang, r.row>>
    BY <1>3, Zenon
  <2> QED
    BY <1>3, <1>4, <2>1, <2>2, Zenon DEF Founded
<1> QED
  BY <1>7, <1>8, Zenon DEF Summarises

\* A definition merged with one more of its rows.
LEMMA SummarisesMerged ==
    ASSUME NEW given, Listed(given), OneDefinition(given), NEW k \in Nat,
           k + 1 \in DOMAIN given.definitions,
           NEW d \in Described(given), Summarises(given, k, d),
           IsOf(given, k + 1, d.name), ~Conflicts(d, given.definitions[k + 1])
    PROVE  Summarises(given, k + 1, Merged(d, given.definitions[k + 1]))
<1> DEFINE r == given.definitions[k + 1]
           m == Merged(d, r)
<1>1. 1 .. k + 1 = (1 .. k) \cup {k + 1} /\ 1 .. k \subseteq DOMAIN given.definitions
  BY DEF Listed
<1>2. r.row \in Int /\ r.end \in Int /\ d.row \in Int /\ d.end \in Int
  <2>1. d.row \in Int /\ d.end \in Int
    BY DEF Described
  <2> QED
    BY <2>1, Listing, Zenon
<1>3. /\ m.name = d.name /\ m.path = d.path /\ m.by = d.by /\ m.private = d.private
      /\ m.rowOf = d.rowOf \cup {<<r.lang, r.row>>}
      /\ m.row = Earlier(d.row, r.row) /\ m.end = Later(d.end, r.end)
  <2>1. r \in Rows(given)
    BY Listing, Zenon
  <2> QED
    BY <1>2, <2>1, MergedDescribed
<1>4. /\ Earlier(d.row, r.row) <= d.row /\ Earlier(d.row, r.row) <= r.row
      /\ d.end <= Later(d.end, r.end) /\ r.end <= Later(d.end, r.end)
      /\ Earlier(d.row, r.row) \in Int /\ Later(d.end, r.end) \in Int
      /\ Earlier(d.row, r.row) \in {d.row, r.row} /\ Later(d.end, r.end) \in {d.end, r.end}
  BY <1>2 DEF Earlier, Later
<1> HIDE DEF m
<1>5. /\ m.row <= d.row /\ m.row <= r.row /\ d.end <= m.end /\ r.end <= m.end
      /\ m.row \in Int /\ m.end \in Int /\ m.row \in {d.row, r.row} /\ m.end \in {d.end, r.end}
  BY <1>3, <1>4, Zenon
<1>6. d.private = r.private /\ \A p \in d.rowOf : p[1] = r.lang => p[2] = r.row
  BY Zenon DEF Conflicts
<1>7. PICK first \in 1 .. k : IsOf(given, first, d.name)
  BY Zenon DEF Summarises, Founded
<1>8. r.path = d.path /\ r.by = d.by
  <2>1. Agrees(given, first, d)
    BY <1>7, Zenon DEF Summarises
  <2>2. first \in DOMAIN given.definitions
    BY <1>1, <1>7, Zenon
  <2> QED
    BY <1>7, <2>1, <2>2, Zenon DEF Agrees, OneDefinition, IsOf
<1>9. Agrees(given, k + 1, m)
  BY <1>3, <1>5, <1>6, <1>8, Zenon DEF Agrees
<1>10. ASSUME NEW i \in 1 .. k, IsOf(given, i, d.name) PROVE Agrees(given, i, m)
  <2>1. Agrees(given, i, d)
    BY <1>10, Zenon DEF Summarises
  <2>2. given.definitions[i].row \in Int /\ given.definitions[i].end \in Int
    BY <1>1, Listing, Zenon
  <2>3. d.row <= given.definitions[i].row /\ given.definitions[i].end <= d.end
    BY <2>1, Zenon DEF Agrees
  <2>4. m.row <= given.definitions[i].row /\ given.definitions[i].end <= m.end
    BY <1>2, <1>5, <2>2, <2>3
  <2> QED
    BY <1>3, <2>1, <2>4, Zenon DEF Agrees
<1>11. Founded(given, k + 1, m)
  <2>1. k + 1 \in 1 .. k + 1 /\ IsOf(given, k + 1, m.name)
    BY <1>1, <1>3, Zenon
  <2>2. \E i \in 1 .. k + 1 : IsOf(given, i, m.name) /\ given.definitions[i].row = m.row
    <3>1. \E i \in 1 .. k : IsOf(given, i, d.name) /\ given.definitions[i].row = d.row
      BY Zenon DEF Summarises, Founded
    <3> QED
      BY <1>1, <1>3, <1>5, <2>1, <3>1, Zenon
  <2>3. \E i \in 1 .. k + 1 : IsOf(given, i, m.name) /\ given.definitions[i].end = m.end
    <3>1. \E i \in 1 .. k : IsOf(given, i, d.name) /\ given.definitions[i].end = d.end
      BY Zenon DEF Summarises, Founded
    <3> QED
      BY <1>1, <1>3, <1>5, <2>1, <3>1, Zenon
  <2>4. ASSUME NEW p \in m.rowOf
        PROVE  \E i \in 1 .. k + 1 : /\ IsOf(given, i, m.name)
                                     /\ p = <<given.definitions[i].lang, given.definitions[i].row>>
    <3>1. CASE p \in d.rowOf
      <4>1. \E i \in 1 .. k : /\ IsOf(given, i, d.name)
                              /\ p = <<given.definitions[i].lang, given.definitions[i].row>>
        BY <3>1, Zenon DEF Summarises, Founded
      <4> QED
        BY <1>1, <1>3, <4>1, Zenon
    <3>2. CASE p = <<r.lang, r.row>>
      BY <2>1, <3>2, Zenon
    <3> QED
      BY <1>3, <3>1, <3>2, Zenon
  <2>5. ASSUME NEW p \in m.rowOf, NEW q \in m.rowOf, p[1] = q[1] PROVE p[2] = q[2]
    <3> DEFINE t == <<r.lang, r.row>>
    <3>1. t[1] = r.lang /\ t[2] = r.row
      OBVIOUS
    <3>2. \A x, y \in d.rowOf : x[1] = y[1] => x[2] = y[2]
      BY Zenon DEF Summarises, Founded
    <3>3. (p \in d.rowOf \/ p = t) /\ (q \in d.rowOf \/ q = t)
      BY <1>3, Zenon
    <3> HIDE DEF t
    <3> QED
      BY <1>6, <2>5, <3>1, <3>2, <3>3, Zenon
  <2> QED
    BY <2>2, <2>3, <2>4, <2>5, Zenon DEF Founded
<1>12. Summarises(given, k + 1, m)
  BY <1>1, <1>3, <1>9, <1>10, <1>11, Zenon DEF Summarises
<1> QED
  BY <1>12, Zenon DEF m

-----------------------------------------------------------------------------
(* The definitions.                                                        *)

LEMMA KnownNone ==
    ASSUME NEW given PROVE Known(given, 0, << >>)
<1>1. << >> \in Seq(Described(given)) /\ 1 .. Len(<< >>) = {} /\ 1 .. 0 = {}
  OBVIOUS
<1> QED
  BY <1>1, Zenon DEF Known

\* A definition is of some row read.
LEMMA KnownRow ==
    ASSUME NEW given, NEW k \in Nat, NEW defs, Known(given, k, defs), NEW i \in 1 .. Len(defs)
    PROVE  /\ defs[i] \in Described(given) /\ Summarises(given, k, defs[i])
           /\ \E j \in 1 .. k : IsOf(given, j, defs[i].name) /\ Agrees(given, j, defs[i])
<1>1. defs[i] \in Described(given)
  <2>1. defs \in Seq(Described(given))
    BY Zenon DEF Known
  <2> QED
    BY <2>1
<1>2. Summarises(given, k, defs[i])
  BY Zenon DEF Known
<1>3. \E j \in 1 .. k : IsOf(given, j, defs[i].name)
  BY <1>2, Zenon DEF Summarises, Founded
<1> QED
  BY <1>1, <1>2, <1>3, Zenon DEF Summarises

\* A row that is not taken changes nothing.
LEMMA KnownSkip ==
    ASSUME NEW given, NEW k \in Nat, NEW defs, Known(given, k, defs),
           ~Taken(given.definitions[k + 1])
    PROVE  Known(given, k + 1, defs)
<1>1. 1 .. k + 1 = (1 .. k) \cup {k + 1}
  OBVIOUS
<1>2. \A i \in 1 .. Len(defs) : Summarises(given, k + 1, defs[i])
  <2>1. \A n : ~IsOf(given, k + 1, n)
    BY Zenon DEF IsOf
  <2> QED
    BY <2>1, SummarisesOther, Zenon DEF Known
<1> QED
  BY <1>1, <1>2, Zenon DEF Known

\* A row of a definition not met yet appends it.
LEMMA KnownFresh ==
    ASSUME NEW given, Listed(given), NEW k \in Nat, k + 1 \in DOMAIN given.definitions,
           NEW defs, Known(given, k, defs), Taken(given.definitions[k + 1]),
           \A i \in 1 .. Len(defs) : defs[i].name # given.definitions[k + 1].name
    PROVE  Known(given, k + 1, Append(defs, Fresh(given.definitions[k + 1])))
<1> DEFINE n == given.definitions[k + 1].name
           d == Fresh(given.definitions[k + 1])
           new == Append(defs, d)
<1>1. 1 .. k + 1 = (1 .. k) \cup {k + 1}
  OBVIOUS
<1>2. d \in Described(given) /\ d.name = n
  <2>1. d.name = n
    BY DEF Fresh
  <2> QED
    BY <2>1, FreshDescribed, Zenon
<1>3. defs \in Seq(Described(given))
  BY Zenon DEF Known
<1>4. \A i \in 1 .. k : ~IsOf(given, i, n)
  BY Zenon DEF Known, IsOf
<1>5. Summarises(given, k + 1, d)
  BY <1>4, SummarisesFresh, Zenon
<1>6. IsOf(given, k + 1, n)
  BY Zenon DEF IsOf
<1> HIDE DEF d, n
<1>7. /\ new \in Seq(Described(given)) /\ Len(defs) \in Nat /\ Len(new) = Len(defs) + 1
      /\ \A i \in 1 .. Len(defs) : new[i] = defs[i]
      /\ new[Len(defs) + 1] = d
      /\ 1 .. Len(new) = (1 .. Len(defs)) \cup {Len(defs) + 1}
  BY <1>2, <1>3
<1> HIDE DEF new
<1>8. \A i \in 1 .. Len(new) : Summarises(given, k + 1, new[i])
  <2>1. ASSUME NEW i \in 1 .. Len(defs) PROVE Summarises(given, k + 1, defs[i])
    <3>1. Summarises(given, k, defs[i]) /\ defs[i].name # n
      BY KnownRow, Zenon DEF n
    <3>2. ~IsOf(given, k + 1, defs[i].name)
      BY <1>6, <3>1, Zenon DEF IsOf
    <3> QED
      BY <3>1, <3>2, SummarisesOther, Zenon
  <2> QED
    BY <1>5, <1>7, <2>1, Zenon
<1>9. \A i \in 1 .. k + 1 : Taken(given.definitions[i]) =>
        \E j \in 1 .. Len(new) : new[j].name = given.definitions[i].name
  <2>1. Len(defs) + 1 \in 1 .. Len(new) /\ new[Len(defs) + 1].name = given.definitions[k + 1].name
    BY <1>2, <1>7, Zenon DEF n
  <2>2. \A i \in 1 .. k : Taken(given.definitions[i]) =>
          \E j \in 1 .. Len(new) : new[j].name = given.definitions[i].name
    BY <1>7, Zenon DEF Known
  <2> QED
    BY <1>1, <2>1, <2>2, Zenon
<1>10. \A i, j \in 1 .. Len(new) : i # j => new[i].name # new[j].name
  <2>1. \A i \in 1 .. Len(defs) : defs[i].name # d.name
    BY <1>2, Zenon DEF n
  <2>2. \A i, j \in 1 .. Len(defs) : i # j => defs[i].name # defs[j].name
    BY Zenon DEF Known
  <2>3. ASSUME NEW i \in 1 .. Len(new), NEW j \in 1 .. Len(new), i # j
        PROVE  new[i].name # new[j].name
    <3>1. CASE i \in 1 .. Len(defs) /\ j \in 1 .. Len(defs)
      <4>1. defs[i].name # defs[j].name
        BY <2>2, <2>3, <3>1, Zenon
      <4> QED
        BY <1>7, <3>1, <4>1, Zenon
    <3>2. CASE i \in 1 .. Len(defs) /\ j = Len(defs) + 1
      BY <1>7, <2>1, <3>2, Zenon
    <3>3. CASE i = Len(defs) + 1 /\ j \in 1 .. Len(defs)
      <4>1. defs[j].name # d.name
        BY <2>1, <3>3, Zenon
      <4> QED
        BY <1>7, <3>3, <4>1, Zenon
    <3> QED
      BY <1>7, <2>3, <3>1, <3>2, <3>3, Zenon
  <2> QED
    BY <2>3, Zenon
<1>11. \A i, j \in 1 .. Len(new) : i < j => MetBefore(given, new[i].name, new[j].name)
  <2>1. ASSUME NEW i \in 1 .. Len(defs) PROVE MetBefore(given, defs[i].name, n)
    <3>1. PICK r \in 1 .. k : IsOf(given, r, defs[i].name)
      BY KnownRow, Zenon
    <3>2. r \in DOMAIN given.definitions /\ 1 .. r \subseteq 1 .. k
      BY DEF Listed
    <3> QED
      BY <1>4, <3>1, <3>2, Zenon DEF MetBefore
  <2>2. ASSUME NEW i \in 1 .. Len(new), NEW j \in 1 .. Len(new), i < j
        PROVE  MetBefore(given, new[i].name, new[j].name)
    <3>1. i \in 1 .. Len(defs) /\ (j = Len(defs) + 1 \/ j \in 1 .. Len(defs))
      BY <1>7, <2>2
    <3>2. CASE j = Len(defs) + 1
      BY <1>2, <1>7, <2>1, <3>1, <3>2, Zenon
    <3>3. CASE j \in 1 .. Len(defs)
      BY <1>7, <2>2, <3>1, <3>3, Zenon DEF Known
    <3> QED
      BY <3>1, <3>2, <3>3, Zenon
  <2> QED
    BY <2>2, Zenon
<1>12. Known(given, k + 1, new)
  BY <1>7, <1>8, <1>9, <1>10, <1>11, Zenon DEF Known
<1> QED
  BY <1>12, Zenon DEF new, d

\* A row of a definition already met is merged with it.
LEMMA KnownMerged ==
    ASSUME NEW given, Listed(given), OneDefinition(given), NEW k \in Nat,
           k + 1 \in DOMAIN given.definitions,
           NEW defs, Known(given, k, defs), Taken(given.definitions[k + 1]),
           NEW p \in 1 .. Len(defs), defs[p].name = given.definitions[k + 1].name,
           ~Conflicts(defs[p], given.definitions[k + 1])
    PROVE  Known(given, k + 1,
                 [defs EXCEPT ![p] = Merged(defs[p], given.definitions[k + 1])])
<1> DEFINE r == given.definitions[k + 1]
           m == Merged(defs[p], r)
           new == [defs EXCEPT ![p] = m]
<1>1. 1 .. k + 1 = (1 .. k) \cup {k + 1}
  OBVIOUS
<1>2. defs[p] \in Described(given) /\ Summarises(given, k, defs[p])
  BY KnownRow, Zenon
<1>3. m \in Described(given) /\ m.name = defs[p].name
  <2>1. r \in Rows(given) /\ r.row \in Int /\ r.end \in Int
    BY Listing, Zenon
  <2> QED
    BY <1>2, <2>1, MergedDescribed
<1>4. IsOf(given, k + 1, defs[p].name)
  BY Zenon DEF IsOf
<1>5. Summarises(given, k + 1, m)
  BY <1>2, <1>4, SummarisesMerged, Zenon
<1>6. defs \in Seq(Described(given))
  BY Zenon DEF Known
<1> HIDE DEF m
<1>7. /\ new \in Seq(Described(given)) /\ Len(new) = Len(defs)
      /\ new[p] = m /\ \A i \in 1 .. Len(defs) : i # p => new[i] = defs[i]
  BY <1>3, <1>6
<1> HIDE DEF new
<1>8. 1 .. Len(new) = 1 .. Len(defs) /\ \A i \in 1 .. Len(defs) : new[i].name = defs[i].name
  BY <1>3, <1>7, Zenon
<1>9. \A i \in 1 .. Len(new) : Summarises(given, k + 1, new[i])
  <2>1. ASSUME NEW i \in 1 .. Len(defs), i # p PROVE Summarises(given, k + 1, defs[i])
    <3>1. Summarises(given, k, defs[i]) /\ defs[i].name # defs[p].name
      BY <2>1, Zenon DEF Known
    <3>2. ~IsOf(given, k + 1, defs[i].name)
      BY <1>4, <3>1, Zenon DEF IsOf
    <3> QED
      BY <3>1, <3>2, SummarisesOther, Zenon
  <2> QED
    BY <1>5, <1>7, <2>1, Zenon
<1>10. \A i \in 1 .. k + 1 : Taken(given.definitions[i]) =>
         \E j \in 1 .. Len(new) : new[j].name = given.definitions[i].name
  <2>1. \A i \in 1 .. k : Taken(given.definitions[i]) =>
          \E j \in 1 .. Len(defs) : defs[j].name = given.definitions[i].name
    BY Zenon DEF Known
  <2>2. \E j \in 1 .. Len(defs) : defs[j].name = given.definitions[k + 1].name
    OBVIOUS
  <2> QED
    BY <1>1, <1>8, <2>1, <2>2, Zenon
<1>11. \A i, j \in 1 .. Len(new) :
         /\ i # j => new[i].name # new[j].name
         /\ i < j => MetBefore(given, new[i].name, new[j].name)
  <2>1. \A i, j \in 1 .. Len(defs) : i # j => defs[i].name # defs[j].name
    BY Zenon DEF Known
  <2>3. \A i, j \in 1 .. Len(defs) : i < j => MetBefore(given, defs[i].name, defs[j].name)
    BY Zenon DEF Known
  <2>2. ASSUME NEW i \in 1 .. Len(new), NEW j \in 1 .. Len(new)
        PROVE  /\ i # j => new[i].name # new[j].name
               /\ i < j => MetBefore(given, new[i].name, new[j].name)
    <3>1. i \in 1 .. Len(defs) /\ j \in 1 .. Len(defs)
      BY <1>8, Zenon
    <3>2. new[i].name = defs[i].name /\ new[j].name = defs[j].name
      BY <1>8, <3>1, Zenon
    <3>3. i # j => defs[i].name # defs[j].name
      BY <2>1, <3>1, Zenon
    <3>4. i < j => MetBefore(given, defs[i].name, defs[j].name)
      BY <2>3, <3>1, Zenon
    <3> QED
      BY <3>2, <3>3, <3>4, Zenon
  <2> QED
    BY <2>2, Zenon
<1>12. Known(given, k + 1, new)
  BY <1>7, <1>9, <1>10, <1>11, Zenon DEF Known
<1> QED
  BY <1>12, Zenon DEF new, m

\* A row that contradicts its definition contradicts an earlier row.
LEMMA ConflictIsInRows ==
    ASSUME NEW given, NEW k \in Nat, k + 1 \in DOMAIN given.definitions, Listed(given),
           NEW d, Summarises(given, k, d), IsOf(given, k + 1, d.name),
           Conflicts(d, given.definitions[k + 1])
    PROVE  Conflicting(given)
<1> DEFINE r == given.definitions[k + 1]
<1>1. 1 .. k \subseteq DOMAIN given.definitions
  BY DEF Listed
<1>2. r \in TakenRows(given) /\ r.name = d.name
  BY Zenon DEF IsOf, TakenRows
<1>3. ASSUME NEW i \in 1 .. k, IsOf(given, i, d.name)
      PROVE  given.definitions[i] \in TakenRows(given) /\ given.definitions[i].name = d.name
  BY <1>1, <1>3, Zenon DEF IsOf, TakenRows
<1>4. CASE \E known \in d.rowOf : known[1] = r.lang /\ known[2] # r.row
  <2>1. PICK known \in d.rowOf : known[1] = r.lang /\ known[2] # r.row
    BY <1>4, Zenon
  <2>2. PICK i \in 1 .. k :
          IsOf(given, i, d.name) /\ known = <<given.definitions[i].lang, given.definitions[i].row>>
    BY <2>1, Zenon DEF Summarises, Founded
  <2>3. known[1] = given.definitions[i].lang /\ known[2] = given.definitions[i].row
    BY <2>2
  <2>4. /\ given.definitions[i] \in TakenRows(given) /\ given.definitions[i].name = r.name
        /\ given.definitions[i].lang = r.lang /\ given.definitions[i].row # r.row
    BY <1>2, <1>3, <2>1, <2>2, <2>3, Zenon
  <2> DEFINE s == given.definitions[i]
  <2>5. s \in TakenRows(given) /\ s.name = r.name /\ s.lang = r.lang /\ s.row # r.row
    BY <2>4, Zenon
  <2> HIDE DEF r, s
  <2> QED
    BY <1>2, <2>5 DEF Conflicting
<1>5. CASE d.private # r.private
  <2>1. PICK i \in 1 .. k : IsOf(given, i, d.name)
    BY Zenon DEF Summarises, Founded
  <2>2. given.definitions[i].private = d.private
    BY <2>1, Zenon DEF Summarises, Agrees
  <2> DEFINE s == given.definitions[i]
  <2>3. s \in TakenRows(given) /\ s.name = r.name /\ s.private # r.private
    BY <1>2, <1>3, <1>5, <2>1, <2>2, Zenon
  <2> HIDE DEF r, s
  <2> QED
    BY <1>2, <2>3 DEF Conflicting
<1> QED
  BY <1>4, <1>5, Zenon DEF Conflicts

\* A taken row has its definition, which agrees with it.
LEMMA TakenIsKnown ==
    ASSUME NEW given, Listed(given), NEW defs,
           Known(given, Len(given.definitions), defs), NEW r \in TakenRows(given)
    PROVE  \E i \in 1 .. Len(defs), j \in DOMAIN given.definitions :
             /\ defs[i].name = r.name /\ given.definitions[j] = r
             /\ IsOf(given, j, defs[i].name) /\ Agrees(given, j, defs[i])
<1>1. PICK j \in DOMAIN given.definitions : given.definitions[j] = r /\ Taken(r)
  BY Zenon DEF TakenRows
<1>2. j \in 1 .. Len(given.definitions)
  BY Zenon DEF Listed
<1>3. PICK i \in 1 .. Len(defs) : defs[i].name = r.name
  BY <1>1, <1>2, Zenon DEF Known
<1>4. IsOf(given, j, defs[i].name)
  BY <1>1, <1>3, Zenon DEF IsOf
<1>5. Agrees(given, j, defs[i])
  BY <1>2, <1>4, Zenon DEF Known, Summarises
<1> QED
  BY <1>1, <1>3, <1>4, <1>5, Zenon

\* When all rows are read they do not contradict each other, and the definitions
\* have their names and paths.
LEMMA KnownAll ==
    ASSUME NEW given, Listed(given), NEW defs, Known(given, Len(given.definitions), defs)
    PROVE  /\ ~Conflicting(given)
           /\ {defs[i].name : i \in 1 .. Len(defs)} = TakenNames(given)
           /\ {defs[i].path : i \in 1 .. Len(defs)} = {line.path : line \in TakenRows(given)}
<1>1. Len(given.definitions) \in Nat /\ DOMAIN given.definitions = 1 .. Len(given.definitions)
  BY Zenon DEF Listed
<1> DEFINE k == Len(given.definitions)
<1>2. ASSUME NEW r \in TakenRows(given), NEW s \in TakenRows(given), r.name = s.name
      PROVE  ~(r.lang = s.lang /\ r.row # s.row) /\ r.private = s.private
  <2>1. PICK i \in 1 .. Len(defs), j \in DOMAIN given.definitions :
          defs[i].name = r.name /\ given.definitions[j] = r /\ Agrees(given, j, defs[i])
    BY TakenIsKnown, Zenon
  <2>2. PICK g \in 1 .. Len(defs), h \in DOMAIN given.definitions :
          defs[g].name = s.name /\ given.definitions[h] = s /\ Agrees(given, h, defs[g])
    BY TakenIsKnown, Zenon
  <2>3. i = g
    <3>1. defs[i].name = defs[g].name
      BY <1>2, <2>1, <2>2, Zenon
    <3>2. \A x, y \in 1 .. Len(defs) : x # y => defs[x].name # defs[y].name
      BY Zenon DEF Known
    <3> QED
      BY <3>1, <3>2, Zenon
  <2>4. \A p, q \in defs[i].rowOf : p[1] = q[1] => p[2] = q[2]
    BY <2>1, Zenon DEF Known, Summarises, Founded
  <2>5. /\ <<r.lang, r.row>> \in defs[i].rowOf /\ <<s.lang, s.row>> \in defs[i].rowOf
        /\ r.private = defs[i].private /\ s.private = defs[i].private
    BY <2>1, <2>2, <2>3, Zenon DEF Agrees
  <2>6. <<r.lang, r.row>>[1] = r.lang /\ <<s.lang, s.row>>[1] = s.lang
        /\ <<r.lang, r.row>>[2] = r.row /\ <<s.lang, s.row>>[2] = s.row
    OBVIOUS
  <2> QED
    BY <2>4, <2>5, <2>6, Zenon
<1>3. ~Conflicting(given)
  BY <1>2, Zenon DEF Conflicting
<1>4. ASSUME NEW i \in 1 .. Len(defs)
      PROVE  \E r \in TakenRows(given) : r.name = defs[i].name /\ r.path = defs[i].path
  <2>1. PICK j \in 1 .. k : IsOf(given, j, defs[i].name) /\ Agrees(given, j, defs[i])
    BY <1>1, KnownRow, Zenon
  <2> QED
    BY <1>1, <2>1, Zenon DEF IsOf, Agrees, TakenRows
<1>5. ASSUME NEW r \in TakenRows(given)
      PROVE  \E i \in 1 .. Len(defs) : r.name = defs[i].name /\ r.path = defs[i].path
  <2>1. PICK i \in 1 .. Len(defs), j \in DOMAIN given.definitions :
          defs[i].name = r.name /\ given.definitions[j] = r /\ Agrees(given, j, defs[i])
    BY TakenIsKnown, Zenon
  <2> QED
    BY <2>1, Zenon DEF Agrees
<1>6. {defs[i].name : i \in 1 .. Len(defs)} = TakenNames(given)
  BY <1>4, <1>5 DEF TakenNames
<1>7. {defs[i].path : i \in 1 .. Len(defs)} = {line.path : line \in TakenRows(given)}
  BY <1>4, <1>5
<1> QED
  BY <1>3, <1>6, <1>7, Zenon

-----------------------------------------------------------------------------
(* The graph.                                                              *)

\* Of two definitions one is met before the other, not both.
LEMMA MetOnce ==
    ASSUME NEW given, Listed(given), NEW n, NEW m, MetBefore(given, n, m), MetBefore(given, m, n)
    PROVE  FALSE
<1>1. PICK i \in DOMAIN given.definitions :
        IsOf(given, i, n) /\ \A x \in 1 .. i : ~IsOf(given, x, m)
  BY Zenon DEF MetBefore
<1>2. PICK j \in DOMAIN given.definitions :
        IsOf(given, j, m) /\ \A x \in 1 .. j : ~IsOf(given, x, n)
  BY Zenon DEF MetBefore
<1>3. j \in 1 .. i \/ i \in 1 .. j
  BY DEF Listed
<1> QED
  BY <1>1, <1>2, <1>3, Zenon

\* The span of a definition holds a line exactly when one of its rows does.
LEMMA HoldersAreKnown ==
    ASSUME NEW given, Listed(given), NothingBetween(given), NEW defs,
           Known(given, Len(given.definitions), defs),
           NEW u \in DOMAIN given.usages, given.usages[u].var = NoVar,
           NEW i \in 1 .. Len(defs)
    PROVE  defs[i].name \in Holders(given, given.usages[u]) <=>
             /\ defs[i].by = "defrecord" /\ defs[i].path = given.usages[u].path
             /\ given.usages[u].row \in defs[i].row .. defs[i].end
<1> DEFINE usage == given.usages[u]
           d == defs[i]
           k == Len(given.definitions)
<1>1. k \in Nat /\ DOMAIN given.definitions = 1 .. k
  BY Zenon DEF Listed
<1>2. usage.row \in Int
  BY Zenon DEF Listed
<1>3. d \in Described(given) /\ Summarises(given, k, d)
  BY <1>1, KnownRow, Zenon
<1>4. d.row \in Int /\ d.end \in Int
  <2> HIDE DEF d
  <2> QED
    BY <1>3 DEF Described
<1>5. ASSUME d.name \in Holders(given, usage)
      PROVE  d.by = "defrecord" /\ d.path = usage.path /\ usage.row \in d.row .. d.end
  <2>1. PICK r \in TakenRows(given) :
          /\ r.name = d.name /\ r.by = "defrecord" /\ r.path = usage.path
          /\ usage.row \in r.row .. r.end
    BY <1>5, Zenon DEF Holders
  <2>2. PICK j \in DOMAIN given.definitions : given.definitions[j] = r /\ Taken(r)
    BY Zenon DEF TakenRows
  <2>3. Agrees(given, j, d)
    BY <1>1, <1>3, <2>1, <2>2, Zenon DEF Summarises, IsOf
  <2>4. d.by = r.by /\ d.path = r.path /\ d.row <= r.row /\ r.end <= d.end
    BY <2>2, <2>3, Zenon DEF Agrees
  <2>5. r.row \in Int /\ r.end \in Int
    BY <2>2, Listing, Zenon
  <2> HIDE DEF usage, d
  <2>6. usage.row \in d.row .. d.end
    BY <1>2, <1>4, <2>1, <2>4, <2>5
  <2> QED
    BY <2>1, <2>4, <2>6, Zenon
<1>6. ASSUME d.by = "defrecord", d.path = usage.path, usage.row \in d.row .. d.end
      PROVE  d.name \in Holders(given, usage)
  <2>1. PICK a \in 1 .. k : IsOf(given, a, d.name) /\ given.definitions[a].row = d.row
    BY <1>3, Zenon DEF Summarises, Founded
  <2>2. PICK b \in 1 .. k : IsOf(given, b, d.name) /\ given.definitions[b].end = d.end
    BY <1>3, Zenon DEF Summarises, Founded
  <2>3. given.definitions[a].by = "defrecord" /\ given.definitions[a].path = usage.path
    BY <1>3, <1>6, <2>1, Zenon DEF Summarises, Agrees
  <2>4. d.row <= usage.row /\ usage.row <= d.end
    <3> HIDE DEF usage, d
    <3> QED
      BY <1>2, <1>4, <1>6
  <2>5. a \in DOMAIN given.definitions /\ b \in DOMAIN given.definitions
    BY <1>1, Zenon
  <2>6. IsOf(given, a, given.definitions[b].name) /\ Taken(given.definitions[b])
        /\ given.definitions[a].name = d.name
    BY <2>1, <2>2, Zenon DEF IsOf
  <2>7. given.definitions[a].row <= usage.row /\ usage.row <= given.definitions[b].end
    BY <2>1, <2>2, <2>4, Zenon
  <2>8. given.definitions[a].name \in Holders(given, usage)
    BY <2>3, <2>5, <2>6, <2>7, Zenon DEF NothingBetween
  <2> QED
    BY <2>6, <2>8, Zenon
<1> QED
  BY <1>5, <1>6, Zenon

\* The search for a record that holds a usage finds the owners by the rows.
LEMMA Attribution ==
    ASSUME NEW given, Listed(given), NothingBetween(given),
           Known(given, Len(given.definitions), definitions), NEW u \in DOMAIN given.usages
    PROVE  Attributed(given.usages[u]) = Owners(given, given.usages[u])
<1> DEFINE usage == given.usages[u]
           H == Holding(usage)
           K == 1 .. Len(definitions)
<1>1. CASE usage.var # NoVar
  BY <1>1, Zenon DEF Attributed, Owners
<1>2. CASE usage.var = NoVar
  <2>1. DOMAIN definitions = K /\ K \subseteq Int
    <3>1. definitions \in Seq(Described(given))
      BY Zenon DEF Known
    <3> QED
      BY <3>1
  <2>2. \A i \in K : i \in H <=> definitions[i].name \in Holders(given, usage)
    <3>1. ASSUME NEW i \in K
          PROVE  i \in H <=> definitions[i].name \in Holders(given, usage)
      <4>1. definitions[i].name \in Holders(given, usage) <=>
              /\ definitions[i].by = "defrecord" /\ definitions[i].path = usage.path
              /\ usage.row \in definitions[i].row .. definitions[i].end
        BY <1>2, HoldersAreKnown, Zenon
      <4> HIDE DEF usage
      <4> QED
        BY <2>1, <4>1, Zenon DEF Holding
    <3> QED
      BY <3>1, Zenon
  <2>3. ASSUME NEW n \in Holders(given, usage) PROVE \E i \in K : definitions[i].name = n
    <3>1. PICK r \in TakenRows(given) : r.name = n
      BY Zenon DEF Holders
    <3>2. PICK i \in 1 .. Len(definitions) : definitions[i].name = r.name
      BY TakenIsKnown
    <3> QED
      BY <3>1, <3>2, Zenon
  <2>4. /\ \A i, j \in K : i # j => definitions[i].name # definitions[j].name
        /\ \A i, j \in K : i < j => MetBefore(given, definitions[i].name, definitions[j].name)
    BY Zenon DEF Known
  <2>5. H \subseteq K
    BY <2>1, Zenon DEF Holding
  <2>6. Attributed(usage) = {definitions[i].name : i \in {j \in H : \A k \in H : j <= k}}
    BY <1>2, Zenon DEF Attributed
  <2>7. Owners(given, usage) =
          {n \in Holders(given, usage) :
             \A m \in Holders(given, usage) : m = n \/ MetBefore(given, n, m)}
    BY <1>2, Zenon DEF Owners
  <2> HIDE DEF H, K, usage
  <2>8. ASSUME NEW i \in H, \A k \in H : i <= k
        PROVE  definitions[i].name \in Owners(given, usage)
    <3>1. i \in K /\ definitions[i].name \in Holders(given, usage)
      BY <2>2, <2>5, Zenon
    <3>2. ASSUME NEW m \in Holders(given, usage)
          PROVE  m = definitions[i].name \/ MetBefore(given, definitions[i].name, m)
      <4>1. PICK k \in K : definitions[k].name = m
        BY <2>3, Zenon
      <4>2. k \in H
        BY <2>2, <4>1, Zenon
      <4>3. i = k \/ i < k
        BY <2>1, <2>8, <3>1, <4>2
      <4> QED
        BY <2>4, <3>1, <4>1, <4>3, Zenon
    <3> QED
      BY <2>7, <3>1, <3>2, Zenon
  <2>9. ASSUME NEW n \in Owners(given, usage)
        PROVE  \E i \in H : definitions[i].name = n /\ \A k \in H : i <= k
    <3>1. n \in Holders(given, usage)
      BY <2>7, Zenon
    <3>2. PICK i \in K : definitions[i].name = n
      BY <2>3, <3>1, Zenon
    <3>3. i \in H
      BY <2>2, <3>1, <3>2, Zenon
    <3>4. ASSUME NEW k \in H PROVE i <= k
      <4>1. k \in K /\ definitions[k].name \in Holders(given, usage)
        BY <2>2, <2>5, Zenon
      <4>2. definitions[k].name = n \/ MetBefore(given, n, definitions[k].name)
        BY <2>7, <4>1, Zenon
      <4>3. ~(k < i)
        <5>1. ASSUME k < i PROVE FALSE
          <6>1. MetBefore(given, definitions[k].name, n)
            BY <2>4, <3>2, <4>1, <5>1, Zenon
          <6>2. k # i
            BY <2>1, <3>2, <4>1, <5>1
          <6>3. MetBefore(given, n, definitions[k].name)
            BY <2>4, <3>2, <4>1, <4>2, <6>2, Zenon
          <6> QED
            BY <6>1, <6>3, MetOnce, Zenon
        <5> QED
          BY <5>1, Zenon
      <4> QED
        BY <2>1, <3>2, <4>1, <4>3
    <3> QED
      BY <3>2, <3>3, <3>4, Zenon
  <2>10. Attributed(usage) = Owners(given, usage)
    <3>1. \A n : n \in Attributed(usage) <=> \E i \in H : definitions[i].name = n /\ \A k \in H : i <= k
      BY <2>6, Zenon
    <3> QED
      BY <2>8, <2>9, <3>1, Zenon
  <2> QED
    BY <2>10, Zenon DEF usage
<1> QED
  BY <1>1, <1>2, Zenon

\* The edges of the first k usages.
Edges(given, k) ==
    UNION { [from : Owners(given, given.usages[i]), to : {given.usages[i].to}] : i \in 1 .. k }

LEMMA EdgesGrow ==
    ASSUME NEW given, NEW k \in Nat
    PROVE  /\ Edges(given, 0) = {}
           /\ Edges(given, k + 1) = Edges(given, k) \cup
                [from : Owners(given, given.usages[k + 1]), to : {given.usages[k + 1].to}]
<1>1. 1 .. k + 1 = (1 .. k) \cup {k + 1} /\ 1 .. 0 = {}
  OBVIOUS
<1> QED
  BY <1>1, Zenon DEF Edges

\* What names use, by the usages they own.
LEMMA UsesBy ==
    ASSUME NEW given, NEW names, NEW target
    PROVE  target \in Uses(given, names) <=>
             \E j \in DOMAIN given.usages :
               /\ target = given.usages[j].to
               /\ \E n \in names : n \in Owners(given, given.usages[j])
BY Zenon DEF Uses

\* The graph of all usages leads where the names' usages do.
LEMMA TargetsAreUses ==
    ASSUME NEW given, Listed(given), graph = Edges(given, Len(given.usages)), NEW names
    PROVE  Targets(names) = Uses(given, names)
<1>1. DOMAIN given.usages = 1 .. Len(given.usages)
  BY Zenon DEF Listed
<1>2. ASSUME NEW target
      PROVE  target \in Targets(names) <=> target \in Uses(given, names)
  <2>1. ASSUME target \in Targets(names) PROVE target \in Uses(given, names)
    <3>1. PICK e \in graph : e.from \in names /\ e.to = target
      BY <2>1, Zenon DEF Targets
    <3>2. PICK i \in 1 .. Len(given.usages) :
            e \in [from : Owners(given, given.usages[i]), to : {given.usages[i].to}]
      BY <3>1, Zenon DEF Edges
    <3>3. e.from \in Owners(given, given.usages[i]) /\ e.to = given.usages[i].to
      BY <3>2
    <3> QED
      BY <1>1, <3>1, <3>3, UsesBy, Zenon
  <2>2. ASSUME target \in Uses(given, names) PROVE target \in Targets(names)
    <3>1. PICK j \in DOMAIN given.usages : target = given.usages[j].to
            /\ \E n \in names : n \in Owners(given, given.usages[j])
      BY <2>2, UsesBy, Zenon
    <3>2. PICK n \in names : n \in Owners(given, given.usages[j])
      BY <3>1, Zenon
    <3> DEFINE e == [from |-> n, to |-> given.usages[j].to]
    <3>3. e \in [from : Owners(given, given.usages[j]), to : {given.usages[j].to}]
      BY <3>2
    <3>4. e.from = n /\ e.to = given.usages[j].to
      OBVIOUS
    <3> HIDE DEF e
    <3>5. e \in graph
      BY <1>1, <3>1, <3>3, Zenon DEF Edges
    <3> QED
      BY <3>1, <3>2, <3>4, <3>5, Zenon DEF Targets
  <2> QED
    BY <2>1, <2>2, Zenon
<1> QED
  BY <1>2, Zenon

-----------------------------------------------------------------------------
(* The search.                                                             *)

\* What the search from a root has found lies between the root and every closed
\* set that holds it, and what the visited names use is found.
Search(given, root, found, open) ==
    /\ root \in found /\ found \subseteq TakenNames(given) /\ open \subseteq found
    /\ Uses(given, found \ open) \cap TakenNames(given) \subseteq found
    /\ \A names \in SUBSET TakenNames(given) :
         root \in names /\ Closed(given, names) => found \subseteq names

LEMMA SearchStarts ==
    ASSUME NEW given, NEW root \in TakenNames(given)
    PROVE  Search(given, root, {root}, {root})
<1>1. \A target : target \notin Uses(given, {root} \ {root})
  <2>1. \A n : n \notin {root} \ {root}
    OBVIOUS
  <2> QED
    BY <2>1, UsesBy, Zenon
<1> QED
  BY <1>1, Zenon DEF Search

LEMMA SearchVisits ==
    ASSUME NEW given, NEW root, NEW found, NEW open, Search(given, root, found, open),
           NEW current \in open, NEW more,
           more = (Uses(given, {current}) \cap TakenNames(given)) \ found
    PROVE  Search(given, root, found \cup more, (open \ {current}) \cup more)
<1>1. root \in found /\ found \subseteq TakenNames(given) /\ open \subseteq found
  BY Zenon DEF Search
<1>2. root \in found \cup more /\ found \cup more \subseteq TakenNames(given)
  BY <1>1, Zenon
<1>3. (open \ {current}) \cup more \subseteq found \cup more
  BY <1>1, Zenon
<1> DEFINE visited == (found \cup more) \ ((open \ {current}) \cup more)
<1>4. ASSUME NEW target \in Uses(given, visited), target \in TakenNames(given)
      PROVE  target \in found \cup more
  <2>1. \A n \in visited : n \in found \ open \/ n \in {current}
    BY Zenon
  <2> HIDE DEF visited
  <2>2. PICK j \in DOMAIN given.usages :
          target = given.usages[j].to /\ \E n \in visited : n \in Owners(given, given.usages[j])
    BY UsesBy, Zenon
  <2>3. PICK n \in visited : n \in Owners(given, given.usages[j])
    BY <2>2, Zenon
  <2>4. CASE n \in found \ open
    <3>1. target \in Uses(given, found \ open)
      BY <2>2, <2>3, <2>4, UsesBy, Zenon
    <3> QED
      BY <1>4, <3>1, Zenon DEF Search
  <2>5. CASE n \in {current}
    <3>1. target \in Uses(given, {current})
      <4> DEFINE one == {current}
      <4>1. n \in one
        BY <2>5, Zenon
      <4> HIDE DEF one
      <4>2. target \in Uses(given, one)
        BY <2>2, <2>3, <4>1, UsesBy, Zenon
      <4> QED
        BY <4>2, Zenon DEF one
    <3> QED
      BY <1>4, <3>1, Zenon
  <2> QED
    BY <2>1, <2>3, <2>4, <2>5, Zenon
<1>5. ASSUME NEW names \in SUBSET TakenNames(given), root \in names, Closed(given, names)
      PROVE  found \cup more \subseteq names
  <2>1. found \subseteq names
    BY <1>5, Zenon DEF Search
  <2>2. ASSUME NEW target \in more PROVE target \in names
    <3>1. target \in Uses(given, {current}) /\ target \in TakenNames(given)
      BY Zenon
    <3>2. current \in names
      BY <1>1, <2>1, Zenon
    <3>3. target \in Uses(given, names)
      <4>1. PICK j \in DOMAIN given.usages :
              /\ target = given.usages[j].to
              /\ \E n \in {current} : n \in Owners(given, given.usages[j])
        BY <3>1, UsesBy
      <4>2. \E n \in names : n \in Owners(given, given.usages[j])
        BY <3>2, <4>1, Zenon
      <4> QED
        BY <4>1, <4>2, UsesBy, Zenon
    <3> QED
      BY <1>5, <3>1, <3>3, Zenon DEF Closed
  <2> QED
    BY <2>1, <2>2, Zenon
<1> QED
  BY <1>2, <1>3, <1>4, <1>5, Zenon DEF Search

\* A search with nothing pending has found what the root reaches.
LEMMA SearchEnds ==
    ASSUME NEW given, NEW root, NEW found, Search(given, root, found, {})
    PROVE  found = Reached(given, root)
<1>1. root \in found /\ found \subseteq TakenNames(given)
  BY Zenon DEF Search
<1>2. found \ {} = found
  BY Zenon
<1>3. Closed(given, found)
  BY <1>2, Zenon DEF Search, Closed
<1>4. \A names \in SUBSET TakenNames(given) :
        root \in names /\ Closed(given, names) => found \subseteq names
  BY Zenon DEF Search
<1>5. \A n : n \in Reached(given, root) <=> n \in found
  BY <1>1, <1>3, <1>4, Zenon DEF Reached
<1> QED
  BY <1>5, Zenon

-----------------------------------------------------------------------------
(* The inductive invariant.                                                *)

Report(given, root) ==
    [internal |-> Reached(given, root),
     external |-> Uses(given, Reached(given, root)) \ (TakenNames(given) \cup Ignored)]

ReportSet(given) ==
    [internal : SUBSET TakenNames(given),
     external : SUBSET {given.usages[i].to : i \in DOMAIN given.usages}]

\* The roots before n are defined and have their reports.
Reported(given, n, made) ==
    /\ made \in Seq(ReportSet(given)) /\ Len(made) = n - 1
    /\ \A i \in 1 .. n - 1 : Roots[i] \in TakenNames(given) /\ made[i] = Report(given, Roots[i])

\* Every row is in the definitions and every usage in the graph.
Ready ==
    /\ Known(analysis, Len(analysis.definitions), definitions)
    /\ graph = Edges(analysis, Len(analysis.usages))
    /\ Reported(analysis, at, reports)

Stages ==
    /\ phase = "definitions" =>
         /\ at \in 1 .. Len(analysis.definitions) + 1
         /\ Known(analysis, at - 1, definitions) /\ graph = {} /\ reports = << >>
    /\ phase = "usages" =>
         /\ at \in 1 .. Len(analysis.usages) + 1
         /\ Known(analysis, Len(analysis.definitions), definitions)
         /\ graph = Edges(analysis, at - 1) /\ reports = << >>
    /\ phase = "roots" => at \in 1 .. Len(Roots) + 1 /\ Ready
    /\ phase = "search" => /\ at \in 1 .. Len(Roots) /\ Ready
                           /\ Search(analysis, Roots[at], reachable, pending)
    /\ phase = "done" => at = Len(Roots) + 1 /\ Ready /\ ~Invalid(analysis)
    /\ phase = "failed" => Invalid(analysis)

Inv ==
    /\ analysis \in Analyses
    /\ phase \in {"definitions", "usages", "roots", "search", "done", "failed"}
    /\ Stages

LEMMA Agreed ==
    ASSUME NEW given \in Analyses
    PROVE  /\ Listed(given) /\ OneDefinition(given) /\ NothingBetween(given)
           /\ Len(given.definitions) \in Nat /\ Len(given.usages) \in Nat /\ Len(Roots) \in Nat
           /\ DOMAIN given.definitions = 1 .. Len(given.definitions)
           /\ DOMAIN given.usages = 1 .. Len(given.usages)
           /\ DOMAIN Roots = 1 .. Len(Roots)
BY AnalysesAgree, Zenon DEF Listed

LEMMA ReportTyped ==
    ASSUME NEW given, NEW root
    PROVE  Report(given, root) \in ReportSet(given)
<1>1. Reached(given, root) \in SUBSET TakenNames(given)
  BY Zenon DEF Reached
<1>2. \A names : Uses(given, names) \in SUBSET {given.usages[i].to : i \in DOMAIN given.usages}
  BY Zenon DEF Uses
<1>3. Uses(given, Reached(given, root)) \ (TakenNames(given) \cup Ignored)
        \in SUBSET {given.usages[i].to : i \in DOMAIN given.usages}
  BY <1>2, Zenon
<1> QED
  BY <1>1, <1>3 DEF Report, ReportSet

LEMMA ReportedNone ==
    ASSUME NEW given PROVE Reported(given, 1, << >>)
BY DEF Reported

LEMMA ReportedMore ==
    ASSUME NEW given, NEW n \in Nat \ {0}, NEW made, Reported(given, n, made),
           Roots[n] \in TakenNames(given)
    PROVE  Reported(given, n + 1, Append(made, Report(given, Roots[n])))
<1> DEFINE x == Report(given, Roots[n])
<1>1. x \in ReportSet(given)
  BY ReportTyped, Zenon
<1>2. /\ made \in Seq(ReportSet(given)) /\ Len(made) = n - 1
      /\ \A i \in 1 .. n - 1 : Roots[i] \in TakenNames(given) /\ made[i] = Report(given, Roots[i])
  BY Zenon DEF Reported
<1> HIDE DEF x
<1>3. /\ Append(made, x) \in Seq(ReportSet(given)) /\ Len(Append(made, x)) = n + 1 - 1
      /\ \A i \in 1 .. n - 1 : Append(made, x)[i] = made[i]
      /\ Append(made, x)[n] = x
      /\ 1 .. n + 1 - 1 = (1 .. n - 1) \cup {n}
  BY <1>1, <1>2
<1>4. \A i \in 1 .. n + 1 - 1 :
        Roots[i] \in TakenNames(given) /\ Append(made, x)[i] = Report(given, Roots[i])
  BY <1>2, <1>3, Zenon DEF x
<1>5. Reported(given, n + 1, Append(made, x))
  BY <1>3, <1>4 DEF Reported
<1> QED
  BY <1>5, Zenon DEF x

\* The definitions at hand have the names and the paths of the rows.
LEMMA ReadyMeans ==
    ASSUME analysis \in Analyses,
           Known(analysis, Len(analysis.definitions), definitions)
    PROVE  /\ ~Conflicting(analysis) /\ Defined = TakenNames(analysis)
           /\ Forbidden # {} <=> \E line \in TakenRows(analysis) : line.path \in analysis.forbidden
<1>1. DOMAIN definitions = 1 .. Len(definitions)
  <2>1. definitions \in Seq(Described(analysis))
    BY Zenon DEF Known
  <2> QED
    BY <2>1
<1>2. /\ ~Conflicting(analysis)
      /\ {definitions[i].name : i \in 1 .. Len(definitions)} = TakenNames(analysis)
      /\ {definitions[i].path : i \in 1 .. Len(definitions)} = {line.path : line \in TakenRows(analysis)}
  BY Agreed, KnownAll
<1>3. Defined = TakenNames(analysis)
  BY <1>1, <1>2, Zenon DEF Defined
<1>4. Forbidden = {path \in {line.path : line \in TakenRows(analysis)} : path \in analysis.forbidden}
  BY <1>1, <1>2, Zenon DEF Forbidden
<1>5. Forbidden # {} <=> \E line \in TakenRows(analysis) : line.path \in analysis.forbidden
  BY <1>4, Zenon
<1> QED
  BY <1>2, <1>3, <1>5, Zenon

-----------------------------------------------------------------------------
(* The steps.                                                              *)

LEMMA InvInit == ASSUME ClosureInit PROVE Inv
<1>1. Known(analysis, 0, << >>)
  BY KnownNone, Zenon
<1>2. 1 - 1 = 0
  OBVIOUS
<1>3. 1 \in 1 .. Len(analysis.definitions) + 1
  <2>1. Len(analysis.definitions) \in Nat
    BY Agreed, Zenon DEF ClosureInit
  <2> QED
    BY <2>1
<1> QED
  BY <1>1, <1>2, <1>3 DEF ClosureInit, Inv, Stages

LEMMA ReadDefinitionStep ==
    ASSUME Inv, ReadDefinition PROVE Inv'
<1> DEFINE k == at - 1
           line == analysis.definitions[at]
<1>1. /\ analysis \in Analyses /\ analysis' = analysis /\ phase = "definitions"
      /\ graph' = graph /\ reports' = reports
      /\ at \in 1 .. Len(analysis.definitions) + 1 /\ at <= Len(analysis.definitions)
      /\ Known(analysis, k, definitions) /\ graph = {} /\ reports = << >>
  BY Zenon DEF Inv, Stages, ReadDefinition
<1>2. /\ Listed(analysis) /\ OneDefinition(analysis) /\ Len(analysis.definitions) \in Nat
      /\ DOMAIN analysis.definitions = 1 .. Len(analysis.definitions)
  BY <1>1, Agreed, Zenon
<1>3. k \in Nat /\ k + 1 = at /\ at \in 1 .. Len(analysis.definitions)
      /\ at + 1 \in 1 .. Len(analysis.definitions) + 1 /\ at + 1 - 1 = at
  BY <1>1, <1>2
<1>4. k + 1 \in DOMAIN analysis.definitions /\ analysis.definitions[k + 1] = line
  BY <1>2, <1>3, Zenon
<1>5. DOMAIN definitions = 1 .. Len(definitions)
  <2>1. definitions \in Seq(Described(analysis))
    BY <1>1, Zenon DEF Known
  <2> QED
    BY <2>1
<1> HIDE DEF k, line
<1>6. ASSUME at' = at + 1, phase' = phase, Known(analysis, at, definitions') PROVE Inv'
  <2>1. at' \in 1 .. Len(analysis'.definitions) + 1 /\ at' - 1 = at
    BY <1>1, <1>3, <1>6
  <2>2. Known(analysis', at' - 1, definitions')
    BY <1>1, <1>6, <2>1
  <2> HIDE DEF Known, Ready
  <2> QED
    BY <1>1, <1>6, <2>1, <2>2 DEF Inv, Stages
<1>7. CASE ~Taken(line) /\ at' = at + 1 /\ phase' = phase /\ definitions' = definitions
  <2>1. Known(analysis, k + 1, definitions)
    BY <1>1, <1>3, <1>4, <1>7, KnownSkip, Zenon
  <2> QED
    BY <1>3, <1>6, <1>7, <2>1, Zenon
<1>8. CASE /\ Taken(line) /\ Position(line.name) = {}
           /\ definitions' = Append(definitions, Fresh(line))
           /\ at' = at + 1 /\ phase' = phase
  <2>1. \A i \in 1 .. Len(definitions) : definitions[i].name # line.name
    BY <1>5, <1>8, Zenon DEF Position
  <2>2. Known(analysis, k + 1, Append(definitions, Fresh(line)))
    BY <1>1, <1>2, <1>3, <1>4, <1>8, <2>1, KnownFresh, Zenon
  <2> QED
    BY <1>3, <1>6, <1>8, <2>2, Zenon
<1>9. ASSUME NEW p \in Position(line.name), Taken(line), Conflicts(definitions[p], line),
             phase' = "failed"
      PROVE  Inv'
  <2>1. p \in 1 .. Len(definitions) /\ definitions[p].name = line.name
    BY <1>5, Zenon DEF Position
  <2>2. Summarises(analysis, k, definitions[p])
    BY <1>1, <1>3, <2>1, KnownRow, Zenon
  <2>3. IsOf(analysis, k + 1, definitions[p].name)
    BY <1>4, <1>9, <2>1, Zenon DEF IsOf
  <2>4. Conflicting(analysis)
    BY <1>2, <1>3, <1>4, <1>9, <2>2, <2>3, ConflictIsInRows, Zenon
  <2>5. Invalid(analysis')
    BY <1>1, <2>4, Zenon DEF Invalid
  <2> HIDE DEF Known, Ready
  <2> QED
    BY <1>1, <1>9, <2>5 DEF Inv, Stages
<1>10. ASSUME NEW p \in Position(line.name), Taken(line), ~Conflicts(definitions[p], line),
              definitions' = [definitions EXCEPT ![p] = Merged(@, line)],
              at' = at + 1, phase' = phase
       PROVE  Inv'
  <2>1. p \in 1 .. Len(definitions) /\ definitions[p].name = line.name
    BY <1>5, Zenon DEF Position
  <2>2. Known(analysis, k + 1, [definitions EXCEPT ![p] = Merged(definitions[p], line)])
    BY <1>1, <1>2, <1>3, <1>4, <1>10, <2>1, KnownMerged, Zenon
  <2>3. definitions' = [definitions EXCEPT ![p] = Merged(definitions[p], line)]
    BY <1>10, Zenon
  <2> QED
    BY <1>3, <1>6, <1>10, <2>2, <2>3, Zenon
<1> QED
  <2>1. \/ ~Taken(line) /\ at' = at + 1 /\ phase' = phase /\ definitions' = definitions
        \/ /\ Taken(line) /\ Position(line.name) = {}
           /\ definitions' = Append(definitions, Fresh(line))
           /\ at' = at + 1 /\ phase' = phase
        \/ \E p \in Position(line.name) :
             Taken(line) /\ Conflicts(definitions[p], line) /\ phase' = "failed"
        \/ \E p \in Position(line.name) :
             /\ Taken(line) /\ ~Conflicts(definitions[p], line)
             /\ definitions' = [definitions EXCEPT ![p] = Merged(@, line)]
             /\ at' = at + 1 /\ phase' = phase
    BY Zenon DEF ReadDefinition, line
  <2> QED
    BY <1>7, <1>8, <1>9, <1>10, <2>1, Zenon

LEMMA DefinitionsReadStep ==
    ASSUME Inv, DefinitionsRead PROVE Inv'
<1>1. /\ analysis \in Analyses /\ analysis' = analysis
      /\ graph' = graph /\ reports' = reports /\ definitions' = definitions
      /\ at \in 1 .. Len(analysis.definitions) + 1 /\ at > Len(analysis.definitions)
      /\ Known(analysis, at - 1, definitions) /\ graph = {} /\ reports = << >>
      /\ phase' = "usages" /\ at' = 1
  BY Zenon DEF Inv, Stages, DefinitionsRead
<1>2. Len(analysis.definitions) \in Nat /\ Len(analysis.usages) \in Nat
  BY <1>1, Agreed, Zenon
<1>3. at - 1 = Len(analysis.definitions) /\ 1 \in 1 .. Len(analysis.usages) + 1
  BY <1>1, <1>2
<1>4. graph = Edges(analysis, 1 - 1)
  <2>1. 1 - 1 = 0
    OBVIOUS
  <2> QED
    BY <1>1, <2>1, EdgesGrow, Zenon
<1> HIDE DEF Known, Edges, Ready
<1> QED
  BY <1>1, <1>3, <1>4 DEF Inv, Stages

LEMMA ReadUsageStep ==
    ASSUME Inv, ReadUsage PROVE Inv'
<1> DEFINE usage == analysis.usages[at]
<1>1. /\ analysis \in Analyses /\ analysis' = analysis
      /\ phase = "usages" /\ phase' = phase /\ at' = at + 1
      /\ reports' = reports /\ definitions' = definitions
      /\ at \in 1 .. Len(analysis.usages) + 1 /\ at <= Len(analysis.usages)
      /\ Known(analysis, Len(analysis.definitions), definitions)
      /\ graph = Edges(analysis, at - 1) /\ reports = << >>
      /\ graph' = graph \cup [from : Attributed(usage), to : {usage.to}]
  BY Zenon DEF Inv, Stages, ReadUsage
<1>2. Listed(analysis) /\ NothingBetween(analysis) /\ Len(analysis.usages) \in Nat
      /\ DOMAIN analysis.usages = 1 .. Len(analysis.usages)
  BY <1>1, Agreed, Zenon
<1>3. /\ at \in 1 .. Len(analysis.usages) /\ at - 1 \in Nat /\ at - 1 + 1 = at
      /\ at' - 1 = at /\ at' \in 1 .. Len(analysis.usages) + 1
  BY <1>1, <1>2
<1>4. Attributed(usage) = Owners(analysis, usage)
  BY <1>1, <1>2, <1>3, Attribution, Zenon
<1>5. graph' = Edges(analysis, at)
  <2>1. Edges(analysis, at - 1 + 1) = Edges(analysis, at - 1) \cup
          [from : Owners(analysis, analysis.usages[at - 1 + 1]),
           to : {analysis.usages[at - 1 + 1].to}]
    BY <1>3, EdgesGrow, Zenon
  <2> QED
    BY <1>1, <1>3, <1>4, <2>1, Zenon
<1>6. /\ graph' = Edges(analysis', at' - 1) /\ at' \in 1 .. Len(analysis'.usages) + 1
      /\ Known(analysis', Len(analysis'.definitions), definitions')
  BY <1>1, <1>3, <1>5, Zenon
<1> HIDE DEF Known, Edges, Ready, usage
<1> QED
  BY <1>1, <1>6 DEF Inv, Stages

LEMMA UsagesReadStep ==
    ASSUME Inv, UsagesRead PROVE Inv'
<1>1. /\ analysis \in Analyses /\ analysis' = analysis
      /\ graph' = graph /\ reports' = reports /\ definitions' = definitions
      /\ at \in 1 .. Len(analysis.usages) + 1 /\ at > Len(analysis.usages)
      /\ Known(analysis, Len(analysis.definitions), definitions)
      /\ graph = Edges(analysis, at - 1) /\ reports = << >>
      /\ phase' = "roots" /\ at' = 1
  BY Zenon DEF Inv, Stages, UsagesRead
<1>2. Len(analysis.usages) \in Nat /\ Len(Roots) \in Nat
  BY <1>1, Agreed, Zenon
<1>3. at - 1 = Len(analysis.usages) /\ 1 \in 1 .. Len(Roots) + 1
  BY <1>1, <1>2
<1>4. Reported(analysis, 1, << >>)
  BY ReportedNone, Zenon
<1>5. Ready'
  BY <1>1, <1>3, <1>4, Zenon DEF Ready
<1> HIDE DEF Known, Edges, Ready
<1> QED
  BY <1>1, <1>3, <1>5 DEF Inv, Stages

LEMMA StartRootStep ==
    ASSUME Inv, StartRoot PROVE Inv'
<1>1. /\ analysis \in Analyses /\ analysis' = analysis /\ at' = at
      /\ graph' = graph /\ reports' = reports /\ definitions' = definitions
      /\ at \in 1 .. Len(Roots) + 1 /\ at <= Len(Roots) /\ Ready
  BY Zenon DEF Inv, Stages, StartRoot
<1>2. at \in 1 .. Len(Roots) /\ DOMAIN Roots = 1 .. Len(Roots)
  <2>1. Len(Roots) \in Nat /\ DOMAIN Roots = 1 .. Len(Roots)
    BY <1>1, Agreed, Zenon
  <2> QED
    BY <1>1, <2>1
<1>3. Defined = TakenNames(analysis)
  BY <1>1, ReadyMeans, Zenon DEF Ready
<1>4. Ready'
  BY <1>1, Zenon DEF Ready
<1> HIDE DEF Ready
<1>5. CASE Roots[at] \in Defined
  <2>1. phase' = "search" /\ reachable' = {Roots[at]} /\ pending' = {Roots[at]}
    BY <1>5, Zenon DEF StartRoot
  <2>2. Search(analysis, Roots[at], {Roots[at]}, {Roots[at]})
    BY <1>3, <1>5, SearchStarts, Zenon
  <2>3. Search(analysis', Roots[at'], reachable', pending')
    BY <1>1, <2>1, <2>2, Zenon
  <2> QED
    BY <1>1, <1>2, <1>4, <2>1, <2>3 DEF Inv, Stages
<1>6. CASE Roots[at] \notin Defined
  <2>1. phase' = "failed"
    BY <1>6, Zenon DEF StartRoot
  <2>2. Invalid(analysis')
    BY <1>1, <1>2, <1>3, <1>6, Zenon DEF Invalid
  <2> QED
    BY <1>1, <2>1, <2>2 DEF Inv, Stages
<1> QED
  BY <1>5, <1>6, Zenon

LEMMA VisitStep ==
    ASSUME Inv, Visit PROVE Inv'
<1>1. /\ analysis \in Analyses /\ analysis' = analysis /\ at' = at
      /\ graph' = graph /\ reports' = reports /\ definitions' = definitions
      /\ phase = "search" /\ phase' = phase
      /\ at \in 1 .. Len(Roots) /\ Ready
      /\ Search(analysis, Roots[at], reachable, pending)
  BY Zenon DEF Inv, Stages, Visit
<1>2. PICK current \in pending :
        /\ reachable' = reachable \cup Discovered(current)
        /\ pending' = (pending \ {current}) \cup Discovered(current)
  BY Zenon DEF Visit
<1>3. Discovered(current) = (Uses(analysis, {current}) \cap TakenNames(analysis)) \ reachable
  <2>1. Defined = TakenNames(analysis)
    BY <1>1, ReadyMeans, Zenon DEF Ready
  <2>2. Targets({current}) = Uses(analysis, {current})
    BY <1>1, Agreed, TargetsAreUses, Zenon DEF Ready
  <2> QED
    BY <2>1, <2>2, Zenon DEF Discovered
<1>4. Search(analysis, Roots[at], reachable \cup Discovered(current),
             (pending \ {current}) \cup Discovered(current))
  BY <1>1, <1>2, <1>3, SearchVisits, Zenon
<1>5. Search(analysis', Roots[at'], reachable', pending') /\ Ready'
  BY <1>1, <1>2, <1>4, Zenon DEF Ready
<1> HIDE DEF Ready
<1> QED
  BY <1>1, <1>5 DEF Inv, Stages

LEMMA CloseRootStep ==
    ASSUME Inv, CloseRoot PROVE Inv'
<1>1. /\ analysis \in Analyses /\ analysis' = analysis /\ at' = at + 1
      /\ graph' = graph /\ definitions' = definitions /\ phase' = "roots"
      /\ at \in 1 .. Len(Roots) /\ Ready
      /\ Search(analysis, Roots[at], reachable, {})
      /\ reports' = Append(reports, [internal |-> reachable,
                                    external |-> Targets(reachable) \ (Defined \cup Ignored)])
  BY Zenon DEF Inv, Stages, CloseRoot
<1>2. Len(Roots) \in Nat
  BY <1>1, Agreed, Zenon
<1>3. at \in Nat \ {0} /\ at + 1 \in 1 .. Len(Roots) + 1
  BY <1>1, <1>2
<1>4. reachable = Reached(analysis, Roots[at])
  BY <1>1, SearchEnds, Zenon
<1>5. Roots[at] \in TakenNames(analysis)
  BY <1>1, Zenon DEF Search
<1>6. Defined = TakenNames(analysis) /\ Targets(reachable) = Uses(analysis, reachable)
  <2>1. Defined = TakenNames(analysis)
    BY <1>1, ReadyMeans, Zenon DEF Ready
  <2>2. Targets(reachable) = Uses(analysis, reachable)
    BY <1>1, Agreed, TargetsAreUses, Zenon DEF Ready
  <2> QED
    BY <2>1, <2>2, Zenon
<1>7. reports' = Append(reports, Report(analysis, Roots[at]))
  BY <1>1, <1>4, <1>6, Zenon DEF Report
<1>8. Reported(analysis, at + 1, Append(reports, Report(analysis, Roots[at])))
  BY <1>1, <1>3, <1>5, ReportedMore, Zenon DEF Ready
<1>9. Ready'
  BY <1>1, <1>7, <1>8, Zenon DEF Ready
<1> HIDE DEF Ready
<1> QED
  BY <1>1, <1>3, <1>9 DEF Inv, Stages

LEMMA PublishStep ==
    ASSUME Inv, Publish PROVE Inv'
<1>1. /\ analysis \in Analyses /\ analysis' = analysis /\ at' = at
      /\ graph' = graph /\ reports' = reports /\ definitions' = definitions
      /\ at \in 1 .. Len(Roots) + 1 /\ at > Len(Roots) /\ Ready
      /\ phase' = IF Forbidden # {} THEN "failed" ELSE "done"
  BY Zenon DEF Inv, Stages, Publish
<1>2. at = Len(Roots) + 1 /\ Len(Roots) = at - 1 /\ DOMAIN Roots = 1 .. at - 1
  <2>1. Len(Roots) \in Nat /\ DOMAIN Roots = 1 .. Len(Roots)
    BY <1>1, Agreed, Zenon
  <2> QED
    BY <1>1, <2>1
<1>3. /\ ~Conflicting(analysis)
      /\ Forbidden # {} <=> \E line \in TakenRows(analysis) : line.path \in analysis.forbidden
  BY <1>1, ReadyMeans, Zenon DEF Ready
<1>4. \A i \in DOMAIN Roots : Roots[i] \in TakenNames(analysis)
  BY <1>1, <1>2, Zenon DEF Ready, Reported
<1>5. Invalid(analysis) <=> Forbidden # {}
  BY <1>3, <1>4, Zenon DEF Invalid
<1>6. Ready' /\ (Invalid(analysis') <=> Forbidden # {})
  BY <1>1, <1>5, Zenon DEF Ready
<1> HIDE DEF Ready
<1> QED
  BY <1>1, <1>2, <1>6 DEF Inv, Stages

LEMMA StutterStep ==
    ASSUME Inv, UNCHANGED closureVars PROVE Inv'
BY Zenon DEF Inv, Stages, Ready, closureVars

LEMMA InvNext ==
    ASSUME Inv, [ClosureNext]_closureVars PROVE Inv'
BY ReadDefinitionStep, DefinitionsReadStep, ReadUsageStep, UsagesReadStep, StartRootStep,
   VisitStep, CloseRootStep, PublishStep, StutterStep, Zenon DEF ClosureNext

LEMMA Invariance == ClosureSpec => []Inv
<1>1. ClosureInit => Inv
  BY InvInit, Zenon
<1>2. Inv /\ [ClosureNext]_closureVars => Inv'
  BY InvNext, Zenon
<1> QED
  BY <1>1, <1>2, PTL DEF ClosureSpec

LEMMA InvIsExact ==
    ASSUME Inv PROVE ClosureExact
<1>1. SUFFICES ASSUME phase = "done" 
               PROVE  \A i \in DOMAIN Roots : reports[i] = Report(analysis, Roots[i])
  <2>1. \A root : /\ Report(analysis, root).internal = Reached(analysis, root)
                  /\ Report(analysis, root).external =
                       Uses(analysis, Reached(analysis, root)) \ (TakenNames(analysis) \cup Ignored)
    BY DEF Report
  <2> QED
    BY <2>1, Zenon DEF ClosureExact
<1>2. at = Len(Roots) + 1 /\ Reported(analysis, at, reports)
  BY <1>1, Zenon DEF Inv, Stages, Ready
<1>3. DOMAIN Roots = 1 .. at - 1
  <2>1. Len(Roots) \in Nat /\ DOMAIN Roots = 1 .. Len(Roots)
    BY Agreed, Zenon DEF Inv
  <2> QED
    BY <1>2, <2>1
<1> QED
  BY <1>2, <1>3, Zenon DEF Reported

\* A published report of public-source-closure.mjs has for every root exactly the
\* definitions the root reaches by the rows and usages the analyzer delivered,
\* whatever their order and number, and the outside names these use.
THEOREM ReportsAreExact == ClosureSpec => []ClosureExact
<1>1. Inv => ClosureExact
  BY InvIsExact, Zenon
<1> QED
  BY <1>1, Invariance, PTL

\* The script fails only on rows that contradict each other, a root without a
\* definition or a forbidden token, and publishes only if there is none.
THEOREM FailsRightly == ClosureSpec => []ClosureFailsExactlyWhenInvalid
<1>1. Inv => ClosureFailsExactlyWhenInvalid
  BY Zenon DEF Inv, Stages, ClosureFailsExactlyWhenInvalid
<1> QED
  BY <1>1, Invariance, PTL

-----------------------------------------------------------------------------
(* The recursive functions the model is built from.                        *)

\* What joining two sequences does.
IsJoin(E, s, t, u) ==
    /\ u \in Seq(E) /\ Len(u) \in Nat /\ Len(s) \in Nat /\ Len(t) \in Nat
    /\ Len(u) = Len(s) + Len(t) /\ Len(s) <= Len(u)
    /\ \A k \in 1..Len(s) : k \in 1..Len(u) /\ u[k] = s[k]
    /\ \A k \in 1..Len(t) : Len(s) + k \in 1..Len(u) /\ u[Len(s) + k] = t[k]

\* Joining two sequences does that.
LEMMA Joined ==
    ASSUME NEW E, NEW s \in Seq(E), NEW t \in Seq(E)
    PROVE  IsJoin(E, s, t, s \o t)
BY DEF IsJoin

StartsWith(flat, s) == Len(s) <= Len(flat) /\ \A k \in 1..Len(s) : flat[k] = s[k]

\* What starts with a whole starts with the first part of it.
LEMMA StartsBefore ==
    ASSUME NEW E, NEW s, NEW t, NEW u, NEW flat \in Seq(E), IsJoin(E, s, t, u), StartsWith(flat, u)
    PROVE  StartsWith(flat, s)
BY DEF IsJoin, StartsWith

\* g is what a flattening has put together after each of its turns.
Flattens(seqs, g) ==
    /\ g[0] = << >> /\ g[Len(seqs)] = Ext!FlattenSeq(seqs)
    /\ \A i \in 1..Len(seqs) : g[i] = g[i - 1] \o seqs[i]

\* A flattening joins one sequence in each turn.
LEMMA FlattenTurns ==
    ASSUME NEW E, NEW seqs \in Seq(Seq(E))
    PROVE  \E g : Flattens(seqs, g) /\ \A n \in 0..Len(seqs) : g[n] \in Seq(E)
<1> DEFINE m == Len(seqs)
           Body(h) == [i \in 1..Len(seqs) |-> IF i = 1 THEN seqs[i] ELSE h[i - 1] \o seqs[i]]
<1>0. m \in Nat /\ \A i \in 1..m : seqs[i] \in Seq(E)
  OBVIOUS
<1> DEFINE S == Seq(E)
<1>01. << >> \in S /\ \A x, y \in S : x \o y \in S
  OBVIOUS
<1>02. \A y \in S : << >> \o y = y
  OBVIOUS
<1>1. CASE m = 0
  <2> DEFINE g == [n \in 0..0 |-> << >>]
  <2>1. seqs = << >>
    BY <1>1
  <2>2. Ext!FlattenSeq(seqs) = << >>
    BY <1>1, <2>1 DEF Ext!FlattenSeq
  <2>3. g[0] = << >> /\ \A n \in 0..0 : g[n] \in Seq(E)
    OBVIOUS
  <2>4. Flattens(seqs, g)
    BY <1>1, <2>2, <2>3 DEF Flattens
  <2> QED
    BY <1>1, <2>3, <2>4
<1>2. CASE m # 0
  <2> DEFINE turn == [n \in 1..m |-> [x \in S |-> x \o seqs[n]]]
  <2> HIDE DEF m, S
  <2>0. \A i \in 1..m : seqs[i] \in S
    BY <1>0 DEF S
  <2>1. \A n \in 1..m : \A x \in S : turn[n][x] \in S
    BY <1>01, <2>0
  <2>2. << >> \in S
    BY <1>01
  <2>3. PICK f : Records(m, S, << >>, turn, f)
    <3> HIDE DEF turn, m
    <3> QED
      BY <1>0, <2>1, <2>2, LoopRecords, Zenon
  <2>4. f[0] = << >> /\ (\A n \in 0..m : f[n] \in S) /\ \A n \in 1..m : f[n] = f[n - 1] \o seqs[n]
    <3>1. ASSUME NEW n \in 1..m PROVE f[n] = f[n - 1] \o seqs[n]
      <4>1. n \in 0..m /\ n # 0 /\ n - 1 \in 0..m
        BY <1>0
      <4>2. f[n] = turn[n][f[n - 1]] /\ f[n - 1] \in S
        BY <2>3, <4>1 DEF Records
      <4> QED
        BY <4>1, <4>2
    <3> QED
      BY <2>3, <3>1 DEF Records
  <2>5. \E h : h = Body(h)
    <3> DEFINE h == [i \in 1..m |-> f[i]]
    <3>1. ASSUME NEW i \in 1..m PROVE h[i] = IF i = 1 THEN seqs[i] ELSE h[i - 1] \o seqs[i]
      <4>1. CASE i = 1
        <5>1. f[1] = f[0] \o seqs[1] /\ seqs[1] \in S
          <6>1. 1 \in 1..m /\ 1 - 1 = 0
            BY <4>1
          <6> QED
            BY <2>0, <2>4, <6>1
        <5> QED
          BY <1>02, <2>4, <4>1, <5>1
      <4>2. CASE i # 1
        <5>1. i - 1 \in 1..m
          BY <4>2, <1>0
        <5> QED
          BY <2>4, <4>2, <5>1
      <4> QED
        BY <4>1, <4>2
    <3>2. h = Body(h)
      BY <3>1 DEF m
    <3> QED
      BY <3>2
  <2>6. PICK h : h = Body(h) /\ Ext!FlattenSeq(seqs) = h[m]
    <3> DEFINE h == CHOOSE g : g = Body(g)
    <3>1. h = Body(h)
      BY <2>5
    <3>2. Ext!FlattenSeq(seqs) = h[m]
      BY <1>2 DEF Ext!FlattenSeq, m
    <3> QED
      BY <3>1, <3>2
  <2>7. \A n \in 0..m : n # 0 => h[n] = f[n]
    <3> DEFINE T == { n \in 0..m : n # 0 => h[n] = f[n] }
    <3>1. T \in SUBSET (0..m) /\ 0 \in T
      BY <1>0
    <3>2. ASSUME NEW n \in 1..m, n - 1 \in T PROVE n \in T
      <4>1. CASE n = 1
        <5>1. f[1] = f[0] \o seqs[1] /\ seqs[1] \in S
          <6>1. 1 \in 1..m /\ 1 - 1 = 0
            BY <4>1
          <6> QED
            BY <2>0, <2>4, <6>1
        <5>2. h[1] = seqs[1] /\ 1 \in 0..m
          BY <2>6, <4>1 DEF m
        <5> QED
          BY <1>02, <2>4, <4>1, <5>1, <5>2
      <4>2. CASE n # 1
        <5>1. n - 1 \in 1..m /\ n - 1 # 0 /\ n \in 0..m
          BY <4>2, <1>0
        <5>2. h[n] = h[n - 1] \o seqs[n]
          BY <2>6, <4>2, <5>1 DEF m
        <5> QED
          BY <2>4, <3>2, <5>1, <5>2
      <4> QED
        BY <4>1, <4>2
    <3> HIDE DEF T, m
    <3>3. T = 0..m
      BY <1>0, <3>1, <3>2, EveryTurn
    <3> QED
      BY <3>3 DEF T
  <2>8. m \in 0..m
    BY <1>0
  <2>9. Flattens(seqs, f)
    BY <1>2, <2>4, <2>6, <2>7, <2>8 DEF Flattens, m
  <2> QED
    BY <2>4, <2>9 DEF m, S
<1> QED
  BY <1>1, <1>2

\* Where the parts of a flattening are: off[i] is where part i ends.
Offsets(seqs, flat, off) ==
    /\ off[0] = 0 /\ off[Len(seqs)] = Len(flat)
    /\ \A i \in 0..Len(seqs) : off[i] \in 0..Len(flat)
    /\ \A i \in 1..Len(seqs) :
         /\ off[i] = off[i - 1] + Len(seqs[i])
         /\ \A k \in 1..Len(seqs[i]) : flat[off[i - 1] + k] = seqs[i][k]

\* The parts of a flattening lie one after another.
LEMMA FlattenOffsets ==
    ASSUME NEW E, NEW seqs \in Seq(Seq(E))
    PROVE  /\ Ext!FlattenSeq(seqs) \in Seq(E)
           /\ \E off : Offsets(seqs, Ext!FlattenSeq(seqs), off)
<1> DEFINE m == Len(seqs)
           flat == Ext!FlattenSeq(seqs)
<1>0. m \in Nat /\ 0 \in 0..m /\ m \in 0..m /\ \A i \in 1..m : seqs[i] \in Seq(E)
  OBVIOUS
<1>1. PICK g : Flattens(seqs, g) /\ \A n \in 0..m : g[n] \in Seq(E)
  BY FlattenTurns
<1> HIDE DEF flat, m
<1>2. g[0] = << >> /\ g[m] = flat /\ \A i \in 1..m : g[i] = g[i - 1] \o seqs[i]
  BY <1>1 DEF Flattens, flat, m
<1> DEFINE off == [i \in 0..m |-> Len(g[i])]
           Starts(i) == StartsWith(flat, g[i])
<1>3. \A i \in 0..m : Starts(i)
  <2> DEFINE T == { n \in 0..m : Starts(m - n) }
  <2>1. T \in SUBSET (0..m) /\ 0 \in T
    <3>1. g[m] = flat /\ flat \in Seq(E) /\ m - 0 = m
      BY <1>0, <1>1, <1>2
    <3>2. Len(flat) <= Len(flat)
      BY <3>1
    <3> QED
      BY <1>0, <3>1, <3>2 DEF StartsWith
  <2>2. ASSUME NEW n \in 1..m, n - 1 \in T PROVE n \in T
    <3> DEFINE i == m - n + 1
    <3>1. i \in 1..m /\ i = m - (n - 1) /\ i - 1 = m - n /\ i - 1 \in 0..m /\ n \in 0..m /\ i \in 0..m
      BY <1>0
    <3> HIDE DEF i
    <3>2. g[i] = g[i - 1] \o seqs[i] /\ g[i - 1] \in Seq(E) /\ seqs[i] \in Seq(E) /\ g[i] \in Seq(E)
      BY <1>0, <1>1, <1>2, <3>1
    <3>3. IsJoin(E, g[i - 1], seqs[i], g[i])
      BY <3>2, Joined, Zenon
    <3>4. Starts(i)
      BY <2>2, <3>1
    <3>5. flat \in Seq(E)
      BY <1>0, <1>1, <1>2
    <3>6. Starts(i - 1)
      BY <3>1, <3>3, <3>4, <3>5, StartsBefore
    <3> QED
      BY <3>1, <3>6
  <2> HIDE DEF T, m
  <2>3. T = 0..m
    BY <1>0, <2>1, <2>2, EveryTurn
  <2>4. ASSUME NEW i \in 0..m PROVE Starts(i)
    <3>1. m - i \in 0..m /\ m - (m - i) = i
      BY <1>0
    <3>2. Starts(m - (m - i))
      BY <2>3, <3>1 DEF T
    <3> QED
      BY <3>1, <3>2
  <2> QED
    BY <2>4
<1>4. flat \in Seq(E)
  BY <1>0, <1>1, <1>2
<1>5. off[0] = 0 /\ off[m] = Len(flat)
  BY <1>0, <1>2
<1>6. ASSUME NEW i \in 0..m PROVE off[i] \in 0..Len(flat)
  <2>1. g[i] \in Seq(E) /\ Len(g[i]) <= Len(flat)
    BY <1>1, <1>3 DEF StartsWith
  <2> QED
    BY <2>1, <1>4
<1>7. ASSUME NEW i \in 1..m
      PROVE  /\ off[i] = off[i - 1] + Len(seqs[i])
             /\ \A k \in 1..Len(seqs[i]) : flat[off[i - 1] + k] = seqs[i][k]
  <2>1. i - 1 \in 0..m /\ i \in 0..m
    BY <1>0
  <2>2. g[i] = g[i - 1] \o seqs[i] /\ g[i - 1] \in Seq(E) /\ seqs[i] \in Seq(E)
    BY <1>0, <1>1, <1>2, <2>1
  <2>3. Len(g[i]) = Len(g[i - 1]) + Len(seqs[i]) /\ off[i] = Len(g[i]) /\ off[i - 1] = Len(g[i - 1])
    <3>1. IsJoin(E, g[i - 1], seqs[i], g[i])
      BY <2>2, Joined, Zenon
    <3> QED
      BY <2>1, <3>1 DEF IsJoin
  <2>4. ASSUME NEW k \in 1..Len(seqs[i]) PROVE flat[off[i - 1] + k] = seqs[i][k]
    <3>1. g[i][Len(g[i - 1]) + k] = seqs[i][k] /\ Len(g[i - 1]) + k \in 1..Len(g[i])
      <4>1. IsJoin(E, g[i - 1], seqs[i], g[i])
        BY <2>2, Joined, Zenon
      <4> QED
        BY <4>1 DEF IsJoin
    <3> QED
      BY <1>3, <2>1, <2>3, <3>1 DEF StartsWith
  <2> QED
    BY <2>3, <2>4
<1> HIDE DEF off
<1>8. Offsets(seqs, flat, off)
  BY <1>5, <1>6, <1>7 DEF Offsets, m
<1> QED
  BY <1>4, <1>8 DEF flat

\* What a text says is a number.
LEMMA NumberIs ==
    ASSUME NEW text \in Texts
    PROVE  Number(text) \in Int
<1> DEFINE m == Len(text)
           Body(f) == [n \in 0..m |-> IF n = 0 THEN 0 ELSE 10 * f[n - 1] + Digit[text[n]]]
           Digits == \A i \in DOMAIN text : text[i] \in DOMAIN Digit
<1>0. m \in Nat /\ DOMAIN text = 1..m
  BY DEF Texts
<1>1. \A d \in DOMAIN Digit : Digit[d] \in Int
  BY DEF Digit
<1>2. CASE Digits
  <2> DEFINE turn == [n \in 1..m |-> [x \in Int |-> 10 * x + Digit[text[n]]]]
  <2>1. \A n \in 1..m : Digit[text[n]] \in Int
    BY <1>0, <1>1, <1>2
  <2> HIDE DEF m, Digits
  <2>2. \A n \in 1..m : \A x \in Int : turn[n][x] \in Int
    BY <2>1
  <2>3. PICK g : Records(m, Int, 0, turn, g)
    <3> HIDE DEF turn
    <3>1. 0 \in Int
      OBVIOUS
    <3> QED
      BY <1>0, <2>2, <3>1, LoopRecords, Zenon
  <2>4. \E f : f = Body(f)
    <3>1. ASSUME NEW n \in 0..m PROVE g[n] = IF n = 0 THEN 0 ELSE 10 * g[n - 1] + Digit[text[n]]
      <4>1. CASE n = 0
        BY <2>3, <4>1 DEF Records
      <4>2. CASE n # 0
        <5>1. n \in 1..m /\ n - 1 \in 0..m
          BY <1>0, <4>2
        <5>2. g[n] = turn[n][g[n - 1]] /\ g[n - 1] \in Int
          BY <2>3, <5>1 DEF Records
        <5> QED
          BY <4>2, <5>1, <5>2
      <4> QED
        BY <4>1, <4>2
    <3>2. g = [n \in 0..m |-> g[n]]
      BY <2>3 DEF Records
    <3>3. g = Body(g)
      BY <3>1, <3>2
    <3> QED
      BY <3>3
  <2>5. PICK f : f = Body(f) /\ Number(text) = f[m]
    <3> DEFINE f == CHOOSE h : h = Body(h)
    <3>1. f = Body(f)
      BY <2>4
    <3>2. Number(text) = f[m]
      BY <1>2 DEF Number, m, Digits
    <3> QED
      BY <3>1, <3>2
  <2>6. f[0] \in Int
    BY <1>0, <2>5
  <2>7. ASSUME NEW n \in 1..m, f[n - 1] \in Int PROVE f[n] \in Int
    <3>1. n \in 0..m /\ n # 0
      BY <1>0
    <3>2. f[n] = 10 * f[n - 1] + Digit[text[n]]
      BY <2>5, <3>1
    <3> QED
      BY <2>1, <2>7, <3>2
  <2> HIDE DEF Body
  <2>8. \A n \in 0..m : f[n] \in Int
    BY <1>0, <2>6, <2>7, LoopStays
  <2> QED
    BY <1>0, <2>5, <2>8
<1>3. CASE ~Digits
  BY <1>3 DEF Number, NaN
<1> QED
  BY <1>2, <1>3

\* The cost of an effort is a number.
LEMMA CostIs ==
    ASSUME NEW effort \in EffortRecord
    PROVE  Cost(effort) \in Int
<1>1. effort.cost \in Texts
  BY DEF EffortRecord
<1> QED
  BY <1>1, NumberIs DEF Cost

\* f adds the costs up.
Adds(efforts, f) ==
    /\ f[0] = 0
    /\ \A n \in 0..Len(efforts) : f[n] \in Int
    /\ \A n \in 1..Len(efforts) : f[n] = f[n - 1] + Cost(efforts[n])

\* The cost of some efforts is added up effort by effort.
LEMMA CostOfAdds ==
    ASSUME NEW efforts \in Seq(EffortRecord)
    PROVE  \E f : Adds(efforts, f) /\ CostOf(efforts) = f[Len(efforts)]
<1> DEFINE m == Len(efforts)
           Body(f) == [n \in 0..m |-> IF n = 0 THEN 0 ELSE f[n - 1] + Cost(efforts[n])]
           turn == [n \in 1..m |-> [x \in Int |-> x + Cost(efforts[n])]]
<1>0. m \in Nat
  OBVIOUS
<1>1. ASSUME NEW n \in 1..m PROVE Cost(efforts[n]) \in Int
  <2>1. efforts[n] \in EffortRecord
    OBVIOUS
  <2> QED
    BY <2>1, CostIs
<1> HIDE DEF m
<1>2. \A n \in 1..m : \A x \in Int : turn[n][x] \in Int
  BY <1>1
<1>3. PICK f : Records(m, Int, 0, turn, f)
  <2> HIDE DEF turn
  <2>1. 0 \in Int
    OBVIOUS
  <2> QED
    BY <1>0, <1>2, <2>1, LoopRecords, Zenon
<1>4. \E g : g = Body(g)
  <2>1. ASSUME NEW n \in 0..m PROVE f[n] = IF n = 0 THEN 0 ELSE f[n - 1] + Cost(efforts[n])
    <3>1. CASE n = 0
      BY <1>3, <3>1 DEF Records
    <3>2. CASE n # 0
      <4>1. n \in 1..m /\ n - 1 \in 0..m
        BY <1>0, <3>2
      <4>2. f[n] = turn[n][f[n - 1]] /\ f[n - 1] \in Int
        BY <1>3, <4>1 DEF Records
      <4> QED
        BY <3>2, <4>1, <4>2
    <3> QED
      BY <3>1, <3>2
  <2>2. f = [n \in 0..m |-> f[n]]
    BY <1>3 DEF Records
  <2>3. f = Body(f)
    BY <2>1, <2>2
  <2> QED
    BY <2>3
<1>5. PICK g : g = Body(g) /\ CostOf(efforts) = g[m]
  <2> DEFINE g == CHOOSE h : h = Body(h)
  <2>1. g = Body(g)
    BY <1>4
  <2>2. CostOf(efforts) = g[m]
    BY DEF CostOf, m
  <2> QED
    BY <2>1, <2>2
<1>6. g[0] = 0
  BY <1>0, <1>5
<1>7. ASSUME NEW n \in 1..m PROVE g[n] = g[n - 1] + Cost(efforts[n])
  <2>1. n \in 0..m /\ n # 0
    BY <1>0
  <2> QED
    BY <1>5, <2>1
<1> HIDE DEF Body
<1>8. ASSUME NEW n \in 1..m, g[n - 1] \in Int PROVE g[n] \in Int
  BY <1>1, <1>7, <1>8
<1>9. \A n \in 0..m : g[n] \in Int
  <2>1. g[0] \in Int
    BY <1>6
  <2> QED
    BY <1>0, <2>1, <1>8, LoopStays
<1>10. Adds(efforts, g)
  BY <1>6, <1>7, <1>9 DEF Adds, m
<1> QED
  BY <1>5, <1>10 DEF m

\* Sums over what begins alike begin alike, whatever they begin from.
LEMMA AddsFrom ==
    ASSUME NEW s \in Seq(EffortRecord), NEW f, Adds(s, f),
           NEW m \in Nat, NEW t \in Seq(EffortRecord), NEW g, Adds(t, g), m + Len(s) <= Len(t),
           \A k \in 1..Len(s) : t[m + k] = s[k]
    PROVE  g[m + Len(s)] = g[m] + f[Len(s)]
<1> DEFINE l == Len(s)
           T == { n \in 0..l : g[m + n] = g[m] + f[n] }
<1>0. l \in Nat /\ Len(t) \in Nat /\ m + l <= Len(t)
  OBVIOUS
<1>1. /\ f[0] = 0 /\ \A n \in 0..l : f[n] \in Int
      /\ \A n \in 0..l : g[m + n] \in Int
  <2>1. \A n \in 0..l : m + n \in 0..Len(t)
    BY <1>0
  <2> QED
    BY <2>1 DEF Adds
<1>2. ASSUME NEW n \in 1..l
      PROVE  f[n] = f[n - 1] + Cost(s[n]) /\ g[m + n] = g[m + (n - 1)] + Cost(s[n]) /\ Cost(s[n]) \in Int
  <2>1. m + n \in 1..Len(t) /\ (m + n) - 1 = m + (n - 1)
    BY <1>0
  <2>2. g[m + n] = g[(m + n) - 1] + Cost(t[m + n])
    BY <2>1 DEF Adds
  <2>3. t[m + n] = s[n] /\ s[n] \in EffortRecord
    OBVIOUS
  <2>4. f[n] = f[n - 1] + Cost(s[n])
    BY DEF Adds
  <2> QED
    BY <2>1, <2>2, <2>3, <2>4, CostIs
<1>3. T \in SUBSET (0..l) /\ 0 \in T
  <2>1. m + 0 = m /\ 0 \in 0..l
    BY <1>0
  <2>2. g[m] \in Int
    BY <1>1, <2>1
  <2>3. g[m + 0] = g[m] + f[0]
    BY <1>1, <2>1, <2>2
  <2> QED
    BY <2>1, <2>3
<1>4. ASSUME NEW n \in 1..l, n - 1 \in T PROVE n \in T
  <2>1. n \in 0..l /\ n - 1 \in 0..l /\ m + 0 = m /\ 0 \in 0..l
    BY <1>0
  <2>2. g[m + (n - 1)] = g[m] + f[n - 1]
    BY <1>4
  <2>3. g[m] \in Int /\ f[n - 1] \in Int /\ g[m + n] \in Int
    BY <1>1, <2>1
  <2>4. g[m + n] = g[m] + f[n]
    BY <1>2, <2>2, <2>3
  <2> QED
    BY <2>1, <2>4
<1> HIDE DEF T, l
<1>5. T = 0..l
  BY <1>0, <1>3, <1>4, EveryTurn
<1>6. l \in T
  BY <1>0, <1>5
<1> QED
  BY <1>6 DEF T, l

\* Costs of the parts add up to the cost of the whole.
LEMMA CostOfJoin ==
    ASSUME NEW s \in Seq(EffortRecord), NEW t \in Seq(EffortRecord)
    PROVE  /\ CostOf(s) \in Int /\ CostOf(t) \in Int
           /\ CostOf(s \o t) = CostOf(s) + CostOf(t)
<1> DEFINE u == s \o t
<1>1. IsJoin(EffortRecord, s, t, u)
  BY Joined
<1> HIDE DEF u
<1>2. u \in Seq(EffortRecord) /\ Len(u) = Len(s) + Len(t) /\ Len(s) \in Nat /\ Len(t) \in Nat
  BY <1>1 DEF IsJoin
<1>3. PICK f : Adds(s, f) /\ CostOf(s) = f[Len(s)]
  BY CostOfAdds
<1>4. PICK g : Adds(t, g) /\ CostOf(t) = g[Len(t)]
  BY CostOfAdds
<1>5. PICK h : Adds(u, h) /\ CostOf(u) = h[Len(u)]
  BY <1>2, CostOfAdds
<1>6. h[0 + Len(s)] = h[0] + f[Len(s)]
  <2>1. \A k \in 1..Len(s) : u[0 + k] = s[k]
    BY <1>1 DEF IsJoin
  <2>2. 0 + Len(s) <= Len(u)
    BY <1>2
  <2> QED
    BY <1>2, <1>3, <1>5, <2>1, <2>2, AddsFrom
<1>7. h[Len(s) + Len(t)] = h[Len(s)] + g[Len(t)]
  <2> DEFINE n == Len(s)
  <2>1. \A k \in 1..Len(t) : u[n + k] = t[k]
    BY <1>1 DEF IsJoin
  <2>2. n + Len(t) <= Len(u) /\ n \in Nat
    BY <1>2
  <2> HIDE DEF n
  <2>3. u \in Seq(EffortRecord) /\ Adds(t, g) /\ Adds(u, h)
    BY <1>2, <1>4, <1>5
  <2> HIDE DEF Adds
  <2>4. h[n + Len(t)] = h[n] + g[Len(t)]
    BY <2>1, <2>2, <2>3, AddsFrom
  <2> QED
    BY <2>4 DEF n
<1>8. f[Len(s)] \in Int /\ g[Len(t)] \in Int /\ h[0] = 0 /\ 0 + Len(s) = Len(s)
  BY <1>2, <1>3, <1>4, <1>5 DEF Adds
<1> QED
  BY <1>2, <1>3, <1>4, <1>5, <1>6, <1>7, <1>8 DEF u

\* No effort costs nothing.
LEMMA CostOfNone == CostOf(<< >>) = 0
<1>1. << >> \in Seq(EffortRecord) /\ Len(<< >>) = 0
  OBVIOUS
<1>2. PICK f : Adds(<< >>, f) /\ CostOf(<< >>) = f[Len(<< >>)]
  BY <1>1, CostOfAdds
<1> QED
  BY <1>1, <1>2 DEF Adds

\* One more effort adds its cost.
LEMMA CostOfMore ==
    ASSUME NEW s \in Seq(EffortRecord), NEW effort \in EffortRecord
    PROVE  CostOf(Append(s, effort)) = CostOf(s) + Cost(effort)
<1> DEFINE one == <<effort>>
<1>1. one \in Seq(EffortRecord) /\ Append(s, effort) = s \o one /\ Len(one) = 1 /\ one[1] = effort
  OBVIOUS
<1> HIDE DEF one
<1>2. PICK f : Adds(one, f) /\ CostOf(one) = f[Len(one)]
  BY <1>1, CostOfAdds
<1>3. CostOf(one) = Cost(effort)
  <2>1. f[0] = 0 /\ f[1] = f[1 - 1] + Cost(one[1])
    BY <1>1, <1>2 DEF Adds
  <2> QED
    BY <1>1, <1>2, <2>1, CostIs
<1> QED
  BY <1>1, <1>3, CostOfJoin

\* A beginning, and one element more.
LEMMA Longer ==
    ASSUME NEW E, NEW s \in Seq(E), NEW n \in 1..Len(s)
    PROVE  /\ SubSeq(s, 1, n - 1) \in Seq(E) /\ s[n] \in E
           /\ Append(SubSeq(s, 1, n - 1), s[n]) = SubSeq(s, 1, n)
OBVIOUS

\* When no row but perhaps the last is blank, no other row is dropped.
LEMMA KeptIs ==
    ASSUME NEW E, NEW all \in Seq(E), \A n \in 1..Len(all) - 1 : ~Blank(all[n])
    PROVE  \/ Kept(all) = all /\ (Len(all) > 0 => ~Blank(all[Len(all)]))
           \/ Len(all) > 0 /\ Blank(all[Len(all)]) /\ Kept(all) = SubSeq(all, 1, Len(all) - 1)
<1> DEFINE m == Len(all)
           S == Seq(E)
           Body(f) == [n \in 0..m |-> IF n = 0 THEN << >> ELSE
                        IF Blank(all[n]) THEN f[n - 1] ELSE Append(f[n - 1], all[n])]
           turn == [n \in 1..m |-> [x \in S |-> IF Blank(all[n]) THEN x ELSE Append(x, all[n])]]
<1>0. m \in Nat /\ 0 \in 0..m /\ m \in 0..m /\ << >> \in S /\ SubSeq(all, 1, 0) = << >> /\ SubSeq(all, 1, m) = all
  OBVIOUS
<1>01. m = Len(all) /\ m \in Nat
  OBVIOUS
<1>1. ASSUME NEW n \in 1..m, NEW x \in S PROVE turn[n][x] \in S
  BY <1>1
<1> HIDE DEF m, S
<1>2. PICK f : Records(m, S, << >>, turn, f)
  <2> HIDE DEF turn
  <2> QED
    BY <1>0, <1>1, LoopRecords, Zenon
<1>3. \E g : g = Body(g)
  <2>1. ASSUME NEW n \in 0..m
        PROVE  f[n] = IF n = 0 THEN << >> ELSE IF Blank(all[n]) THEN f[n - 1] ELSE Append(f[n - 1], all[n])
    <3>1. CASE n = 0
      BY <1>2, <3>1 DEF Records
    <3>2. CASE n # 0
      <4>1. n \in 1..m /\ n - 1 \in 0..m
        BY <1>0, <3>2
      <4>2. f[n] = turn[n][f[n - 1]] /\ f[n - 1] \in S
        BY <1>2, <4>1 DEF Records
      <4> QED
        BY <3>2, <4>1, <4>2
    <3> QED
      BY <3>1, <3>2
  <2>2. f = [n \in 0..m |-> f[n]]
    BY <1>2 DEF Records
  <2>3. f = Body(f)
    BY <2>1, <2>2
  <2> QED
    BY <2>3
<1>4. PICK g : g = Body(g) /\ Kept(all) = g[m]
  <2> DEFINE g == CHOOSE h : h = Body(h)
  <2>1. g = Body(g)
    BY <1>3
  <2>2. Kept(all) = g[m]
    BY DEF Kept, m
  <2> QED
    BY <2>1, <2>2
<1>5. g[0] = << >>
  BY <1>0, <1>4
<1>6. ASSUME NEW n \in 1..m PROVE g[n] = IF Blank(all[n]) THEN g[n - 1] ELSE Append(g[n - 1], all[n])
  <2>1. n \in 0..m /\ n # 0
    BY <1>0
  <2> QED
    BY <1>4, <2>1
<1> HIDE DEF Body
<1>7. ASSUME NEW n \in 1..m
      PROVE  Append(SubSeq(all, 1, n - 1), all[n]) = SubSeq(all, 1, n) /\ n \in 0..m /\ n - 1 \in 0..m
  <2>1. n \in 1..Len(all)
    BY DEF m
  <2> QED
    BY <1>0, <2>1, Longer
<1>8. \A n \in 0..m : n < m => g[n] = SubSeq(all, 1, n)
  <2> DEFINE T == { n \in 0..m : n < m => g[n] = SubSeq(all, 1, n) }
  <2>1. T \in SUBSET (0..m) /\ 0 \in T
    BY <1>0, <1>5
  <2>2. ASSUME NEW n \in 1..m, n - 1 \in T PROVE n \in T
    <3>1. CASE n = m
      BY <1>0, <3>1
    <3>2. CASE n # m
      <4>1. n \in 1..Len(all) - 1 /\ n - 1 < m
        BY <1>01, <3>2
      <4>2. ~Blank(all[n])
        BY <4>1
      <4>3. g[n - 1] = SubSeq(all, 1, n - 1)
        BY <2>2, <4>1
      <4>4. g[n] = SubSeq(all, 1, n)
        BY <1>6, <1>7, <4>2, <4>3
      <4> QED
        BY <1>7, <4>4
    <3> QED
      BY <3>1, <3>2
  <2> HIDE DEF T
  <2>3. T = 0..m
    BY <1>0, <2>1, <2>2, EveryTurn
  <2> QED
    BY <2>3 DEF T
<1>9. CASE m = 0
  BY <1>0, <1>4, <1>5, <1>9 DEF m
<1>10. CASE m # 0
  <2>1. m \in 1..m /\ m - 1 \in 0..m /\ m - 1 < m
    BY <1>0, <1>10
  <2>2. g[m - 1] = SubSeq(all, 1, m - 1)
    BY <1>8, <2>1
  <2>3. Append(SubSeq(all, 1, m - 1), all[m]) = all
    BY <1>0, <1>7, <2>1
  <2>4. Kept(all) = IF Blank(all[m]) THEN SubSeq(all, 1, m - 1) ELSE all
    BY <1>4, <1>6, <2>1, <2>2, <2>3
  <2>5. m > 0
    BY <1>01, <1>10
  <2> QED
    BY <1>01, <2>4, <2>5, Zenon
<1> QED
  BY <1>9, <1>10

-----------------------------------------------------------------------------
(* What is said of some efforts.                                           *)

\* Summaries of at least one effort.
MaximumRecord == [name : Texts, cost : Int]
TallyRecord   == [efforts : Int, total : Int, maximum : MaximumRecord]

\* The same, of no effort too.
Summed(efforts, tally) ==
    \/ efforts = << >> /\ tally = Nothing
    \/ Tallies(efforts, tally) /\ tally \in TallyRecord

\* Effort i is the first of those that cost most.
Costliest(efforts, i) ==
    /\ i \in DOMAIN efforts
    /\ \A j \in DOMAIN efforts : Cost(efforts[j]) <= Cost(efforts[i])
    /\ \A j \in 1..i - 1 : Cost(efforts[j]) < Cost(efforts[i])

\* Of two parts, the second has the costliest only if it costs more.
LEMMA CostliestOf ==
    ASSUME NEW s \in Seq(EffortRecord), NEW t \in Seq(EffortRecord), NEW u, IsJoin(EffortRecord, s, t, u),
           NEW i, Costliest(s, i), NEW k, Costliest(t, k)
    PROVE  /\ Cost(s[i]) < Cost(t[k]) => Costliest(u, Len(s) + k) /\ u[Len(s) + k] = t[k]
           /\ ~(Cost(s[i]) < Cost(t[k])) => Costliest(u, i) /\ u[i] = s[i]
<1>0. /\ DOMAIN s = 1..Len(s) /\ DOMAIN t = 1..Len(t) /\ Len(s) \in Nat /\ Len(t) \in Nat
      /\ u \in Seq(EffortRecord) /\ DOMAIN u = 1..Len(u) /\ Len(u) = Len(s) + Len(t)
  BY DEF IsJoin
<1>1. i \in 1..Len(s) /\ k \in 1..Len(t)
  BY <1>0 DEF Costliest
<1>2. u[i] = s[i] /\ u[Len(s) + k] = t[k]
  BY <1>1 DEF IsJoin
<1>3. \A j \in 1..Len(u) : Cost(u[j]) \in Int
  <2>1. \A j \in 1..Len(u) : u[j] \in EffortRecord
    BY <1>0
  <2> QED
    BY <2>1, CostIs
<1>4. ASSUME NEW j \in 1..Len(u)
      PROVE  Cost(u[j]) <= Cost(s[i]) \/ Cost(u[j]) <= Cost(t[k])
  <2>1. CASE j \in 1..Len(s)
    BY <1>0, <2>1 DEF IsJoin, Costliest
  <2>2. CASE j \notin 1..Len(s)
    <3>1. j - Len(s) \in 1..Len(t) /\ Len(s) + (j - Len(s)) = j
      BY <1>0, <2>2
    <3>2. u[j] = t[j - Len(s)]
      BY <3>1 DEF IsJoin
    <3> QED
      BY <1>0, <3>1, <3>2 DEF Costliest
  <2> QED
    BY <2>1, <2>2
<1>5. i \in 1..Len(u) /\ Len(s) + k \in 1..Len(u)
  BY <1>0, <1>1
<1>6. Cost(s[i]) \in Int /\ Cost(t[k]) \in Int
  BY <1>2, <1>3, <1>5
<1>7. CASE Cost(s[i]) < Cost(t[k])
  <2>1. ASSUME NEW j \in 1..Len(u) PROVE Cost(u[j]) <= Cost(u[Len(s) + k])
    BY <1>2, <1>3, <1>4, <1>6, <1>7
  <2>2. ASSUME NEW j \in 1..(Len(s) + k) - 1 PROVE Cost(u[j]) < Cost(u[Len(s) + k])
    <3>0. j \in 1..Len(u)
      BY <1>0, <1>1
    <3>1. CASE j \in 1..Len(s)
      <4>1. u[j] = s[j] /\ Cost(s[j]) <= Cost(s[i])
        BY <1>0, <3>1 DEF IsJoin, Costliest
      <4> QED
        BY <1>2, <1>3, <1>6, <1>7, <3>0, <4>1
    <3>2. CASE j \notin 1..Len(s)
      <4>1. j - Len(s) \in 1..k - 1 /\ j - Len(s) \in 1..Len(t) /\ Len(s) + (j - Len(s)) = j
        BY <1>0, <1>1, <3>2
      <4>2. u[j] = t[j - Len(s)]
        BY <4>1 DEF IsJoin
      <4> QED
        BY <1>2, <4>1, <4>2 DEF Costliest
    <3> QED
      BY <3>1, <3>2
  <2> QED
    BY <1>0, <1>2, <1>5, <1>7, <2>1, <2>2 DEF Costliest
<1>8. CASE ~(Cost(s[i]) < Cost(t[k]))
  <2>1. ASSUME NEW j \in 1..Len(u) PROVE Cost(u[j]) <= Cost(u[i])
    BY <1>2, <1>3, <1>4, <1>6, <1>8
  <2>2. ASSUME NEW j \in 1..i - 1 PROVE Cost(u[j]) < Cost(u[i])
    <3>1. j \in 1..Len(s)
      BY <1>0, <1>1
    <3> QED
      BY <1>2, <3>1 DEF IsJoin, Costliest
  <2> QED
    BY <1>0, <1>2, <1>5, <1>8, <2>1, <2>2 DEF Costliest
<1> QED
  BY <1>7, <1>8

\* The maximum of some efforts is that of the costliest.
LEMMA TalliesIs ==
    ASSUME NEW efforts, NEW tally
    PROVE  Tallies(efforts, tally) <=>
             /\ tally.efforts = Len(efforts) /\ tally.total = CostOf(efforts)
             /\ \E i : Costliest(efforts, i) /\ tally.maximum = [name |-> efforts[i].name, cost |-> Cost(efforts[i])]
BY DEF Tallies, Costliest

\* The summary of two parts is what the script makes of their summaries.
LEMMA AggregatedTallies ==
    ASSUME NEW s \in Seq(EffortRecord), NEW t \in Seq(EffortRecord), NEW sum, NEW module,
           Summed(s, sum), Tallies(t, module), module \in TallyRecord
    PROVE  Tallies(s \o t, Aggregated(sum, module)) /\ Aggregated(sum, module) \in TallyRecord
<1> DEFINE u == s \o t
           a == Aggregated(sum, module)
<1>0. IsJoin(EffortRecord, s, t, u) /\ (s = << >> => u = t)
  BY Joined
<1>1. /\ a.efforts = sum.efforts + module.efforts /\ a.total = sum.total + module.total
      /\ a.maximum = IF Larger(sum.maximum, module.maximum.cost) THEN module.maximum ELSE sum.maximum
      /\ a = [efforts |-> a.efforts, total |-> a.total, maximum |-> a.maximum]
  BY DEF Aggregated
<1>2. CostOf(s) \in Int /\ CostOf(t) \in Int /\ CostOf(u) = CostOf(s) + CostOf(t)
  BY CostOfJoin
<1> HIDE DEF u, a
<1>3. /\ Len(s) \in Nat /\ Len(t) \in Nat /\ Len(u) = Len(s) + Len(t)
  BY <1>0 DEF IsJoin
<1>4. /\ module.efforts = Len(t) /\ module.total = CostOf(t) /\ module.maximum \in MaximumRecord
  BY TalliesIs DEF TallyRecord
<1>5. PICK k : Costliest(t, k) /\ module.maximum = [name |-> t[k].name, cost |-> Cost(t[k])]
  BY TalliesIs
<1>6. sum.efforts = Len(s) /\ sum.total = CostOf(s)
  <2>1. CASE s = << >> /\ sum = Nothing
    BY <2>1, CostOfNone DEF Nothing
  <2>2. CASE Tallies(s, sum)
    BY <2>2, TalliesIs
  <2> QED
    BY <2>1, <2>2 DEF Summed
<1>7. a.efforts = Len(u) /\ a.total = CostOf(u) /\ a.efforts \in Int /\ a.total \in Int
  BY <1>1, <1>2, <1>3, <1>4, <1>6
<1>8. /\ a.maximum \in MaximumRecord
      /\ \E i : Costliest(u, i) /\ a.maximum = [name |-> u[i].name, cost |-> Cost(u[i])]
  <2>1. CASE s = << >> /\ sum = Nothing
    <3>1. a.maximum = module.maximum
      BY <1>1, <2>1 DEF Nothing, Larger
    <3> QED
      BY <1>0, <1>4, <1>5, <2>1, <3>1
  <2>2. CASE Tallies(s, sum) /\ sum \in TallyRecord
    <3>1. PICK i : Costliest(s, i) /\ sum.maximum = [name |-> s[i].name, cost |-> Cost(s[i])]
      BY <2>2, TalliesIs
    <3>2. sum.maximum # << >>
      BY <3>1
    <3>3. sum.maximum.cost = Cost(s[i]) /\ module.maximum.cost = Cost(t[k]) /\ sum.maximum \in MaximumRecord
      BY <1>5, <2>2, <3>1 DEF TallyRecord
    <3>4. Larger(sum.maximum, module.maximum.cost) <=> Cost(s[i]) < Cost(t[k])
      BY <3>2, <3>3 DEF Larger
    <3>5. /\ Cost(s[i]) < Cost(t[k]) => Costliest(u, Len(s) + k) /\ u[Len(s) + k] = t[k]
          /\ ~(Cost(s[i]) < Cost(t[k])) => Costliest(u, i) /\ u[i] = s[i]
      BY <1>0, <1>5, <3>1, CostliestOf
    <3>6. CASE Cost(s[i]) < Cost(t[k])
      BY <1>1, <1>4, <1>5, <3>4, <3>5, <3>6
    <3>7. CASE ~(Cost(s[i]) < Cost(t[k]))
      BY <1>1, <3>1, <3>3, <3>4, <3>5, <3>7
    <3> QED
      BY <3>6, <3>7
  <2> QED
    BY <2>1, <2>2 DEF Summed
<1>9. a \in TallyRecord
  BY <1>1, <1>7, <1>8 DEF TallyRecord
<1>10. Tallies(u, a)
  BY <1>7, <1>8, TalliesIs
<1> QED
  BY <1>9, <1>10 DEF u, a

\* The summary with one effort more.
Added(sum, effort) ==
    [efforts |-> sum.efforts + 1,
     total   |-> sum.total + Cost(effort),
     maximum |-> IF Larger(sum.maximum, Cost(effort))
                 THEN [name |-> effort.name, cost |-> Cost(effort)]
                 ELSE sum.maximum]

\* The summary of one effort more is what the script makes of it.
LEMMA AddedTallies ==
    ASSUME NEW s \in Seq(EffortRecord), NEW effort \in EffortRecord, NEW sum, Summed(s, sum)
    PROVE  Tallies(Append(s, effort), Added(sum, effort)) /\ Added(sum, effort) \in TallyRecord
<1> DEFINE one == <<effort>>
           best == [name |-> effort.name, cost |-> Cost(effort)]
           module == [efforts |-> 1, total |-> Cost(effort), maximum |-> best]
<1>1. one \in Seq(EffortRecord) /\ Len(one) = 1 /\ one[1] = effort /\ DOMAIN one = 1..1 /\ s \o one = Append(s, effort)
  OBVIOUS
<1>2. Cost(effort) \in Int /\ effort.name \in Texts
  BY CostIs DEF EffortRecord
<1>3. module \in TallyRecord
  BY <1>2 DEF TallyRecord, MaximumRecord
<1> HIDE DEF one
<1>4. CostOf(one) = Cost(effort)
  <2>1. << >> \in Seq(EffortRecord) /\ Append(<< >>, effort) = one
    BY DEF one
  <2>2. CostOf(Append(<< >>, effort)) = CostOf(<< >>) + Cost(effort)
    BY <2>1, CostOfMore, Zenon
  <2>3. CostOf(one) = 0 + Cost(effort)
    BY <2>1, <2>2, CostOfNone, Zenon
  <2> QED
    BY <1>2, <2>3
<1>5. Costliest(one, 1)
  <2>1. 1..0 = {} /\ 1 - 1 = 0 /\ \A j \in 1..1 : j = 1
    OBVIOUS
  <2>2. Cost(effort) <= Cost(effort)
    BY <1>2
  <2> QED
    BY <1>1, <2>1, <2>2 DEF Costliest
<1>6. Tallies(one, module)
  <2>1. module.efforts = Len(one) /\ module.total = CostOf(one)
    BY <1>1, <1>4
  <2>2. module.maximum = [name |-> one[1].name, cost |-> Cost(one[1])]
    BY <1>1
  <2> HIDE DEF module
  <2> QED
    BY <1>5, <2>1, <2>2, TalliesIs
<1>7. Aggregated(sum, module) = Added(sum, effort)
  BY DEF Aggregated, Added
<1> HIDE DEF module
<1> QED
  BY <1>1, <1>3, <1>6, <1>7, AggregatedTallies

\* What the files add up to.
LEMMA TotalIs ==
    ASSUME NEW parts \in Seq(Seq(EffortRecord)), NEW tallies \in Seq(TallyRecord),
           Len(parts) = Len(tallies), Len(tallies) > 0,
           \A i \in 1..Len(tallies) : Tallies(parts[i], tallies[i])
    PROVE  Tallies(Ext!FlattenSeq(parts), Total(tallies))
<1> DEFINE m == Len(tallies)
           S == TallyRecord \union {Nothing}
           Body(f) == [n \in 0..m |-> IF n = 0 THEN Nothing ELSE Aggregated(f[n - 1], tallies[n])]
<1>0. m \in Nat /\ m # 0 /\ m = Len(parts) /\ m = Len(tallies) /\ m \in 0..m
  OBVIOUS
<1>1. PICK h : Flattens(parts, h) /\ \A n \in 0..Len(parts) : h[n] \in Seq(EffortRecord)
  BY FlattenTurns
<1>2. \A n \in 1..m : tallies[n] \in TallyRecord /\ parts[n] \in Seq(EffortRecord) /\ Tallies(parts[n], tallies[n])
  OBVIOUS
<1> HIDE DEF m
<1>3. /\ h[0] = << >> /\ h[m] = Ext!FlattenSeq(parts)
      /\ \A n \in 1..m : h[n] = h[n - 1] \o parts[n]
      /\ \A n \in 0..m : h[n] \in Seq(EffortRecord)
  BY <1>0, <1>1 DEF Flattens
<1> DEFINE Fits(n, y) == Summed(h[n], y) /\ (n # 0 => Tallies(h[n], y))
           good == [n \in 0..m |-> { y \in S : Fits(n, y) }]
           turn == [n \in 1..m |-> [y \in good[n - 1] |-> Aggregated(y, tallies[n])]]
<1>4. \A n \in 0..m : \A y : y \in good[n] <=> y \in S /\ Fits(n, y)
  OBVIOUS
<1>5. Nothing \in good[0]
  BY <1>0, <1>3, <1>4 DEF Summed
<1>6. ASSUME NEW n \in 1..m, NEW y \in good[n - 1] PROVE Aggregated(y, tallies[n]) \in good[n]
  <2>0. n \in 0..m /\ n - 1 \in 0..m
    BY <1>0
  <2>1. Summed(h[n - 1], y)
    BY <1>4, <2>0
  <2>2. Tallies(h[n], Aggregated(y, tallies[n])) /\ Aggregated(y, tallies[n]) \in TallyRecord
    BY <1>2, <1>3, <2>0, <2>1, AggregatedTallies
  <2> HIDE DEF good
  <2> QED
    BY <1>4, <2>0, <2>2 DEF Summed
<1> HIDE DEF good
<1>7. \A n \in 1..m : \A y \in good[n - 1] : turn[n][y] \in good[n]
  BY <1>6
<1>8. \E f : f = Body(f)
  <2>0. PICK f : Recorded(m, good, Nothing, turn, f)
    <3> HIDE DEF turn
    <3>1. Leads(m, good, Nothing, turn)
      BY <1>5, <1>7 DEF Leads
    <3> QED
      BY <1>0, <3>1, LoopExists, Zenon
  <2>1. /\ f = [n \in 0..m |-> IF n = 0 THEN Nothing ELSE turn[n][f[n - 1]]]
        /\ \A n \in 0..m : f[n] \in good[n]
    BY <2>0 DEF Recorded
  <2>2. ASSUME NEW n \in 0..m, n # 0 PROVE turn[n][f[n - 1]] = Aggregated(f[n - 1], tallies[n])
    <3>1. n \in 1..m /\ n - 1 \in 0..m
      BY <2>2, <1>0
    <3> QED
      BY <3>1, <2>1
  <2>3. f = Body(f)
    BY <2>1, <2>2
  <2> QED
    BY <2>3
<1>9. PICK f : f = Body(f) /\ Total(tallies) = f[m]
  <2> DEFINE f == CHOOSE g : g = Body(g)
  <2>1. f = Body(f)
    BY <1>8
  <2>2. Total(tallies) = f[m]
    BY DEF Total, m
  <2> QED
    BY <2>1, <2>2
<1>10. f[0] \in good[0]
  <2>1. f[0] = Nothing
    BY <1>0, <1>9
  <2> QED
    BY <2>1, <1>5
<1>11. ASSUME NEW n \in 1..m, f[n - 1] \in good[n - 1] PROVE f[n] \in good[n]
  <2>1. n \in 0..m /\ n # 0
    BY <1>0
  <2>2. f[n] = Aggregated(f[n - 1], tallies[n])
    BY <1>9, <2>1
  <2> QED
    BY <1>6, <1>11, <2>2
<1>12. f[m] \in good[m]
  BY <1>0, <1>10, <1>11, LoopKeeps, Zenon
<1> QED
  BY <1>0, <1>3, <1>4, <1>9, <1>12

-----------------------------------------------------------------------------
(* How one text is written and read.                                       *)

\* The text needs no quotes.
Bare(log, text) == ~(log.quotes \/ \E i \in DOMAIN text : text[i] \in {Quote, Comma, Newline})

\* What stands for each character between quotes.
Doubled(text) == [i \in DOMAIN text |-> IF text[i] = Quote THEN <<Quote, Quote>> ELSE <<text[i]>>]

Inner(text) == Ext!FlattenSeq(Doubled(text))

\* Ends(text)[i] characters stand for the first i characters of the text.
Ends(text) == CHOOSE off : Offsets(Doubled(text), Inner(text), off)

\* The special characters are characters.
LEMMA Writings ==
    /\ Quote \in Character /\ Comma \in Character /\ Newline \in Character /\ Return \in Character
    /\ "seed" \in Character
BY CharacterAssumption

\* A text consists of characters.
LEMMA Characters ==
    ASSUME NEW text \in Texts
    PROVE  /\ Len(text) \in Nat /\ DOMAIN text = 1..Len(text) /\ \A i \in 1..Len(text) : text[i] \in Character
           /\ text \in Seq(Character)
BY DEF Texts

\* Within quotes each character stands for itself, a quote for two.
LEMMA DoubledIs ==
    ASSUME NEW text \in Texts
    PROVE  /\ Doubled(text) \in Seq(Texts) /\ Len(Doubled(text)) = Len(text) /\ Inner(text) \in Texts
           /\ Offsets(Doubled(text), Inner(text), Ends(text))
           /\ \A i \in 1..Len(text) : Doubled(text)[i] = IF text[i] = Quote THEN <<Quote, Quote>> ELSE <<text[i]>>
<1>1. Len(text) \in Nat /\ DOMAIN text = 1..Len(text) /\ \A i \in 1..Len(text) : text[i] \in Character
  BY Characters
<1>2. ASSUME NEW i \in 1..Len(text) PROVE Doubled(text)[i] = IF text[i] = Quote THEN <<Quote, Quote>> ELSE <<text[i]>>
  BY <1>1 DEF Doubled
<1>3. ASSUME NEW c \in Character PROVE <<c>> \in Texts /\ <<c, c>> \in Texts
  BY DEF Texts
<1>4. \A i \in 1..Len(text) : Doubled(text)[i] \in Texts
  BY <1>1, <1>2, <1>3, Writings
<1>5. Doubled(text) = [i \in 1..Len(text) |-> Doubled(text)[i]]
  BY <1>1 DEF Doubled
<1>6. Doubled(text) \in Seq(Texts) /\ Len(Doubled(text)) = Len(text)
  BY <1>1, <1>4, <1>5
<1>7. Inner(text) \in Texts /\ \E off : Offsets(Doubled(text), Inner(text), off)
  BY <1>6, FlattenOffsets DEF Inner, Texts
<1>8. Offsets(Doubled(text), Inner(text), Ends(text))
  BY <1>7 DEF Ends
<1> QED
  BY <1>2, <1>6, <1>7, <1>8

\* A text without special characters may be written as it is.
LEMMA BareIs ==
    ASSUME NEW log, NEW text \in Texts, Bare(log, text)
    PROVE  /\ Encoded(log, text) = text
           /\ \A i \in 1..Len(text) : text[i] # Quote /\ text[i] # Comma /\ text[i] # Newline
BY Characters DEF Bare, Encoded

\* A text in quotes is what stands between them.
LEMMA QuotedIs ==
    ASSUME NEW log, NEW text \in Texts, ~Bare(log, text)
    PROVE  /\ Encoded(log, text) \in Texts
           /\ Len(Inner(text)) \in Nat /\ Len(Encoded(log, text)) = Len(Inner(text)) + 2
           /\ Encoded(log, text)[1] = Quote /\ Encoded(log, text)[Len(Inner(text)) + 2] = Quote
           /\ \A k \in 1..Len(Inner(text)) : Encoded(log, text)[k + 1] = Inner(text)[k]
<1> DEFINE flat == Inner(text)
<1>1. flat \in Seq(Character)
  BY DoubledIs DEF Texts
<1>2. Encoded(log, text) = <<Quote>> \o flat \o <<Quote>>
  BY DEF Bare, Encoded, Inner, Doubled
<1>3. Quote \in Character
  BY Writings
<1> HIDE DEF flat
<1> DEFINE e == <<Quote>> \o flat \o <<Quote>>
<1>4. /\ e \in Seq(Character) /\ Len(flat) \in Nat /\ Len(e) = Len(flat) + 2 /\ e[1] = Quote
      /\ e[Len(flat) + 2] = Quote /\ \A k \in 1..Len(flat) : e[k + 1] = flat[k]
  BY <1>1, <1>3
<1> HIDE DEF e
<1> QED
  BY <1>2, <1>4 DEF flat, e, Texts

\* A text is written as a text.
LEMMA EncodedIs ==
    ASSUME NEW log, NEW text \in Texts
    PROVE  Encoded(log, text) \in Texts
BY BareIs, QuotedIs

\* The parser has read p characters of a text that was written.
ReadOf(log, text, p, q, f) ==
    \/ Bare(log, text) /\ p \in 0..Len(text) /\ q = FALSE /\ f = SubSeq(text, 1, p)
    \/ ~Bare(log, text) /\ p = 0 /\ q = FALSE /\ f = << >>
    \/ /\ ~Bare(log, text) /\ q = TRUE
       /\ \E j \in 0..Len(text) : p = Ends(text)[j] + 1 /\ f = SubSeq(text, 1, j)
    \/ ~Bare(log, text) /\ p = Len(Encoded(log, text)) /\ q = FALSE /\ f = text

\* What the next characters of it do.
WhollyRead(e, text, p, q, f) == p = Len(e) /\ q = FALSE /\ f = text

OpensQuotes(log, e, text, p, q, f) ==
    p + 1 \in 1..Len(e) /\ q = FALSE /\ e[p + 1] = Quote /\ ReadOf(log, text, p + 1, TRUE, f)

GoesOn(log, e, text, p, q, f) ==
    /\ p + 1 \in 1..Len(e) /\ e[p + 1] # Quote
    /\ q = FALSE => e[p + 1] # Comma /\ e[p + 1] # Newline
    /\ ReadOf(log, text, p + 1, q, Append(f, e[p + 1]))

GoesOnDoubled(log, e, text, p, q, f) ==
    /\ p + 2 \in 1..Len(e) /\ q = TRUE /\ e[p + 1] = Quote /\ e[p + 2] = Quote
    /\ ReadOf(log, text, p + 2, TRUE, Append(f, Quote))

ClosesQuotes(log, e, text, p, q, f) ==
    p + 1 = Len(e) /\ q = TRUE /\ e[p + 1] = Quote /\ f = text /\ ReadOf(log, text, p + 1, FALSE, f)

\* At first nothing of a text is read.
LEMMA ReadOfStart ==
    ASSUME NEW log, NEW text \in Texts
    PROVE  ReadOf(log, text, 0, FALSE, << >>)
<1>1. 0 \in 0..Len(text) /\ SubSeq(text, 1, 0) = << >>
  BY Characters
<1> QED
  BY <1>1 DEF ReadOf

\* Reading one character, or a doubled quote, of what was written leads to what
\* is read of the text then; at the end it is the whole text.
LEMMA ReadFurther ==
    ASSUME NEW log, NEW text \in Texts, NEW p, NEW q, NEW f, ReadOf(log, text, p, q, f),
           NEW e, e = Encoded(log, text)
    PROVE  /\ p \in 0..Len(e) /\ q \in BOOLEAN /\ f \in Texts
           /\ \/ WhollyRead(e, text, p, q, f)
              \/ OpensQuotes(log, e, text, p, q, f)
              \/ GoesOn(log, e, text, p, q, f)
              \/ GoesOnDoubled(log, e, text, p, q, f)
              \/ ClosesQuotes(log, e, text, p, q, f)
<1>0. /\ Len(text) \in Nat /\ \A i \in 1..Len(text) : text[i] \in Character
      /\ text \in Seq(Character) /\ Texts = Seq(Character)
  BY Characters DEF Texts
<1>01. q \in BOOLEAN
  BY DEF ReadOf
<1>1. CASE Bare(log, text) /\ p \in 0..Len(text) /\ q = FALSE /\ f = SubSeq(text, 1, p)
  <2>1. e = text /\ \A i \in 1..Len(text) : text[i] # Quote /\ text[i] # Comma /\ text[i] # Newline
    BY <1>1, BareIs
  <2>2. f \in Texts
    BY <1>0, <1>1
  <2>3. CASE p = Len(text)
    <3>1. f = text
      BY <1>0, <1>1, <2>3
    <3> QED
      BY <1>0, <1>1, <2>1, <2>2, <2>3, <3>1 DEF WhollyRead
  <2>4. CASE p # Len(text)
    <3>1. p + 1 \in 1..Len(text) /\ p + 1 \in 0..Len(text) /\ (p + 1) - 1 = p
      BY <1>0, <1>1, <2>4
    <3>2. Append(f, text[p + 1]) = SubSeq(text, 1, p + 1)
      <4>1. Append(SubSeq(text, 1, (p + 1) - 1), text[p + 1]) = SubSeq(text, 1, p + 1)
        BY <1>0, <3>1, Longer
      <4> QED
        BY <1>1, <3>1, <4>1
    <3>3. ReadOf(log, text, p + 1, FALSE, Append(f, text[p + 1]))
      BY <1>1, <3>1, <3>2 DEF ReadOf
    <3>4. GoesOn(log, e, text, p, q, f)
      BY <1>1, <2>1, <3>1, <3>3 DEF GoesOn
    <3> QED
      BY <1>1, <2>1, <2>2, <3>4
  <2> QED
    BY <2>3, <2>4
<1>2. ASSUME ~Bare(log, text)
      PROVE  /\ Len(e) = Len(Inner(text)) + 2 /\ Len(Inner(text)) \in Nat /\ e[1] = Quote /\ e[Len(Inner(text)) + 2] = Quote
             /\ \A k \in 1..Len(Inner(text)) : e[k + 1] = Inner(text)[k]
  BY <1>2, QuotedIs
<1> DEFINE off == Ends(text)
           flat == Inner(text)
<1>3. /\ off[0] = 0 /\ off[Len(text)] = Len(flat)
      /\ \A i \in 0..Len(text) : off[i] \in 0..Len(flat)
      /\ \A i \in 1..Len(text) :
           /\ off[i] = off[i - 1] + Len(Doubled(text)[i])
           /\ \A k \in 1..Len(Doubled(text)[i]) : flat[off[i - 1] + k] = Doubled(text)[i][k]
  <2>1. Offsets(Doubled(text), flat, off) /\ Len(Doubled(text)) = Len(text)
    BY DoubledIs
  <2> HIDE DEF off, flat
  <2>2. /\ off[0] = 0 /\ off[Len(Doubled(text))] = Len(flat)
        /\ \A i \in 0..Len(Doubled(text)) : off[i] \in 0..Len(flat)
        /\ \A i \in 1..Len(Doubled(text)) :
             /\ off[i] = off[i - 1] + Len(Doubled(text)[i])
             /\ \A k \in 1..Len(Doubled(text)[i]) : flat[off[i - 1] + k] = Doubled(text)[i][k]
    BY <2>1 DEF Offsets
  <2> QED
    BY <2>1, <2>2, Zenon
<1>4. ASSUME NEW i \in 1..Len(text)
      PROVE  /\ text[i] = Quote => off[i] = off[i - 1] + 2 /\ flat[off[i - 1] + 1] = Quote /\ flat[off[i - 1] + 2] = Quote
             /\ text[i] # Quote => off[i] = off[i - 1] + 1 /\ flat[off[i - 1] + 1] = text[i]
  <2>1. Doubled(text)[i] = IF text[i] = Quote THEN <<Quote, Quote>> ELSE <<text[i]>>
    BY DoubledIs
  <2>2. Len(<<Quote, Quote>>) = 2 /\ <<Quote, Quote>>[1] = Quote /\ <<Quote, Quote>>[2] = Quote
        /\ Len(<<text[i]>>) = 1 /\ <<text[i]>>[1] = text[i] /\ 1 \in 1..1 /\ 1 \in 1..2 /\ 2 \in 1..2
    OBVIOUS
  <2> HIDE DEF off, flat
  <2>3. CASE text[i] = Quote
    <3>1. Len(Doubled(text)[i]) = 2 /\ Doubled(text)[i][1] = Quote /\ Doubled(text)[i][2] = Quote
      BY <2>1, <2>2, <2>3
    <3> QED
      BY <1>3, <2>2, <2>3, <3>1
  <2>4. CASE text[i] # Quote
    <3>1. Len(Doubled(text)[i]) = 1 /\ Doubled(text)[i][1] = text[i]
      BY <2>1, <2>2, <2>4
    <3> QED
      BY <1>3, <2>2, <2>4, <3>1
  <2> QED
    BY <2>3, <2>4
<1> HIDE DEF off, flat
<1>5. CASE ~Bare(log, text) /\ p = 0 /\ q = FALSE /\ f = << >>
  <2>1. Len(e) = Len(flat) + 2 /\ Len(flat) \in Nat /\ e[1] = Quote
    BY <1>2, <1>5 DEF flat
  <2>2. 0 \in 0..Len(text) /\ SubSeq(text, 1, 0) = << >> /\ << >> \in Texts
    BY <1>0
  <2>3. ReadOf(log, text, 0 + 1, TRUE, << >>)
    BY <1>3, <1>5, <2>2 DEF ReadOf, off
  <2>4. 0 + 1 \in 1..Len(e) /\ e[0 + 1] = Quote
    BY <2>1
  <2>5. OpensQuotes(log, e, text, p, q, f)
    BY <1>5, <2>3, <2>4 DEF OpensQuotes
  <2>6. p \in 0..Len(e) /\ f \in Texts
    BY <1>5, <2>1, <2>2
  <2> QED
    BY <1>01, <2>5, <2>6
<1>6. CASE ~Bare(log, text) /\ q = TRUE /\ \E j \in 0..Len(text) : p = off[j] + 1 /\ f = SubSeq(text, 1, j)
  <2>1. /\ Len(e) = Len(flat) + 2 /\ Len(flat) \in Nat /\ e[Len(flat) + 2] = Quote
        /\ \A k \in 1..Len(flat) : e[k + 1] = flat[k]
    BY <1>2, <1>6 DEF flat
  <2>2. PICK j \in 0..Len(text) : p = off[j] + 1 /\ f = SubSeq(text, 1, j)
    BY <1>6
  <2>3. off[j] \in 0..Len(flat) /\ p \in 0..Len(e) /\ f \in Texts
    <3>1. off[j] \in 0..Len(flat)
      BY <1>3
    <3>2. f \in Texts
      BY <1>0, <2>2
    <3> QED
      BY <2>1, <2>2, <3>1, <3>2
  <2>4. CASE j = Len(text)
    <3>1. f = text /\ p + 1 = Len(e)
      BY <1>0, <1>3, <2>1, <2>2, <2>4
    <3>2. e[p + 1] = Quote
      BY <2>1, <3>1
    <3>3. ReadOf(log, text, p + 1, FALSE, f)
      BY <1>6, <3>1 DEF ReadOf
    <3>4. ClosesQuotes(log, e, text, p, q, f)
      BY <1>6, <3>1, <3>2, <3>3 DEF ClosesQuotes
    <3> QED
      BY <1>6, <2>3, <3>4
  <2>5. CASE j # Len(text)
    <3> DEFINE i == j + 1
    <3>1. i \in 1..Len(text) /\ i \in 0..Len(text) /\ i - 1 = j
      BY <1>0, <2>5
    <3>2. Append(f, text[i]) = SubSeq(text, 1, i)
      <4>1. Append(SubSeq(text, 1, i - 1), text[i]) = SubSeq(text, 1, i)
        BY <1>0, <3>1, Longer
      <4> QED
        BY <2>2, <3>1, <4>1
    <3> HIDE DEF i
    <3>3. off[i] \in 0..Len(flat)
      BY <1>3, <3>1
    <3>4. CASE text[i] = Quote
      <4>1. off[i] = off[j] + 2 /\ flat[off[j] + 1] = Quote /\ flat[off[j] + 2] = Quote
        BY <1>4, <3>1, <3>4
      <4>2. off[j] + 1 \in 1..Len(flat) /\ off[j] + 2 \in 1..Len(flat)
        BY <2>1, <2>3, <3>3, <4>1
      <4>3. e[(off[j] + 1) + 1] = Quote /\ e[(off[j] + 2) + 1] = Quote
        BY <2>1, <4>1, <4>2
      <4>4. p + 1 = (off[j] + 1) + 1 /\ p + 2 = (off[j] + 2) + 1 /\ p + 2 = off[i] + 1 /\ p + 2 \in 1..Len(e)
        <5> DEFINE o == off[j]
        <5>1. o \in Nat /\ p = o + 1 /\ off[i] = o + 2
          BY <2>2, <2>3, <4>1
        <5>2. Len(e) = Len(flat) + 2 /\ Len(flat) \in Nat /\ o + 2 <= Len(flat)
          BY <2>1, <4>2
        <5> HIDE DEF o
        <5>3. p + 1 = (o + 1) + 1 /\ p + 2 = (o + 2) + 1 /\ p + 2 = off[i] + 1
          BY <5>1
        <5>4. p + 2 \in 1..Len(e)
          BY <5>1, <5>2
        <5> QED
          BY <5>3, <5>4 DEF o
      <4>5. ReadOf(log, text, p + 2, TRUE, Append(f, Quote))
        <5>1. p + 2 = Ends(text)[i] + 1 /\ Append(f, Quote) = SubSeq(text, 1, i)
          BY <3>2, <3>4, <4>4 DEF off
        <5> QED
          BY <1>6, <3>1, <5>1 DEF ReadOf
      <4>6. GoesOnDoubled(log, e, text, p, q, f)
        BY <1>6, <4>3, <4>4, <4>5 DEF GoesOnDoubled
      <4> QED
        BY <1>6, <2>3, <4>6
    <3>5. CASE text[i] # Quote
      <4>1. off[i] = off[j] + 1 /\ flat[off[j] + 1] = text[i]
        BY <1>4, <3>1, <3>5
      <4>2. off[j] + 1 \in 1..Len(flat)
        BY <2>1, <2>3, <3>3, <4>1
      <4>3. e[(off[j] + 1) + 1] = text[i]
        BY <2>1, <4>1, <4>2
      <4>4. p + 1 = (off[j] + 1) + 1 /\ p + 1 = off[i] + 1 /\ p + 1 \in 1..Len(e)
        BY <2>1, <2>2, <2>3, <4>1, <4>2
      <4>5. ReadOf(log, text, p + 1, TRUE, Append(f, e[p + 1]))
        <5>1. p + 1 = Ends(text)[i] + 1 /\ Append(f, e[p + 1]) = SubSeq(text, 1, i)
          BY <3>2, <4>3, <4>4 DEF off
        <5> QED
          BY <1>6, <3>1, <5>1 DEF ReadOf
      <4>6. GoesOn(log, e, text, p, q, f)
        BY <1>6, <3>5, <4>3, <4>4, <4>5 DEF GoesOn
      <4> QED
        BY <1>6, <2>3, <4>6
    <3> QED
      BY <3>4, <3>5
  <2> QED
    BY <2>4, <2>5
<1>7. CASE ~Bare(log, text) /\ p = Len(e) /\ q = FALSE /\ f = text
  <2>1. Len(e) \in Nat
    BY <1>2, <1>7
  <2>2. p \in 0..Len(e) /\ f \in Texts
    BY <1>7, <2>1
  <2>3. WhollyRead(e, text, p, q, f)
    BY <1>7 DEF WhollyRead
  <2> QED
    BY <1>01, <2>2, <2>3
<1> QED
  BY <1>1, <1>5, <1>6, <1>7 DEF ReadOf, off

-----------------------------------------------------------------------------
(* Where things are in a whole file.                                       *)

\* What a log holds.
LEMMA LogIs ==
    ASSUME NEW log \in LogRecord
    PROVE  /\ log.efforts \in Seq(EffortRecord) /\ Len(log.efforts) \in Nat /\ log.lost \in Nat
           /\ log.ending \in {<<Newline>>, <<Return, Newline>>}
           /\ \A j \in 1..Len(log.efforts) : log.efforts[j] \in EffortRecord
BY DEF LogRecord

\* The five columns of an effort.
LEMMA ColumnsAre ==
    ASSUME NEW effort \in EffortRecord
    PROVE  /\ Columns(effort) \in Seq(Texts) /\ Len(Columns(effort)) = 5
           /\ Columns(effort)[1] = effort.name /\ Columns(effort)[2] = effort.outcome
           /\ Columns(effort)[3] = effort.took /\ Columns(effort)[4] = effort.cost
           /\ Columns(effort)[5] = <<"seed">>
<1>1. <<"seed">> \in Texts
  BY Writings DEF Texts
<1>2. effort.name \in Texts /\ effort.outcome \in Texts /\ effort.took \in Texts /\ effort.cost \in Texts
  BY DEF EffortRecord
<1> QED
  BY <1>1, <1>2 DEF Columns

\* The lines of a file: the header, and one for each effort.
LEMMA LinesAre ==
    ASSUME NEW log \in LogRecord
    PROVE  /\ Lines(log) \in Seq(Seq(Texts)) /\ Len(Lines(log)) = Len(log.efforts) + 1
           /\ Len(Lines(log)) \in Nat /\ DOMAIN Lines(log) = 1..Len(Lines(log))
           /\ Lines(log)[1] = Header
           /\ \A j \in 1..Len(log.efforts) : Lines(log)[j + 1] = Columns(log.efforts[j])
           /\ \A i \in 1..Len(Lines(log)) : Lines(log)[i] \in Seq(Texts) /\ Len(Lines(log)[i]) = 5
<1> DEFINE m == Len(log.efforts)
           more == [i \in DOMAIN log.efforts |-> Columns(log.efforts[i])]
<1>1. m \in Nat /\ DOMAIN log.efforts = 1..m /\ \A j \in 1..m : log.efforts[j] \in EffortRecord
  BY LogIs
<1>2. \A j \in 1..m : more[j] = Columns(log.efforts[j]) /\ more[j] \in Seq(Texts) /\ Len(more[j]) = 5
  BY <1>1, ColumnsAre
<1>3. more = [i \in 1..m |-> more[i]]
  BY <1>1
<1>4. more \in Seq(Seq(Texts)) /\ Len(more) = m
  <2> HIDE DEF more, m
  <2> QED
    BY <1>1, <1>2, <1>3
<1>5. Header \in Seq(Texts) /\ Len(Header) = 5
  BY HeaderAssumption
<1>6. Lines(log) = <<Header>> \o more
  BY DEF Lines
<1> HIDE DEF more, m
<1>7. <<Header>> \in Seq(Seq(Texts)) /\ Len(<<Header>>) = 1 /\ <<Header>>[1] = Header /\ 1 \in 1..1
  BY <1>5
<1>8. IsJoin(Seq(Texts), <<Header>>, more, Lines(log))
  BY <1>4, <1>6, <1>7, Joined, Zenon
<1>9. /\ Lines(log) \in Seq(Seq(Texts)) /\ Len(Lines(log)) = m + 1 /\ Lines(log)[1] = Header
      /\ \A j \in 1..m : Lines(log)[1 + j] = more[j]
  BY <1>1, <1>4, <1>7, <1>8 DEF IsJoin
<1>10. \A j \in 1..m : Lines(log)[j + 1] = Columns(log.efforts[j]) /\ Lines(log)[j + 1] \in Seq(Texts) /\ Len(Lines(log)[j + 1]) = 5
  <2>1. ASSUME NEW j \in 1..m PROVE Lines(log)[j + 1] = more[j]
    <3>1. 1 + j = j + 1
      BY <1>1
    <3> QED
      BY <1>9, <3>1, Zenon
  <2> QED
    BY <1>2, <2>1, Zenon
<1>11. ASSUME NEW i \in 1..m + 1 PROVE Lines(log)[i] \in Seq(Texts) /\ Len(Lines(log)[i]) = 5
  <2>1. CASE i = 1
    BY <1>5, <1>9, <2>1
  <2>2. CASE i # 1
    <3>1. i - 1 \in 1..m /\ (i - 1) + 1 = i
      BY <1>1, <2>2
    <3> QED
      BY <1>10, <3>1
  <2> QED
    BY <2>1, <2>2
<1> QED
  BY <1>1, <1>9, <1>10, <1>11 DEF m

\* What follows column c; the cells of a line and where each of them ends; the
\* lines of a file and where each of them ends.
After(log, c) == IF c = 5 THEN log.ending ELSE <<Comma>>

Cells(log, texts) == [c \in DOMAIN texts |-> Cell(log, texts, c)]

CellEnds(log, texts) == CHOOSE off : Offsets(Cells(log, texts), Line(log, texts), off)

AllLines(log) == [i \in DOMAIN Lines(log) |-> Line(log, Lines(log)[i])]

Whole(log) == Ext!FlattenSeq(AllLines(log))

LineEnds(log) == CHOOSE off : Offsets(AllLines(log), Whole(log), off)

\* How many characters come before column c of line i.
Start(log, i, c) == LineEnds(log)[i - 1] + CellEnds(log, Lines(log)[i])[c - 1]

\* A column is followed by a comma or the end of the line.
LEMMA AfterIs ==
    ASSUME NEW log \in LogRecord, NEW c
    PROVE  After(log, c) \in Texts /\ After(log, c) \in {<<Comma>>, <<Newline>>, <<Return, Newline>>}
<1>1. <<Comma>> \in Texts /\ <<Newline>> \in Texts /\ <<Return, Newline>> \in Texts
  BY Writings DEF Texts
<1> QED
  BY <1>1, LogIs DEF After

\* A cell is a column and what follows it.
LEMMA CellIs ==
    ASSUME NEW log \in LogRecord, NEW texts \in Seq(Texts), Len(texts) = 5, NEW c \in 1..5
    PROVE  IsJoin(Character, Encoded(log, texts[c]), After(log, c), Cell(log, texts, c))
<1>1. Cell(log, texts, c) = Encoded(log, texts[c]) \o After(log, c)
  BY DEF Cell, After
<1>2. texts[c] \in Texts
  <2>1. c \in 1..Len(texts)
    OBVIOUS
  <2> QED
    BY <2>1, Longer, Zenon
<1>3. Encoded(log, texts[c]) \in Seq(Character) /\ After(log, c) \in Seq(Character)
  BY <1>2, EncodedIs, AfterIs DEF Texts
<1> QED
  BY <1>1, <1>3, Joined, Zenon

\* Cells lie one after another in a line.
LEMMA LineIs ==
    ASSUME NEW log \in LogRecord, NEW texts \in Seq(Texts), Len(texts) = 5
    PROVE  /\ Line(log, texts) \in Texts
           /\ Offsets(Cells(log, texts), Line(log, texts), CellEnds(log, texts))
           /\ Len(Cells(log, texts)) = 5
           /\ \A c \in 1..5 : Cells(log, texts)[c] = Cell(log, texts, c)
<1>1. DOMAIN texts = 1..5
  OBVIOUS
<1>2. \A c \in 1..5 : Cells(log, texts)[c] = Cell(log, texts, c) /\ Cells(log, texts)[c] \in Texts
  BY <1>1, CellIs DEF Cells, IsJoin, Texts
<1>3. Cells(log, texts) = [c \in 1..5 |-> Cells(log, texts)[c]]
  BY <1>1 DEF Cells
<1>4. Cells(log, texts) \in Seq(Texts) /\ Len(Cells(log, texts)) = 5
  BY <1>2, <1>3
<1>5. Line(log, texts) = Ext!FlattenSeq(Cells(log, texts))
  BY DEF Line, Cells
<1>6. Line(log, texts) \in Texts /\ \E off : Offsets(Cells(log, texts), Line(log, texts), off)
  BY <1>4, <1>5, FlattenOffsets DEF Texts
<1> QED
  BY <1>2, <1>4, <1>6 DEF CellEnds

\* Lines lie one after another in a file.
LEMMA WholeIs ==
    ASSUME NEW log \in LogRecord
    PROVE  /\ Whole(log) \in Texts
           /\ Offsets(AllLines(log), Whole(log), LineEnds(log))
           /\ Len(AllLines(log)) = Len(Lines(log))
           /\ \A i \in 1..Len(Lines(log)) : AllLines(log)[i] = Line(log, Lines(log)[i])
<1> DEFINE m == Len(Lines(log))
<1>1. m \in Nat /\ DOMAIN Lines(log) = 1..m /\ \A i \in 1..m : Lines(log)[i] \in Seq(Texts) /\ Len(Lines(log)[i]) = 5
  BY LinesAre
<1>2. \A i \in 1..m : AllLines(log)[i] = Line(log, Lines(log)[i]) /\ AllLines(log)[i] \in Texts
  BY <1>1, LineIs DEF AllLines
<1>3. AllLines(log) = [i \in 1..m |-> AllLines(log)[i]]
  BY <1>1 DEF AllLines
<1>4. AllLines(log) \in Seq(Texts) /\ Len(AllLines(log)) = m
  BY <1>1, <1>2, <1>3
<1>5. Whole(log) \in Texts /\ \E off : Offsets(AllLines(log), Whole(log), off)
  BY <1>4, FlattenOffsets DEF Whole, Texts
<1> QED
  BY <1>2, <1>4, <1>5 DEF LineEnds

\* s characters come before a column, which is e, and what follows it.
LaidOut(whole, s, e, after) ==
    /\ s \in Nat /\ Len(e) \in Nat /\ Len(after) \in Nat /\ Len(whole) \in Nat
    /\ s + Len(e) + Len(after) <= Len(whole)
    /\ \A p \in 1..Len(e) : whole[s + p] = e[p]
    /\ \A p \in 1..Len(after) : whole[s + Len(e) + p] = after[p]

\* Columns lie one after another in a file, across its lines.
LEMMA Layout ==
    ASSUME NEW log \in LogRecord, NEW i \in 1..Len(Lines(log)), NEW c \in 1..5,
           NEW e, e = Encoded(log, Lines(log)[i][c])
    PROVE  /\ LaidOut(Whole(log), Start(log, i, c), e, After(log, c))
           /\ c < 5 => Start(log, i, c + 1) = Start(log, i, c) + Len(e) + Len(After(log, c))
           /\ c = 5 /\ i < Len(Lines(log)) => Start(log, i + 1, 1) = Start(log, i, c) + Len(e) + Len(After(log, c))
           /\ c = 5 /\ i = Len(Lines(log)) => Len(Whole(log)) = Start(log, i, c) + Len(e) + Len(After(log, c))
<1> DEFINE m == Len(Lines(log))
           texts == Lines(log)[i]
           cell == Cell(log, texts, c)
           line == Line(log, texts)
           whole == Whole(log)
           far == LineEnds(log)
           near == CellEnds(log, texts)
           after == After(log, c)
<1>0. m \in Nat /\ i \in 1..m /\ texts \in Seq(Texts) /\ Len(texts) = 5
  BY LinesAre
<1>1. IsJoin(Character, e, after, cell)
  BY <1>0, CellIs
<1>2. /\ near[0] = 0 /\ near[5] = Len(line) /\ \A d \in 0..5 : near[d] \in 0..Len(line)
      /\ near[c] = near[c - 1] + Len(cell)
      /\ \A k \in 1..Len(cell) : line[near[c - 1] + k] = cell[k]
  <2>1. /\ Offsets(Cells(log, texts), line, near) /\ Len(Cells(log, texts)) = 5 /\ Cells(log, texts)[c] = cell
    BY <1>0, LineIs
  <2> HIDE DEF cell, line, near, texts
  <2> QED
    BY <2>1 DEF Offsets
<1>3. /\ far[0] = 0 /\ far[m] = Len(whole) /\ \A d \in 0..m : far[d] \in 0..Len(whole)
      /\ far[i] = far[i - 1] + Len(line)
      /\ \A k \in 1..Len(line) : whole[far[i - 1] + k] = line[k]
  <2>1. /\ Offsets(AllLines(log), whole, far) /\ Len(AllLines(log)) = m /\ AllLines(log)[i] = line
    BY <1>0, WholeIs
  <2> HIDE DEF line, whole, far, m
  <2> QED
    BY <1>0, <2>1 DEF Offsets
<1>4. line \in Texts /\ whole \in Texts
  BY <1>0, LineIs, WholeIs
<1>5. Len(line) \in Nat /\ Len(whole) \in Nat
  BY <1>4, Characters
<1>6. Start(log, i, c) = far[i - 1] + near[c - 1]
  BY DEF Start
<1>7. /\ c < 5 => Start(log, i, c + 1) = far[i - 1] + near[c]
      /\ i < m => Start(log, i + 1, 1) = far[i] + CellEnds(log, Lines(log)[i + 1])[0]
  <2>1. (c + 1) - 1 = c /\ (i + 1) - 1 = i /\ 1 - 1 = 0
    OBVIOUS
  <2> QED
    BY <2>1 DEF Start
<1>8. i < m => CellEnds(log, Lines(log)[i + 1])[0] = 0
  <2>1. SUFFICES ASSUME i < m PROVE CellEnds(log, Lines(log)[i + 1])[0] = 0
    OBVIOUS
  <2>2. Lines(log)[i + 1] \in Seq(Texts) /\ Len(Lines(log)[i + 1]) = 5
    <3>1. i + 1 \in 1..m
      BY <1>0, <2>1
    <3> QED
      BY <3>1, LinesAre
  <2> QED
    BY <2>2, LineIs DEF Offsets
<1> DEFINE s == Start(log, i, c)
<1> HIDE DEF m, texts, cell, line, whole, far, near, after, s
<1>9. /\ far[i - 1] \in Nat /\ near[c - 1] \in Nat /\ near[c] \in Nat /\ far[i] \in Nat
      /\ near[c] <= Len(line) /\ far[i] <= Len(whole) /\ c - 1 \in 0..5 /\ c \in 0..5
  <2>1. i - 1 \in 0..m /\ i \in 0..m /\ c - 1 \in 0..5 /\ c \in 0..5
    BY <1>0
  <2>2. far[i - 1] \in 0..Len(whole) /\ near[c - 1] \in 0..Len(line) /\ near[c] \in 0..Len(line) /\ far[i] \in 0..Len(whole)
    BY <1>2, <1>3, <2>1
  <2> QED
    BY <1>5, <2>1, <2>2
<1>10. /\ Len(e) \in Nat /\ Len(after) \in Nat /\ Len(cell) = Len(e) + Len(after)
       /\ \A k \in 1..Len(e) : k \in 1..Len(cell) /\ cell[k] = e[k]
       /\ \A k \in 1..Len(after) : Len(e) + k \in 1..Len(cell) /\ cell[Len(e) + k] = after[k]
  BY <1>1 DEF IsJoin
<1>11. s \in Nat /\ s = far[i - 1] + near[c - 1]
  BY <1>6, <1>9 DEF s
<1>12. near[c] = near[c - 1] + Len(e) + Len(after)
  BY <1>2, <1>9, <1>10
<1>13. s + Len(e) + Len(after) = far[i - 1] + near[c] /\ s + Len(e) + Len(after) <= Len(whole)
  <2> DEFINE f == far[i - 1]
             n == near[c - 1]
             end == near[c]
             le == Len(e)
             la == Len(after)
             ll == Len(line)
             lw == Len(whole)
  <2>1. s = f + n /\ end = n + le + la
    BY <1>11, <1>12
  <2>2. far[i] = f + ll /\ end <= ll /\ far[i] <= lw
    BY <1>3, <1>9
  <2>3. f \in Nat /\ n \in Nat /\ le \in Nat /\ la \in Nat /\ end \in Nat /\ ll \in Nat /\ lw \in Nat
    BY <1>5, <1>9, <1>10
  <2> HIDE DEF f, n, end, le, la, ll, lw
  <2>4. f + ll <= lw
    BY <2>2
  <2>5. s + le + la = f + end
    BY <2>1, <2>3
  <2>6. f + end <= lw
    BY <2>2, <2>3, <2>4
  <2> QED
    BY <2>5, <2>6 DEF f, end, le, la, lw
<1>14. ASSUME NEW k \in 1..Len(cell) PROVE whole[s + k] = cell[k]
  <2>0. Len(cell) \in Nat /\ near[c] = near[c - 1] + Len(cell)
    BY <1>2, <1>10
  <2>1. near[c - 1] + k \in 1..Len(line)
    <3> DEFINE n == near[c - 1]
               lc == Len(cell)
               ll == Len(line)
    <3>1. n \in Nat /\ lc \in Nat /\ ll \in Nat /\ n + lc <= ll /\ k \in 1..lc
      BY <1>5, <1>9, <2>0
    <3> HIDE DEF n, lc, ll
    <3>2. n + k \in 1..ll
      BY <3>1
    <3> QED
      BY <3>2 DEF n, ll
  <2>2. whole[far[i - 1] + (near[c - 1] + k)] = line[near[c - 1] + k]
    BY <1>3, <2>1
  <2>3. far[i - 1] + (near[c - 1] + k) = s + k
    <3> DEFINE f == far[i - 1]
               n == near[c - 1]
    <3>1. f \in Nat /\ n \in Nat /\ s = f + n /\ k \in Int
      BY <1>9, <1>11, <2>0
    <3> HIDE DEF f, n
    <3>2. f + (n + k) = s + k
      BY <3>1
    <3> QED
      BY <3>2 DEF f, n
  <2> QED
    BY <1>2, <2>2, <2>3
<1>15. \A k \in 1..Len(e) : whole[s + k] = e[k]
  BY <1>10, <1>14
<1>16. ASSUME NEW k \in 1..Len(after) PROVE whole[s + Len(e) + k] = after[k]
  <2>1. Len(e) + k \in 1..Len(cell) /\ s + (Len(e) + k) = s + Len(e) + k
    BY <1>10, <1>11
  <2>2. whole[s + (Len(e) + k)] = cell[Len(e) + k]
    BY <1>14, <2>1
  <2> QED
    BY <1>10, <2>1, <2>2
<1>17. LaidOut(whole, s, e, after)
  BY <1>5, <1>10, <1>11, <1>13, <1>15, <1>16 DEF LaidOut
<1>18. c < 5 => Start(log, i, c + 1) = s + Len(e) + Len(after)
  BY <1>7, <1>13
<1>19. c = 5 => far[i] = s + Len(e) + Len(after)
  BY <1>2, <1>3, <1>13
<1>20. i < m => Start(log, i + 1, 1) = far[i]
  BY <1>7, <1>8, <1>9
<1>21. i = m => Len(whole) = far[i]
  BY <1>3
<1> QED
  BY <1>17, <1>18, <1>19, <1>20, <1>21 DEF s, m, after, whole

\* The first column begins the file.
LEMMA LayoutStarts ==
    ASSUME NEW log \in LogRecord
    PROVE  Start(log, 1, 1) = 0
<1>1. 1 \in 1..Len(Lines(log)) /\ 1 - 1 = 0
  BY LinesAre, LogIs
<1>2. Lines(log)[1] \in Seq(Texts) /\ Len(Lines(log)[1]) = 5
  BY <1>1, LinesAre
<1>3. CellEnds(log, Lines(log)[1])[0] = 0
  BY <1>2, LineIs DEF Offsets
<1>4. LineEnds(log)[0] = 0
  BY WholeIs DEF Offsets
<1> QED
  BY <1>1, <1>3, <1>4 DEF Start

-----------------------------------------------------------------------------
(* How far the parser has come in a file.                                  *)

\* How much of a file there is, and what is left of it.
Extent(log) == IF log.lost <= Len(Whole(log)) THEN Len(Whole(log)) - log.lost ELSE 0

Rest(log, k) == SubSeq(Whole(log), k + 1, Extent(log))

\* What is left of a file is the beginning of the whole one.
LEMMA ExtentIs ==
    ASSUME NEW log \in LogRecord
    PROVE  /\ Len(Whole(log)) \in Nat /\ Extent(log) \in 0..Len(Whole(log))
           /\ Extent(log) # Len(Whole(log)) => log.lost # 0
           /\ FileText(log) = Rest(log, 0)
<1> DEFINE whole == Whole(log)
           l == Len(whole)
<1>1. whole \in Seq(Character) /\ l \in Nat /\ log.lost \in Nat
  BY WholeIs, LogIs, Characters DEF Texts
<1>2. FileText(log) = SubSeq(whole, 1, l - log.lost)
  BY DEF FileText, Whole, AllLines
<1>3. Extent(log) = IF log.lost <= l THEN l - log.lost ELSE 0
  BY DEF Extent
<1>4. Rest(log, 0) = SubSeq(whole, 0 + 1, Extent(log))
  BY DEF Rest
<1> HIDE DEF whole, l
<1>5. ~(log.lost <= l) => SubSeq(whole, 1, l - log.lost) = SubSeq(whole, 1, 0)
  <2>1. SUFFICES ASSUME ~(log.lost <= l) PROVE SubSeq(whole, 1, l - log.lost) = SubSeq(whole, 1, 0)
    OBVIOUS
  <2>2. l - log.lost \in Int /\ l - log.lost < 0
    BY <1>1, <2>1
  <2>3. SubSeq(whole, 1, l - log.lost) = << >> /\ SubSeq(whole, 1, 0) = << >>
    BY <1>1, <2>2
  <2> QED
    BY <2>3
<1>6. FileText(log) = Rest(log, 0)
  <2>1. 0 + 1 = 1
    OBVIOUS
  <2> QED
    BY <1>2, <1>3, <1>4, <1>5, <2>1, Zenon
<1>7. Extent(log) \in 0..l /\ (Extent(log) # l => log.lost # 0)
  BY <1>1, <1>3
<1> QED
  BY <1>1, <1>6, <1>7 DEF whole, l

\* What is left of a sequence after its first n elements.
LEMMA Remainder ==
    ASSUME NEW S, NEW s \in Seq(S), NEW n \in 0..Len(s)
    PROVE  LET r == SubSeq(s, n + 1, Len(s))
           IN r \in Seq(S) /\ Len(r) = Len(s) - n /\ \A j \in 1..Len(s) - n : r[j] = s[n + j]
OBVIOUS

\* What a reader of the rest of a file meets is what the file holds there.
LEMMA RestIs ==
    ASSUME NEW log \in LogRecord, NEW k \in 0..Extent(log)
    PROVE  /\ Len(Rest(log, k)) = Extent(log) - k /\ Extent(log) \in Nat
           /\ Rest(log, k) = << >> <=> k = Extent(log)
           /\ k < Extent(log) => Head(Rest(log, k)) = Whole(log)[k + 1]
           /\ k + 1 < Extent(log) => Rest(log, k)[2] = Whole(log)[k + 2]
           /\ \A n \in 1..2 : k + n <= Extent(log) =>
                SubSeq(Rest(log, k), n + 1, Len(Rest(log, k))) = Rest(log, k + n)
<1> DEFINE whole == Whole(log)
           x == Extent(log)
           left == SubSeq(whole, k + 1, x)
<1>1. whole \in Seq(Character) /\ Len(whole) \in Nat /\ x \in 0..Len(whole)
  BY WholeIs, ExtentIs DEF Texts
<1>2. Rest(log, k) = left /\ \A n \in 1..2 : Rest(log, k + n) = SubSeq(whole, (k + n) + 1, x)
  BY DEF Rest
<1> HIDE DEF whole, x
<1>3. k \in 0..x
  BY DEF x
<1>4. /\ left \in Seq(Character) /\ Len(left) = x - k /\ \A n \in 1..x - k : left[n] = whole[k + n]
  BY <1>1, <1>3
<1>5. left = << >> <=> k = x
  <2> HIDE DEF left
  <2> QED
    BY <1>1, <1>3, <1>4
<1>6. k < x => Head(left) = whole[k + 1]
  <2>1. SUFFICES ASSUME k < x PROVE Head(left) = whole[k + 1]
    OBVIOUS
  <2> HIDE DEF left
  <2>2. left # << >> /\ 1 \in 1..x - k
    BY <1>1, <1>3, <1>5, <2>1
  <2>3. Head(left) = left[1]
    BY <1>4, <2>2
  <2> QED
    BY <1>4, <2>2, <2>3
<1>7. k + 1 < x => left[2] = whole[k + 2]
  <2> HIDE DEF left
  <2> QED
    BY <1>1, <1>3, <1>4
<1>8. ASSUME NEW n \in 1..2, k + n <= x
      PROVE  SubSeq(left, n + 1, Len(left)) = SubSeq(whole, (k + n) + 1, x)
  <2> DEFINE one == SubSeq(left, n + 1, Len(left))
             two == SubSeq(whole, (k + n) + 1, x)
  <2> HIDE DEF left
  <2>1. one \in Seq(Character) /\ Len(one) = (x - k) - n /\ \A j \in 1..(x - k) - n : one[j] = left[n + j]
    <3>1. n \in 0..Len(left) /\ Len(left) = x - k
      BY <1>1, <1>3, <1>4, <1>8
    <3> HIDE DEF one
    <3>2. one \in Seq(Character) /\ Len(one) = Len(left) - n /\ \A j \in 1..Len(left) - n : one[j] = left[n + j]
      BY <1>4, <3>1, Remainder DEF one
    <3> QED
      BY <3>1, <3>2
  <2>2. two \in Seq(Character) /\ Len(two) = (x - k) - n /\ \A j \in 1..(x - k) - n : two[j] = whole[(k + n) + j]
    BY <1>1, <1>3, <1>8
  <2> HIDE DEF one, two
  <2>3. ASSUME NEW j \in 1..(x - k) - n PROVE one[j] = two[j]
    <3>1. n + j \in 1..x - k /\ k + (n + j) = (k + n) + j
      BY <1>1, <1>3, <1>8
    <3> QED
      BY <1>4, <2>1, <2>2, <3>1
  <2>4. one = two
    BY <2>1, <2>2, <2>3
  <2> QED
    BY <2>4 DEF one, two
<1> HIDE DEF left
<1>9. x \in Nat
  BY <1>1
<1> QED
  BY <1>2, <1>4, <1>5, <1>6, <1>7, <1>8, <1>9 DEF whole, x

\* Before column c of line i.
Before(log, i, c, r, rs) ==
    r = SubSeq(Lines(log)[i], 1, c - 1) /\ rs = SubSeq(Lines(log), 1, i - 1)

\* In a column, or after the last one of a line with half a line ending read.
InColumn(log, k, q, f, r, rs, i, c, p) ==
    k = Start(log, i, c) + p /\ ReadOf(log, Lines(log)[i][c], p, q, f) /\ Before(log, i, c, r, rs)

InEnding(log, k, q, f, r, rs, i) ==
    /\ log.ending = <<Return, Newline>>
    /\ k = Start(log, i, 5) + Len(Encoded(log, Lines(log)[i][5])) + 1
    /\ q = FALSE /\ f = Append(Lines(log)[i][5], Return) /\ Before(log, i, 5, r, rs)

\* After the last line.
AtEnd(log, k, q, f, r, rs) == k = Len(Whole(log)) /\ q = FALSE /\ f = << >> /\ r = << >> /\ rs = Lines(log)

\* What the parser holds when it has read k characters of a file.
Reading(log, k, q, f, r, rs) ==
    \/ \E i \in 1..Len(Lines(log)), c \in 1..5 : \E p : InColumn(log, k, q, f, r, rs, i, c, p)
    \/ \E i \in 1..Len(Lines(log)) : InEnding(log, k, q, f, r, rs, i)
    \/ AtEnd(log, k, q, f, r, rs)

\* The file was cut off between two quotes.
CutOff(log, k, q, f, r, rs) ==
    /\ k < Len(Whole(log)) /\ q = FALSE /\ f \in Texts
    /\ \E i \in 1..Len(Lines(log)), c \in 1..5 : Before(log, i, c, r, rs)

\* Without half a line ending.
Trimmed(last) == IF last # << >> /\ last[Len(last)] = Return THEN SubSeq(last, 1, Len(last) - 1) ELSE last

\* Half a line ending is taken off, and nothing else.
LEMMA TrimmedIs ==
    ASSUME NEW text \in Texts
    PROVE  /\ Trimmed(Append(text, Return)) = text
           /\ text # << >> /\ text[Len(text)] # Return => Trimmed(text) = text
<1>1. text \in Seq(Character) /\ Return \in Character
  BY Writings DEF Texts
<1> DEFINE long == Append(text, Return)
<1>2. long # << >> /\ long[Len(long)] = Return /\ SubSeq(long, 1, Len(long) - 1) = text
  BY <1>1
<1> HIDE DEF long
<1>3. Trimmed(long) = text
  BY <1>2 DEF Trimmed
<1>4. text # << >> /\ text[Len(text)] # Return => Trimmed(text) = text
  BY DEF Trimmed
<1> QED
  BY <1>3, <1>4 DEF long

\* The beginnings of a line, and of the lines.
LEMMA LineShape ==
    ASSUME NEW log \in LogRecord, NEW i \in 1..Len(Lines(log))
    PROVE  /\ \A c \in 1..5 : Lines(log)[i][c] \in Texts
           /\ Trimmed(Lines(log)[i][5]) = Lines(log)[i][5] /\ Lines(log)[i][5] # << >>
           /\ \A c \in 1..5 : Append(SubSeq(Lines(log)[i], 1, c - 1), Lines(log)[i][c]) = SubSeq(Lines(log)[i], 1, c)
           /\ SubSeq(Lines(log)[i], 1, 5) = Lines(log)[i] /\ SubSeq(Lines(log)[i], 1, 0) = << >>
           /\ Append(SubSeq(Lines(log), 1, i - 1), Lines(log)[i]) = SubSeq(Lines(log), 1, i)
<1> DEFINE line == Lines(log)[i]
<1>1. line \in Seq(Texts) /\ Len(line) = 5
  BY LinesAre
<1>2. line = Header \/ \E j \in 1..Len(log.efforts) : line = Columns(log.efforts[j])
  <2>1. CASE i = 1
    BY <2>1, LinesAre
  <2>2. CASE i # 1
    <3>1. i - 1 \in 1..Len(log.efforts) /\ (i - 1) + 1 = i
      BY <2>2, LinesAre, LogIs
    <3> QED
      BY <3>1, LinesAre
  <2> QED
    BY <2>1, <2>2
<1>3. line[5] # << >> /\ line[5][Len(line[5])] # Return
  <2>1. CASE line = Header
    BY <2>1, HeaderAssumption
  <2>2. ASSUME NEW j \in 1..Len(log.efforts), line = Columns(log.efforts[j])
        PROVE  line[5] # << >> /\ line[5][Len(line[5])] # Return
    <3>1. line[5] = <<"seed">>
      BY <2>2, ColumnsAre, LogIs
    <3>2. <<"seed">> # << >> /\ Len(<<"seed">>) = 1 /\ <<"seed">>[1] = "seed" /\ "seed" # Return
      BY DEF Return
    <3> QED
      BY <3>1, <3>2
  <2> QED
    BY <1>2, <2>1, <2>2
<1>4. \A c \in 1..5 : line[c] \in Texts /\ Append(SubSeq(line, 1, c - 1), line[c]) = SubSeq(line, 1, c)
  <2>1. \A c \in 1..5 : c \in 1..Len(line)
    BY <1>1
  <2> HIDE DEF line
  <2> QED
    BY <1>1, <2>1, Longer, Zenon
<1>5. SubSeq(line, 1, 5) = line /\ SubSeq(line, 1, 0) = << >>
  <2> HIDE DEF line
  <2> QED
    BY <1>1
<1>6. Trimmed(line[5]) = line[5]
  <2>1. line[5] \in Texts
    BY <1>4
  <2> QED
    BY <1>3, <2>1, TrimmedIs
<1>7. Append(SubSeq(Lines(log), 1, i - 1), line) = SubSeq(Lines(log), 1, i)
  <2>1. Lines(log) \in Seq(Seq(Texts))
    BY LinesAre
  <2> QED
    BY <2>1, Longer, Zenon
<1> QED
  BY <1>3, <1>4, <1>5, <1>6, <1>7

\* Before the first column.
LEMMA ReadingStarts ==
    ASSUME NEW log \in LogRecord
    PROVE  Reading(log, 0, FALSE, << >>, << >>, << >>)
<1>1. 1 \in 1..Len(Lines(log)) /\ 1 \in 1..5 /\ 1 - 1 = 0 /\ 0 + 0 = 0
  BY LinesAre, LogIs
<1>2. Start(log, 1, 1) = 0
  BY LayoutStarts
<1>3. ReadOf(log, Lines(log)[1][1], 0, FALSE, << >>)
  BY <1>1, LineShape, ReadOfStart
<1>4. SubSeq(Lines(log)[1], 1, 0) = << >>
  BY <1>1, LineShape
<1>5. SubSeq(Lines(log), 1, 0) = << >>
  BY LinesAre
<1>6. InColumn(log, 0, FALSE, << >>, << >>, << >>, 1, 1, 0)
  BY <1>1, <1>2, <1>3, <1>4, <1>5 DEF InColumn, Before
<1> QED
  BY <1>1, <1>6 DEF Reading

\* After a column that is not the last one.
LEMMA ReadingColumn ==
    ASSUME NEW log \in LogRecord, NEW i \in 1..Len(Lines(log)), NEW c \in 1..5, c < 5, NEW r, NEW rs,
           Before(log, i, c, r, rs),
           NEW k, k = Start(log, i, c) + Len(Encoded(log, Lines(log)[i][c])) + Len(After(log, c))
    PROVE  Reading(log, k, FALSE, << >>, Append(r, Lines(log)[i][c]), rs)
<1>1. c + 1 \in 1..5 /\ (c + 1) - 1 = c
  OBVIOUS
<1>2. k = Start(log, i, c + 1) /\ k \in Nat
  <2>1. k = Start(log, i, c + 1)
    BY Layout
  <2>2. Start(log, i, c + 1) \in Nat
    BY <1>1, Layout DEF LaidOut
  <2> QED
    BY <2>1, <2>2
<1>3. k = Start(log, i, c + 1) + 0
  BY <1>2
<1>4. ReadOf(log, Lines(log)[i][c + 1], 0, FALSE, << >>)
  BY <1>1, LineShape, ReadOfStart
<1>5. Append(r, Lines(log)[i][c]) = SubSeq(Lines(log)[i], 1, c)
  BY LineShape DEF Before
<1>6. Before(log, i, c + 1, Append(r, Lines(log)[i][c]), rs)
  BY <1>1, <1>5 DEF Before
<1>7. InColumn(log, k, FALSE, << >>, Append(r, Lines(log)[i][c]), rs, i, c + 1, 0)
  BY <1>3, <1>4, <1>6 DEF InColumn
<1> QED
  BY <1>1, <1>7 DEF Reading

\* After a line.
LEMMA ReadingLine ==
    ASSUME NEW log \in LogRecord, NEW i \in 1..Len(Lines(log)), NEW r, NEW rs, Before(log, i, 5, r, rs),
           NEW k, k = Start(log, i, 5) + Len(Encoded(log, Lines(log)[i][5])) + Len(After(log, 5))
    PROVE  Reading(log, k, FALSE, << >>, << >>, Append(rs, Append(r, Lines(log)[i][5])))
<1> DEFINE rows1 == Append(rs, Append(r, Lines(log)[i][5]))
<1>1. rows1 = SubSeq(Lines(log), 1, i)
  <2>1. r = SubSeq(Lines(log)[i], 1, 5 - 1) /\ rs = SubSeq(Lines(log), 1, i - 1) /\ 5 \in 1..5
    BY DEF Before
  <2>2. Append(r, Lines(log)[i][5]) = Lines(log)[i]
    BY <2>1, LineShape, Zenon
  <2> QED
    BY <2>1, <2>2, LineShape, Zenon
<1>2. 5 \in 1..5 /\ 1 \in 1..5 /\ 1 - 1 = 0 /\ Len(Lines(log)) \in Nat
  BY LinesAre
<1> HIDE DEF rows1
<1>3. CASE i = Len(Lines(log))
  <2>1. k = Len(Whole(log))
    BY <1>2, <1>3, Layout
  <2>2. rows1 = Lines(log)
    <3>1. Lines(log) \in Seq(Seq(Texts))
      BY LinesAre
    <3> QED
      BY <1>1, <1>3, <3>1
  <2>3. AtEnd(log, k, FALSE, << >>, << >>, rows1)
    BY <2>1, <2>2 DEF AtEnd
  <2> QED
    BY <2>3 DEF Reading, rows1
<1>4. CASE i # Len(Lines(log))
  <2>1. i < Len(Lines(log)) /\ i + 1 \in 1..Len(Lines(log)) /\ (i + 1) - 1 = i
    BY <1>2, <1>4
  <2>2. k = Start(log, i + 1, 1)
    BY <1>2, <2>1, Layout
  <2>3. Start(log, i + 1, 1) \in Nat
    BY <1>2, <2>1, Layout DEF LaidOut
  <2>4. k = Start(log, i + 1, 1) + 0
    BY <2>2, <2>3
  <2>5. ReadOf(log, Lines(log)[i + 1][1], 0, FALSE, << >>)
    BY <1>2, <2>1, LineShape, ReadOfStart
  <2>6. Before(log, i + 1, 1, << >>, rows1)
    BY <1>1, <1>2, <2>1, LineShape DEF Before
  <2>7. InColumn(log, k, FALSE, << >>, << >>, rows1, i + 1, 1, 0)
    BY <2>4, <2>5, <2>6 DEF InColumn
  <2> QED
    BY <1>2, <2>1, <2>7 DEF Reading, rows1
<1> QED
  BY <1>3, <1>4

-----------------------------------------------------------------------------
(* The parser goes on.                                                     *)

\* The next character has led from one such state to another.
PlainStep(log, k, f, r, rs, ch) ==
    /\ ch = Quote => Reading(log, k + 1, TRUE, f, r, rs)
    /\ ch = Comma => Reading(log, k + 1, FALSE, << >>, Append(r, f), rs)
    /\ ch = Newline => Reading(log, k + 1, FALSE, << >>, << >>, Append(rs, Append(r, Trimmed(f))))
    /\ ch # Quote /\ ch # Comma /\ ch # Newline => Reading(log, k + 1, FALSE, Append(f, ch), r, rs)

QuotedStep(log, k, f, r, rs) ==
    LET whole == Whole(log) IN
    /\ k + 1 < Len(whole)
    /\ whole[k + 1] # Quote => Reading(log, k + 1, TRUE, Append(f, whole[k + 1]), r, rs)
    /\ whole[k + 1] = Quote /\ whole[k + 2] = Quote => Reading(log, k + 2, TRUE, Append(f, Quote), r, rs)
    /\ whole[k + 1] = Quote /\ whole[k + 2] # Quote => Reading(log, k + 1, FALSE, f, r, rs)

\* No special character is another.
LEMMA Different == Quote # Comma /\ Quote # Newline /\ Comma # Newline /\ Return # Quote /\ Return # Comma /\ Return # Newline
BY DEF Quote, Comma, Newline, Return

\* What a step within a column needs.
ColumnAt(log, k, q, f, r, rs, i, c, p, text, e, s, after) ==
    /\ text \in Texts /\ p \in 0..Len(e) /\ Len(e) \in Nat /\ f \in Texts
    /\ LaidOut(Whole(log), s, e, after) /\ k = s + p
    /\ Before(log, i, c, r, rs)
    /\ \/ WhollyRead(e, text, p, q, f)
       \/ OpensQuotes(log, e, text, p, q, f)
       \/ GoesOn(log, e, text, p, q, f)
       \/ GoesOnDoubled(log, e, text, p, q, f)
       \/ ClosesQuotes(log, e, text, p, q, f)

\* Within a column: how far it is read, and what was read before.
LEMMA ColumnIs ==
    ASSUME NEW log \in LogRecord, NEW i \in 1..Len(Lines(log)), NEW c \in 1..5, NEW k, NEW q, NEW f, NEW r, NEW rs, NEW p,
           InColumn(log, k, q, f, r, rs, i, c, p),
           NEW text, text = Lines(log)[i][c], NEW e, e = Encoded(log, text),
           NEW s, s = Start(log, i, c), NEW after, after = After(log, c)
    PROVE  ColumnAt(log, k, q, f, r, rs, i, c, p, text, e, s, after)
<1>1. text \in Texts
  BY LineShape
<1>2. ReadOf(log, text, p, q, f) /\ k = s + p /\ Before(log, i, c, r, rs)
  BY DEF InColumn
<1>3. LaidOut(Whole(log), s, e, after)
  BY Layout
<1>4. Len(e) \in Nat
  BY <1>3 DEF LaidOut
<1>5. /\ p \in 0..Len(e) /\ q \in BOOLEAN /\ f \in Texts
      /\ \/ WhollyRead(e, text, p, q, f)
         \/ OpensQuotes(log, e, text, p, q, f)
         \/ GoesOn(log, e, text, p, q, f)
         \/ GoesOnDoubled(log, e, text, p, q, f)
         \/ ClosesQuotes(log, e, text, p, q, f)
  BY <1>1, <1>2, ReadFurther
<1> QED
  BY <1>1, <1>2, <1>3, <1>4, <1>5 DEF ColumnAt

\* Within a column the characters are those of the column.
LEMMA ColumnHolds ==
    ASSUME NEW whole, NEW s, NEW e, NEW after, LaidOut(whole, s, e, after), NEW p \in 0..Len(e), NEW k, k = s + p
    PROVE  /\ k \in Nat
           /\ p + 1 \in 1..Len(e) => whole[k + 1] = e[p + 1] /\ k + 1 = s + (p + 1)
           /\ p + 2 \in 1..Len(e) => whole[k + 2] = e[p + 2] /\ k + 2 = s + (p + 2)
<1>1. s \in Nat /\ Len(e) \in Nat /\ k \in Nat /\ k + 1 = s + (p + 1) /\ k + 2 = s + (p + 2)
  BY DEF LaidOut
<1>2. \A n \in 1..Len(e) : whole[s + n] = e[n]
  BY DEF LaidOut
<1> QED
  BY <1>1, <1>2

\* A character outside quotes leads the parser further, as it should.
LEMMA PlainReads ==
    ASSUME NEW log \in LogRecord, NEW k, NEW f, NEW r, NEW rs, Reading(log, k, FALSE, f, r, rs), k < Len(Whole(log)),
           NEW ch, ch = Whole(log)[k + 1]
    PROVE  PlainStep(log, k, f, r, rs, ch)
<1>1. ASSUME NEW i \in 1..Len(Lines(log)), NEW c \in 1..5, NEW p, InColumn(log, k, FALSE, f, r, rs, i, c, p)
      PROVE  PlainStep(log, k, f, r, rs, ch)
  <2> DEFINE text == Lines(log)[i][c]
             e == Encoded(log, text)
             s == Start(log, i, c)
             after == After(log, c)
  <2>2. text = Lines(log)[i][c] /\ e = Encoded(log, text) /\ s = Start(log, i, c) /\ after = After(log, c)
    OBVIOUS
  <2> HIDE DEF text, e, s, after
  <2>1. /\ text \in Texts /\ p \in 0..Len(e) /\ Len(e) \in Nat
        /\ LaidOut(Whole(log), s, e, after) /\ k = s + p
        /\ Before(log, i, c, r, rs)
        /\ \/ WhollyRead(e, text, p, FALSE, f)
           \/ OpensQuotes(log, e, text, p, FALSE, f)
           \/ GoesOn(log, e, text, p, FALSE, f)
           \/ GoesOnDoubled(log, e, text, p, FALSE, f)
           \/ ClosesQuotes(log, e, text, p, FALSE, f)
    <3>1. ColumnAt(log, k, FALSE, f, r, rs, i, c, p, text, e, s, after)
      BY <1>1, <2>2, ColumnIs, Zenon
    <3> QED
      BY <3>1 DEF ColumnAt
  <2>3. /\ k \in Nat
        /\ p + 1 \in 1..Len(e) => ch = e[p + 1] /\ k + 1 = s + (p + 1)
    BY <2>1, ColumnHolds
  <2>4. CASE OpensQuotes(log, e, text, p, FALSE, f)
    <3>1. ch = Quote /\ k + 1 = s + (p + 1) /\ ReadOf(log, text, p + 1, TRUE, f)
      BY <2>3, <2>4 DEF OpensQuotes
    <3>2. InColumn(log, k + 1, TRUE, f, r, rs, i, c, p + 1)
      BY <2>1, <2>2, <3>1 DEF InColumn
    <3>3. Reading(log, k + 1, TRUE, f, r, rs)
      BY <3>2 DEF Reading
    <3> QED
      BY <3>1, <3>3, Different DEF PlainStep
  <2>5. CASE GoesOn(log, e, text, p, FALSE, f)
    <3>1. ch # Quote /\ ch # Comma /\ ch # Newline /\ k + 1 = s + (p + 1) /\ ReadOf(log, text, p + 1, FALSE, Append(f, ch))
      BY <2>3, <2>5 DEF GoesOn
    <3>2. InColumn(log, k + 1, FALSE, Append(f, ch), r, rs, i, c, p + 1)
      BY <2>1, <2>2, <3>1 DEF InColumn
    <3>3. Reading(log, k + 1, FALSE, Append(f, ch), r, rs)
      BY <3>2 DEF Reading
    <3> QED
      BY <3>1, <3>3 DEF PlainStep
  <2>6. CASE WhollyRead(e, text, p, FALSE, f)
    <3>1. p = Len(e) /\ f = text /\ k = s + Len(e)
      BY <2>1, <2>6 DEF WhollyRead
    <3>2. /\ \A n \in 1..Len(after) : Whole(log)[s + Len(e) + n] = after[n]
          /\ s \in Nat
      BY <2>1 DEF LaidOut
    <3>3. CASE c < 5
      <4>1. after = <<Comma>> /\ Len(after) = 1 /\ after[1] = Comma /\ 1 \in 1..Len(after)
        BY <2>2, <3>3 DEF After
      <4>2. ch = Comma /\ k + 1 = s + Len(e) + Len(after)
        BY <2>1, <3>1, <3>2, <4>1
      <4>3. Reading(log, k + 1, FALSE, << >>, Append(r, text), rs)
        BY <2>1, <2>2, <3>3, <4>2, ReadingColumn
      <4> QED
        BY <3>1, <4>2, <4>3, Different DEF PlainStep
    <3>4. CASE c = 5
      <4>1. after = log.ending
        BY <2>2, <3>4 DEF After
      <4>2. CASE log.ending = <<Newline>>
        <5>1. Len(after) = 1 /\ after[1] = Newline /\ 1 \in 1..Len(after)
          BY <4>1, <4>2
        <5>2. ch = Newline /\ k + 1 = s + Len(e) + Len(after)
          BY <2>1, <3>1, <3>2, <5>1
        <5>3. Reading(log, k + 1, FALSE, << >>, << >>, Append(rs, Append(r, text)))
          BY <2>1, <2>2, <3>4, <5>2, ReadingLine
        <5>4. Trimmed(f) = text
          BY <2>2, <3>1, <3>4, LineShape
        <5> QED
          BY <5>2, <5>3, <5>4, Different DEF PlainStep
      <4>3. CASE log.ending = <<Return, Newline>>
        <5>1. Len(after) = 2 /\ after[1] = Return /\ 1 \in 1..Len(after)
          BY <4>1, <4>3
        <5>2. ch = Return /\ k + 1 = s + Len(e) + 1
          BY <2>1, <3>1, <3>2, <5>1
        <5>3. InEnding(log, k + 1, FALSE, Append(f, ch), r, rs, i)
          BY <2>1, <2>2, <3>1, <3>4, <4>3, <5>2 DEF InEnding
        <5>4. Reading(log, k + 1, FALSE, Append(f, ch), r, rs)
          BY <5>3 DEF Reading
        <5> QED
          BY <5>2, <5>4, Different DEF PlainStep
      <4> QED
        BY <4>2, <4>3, LogIs
    <3> QED
      BY <3>3, <3>4
  <2>7. ~GoesOnDoubled(log, e, text, p, FALSE, f) /\ ~ClosesQuotes(log, e, text, p, FALSE, f)
    BY DEF GoesOnDoubled, ClosesQuotes
  <2> QED
    BY <2>1, <2>4, <2>5, <2>6, <2>7
<1>2. ASSUME NEW i \in 1..Len(Lines(log)), InEnding(log, k, FALSE, f, r, rs, i)
      PROVE  PlainStep(log, k, f, r, rs, ch)
  <2> DEFINE text == Lines(log)[i][5]
             e == Encoded(log, text)
             s == Start(log, i, 5)
             after == After(log, 5)
  <2>1. /\ log.ending = <<Return, Newline>> /\ k = s + Len(e) + 1 /\ f = Append(text, Return)
        /\ Before(log, i, 5, r, rs)
    BY <1>2 DEF InEnding
  <2>2. text \in Texts
    BY LineShape
  <2>3. LaidOut(Whole(log), s, e, after)
    <3>1. 5 \in 1..5
      OBVIOUS
    <3> QED
      BY <3>1, Layout
  <2>4. text = Lines(log)[i][5] /\ e = Encoded(log, text) /\ s = Start(log, i, 5) /\ after = After(log, 5)
    OBVIOUS
  <2> HIDE DEF text, e, s, after
  <2>5. after = log.ending
    BY <2>4 DEF After
  <2>6. Len(after) = 2 /\ after[2] = Newline /\ 2 \in 1..Len(after)
    BY <2>1, <2>5
  <2>7. s \in Nat /\ Len(e) \in Nat /\ \A n \in 1..Len(after) : Whole(log)[s + Len(e) + n] = after[n]
    BY <2>3 DEF LaidOut
  <2>8. ch = Newline /\ k + 1 = s + Len(e) + Len(after)
    <3>1. k + 1 = s + Len(e) + 2
      BY <2>1, <2>7
    <3> QED
      BY <2>6, <2>7, <3>1
  <2>9. Reading(log, k + 1, FALSE, << >>, << >>, Append(rs, Append(r, text)))
    BY <2>1, <2>4, <2>8, ReadingLine
  <2>10. Trimmed(f) = text
    BY <2>1, <2>2, TrimmedIs
  <2> QED
    BY <2>8, <2>9, <2>10, Different DEF PlainStep
<1>3. ~AtEnd(log, k, FALSE, f, r, rs)
  BY ExtentIs DEF AtEnd
<1> QED
  BY <1>1, <1>2, <1>3 DEF Reading

\* So does a character within quotes.
LEMMA QuotedReads ==
    ASSUME NEW log \in LogRecord, NEW k, NEW f, NEW r, NEW rs, Reading(log, k, TRUE, f, r, rs)
    PROVE  QuotedStep(log, k, f, r, rs) /\ k \in Nat /\ f \in Texts
           /\ \E i \in 1..Len(Lines(log)), c \in 1..5 : Before(log, i, c, r, rs)
<1>1. \E i \in 1..Len(Lines(log)), c \in 1..5 : \E p : InColumn(log, k, TRUE, f, r, rs, i, c, p)
  BY DEF Reading, InEnding, AtEnd
<1>0. PICK i \in 1..Len(Lines(log)), c \in 1..5 : \E p : InColumn(log, k, TRUE, f, r, rs, i, c, p)
  BY <1>1
<1>2. PICK p : InColumn(log, k, TRUE, f, r, rs, i, c, p)
  BY <1>0
<1> DEFINE text == Lines(log)[i][c]
           e == Encoded(log, text)
           s == Start(log, i, c)
           after == After(log, c)
           whole == Whole(log)
<1>4. text = Lines(log)[i][c] /\ e = Encoded(log, text) /\ s = Start(log, i, c) /\ after = After(log, c) /\ whole = Whole(log)
  OBVIOUS
<1>5. after \in {<<Comma>>, <<Newline>>, <<Return, Newline>>}
  BY AfterIs
<1>6. after[1] # Quote /\ 1 \in 1..Len(after)
  BY <1>5, Different
<1> HIDE DEF text, e, s, after, whole
<1>3. /\ text \in Texts /\ p \in 0..Len(e) /\ Len(e) \in Nat /\ f \in Texts
      /\ LaidOut(whole, s, e, after) /\ k = s + p
      /\ Before(log, i, c, r, rs)
      /\ \/ WhollyRead(e, text, p, TRUE, f)
         \/ OpensQuotes(log, e, text, p, TRUE, f)
         \/ GoesOn(log, e, text, p, TRUE, f)
         \/ GoesOnDoubled(log, e, text, p, TRUE, f)
         \/ ClosesQuotes(log, e, text, p, TRUE, f)
  <2>1. ColumnAt(log, k, TRUE, f, r, rs, i, c, p, text, e, s, after)
    BY <1>2, <1>4, ColumnIs, Zenon
  <2> QED
    BY <1>4, <2>1 DEF ColumnAt
<1>7. /\ k \in Nat
      /\ p + 1 \in 1..Len(e) => whole[k + 1] = e[p + 1] /\ k + 1 = s + (p + 1)
      /\ p + 2 \in 1..Len(e) => whole[k + 2] = e[p + 2] /\ k + 2 = s + (p + 2)
  BY <1>3, ColumnHolds
<1>8. /\ s \in Nat /\ Len(after) \in Nat /\ Len(whole) \in Nat /\ s + Len(e) + Len(after) <= Len(whole)
      /\ \A n \in 1..Len(after) : whole[s + Len(e) + n] = after[n]
  BY <1>3 DEF LaidOut
<1>9. p < Len(e) => k + 1 < Len(whole)
  BY <1>3, <1>6, <1>8
<1>10. CASE GoesOn(log, e, text, p, TRUE, f)
  <2>1. whole[k + 1] # Quote /\ k + 1 = s + (p + 1) /\ ReadOf(log, text, p + 1, TRUE, Append(f, whole[k + 1])) /\ p < Len(e)
    <3>1. p + 1 \in 1..Len(e) /\ e[p + 1] # Quote /\ ReadOf(log, text, p + 1, TRUE, Append(f, e[p + 1]))
      BY <1>10 DEF GoesOn
    <3>2. whole[k + 1] = e[p + 1] /\ k + 1 = s + (p + 1) /\ p < Len(e)
      BY <1>3, <1>7, <3>1
    <3> QED
      BY <3>1, <3>2
  <2>2. InColumn(log, k + 1, TRUE, Append(f, whole[k + 1]), r, rs, i, c, p + 1)
    BY <1>3, <1>4, <2>1 DEF InColumn
  <2>3. Reading(log, k + 1, TRUE, Append(f, whole[k + 1]), r, rs)
    BY <2>2 DEF Reading
  <2>4. QuotedStep(log, k, f, r, rs)
    BY <1>4, <1>9, <2>1, <2>3 DEF QuotedStep
  <2> QED
    BY <1>3, <1>7, <2>4
<1>11. CASE GoesOnDoubled(log, e, text, p, TRUE, f)
  <2>0. p + 1 \in 1..Len(e) /\ p + 2 \in 1..Len(e) /\ p < Len(e)
    BY <1>3, <1>11 DEF GoesOnDoubled
  <2>1. /\ whole[k + 1] = Quote /\ whole[k + 2] = Quote /\ k + 2 = s + (p + 2)
        /\ ReadOf(log, text, p + 2, TRUE, Append(f, Quote))
    BY <1>7, <1>11, <2>0 DEF GoesOnDoubled
  <2>2. InColumn(log, k + 2, TRUE, Append(f, Quote), r, rs, i, c, p + 2)
    BY <1>3, <1>4, <2>1 DEF InColumn
  <2>3. Reading(log, k + 2, TRUE, Append(f, Quote), r, rs)
    BY <2>2 DEF Reading
  <2>4. QuotedStep(log, k, f, r, rs)
    BY <1>4, <1>9, <2>0, <2>1, <2>3 DEF QuotedStep
  <2> QED
    BY <1>3, <1>7, <2>4
<1>12. CASE ClosesQuotes(log, e, text, p, TRUE, f)
  <2>0. p + 1 = Len(e) /\ p + 1 \in 1..Len(e) /\ p < Len(e)
    BY <1>3, <1>12 DEF ClosesQuotes
  <2>1. whole[k + 1] = Quote /\ k + 1 = s + (p + 1) /\ ReadOf(log, text, p + 1, FALSE, f)
    BY <1>7, <1>12, <2>0 DEF ClosesQuotes
  <2>2. whole[k + 2] # Quote
    <3>1. k = s + p /\ p \in Int /\ s \in Int /\ Len(e) \in Int
      BY <1>3, <1>8
    <3>2. k + 2 = s + Len(e) + 1
      BY <2>0, <3>1
    <3> QED
      BY <1>6, <1>8, <3>2
  <2>3. InColumn(log, k + 1, FALSE, f, r, rs, i, c, p + 1)
    BY <1>3, <1>4, <2>1 DEF InColumn
  <2>4. Reading(log, k + 1, FALSE, f, r, rs)
    BY <2>3 DEF Reading
  <2>5. QuotedStep(log, k, f, r, rs)
    BY <1>4, <1>9, <2>0, <2>1, <2>2, <2>4 DEF QuotedStep
  <2> QED
    BY <1>3, <1>7, <2>5
<1>13. ~WhollyRead(e, text, p, TRUE, f) /\ ~OpensQuotes(log, e, text, p, TRUE, f)
  BY DEF WhollyRead, OpensQuotes
<1> QED
  BY <1>3, <1>10, <1>11, <1>12, <1>13

-----------------------------------------------------------------------------
(* What the parser hands on.                                               *)

\* A row that holds what a line began with; its last text may be anything.
PartOf(r, line) ==
    r \in Seq(Texts) /\ Len(r) \in 1..5 /\ \A d \in 1..Len(r) - 1 : r[d] = line[d]

\* Only the last row may be cut off, and none is of a whole file.
Parsed(log, all) ==
    /\ all \in Seq(Seq(Texts)) /\ Len(all) <= Len(Lines(log))
    /\ \A n \in 1..Len(all) - 1 : all[n] = Lines(log)[n]
    /\ \A n \in 1..Len(all) : PartOf(all[n], Lines(log)[n])
    /\ log.lost = 0 => all = Lines(log)

\* What is left to judge after m efforts.
Remaining(log, left, m) ==
    /\ left \in Seq(Seq(Texts)) /\ m + Len(left) <= Len(log.efforts)
    /\ \A n \in 1..Len(left) : PartOf(left[n], Columns(log.efforts[m + n]))
    /\ log.lost = 0 => /\ m + Len(left) = Len(log.efforts)
                       /\ \A n \in 1..Len(left) : left[n] = Columns(log.efforts[m + n])

\* A line is part of itself.
LEMMA PartOfWhole ==
    ASSUME NEW line \in Seq(Texts), Len(line) = 5
    PROVE  PartOf(line, line)
BY DEF PartOf

\* What the first n elements, and one element more, are.
IsFirst(E, s, n, t) == t \in Seq(E) /\ Len(t) = n /\ \A d \in 1..n : t[d] = s[d]

IsAppend(E, s, x, t) ==
    t \in Seq(E) /\ Len(t) = Len(s) + 1 /\ t[Len(s) + 1] = x /\ \A d \in 1..Len(s) : t[d] = s[d]

\* The first elements of a sequence.
LEMMA FirstIs ==
    ASSUME NEW E, NEW s \in Seq(E), NEW n \in 0..Len(s)
    PROVE  IsFirst(E, s, n, SubSeq(s, 1, n))
BY DEF IsFirst

\* A sequence and one element more.
LEMMA AppendIs ==
    ASSUME NEW E, NEW s \in Seq(E), NEW x \in E
    PROVE  IsAppend(E, s, x, Append(s, x))
BY DEF IsAppend

\* Anywhere but at the end a part of the file is missing.
LEMMA ReadingIs ==
    ASSUME NEW log \in LogRecord, NEW k, NEW q, NEW f, NEW r, NEW rs, Reading(log, k, q, f, r, rs)
    PROVE  \/ AtEnd(log, k, q, f, r, rs)
           \/ CutOff(log, k, FALSE, f, r, rs)
<1>1. ASSUME NEW i \in 1..Len(Lines(log)), NEW c \in 1..5, NEW p, InColumn(log, k, q, f, r, rs, i, c, p)
      PROVE  CutOff(log, k, FALSE, f, r, rs)
  <2> DEFINE text == Lines(log)[i][c]
             e == Encoded(log, text)
             s == Start(log, i, c)
             after == After(log, c)
             whole == Whole(log)
  <2>0. text = Lines(log)[i][c] /\ e = Encoded(log, text) /\ s = Start(log, i, c) /\ after = After(log, c) /\ whole = Whole(log)
    OBVIOUS
  <2>1. after \in {<<Comma>>, <<Newline>>, <<Return, Newline>>}
    BY AfterIs
  <2>2. Len(after) >= 1
    BY <2>1
  <2> HIDE DEF text, e, s, after, whole
  <2>3. ColumnAt(log, k, q, f, r, rs, i, c, p, text, e, s, after)
    BY <1>1, <2>0, ColumnIs, Zenon
  <2>4. p \in 0..Len(e) /\ Len(e) \in Nat /\ f \in Texts /\ LaidOut(whole, s, e, after) /\ k = s + p /\ Before(log, i, c, r, rs)
    BY <2>0, <2>3 DEF ColumnAt
  <2>5. s \in Nat /\ Len(after) \in Nat /\ Len(whole) \in Nat /\ s + Len(e) + Len(after) <= Len(whole)
    BY <2>4 DEF LaidOut
  <2>6. k < Len(whole)
    BY <2>2, <2>4, <2>5
  <2> QED
    BY <2>0, <2>4, <2>6 DEF CutOff
<1>2. ASSUME NEW i \in 1..Len(Lines(log)), InEnding(log, k, q, f, r, rs, i)
      PROVE  CutOff(log, k, FALSE, f, r, rs)
  <2> DEFINE text == Lines(log)[i][5]
             e == Encoded(log, text)
             s == Start(log, i, 5)
             after == After(log, 5)
  <2>1. /\ log.ending = <<Return, Newline>> /\ k = s + Len(e) + 1 /\ f = Append(text, Return)
        /\ Before(log, i, 5, r, rs)
    BY <1>2 DEF InEnding
  <2>2. text \in Texts /\ 5 \in 1..5
    BY LineShape
  <2>3. LaidOut(Whole(log), s, e, after)
    BY <2>2, Layout
  <2>4. after = <<Return, Newline>>
    BY <2>1 DEF After
  <2> HIDE DEF text, e, s, after
  <2>5. Len(after) = 2
    BY <2>4
  <2>6. s \in Nat /\ Len(e) \in Nat /\ Len(Whole(log)) \in Nat /\ s + Len(e) + Len(after) <= Len(Whole(log))
    BY <2>3 DEF LaidOut
  <2>7. k < Len(Whole(log))
    BY <2>1, <2>5, <2>6
  <2>8. f \in Texts
    BY <2>1, <2>2, Writings DEF Texts
  <2> QED
    BY <2>1, <2>2, <2>7, <2>8 DEF CutOff
<1> QED
  BY <1>1, <1>2 DEF Reading

\* A text without half a line ending is a text.
LEMMA TrimmedText ==
    ASSUME NEW text \in Texts
    PROVE  Trimmed(text) \in Texts
BY DEF Trimmed, Texts

\* The row of a line that was cut off in column c.
LEMMA RowShape ==
    ASSUME NEW line \in Seq(Texts), Len(line) = 5, NEW c \in 1..5, NEW last \in Texts
    PROVE  PartOf(Append(SubSeq(line, 1, c - 1), last), line) /\ Append(SubSeq(line, 1, c - 1), last) \in Seq(Texts)
<1> DEFINE r == Append(SubSeq(line, 1, c - 1), last)
<1>1. r \in Seq(Texts) /\ Len(r) = c /\ \A d \in 1..c - 1 : r[d] = line[d]
  <2> DEFINE first == SubSeq(line, 1, c - 1)
  <2>1. c - 1 \in 0..Len(line)
    OBVIOUS
  <2>2. IsFirst(Texts, line, c - 1, first)
    BY <2>1, FirstIs, Zenon
  <2> HIDE DEF first
  <2>3. first \in Seq(Texts)
    BY <2>2 DEF IsFirst
  <2>4. IsAppend(Texts, first, last, Append(first, last))
    BY <2>3, AppendIs, Zenon
  <2>5. IsAppend(Texts, first, last, r)
    BY <2>4 DEF first
  <2> HIDE DEF r
  <2> QED
    BY <2>2, <2>5 DEF IsFirst, IsAppend
<1> HIDE DEF r
<1> QED
  BY <1>1 DEF PartOf, r

\* The rows, as the end of the text leaves them.
AllRows(f, r, rs) == IF f = << >> /\ r = << >> THEN rs ELSE Append(rs, Append(r, Trimmed(f)))

\* Of a file cut off, the rows before the cut are handed on as they were written.
LEMMA CutOffParsed ==
    ASSUME NEW log \in LogRecord, NEW k, NEW f, NEW r, NEW rs, CutOff(log, k, FALSE, f, r, rs), k = Extent(log)
    PROVE  Parsed(log, AllRows(f, r, rs)) /\ log.lost # 0
<1>1. PICK i \in 1..Len(Lines(log)), c \in 1..5 : Before(log, i, c, r, rs)
  BY DEF CutOff
<1>2. log.lost # 0
  BY ExtentIs DEF CutOff
<1> DEFINE lines == Lines(log)
<1>3. /\ lines \in Seq(Seq(Texts)) /\ Len(lines) \in Nat /\ i \in 1..Len(lines)
      /\ \A n \in 1..Len(lines) : lines[n] \in Seq(Texts) /\ Len(lines[n]) = 5
      /\ \A n \in 1..Len(lines) : PartOf(lines[n], lines[n])
  BY LinesAre, PartOfWhole
<1>4. r = SubSeq(lines[i], 1, c - 1) /\ rs = SubSeq(lines, 1, i - 1) /\ f \in Texts
  BY <1>1 DEF Before, CutOff
<1> DEFINE last == Append(r, Trimmed(f))
           more == Append(rs, last)
<1>5. PartOf(last, lines[i]) /\ last \in Seq(Texts)
  <2>1. Trimmed(f) \in Texts /\ lines[i] \in Seq(Texts) /\ Len(lines[i]) = 5
    BY <1>3, <1>4, TrimmedText
  <2> HIDE DEF lines
  <2> QED
    BY <1>4, <2>1, RowShape
<1>6. Parsed(log, rs)
  <2> HIDE DEF lines
  <2>1. rs \in Seq(Seq(Texts)) /\ Len(rs) = i - 1 /\ \A n \in 1..i - 1 : rs[n] = lines[n]
    BY <1>3, <1>4
  <2>2. Len(rs) <= Len(lines) /\ \A n \in 1..Len(rs) : rs[n] = lines[n] /\ PartOf(rs[n], lines[n])
    BY <1>3, <2>1
  <2>3. \A n \in 1..Len(rs) - 1 : n \in 1..Len(rs)
    BY <1>3, <2>1
  <2> QED
    BY <1>2, <2>1, <2>2, <2>3 DEF Parsed, lines
<1>7. Parsed(log, more)
  <2> HIDE DEF lines, last
  <2>1. more \in Seq(Seq(Texts)) /\ Len(more) = i /\ more[i] = last /\ \A n \in 1..i - 1 : more[n] = lines[n]
    <3>0. i - 1 \in 0..Len(lines)
      BY <1>3
    <3>1. IsFirst(Seq(Texts), lines, i - 1, rs)
      BY <1>3, <1>4, <3>0, FirstIs, Zenon
    <3>2. rs \in Seq(Seq(Texts)) /\ last \in Seq(Texts)
      BY <1>5, <3>1 DEF IsFirst
    <3>3. IsAppend(Seq(Texts), rs, last, more)
      BY <3>2, AppendIs, Zenon
    <3> HIDE DEF more
    <3> QED
      BY <1>3, <3>1, <3>3 DEF IsFirst, IsAppend
  <2> HIDE DEF more
  <2>2. ASSUME NEW n \in 1..Len(more) PROVE PartOf(more[n], lines[n])
    <3>1. n = i \/ n \in 1..i - 1
      BY <2>1
    <3>2. n \in 1..Len(lines)
      BY <1>3, <2>1
    <3> QED
      BY <1>3, <1>5, <2>1, <3>1, <3>2
  <2>3. Len(more) <= Len(lines) /\ \A n \in 1..Len(more) - 1 : more[n] = lines[n]
    BY <1>3, <2>1
  <2> QED
    BY <1>2, <2>1, <2>2, <2>3 DEF Parsed, lines
<1> QED
  BY <1>2, <1>6, <1>7 DEF AllRows

\* Wherever the end of the text comes outside quotes, the rows are those of the
\* lines, but for the last row of a file cut off.
LEMMA EndReads ==
    ASSUME NEW log \in LogRecord, NEW k, NEW f, NEW r, NEW rs, k = Extent(log),
           Reading(log, k, FALSE, f, r, rs) \/ CutOff(log, k, FALSE, f, r, rs)
    PROVE  Parsed(log, AllRows(f, r, rs))
<1>1. CASE AtEnd(log, k, FALSE, f, r, rs)
  <2>1. AllRows(f, r, rs) = Lines(log)
    BY <1>1 DEF AtEnd, AllRows
  <2>2. /\ Lines(log) \in Seq(Seq(Texts)) /\ Len(Lines(log)) \in Nat
        /\ \A n \in 1..Len(Lines(log)) : PartOf(Lines(log)[n], Lines(log)[n])
    BY LinesAre, PartOfWhole
  <2>3. Len(Lines(log)) <= Len(Lines(log))
    BY <2>2
  <2> QED
    BY <2>1, <2>2, <2>3 DEF Parsed
<1>2. CASE CutOff(log, k, FALSE, f, r, rs)
  BY <1>2, CutOffParsed
<1> QED
  BY <1>1, <1>2, ReadingIs

\* What is left to judge when the rows are well formed, and why they are not.
LEMMA ParsedToJudge ==
    ASSUME NEW log \in LogRecord, NEW all, Parsed(log, all), NEW read, read = Kept(all)
    PROVE  /\ WellFormed(read) => /\ Remaining(log, IF read = << >> THEN << >> ELSE Tail(read), 0)
                                  /\ (IF read = << >> THEN << >> ELSE Tail(read)) # << >>
           /\ ~WellFormed(read) => log.lost # 0 \/ log.efforts = << >>
<1> DEFINE lines == Lines(log)
           m == Len(log.efforts)
<1>1. /\ lines \in Seq(Seq(Texts)) /\ Len(lines) = m + 1 /\ m \in Nat /\ lines[1] = Header
      /\ \A j \in 1..m : lines[j + 1] = Columns(log.efforts[j])
  BY LinesAre, LogIs
<1>2. /\ all \in Seq(Seq(Texts)) /\ Len(all) <= Len(lines)
      /\ \A n \in 1..Len(all) - 1 : all[n] = lines[n]
      /\ \A n \in 1..Len(all) : PartOf(all[n], lines[n])
      /\ log.lost = 0 => all = lines
  BY DEF Parsed
<1>3. ASSUME NEW n \in 1..Len(lines) PROVE ~Blank(lines[n])
  <2>1. lines[n] \in Seq(Texts) /\ Len(lines[n]) = 5 /\ lines[n][5] # << >>
    BY LinesAre, LineShape
  <2>2. 5 \in DOMAIN lines[n]
    BY <2>1
  <2> QED
    BY <2>1, <2>2 DEF Blank
<1> HIDE DEF lines, m
<1>4. Len(all) \in Nat
  BY <1>2
<1>5. \A n \in 1..Len(all) - 1 : ~Blank(all[n])
  <2>1. \A n \in 1..Len(all) - 1 : n \in 1..Len(lines)
    BY <1>1, <1>2, <1>4
  <2> QED
    BY <1>2, <1>3, <2>1
<1>6. \/ read = all /\ (Len(all) > 0 => ~Blank(all[Len(all)]))
      \/ Len(all) > 0 /\ Blank(all[Len(all)]) /\ read = SubSeq(all, 1, Len(all) - 1)
  BY <1>2, <1>5, KeptIs
<1>7. /\ read \in Seq(Seq(Texts)) /\ Len(read) \in Nat /\ Len(read) <= m + 1
      /\ \A n \in 1..Len(read) : PartOf(read[n], lines[n])
  <2>1. CASE read = all
    BY <1>1, <1>2, <1>4, <2>1
  <2>2. CASE Len(all) > 0 /\ read = SubSeq(all, 1, Len(all) - 1)
    <3>1. /\ read \in Seq(Seq(Texts)) /\ Len(read) = Len(all) - 1
          /\ \A n \in 1..Len(all) - 1 : read[n] = all[n] /\ n \in 1..Len(all)
      <4>1. Len(all) - 1 \in 0..Len(all) /\ \A n \in 1..Len(all) - 1 : n \in 1..Len(all)
        BY <1>4, <2>2
      <4>2. IsFirst(Seq(Texts), all, Len(all) - 1, read)
        BY <1>2, <2>2, <4>1, FirstIs, Zenon
      <4> QED
        BY <4>1, <4>2 DEF IsFirst
    <3>2. Len(read) \in Nat /\ Len(read) <= m + 1
      BY <1>1, <1>2, <1>4, <2>2, <3>1
    <3> QED
      BY <1>2, <3>1, <3>2
  <2> QED
    BY <1>6, <2>1, <2>2
<1>8. log.lost = 0 => read = lines
  <2>1. SUFFICES ASSUME log.lost = 0 PROVE read = lines
    OBVIOUS
  <2>2. all = lines /\ Len(all) \in 1..Len(lines)
    BY <1>1, <1>2, <2>1
  <2>3. ~Blank(all[Len(all)])
    BY <1>3, <2>2
  <2> QED
    BY <1>6, <2>2, <2>3
<1>9. ASSUME WellFormed(read)
      PROVE  Remaining(log, Tail(read), 0) /\ Tail(read) # << >> /\ read # << >>
  <2>1. Len(read) > 1
    BY <1>9 DEF WellFormed
  <2> DEFINE left == Tail(read)
  <2>2. left \in Seq(Seq(Texts)) /\ Len(left) = Len(read) - 1 /\ \A n \in 1..Len(read) - 1 : left[n] = read[n + 1]
    BY <1>7, <2>1
  <2> HIDE DEF left
  <2>3. left # << >> /\ read # << >>
    BY <1>7, <2>1, <2>2
  <2>4. 0 + Len(left) <= m
    BY <1>1, <1>7, <2>2
  <2>5. ASSUME NEW n \in 1..Len(left) PROVE PartOf(left[n], Columns(log.efforts[0 + n]))
    <3>1. n \in 1..Len(read) - 1 /\ n + 1 \in 1..Len(read) /\ n \in 1..m /\ 0 + n = n
      BY <1>1, <1>7, <2>2
    <3> QED
      BY <1>1, <1>7, <2>2, <3>1
  <2>6. ASSUME log.lost = 0, NEW n \in 1..Len(left) PROVE left[n] = Columns(log.efforts[0 + n])
    <3>1. n \in 1..Len(read) - 1 /\ n \in 1..m /\ 0 + n = n
      BY <1>1, <1>7, <2>2
    <3> QED
      BY <1>1, <1>8, <2>2, <2>6, <3>1
  <2>7. log.lost = 0 => 0 + Len(left) = m
    BY <1>1, <1>8, <2>2
  <2> QED
    BY <2>2, <2>3, <2>4, <2>5, <2>6, <2>7 DEF Remaining, left, m
<1>10. ASSUME ~WellFormed(read), log.lost = 0 PROVE log.efforts = << >>
  <2>1. read = lines
    BY <1>8, <1>10
  <2>2. lines # << >> /\ Head(lines) = lines[1]
    BY <1>1
  <2>3. ~(m + 1 > 1)
    BY <1>1, <1>10, <2>1, <2>2 DEF WellFormed
  <2>4. m = 0
    BY <1>1, <2>3
  <2> QED
    BY <2>4, LogIs DEF m
<1> QED
  BY <1>9, <1>10

\* One more effort.
LEMMA Judging ==
    ASSUME NEW log \in LogRecord, NEW left, NEW m \in Nat, Remaining(log, left, m), left # << >>,
           NEW r, r = Head(left)
    PROVE  /\ m + 1 \in 1..Len(log.efforts) /\ Remaining(log, Tail(left), m + 1)
           /\ Acceptable(r) => /\ Good(log.efforts[m + 1])
                               /\ r[1] = log.efforts[m + 1].name /\ Number(r[4]) = Cost(log.efforts[m + 1])
           /\ ~Acceptable(r) => log.lost # 0 \/ ~Good(log.efforts[m + 1])
<1> DEFINE l == Len(log.efforts)
           more == Tail(left)
           effort == log.efforts[m + 1]
           line == Columns(effort)
<1>1. /\ left \in Seq(Seq(Texts)) /\ m + Len(left) <= l
      /\ \A n \in 1..Len(left) : PartOf(left[n], Columns(log.efforts[m + n]))
      /\ log.lost = 0 => /\ m + Len(left) = l
                         /\ \A n \in 1..Len(left) : left[n] = Columns(log.efforts[m + n])
  BY DEF Remaining
<1>2. Len(left) \in Nat /\ Len(left) > 0 /\ r = left[1] /\ 1 \in 1..Len(left) /\ l \in Nat
  BY <1>1, LogIs
<1>3. more \in Seq(Seq(Texts)) /\ Len(more) = Len(left) - 1 /\ \A n \in 1..Len(left) - 1 : more[n] = left[n + 1]
  BY <1>1, <1>2
<1> HIDE DEF l, more
<1>4. m + 1 \in 1..l
  BY <1>1, <1>2
<1>5. Remaining(log, more, m + 1)
  <2>1. \A n \in 1..Len(more) : n + 1 \in 1..Len(left) /\ n \in 1..Len(left) - 1 /\ m + (n + 1) = (m + 1) + n
    BY <1>2, <1>3
  <2>2. (m + 1) + Len(more) = m + Len(left)
    BY <1>2, <1>3
  <2>3. \A n \in 1..Len(more) : PartOf(more[n], Columns(log.efforts[(m + 1) + n]))
    <3>1. ASSUME NEW n \in 1..Len(more) PROVE PartOf(more[n], Columns(log.efforts[(m + 1) + n]))
      <4>1. PartOf(left[n + 1], Columns(log.efforts[m + (n + 1)]))
        BY <1>1, <2>1
      <4>2. more[n] = left[n + 1] /\ m + (n + 1) = (m + 1) + n
        BY <1>3, <2>1
      <4> QED
        BY <4>1, <4>2
    <3> QED
      BY <3>1
  <2>4. ASSUME log.lost = 0, NEW n \in 1..Len(more) PROVE more[n] = Columns(log.efforts[(m + 1) + n])
    <3>1. left[n + 1] = Columns(log.efforts[m + (n + 1)])
      BY <1>1, <2>1, <2>4
    <3>2. more[n] = left[n + 1] /\ m + (n + 1) = (m + 1) + n
      BY <1>3, <2>1
    <3> QED
      BY <3>1, <3>2
  <2> QED
    BY <1>1, <1>3, <2>2, <2>3, <2>4 DEF Remaining, l
<1>6. effort \in EffortRecord
  BY <1>4, LogIs DEF l
<1>7. /\ line \in Seq(Texts) /\ Len(line) = 5
      /\ line[1] = effort.name /\ line[2] = effort.outcome /\ line[3] = effort.took /\ line[4] = effort.cost
  BY <1>6, ColumnsAre
<1>8. PartOf(r, line) /\ (log.lost = 0 => r = line)
  BY <1>1, <1>2
<1> HIDE DEF effort, line
<1>9. Good(effort) <=> Acceptable(line)
  BY DEF Good, line
<1>10. ASSUME Acceptable(r)
       PROVE  Acceptable(line) /\ r[1] = effort.name /\ Number(r[4]) = Cost(effort)
  <2>1. Len(r) = 5
    BY <1>10, HeaderAssumption DEF Acceptable
  <2>2. \A d \in 1..5 - 1 : r[d] = line[d]
    BY <1>8, <2>1 DEF PartOf
  <2>3. r[1] = line[1] /\ r[2] = line[2] /\ r[3] = line[3] /\ r[4] = line[4]
    BY <2>2
  <2>4. Acceptable(line)
    BY <1>7, <1>10, <2>1, <2>3 DEF Acceptable
  <2> QED
    BY <1>7, <2>3, <2>4 DEF Cost
<1>11. ~Acceptable(r) => log.lost # 0 \/ ~Acceptable(line)
  BY <1>8
<1> QED
  BY <1>4, <1>5, <1>9, <1>10, <1>11 DEF l, more, effort

-----------------------------------------------------------------------------
(* The invariant.                                                          *)

\* While a file is read: how far the parser has come.
ReadInv(log) ==
    \E k \in 0..Extent(log) :
      /\ rest = Rest(log, k)
      /\ \/ Reading(log, k, quoted, field, row, rows)
         \/ k = Extent(log) /\ CutOff(log, k, quoted, field, row, rows)

\* While a file is judged: which efforts are counted, and what is left.
JudgeInv(log) ==
    /\ summary.efforts \in 0..Len(log.efforts)
    /\ Remaining(log, rows, summary.efforts)
    /\ Summed(SubSeq(log.efforts, 1, summary.efforts), summary)
    /\ \A j \in 1..summary.efforts : Good(log.efforts[j])
    /\ summary.efforts = 0 => rows # << >>

\* A file that has been summarised.
Summarised(log, tally) ==
    /\ tally \in TallyRecord
    /\ tally.efforts \in 1..Len(log.efforts)
    /\ log.lost = 0 => tally.efforts = Len(log.efforts)
    /\ \A j \in 1..tally.efforts : Good(log.efforts[j])
    /\ Tallies(SubSeq(log.efforts, 1, tally.efforts), tally)

\* The files summarised are the first ones.
ModulesInv ==
    /\ modules \in Seq(TallyRecord) /\ Len(modules) <= Len(logs)
    /\ \A i \in 1..Len(modules) : Summarised(logs[i], modules[i])

\* What a failure may be blamed on.
Excuse(log) ==
    log.efforts = << >> \/ log.lost # 0 \/ \E j \in 1..Len(log.efforts) : ~Good(log.efforts[j])

\* The inductive invariant.
EffortsInv ==
    /\ logs \in Seq(LogRecord) /\ ModulesInv
    /\ effortPhase \in {"open", "read", "judge", "done", "failed"}
    /\ effortPhase \in {"read", "judge"} => File <= Len(logs)
    /\ effortPhase = "read" => ReadInv(logs[File])
    /\ effortPhase = "judge" => JudgeInv(logs[File])
    /\ effortPhase = "done" => Len(modules) = Len(logs) /\ logs # << >> /\ summary = Total(modules)
    /\ effortPhase = "failed" => logs = << >> \/ \E i \in 1..Len(logs) : Excuse(logs[i])

\* The present file is one of the directory.
LEMMA FileIs ==
    ASSUME EffortsInv, File <= Len(logs)
    PROVE  File \in 1..Len(logs) /\ logs[File] \in LogRecord
BY DEF EffortsInv, ModulesInv, File

\* A file is opened before its first column.
LEMMA OpenFileKeeps ==
    ASSUME EffortsInv, OpenFile
    PROVE  EffortsInv'
<1> DEFINE log == logs[File]
<1>1. /\ effortPhase = "open" /\ File <= Len(logs) /\ effortPhase' = "read" /\ rest' = FileText(log)
      /\ quoted' = FALSE /\ field' = << >> /\ row' = << >> /\ rows' = << >>
      /\ logs' = logs /\ summary' = summary /\ modules' = modules
  BY DEF OpenFile
<1>2. File' = File
  BY <1>1 DEF File
<1>3. log \in LogRecord
  BY <1>1, FileIs
<1> HIDE DEF log
<1>4. rest' = Rest(log, 0) /\ 0 \in 0..Extent(log)
  BY <1>1, <1>3, ExtentIs
<1>5. Reading(log, 0, FALSE, << >>, << >>, << >>)
  BY <1>3, ReadingStarts
<1>6. ReadInv(log)'
  <2>1. log' = log
    BY <1>1, <1>2 DEF log
  <2>2. \E k \in 0..Extent(log) : rest' = Rest(log, k) /\ Reading(log, k, quoted', field', row', rows')
    BY <1>1, <1>4, <1>5
  <2> QED
    BY <2>1, <2>2 DEF ReadInv
<1>7. ModulesInv'
  BY <1>1 DEF EffortsInv, ModulesInv
<1>8. (logs[File])' = log'
  BY DEF log
<1>9. ReadInv(logs[File])'
  BY <1>6 DEF log
<1> QED
  BY <1>1, <1>2, <1>7, <1>9 DEF EffortsInv

\* What a step of the parser has to show.
LEMMA ReadKeeps ==
    ASSUME EffortsInv, effortPhase = "read", NEW log, log = logs[File],
           effortPhase' = "read", logs' = logs, modules' = modules,
           NEW k \in 0..Extent(log), rest' = Rest(log, k),
           \/ Reading(log, k, quoted', field', row', rows')
           \/ k = Extent(log) /\ CutOff(log, k, quoted', field', row', rows')
    PROVE  EffortsInv'
<1>1. File' = File
  BY DEF File
<1>2. (logs[File])' = log
  BY <1>1
<1>3. \E j \in 0..Extent(log) :
        /\ rest' = Rest(log, j)
        /\ \/ Reading(log, j, quoted', field', row', rows')
           \/ j = Extent(log) /\ CutOff(log, j, quoted', field', row', rows')
  OBVIOUS
<1>4. ReadInv(logs[File])'
  BY <1>2, <1>3 DEF ReadInv
<1>5. ModulesInv'
  BY DEF EffortsInv, ModulesInv
<1>6. (File <= Len(logs))'
  BY <1>1 DEF EffortsInv
<1> QED
  BY <1>4, <1>5, <1>6 DEF EffortsInv

\* Reading within quotes keeps the invariant.
LEMMA ReadQuotedKeeps ==
    ASSUME EffortsInv, ReadQuoted
    PROVE  EffortsInv'
<1> DEFINE log == logs[File]
           doubled == Head(rest) = Quote /\ Len(rest) > 1 /\ rest[2] = Quote
<1>1. /\ effortPhase = "read" /\ rest # << >> /\ quoted
      /\ effortPhase' = "read" /\ logs' = logs /\ modules' = modules /\ row' = row /\ rows' = rows
      /\ \/ doubled /\ field' = Append(field, Quote) /\ quoted' = quoted /\ rest' = SubSeq(rest, 2 + 1, Len(rest))
         \/ ~doubled /\ Head(rest) = Quote /\ quoted' = FALSE /\ field' = field /\ rest' = SubSeq(rest, 1 + 1, Len(rest))
         \/ Head(rest) # Quote /\ field' = Append(field, Head(rest)) /\ quoted' = quoted /\ rest' = SubSeq(rest, 1 + 1, Len(rest))
  BY DEF ReadQuoted, Skip
<1>2. File <= Len(logs) /\ ReadInv(log)
  BY <1>1 DEF EffortsInv
<1>3. log \in LogRecord
  BY <1>2, FileIs
<1> DEFINE whole == Whole(log)
           x == Extent(log)
<1>4. PICK k \in 0..x :
        /\ rest = Rest(log, k)
        /\ \/ Reading(log, k, quoted, field, row, rows)
           \/ k = x /\ CutOff(log, k, quoted, field, row, rows)
  BY <1>2 DEF ReadInv
<1> HIDE DEF log
<1>5. /\ Len(rest) = x - k /\ x \in Nat /\ (rest = << >> <=> k = x)
      /\ k < x => Head(rest) = whole[k + 1]
      /\ k + 1 < x => rest[2] = whole[k + 2]
      /\ \A n \in 1..2 : k + n <= x => SubSeq(rest, n + 1, Len(rest)) = Rest(log, k + n)
  BY <1>3, <1>4, RestIs
<1>6. k < x /\ Head(rest) = whole[k + 1] /\ SubSeq(rest, 1 + 1, Len(rest)) = Rest(log, k + 1) /\ k + 1 \in 0..x
  <2>1. k < x /\ 1 \in 1..2 /\ k + 1 <= x
    BY <1>1, <1>4, <1>5
  <2> QED
    BY <1>5, <2>1
<1>7. Reading(log, k, TRUE, field, row, rows)
  BY <1>1, <1>4, <1>6 DEF CutOff
<1>8. /\ QuotedStep(log, k, field, row, rows) /\ k \in Nat /\ field \in Texts
      /\ \E i \in 1..Len(Lines(log)), c \in 1..5 : Before(log, i, c, row, rows)
  BY <1>3, <1>7, QuotedReads
<1>9. /\ k + 1 < Len(whole)
      /\ whole[k + 1] # Quote => Reading(log, k + 1, TRUE, Append(field, whole[k + 1]), row, rows)
      /\ whole[k + 1] = Quote /\ whole[k + 2] = Quote => Reading(log, k + 2, TRUE, Append(field, Quote), row, rows)
      /\ whole[k + 1] = Quote /\ whole[k + 2] # Quote => Reading(log, k + 1, FALSE, field, row, rows)
  BY <1>8 DEF QuotedStep
<1> DEFINE Goal == EffortsInv'
<1>10. ASSUME NEW j \in 0..x, rest' = Rest(log, j),
              \/ Reading(log, j, quoted', field', row', rows')
              \/ j = x /\ CutOff(log, j, quoted', field', row', rows')
       PROVE  EffortsInv'
  <2>1. log = logs[File]
    BY DEF log
  <2> QED
    BY <1>1, <1>10, <2>1, ReadKeeps, Zenon
<1> HIDE DEF whole, x
<1>11. quoted = TRUE
  <2>1. CASE Reading(log, k, quoted, field, row, rows)
    BY <1>1, <2>1, <1>7
  <2> QED
    BY <1>1
<1>12. CASE doubled /\ field' = Append(field, Quote) /\ quoted' = quoted /\ rest' = SubSeq(rest, 2 + 1, Len(rest))
  <2>1. k + 1 < x /\ k + 2 <= x /\ k + 2 \in 0..x /\ 2 \in 1..2
    BY <1>4, <1>5, <1>6, <1>12
  <2>2. whole[k + 1] = Quote /\ whole[k + 2] = Quote /\ rest' = Rest(log, k + 2)
    BY <1>5, <1>6, <1>12, <2>1
  <2>3. Reading(log, k + 2, quoted', field', row', rows')
    BY <1>1, <1>9, <1>11, <1>12, <2>2
  <2> QED
    BY <1>10, <2>1, <2>2, <2>3
<1>13. CASE ~doubled /\ Head(rest) = Quote /\ quoted' = FALSE /\ field' = field /\ rest' = SubSeq(rest, 1 + 1, Len(rest))
  <2>1. whole[k + 1] = Quote /\ rest' = Rest(log, k + 1)
    BY <1>6, <1>13
  <2>2. CASE whole[k + 2] # Quote
    <3>1. Reading(log, k + 1, quoted', field', row', rows')
      BY <1>1, <1>9, <1>13, <2>1, <2>2
    <3> QED
      BY <1>6, <1>10, <2>1, <3>1
  <2>3. CASE whole[k + 2] = Quote
    <3>1. k + 1 = x
      BY <1>4, <1>5, <1>6, <1>13, <2>1, <2>3
    <3>2. CutOff(log, k + 1, quoted', field', row', rows')
      BY <1>1, <1>8, <1>9, <1>13 DEF CutOff, whole
    <3> QED
      BY <1>6, <1>10, <2>1, <3>1, <3>2
  <2> QED
    BY <2>2, <2>3
<1>14. CASE Head(rest) # Quote /\ field' = Append(field, Head(rest)) /\ quoted' = quoted /\ rest' = SubSeq(rest, 1 + 1, Len(rest))
  <2>1. whole[k + 1] # Quote /\ rest' = Rest(log, k + 1)
    BY <1>6, <1>14
  <2>2. Reading(log, k + 1, quoted', field', row', rows')
    BY <1>1, <1>6, <1>9, <1>11, <1>14, <2>1
  <2> QED
    BY <1>6, <1>10, <2>1, <2>2
<1> QED
  BY <1>1, <1>12, <1>13, <1>14

\* Reading outside quotes keeps the invariant.
LEMMA ReadPlainKeeps ==
    ASSUME EffortsInv, ReadPlain
    PROVE  EffortsInv'
<1> DEFINE log == logs[File]
           ch == Head(rest)
<1>1. /\ effortPhase = "read" /\ rest # << >> /\ ~quoted
      /\ effortPhase' = "read" /\ logs' = logs /\ modules' = modules
      /\ rest' = SubSeq(rest, 1 + 1, Len(rest))
  BY DEF ReadPlain, Skip
<1>2. /\ ch = Quote => quoted' = TRUE /\ field' = field /\ row' = row /\ rows' = rows
      /\ ch = Comma => quoted' = quoted /\ field' = << >> /\ row' = Append(row, field) /\ rows' = rows
      /\ ch = Newline => quoted' = quoted /\ field' = << >> /\ row' = << >> /\ rows' = Append(rows, Append(row, Trimmed(field)))
      /\ ch # Quote /\ ch # Comma /\ ch # Newline =>
           quoted' = quoted /\ field' = Append(field, ch) /\ row' = row /\ rows' = rows
  BY Different DEF ReadPlain, RowWith, Trimmed
<1>3. File <= Len(logs) /\ ReadInv(log)
  BY <1>1 DEF EffortsInv
<1>4. log \in LogRecord
  BY <1>3, FileIs
<1> DEFINE x == Extent(log)
<1>5. PICK k \in 0..x :
        /\ rest = Rest(log, k)
        /\ \/ Reading(log, k, quoted, field, row, rows)
           \/ k = x /\ CutOff(log, k, quoted, field, row, rows)
  BY <1>3 DEF ReadInv
<1>6. log = logs[File]
  OBVIOUS
<1> HIDE DEF log
<1>7. k < x /\ ch = Whole(log)[k + 1] /\ rest' = Rest(log, k + 1) /\ k + 1 \in 0..x
  <2>1. /\ Len(rest) = x - k /\ x \in Nat /\ (rest = << >> <=> k = x)
        /\ k < x => Head(rest) = Whole(log)[k + 1]
        /\ \A n \in 1..2 : k + n <= x => SubSeq(rest, n + 1, Len(rest)) = Rest(log, k + n)
    BY <1>4, <1>5, RestIs
  <2>2. k < x /\ 1 \in 1..2 /\ k + 1 <= x
    BY <1>1, <1>5, <2>1
  <2> QED
    BY <1>1, <2>1, <2>2
<1>8. Reading(log, k, quoted, field, row, rows) /\ k < Len(Whole(log))
  BY <1>4, <1>5, <1>7, ExtentIs
<1>9. quoted = FALSE
  <2>1. quoted \in BOOLEAN
    <3>1. ASSUME NEW i \in 1..Len(Lines(log)), NEW c \in 1..5, NEW p, InColumn(log, k, quoted, field, row, rows, i, c, p)
          PROVE  quoted \in BOOLEAN
      BY <3>1 DEF InColumn, ReadOf
    <3> QED
      BY <1>8, <3>1 DEF Reading, InEnding, AtEnd
  <2> QED
    BY <1>1, <2>1
<1>10. PlainStep(log, k, field, row, rows, ch)
  <2> HIDE DEF ch
  <2> QED
    BY <1>4, <1>7, <1>8, <1>9, PlainReads
<1> HIDE DEF ch, x
<1>11. Reading(log, k + 1, quoted', field', row', rows')
  <2>1. CASE ch = Quote
    BY <1>2, <1>10, <2>1 DEF PlainStep
  <2>2. CASE ch = Comma
    BY <1>2, <1>9, <1>10, <2>2 DEF PlainStep
  <2>3. CASE ch = Newline
    BY <1>2, <1>9, <1>10, <2>3 DEF PlainStep
  <2>4. CASE ch # Quote /\ ch # Comma /\ ch # Newline
    BY <1>2, <1>9, <1>10, <2>4 DEF PlainStep
  <2> QED
    BY <2>1, <2>2, <2>3, <2>4
<1> QED
  BY <1>1, <1>6, <1>7, <1>11, ReadKeeps DEF x

\* The parser is within quotes or not.
LEMMA QuotedOrNot ==
    ASSUME NEW log, NEW k, NEW q, NEW f, NEW r, NEW rs, Reading(log, k, q, f, r, rs)
    PROVE  q \in BOOLEAN
<1>1. ASSUME NEW i \in 1..Len(Lines(log)), NEW c \in 1..5, NEW p, InColumn(log, k, q, f, r, rs, i, c, p)
      PROVE  q \in BOOLEAN
  BY <1>1 DEF InColumn, ReadOf
<1> QED
  BY <1>1 DEF Reading, InEnding, AtEnd

\* What the parser hands on are the efforts of the file, or it has an excuse.
LEMMA EndOfTextKeeps ==
    ASSUME EffortsInv, EndOfText
    PROVE  EffortsInv'
<1> DEFINE log == logs[File]
           all == AllRows(field, row, rows)
           read == Kept(all)
           left == IF read = << >> THEN << >> ELSE Tail(read)
<1>1. /\ effortPhase = "read" /\ rest = << >> /\ logs' = logs /\ modules' = modules
  BY DEF EndOfText
<1>2. quoted => effortPhase' = "failed"
  BY DEF EndOfText
<1>3. ~quoted => /\ effortPhase' = IF WellFormed(read) THEN "judge" ELSE "failed"
                 /\ rows' = left /\ summary' = Nothing
  BY DEF EndOfText, AllRows, RowWith, Trimmed
<1>4. File <= Len(logs) /\ ReadInv(log)
  BY <1>1 DEF EffortsInv
<1>5. log \in LogRecord /\ File \in 1..Len(logs)
  BY <1>4, FileIs
<1>6. PICK k \in 0..Extent(log) :
        /\ rest = Rest(log, k)
        /\ \/ Reading(log, k, quoted, field, row, rows)
           \/ k = Extent(log) /\ CutOff(log, k, quoted, field, row, rows)
  BY <1>4 DEF ReadInv
<1>7. log = logs[File]
  OBVIOUS
<1> HIDE DEF log
<1>8. k = Extent(log)
  BY <1>1, <1>5, <1>6, RestIs
<1>9. File' = File /\ (logs[File])' = log /\ Len(logs)' = Len(logs)
  BY <1>1, <1>7 DEF File
<1>10. ModulesInv' /\ logs' \in Seq(LogRecord)
  BY <1>1 DEF EffortsInv, ModulesInv
<1>11. ASSUME effortPhase' = "failed", log.lost # 0 \/ log.efforts = << >> PROVE EffortsInv'
  <2>1. Excuse(log)
    BY <1>11 DEF Excuse
  <2>2. \E i \in 1..Len(logs') : Excuse(logs'[i])
    BY <1>1, <1>5, <1>7, <2>1
  <2> QED
    BY <1>10, <1>11, <2>2 DEF EffortsInv
<1>12. CASE quoted
  <2>1. Reading(log, k, quoted, field, row, rows)
    BY <1>6, <1>12 DEF CutOff
  <2>2. quoted = TRUE
    BY <1>12, <2>1, QuotedOrNot
  <2>3. QuotedStep(log, k, field, row, rows) /\ k \in Nat
    BY <1>5, <2>1, <2>2, QuotedReads
  <2>4. k + 1 < Len(Whole(log))
    BY <2>3 DEF QuotedStep
  <2>5. log.lost # 0
    BY <1>5, <1>8, <2>3, <2>4, ExtentIs
  <2> QED
    BY <1>2, <1>11, <1>12, <2>5
<1>13. CASE ~quoted
  <2>1. quoted = FALSE
    BY <1>6, <1>13, QuotedOrNot DEF CutOff
  <2>2. Parsed(log, all)
    <3>1. Reading(log, k, FALSE, field, row, rows) \/ CutOff(log, k, FALSE, field, row, rows)
      BY <1>6, <2>1
    <3> QED
      BY <1>5, <1>8, <3>1, EndReads
  <2>3. read = Kept(all)
    OBVIOUS
  <2> HIDE DEF all, read
  <2>4. /\ WellFormed(read) => Remaining(log, left, 0) /\ left # << >>
        /\ ~WellFormed(read) => log.lost # 0 \/ log.efforts = << >>
    BY <1>5, <2>2, <2>3, ParsedToJudge
  <2> HIDE DEF left
  <2>5. CASE WellFormed(read)
    <3>1. effortPhase' = "judge" /\ rows' = left /\ summary' = Nothing
      BY <1>3, <1>13, <2>5
    <3>2. summary'.efforts = 0
      BY <3>1 DEF Nothing
    <3>3. Len(log.efforts) \in Nat /\ SubSeq(log.efforts, 1, 0) = << >>
      BY <1>5, LogIs
    <3>4. /\ summary'.efforts \in 0..Len(log.efforts)
          /\ Remaining(log, rows', summary'.efforts)
          /\ Summed(SubSeq(log.efforts, 1, summary'.efforts), summary')
          /\ \A j \in 1..summary'.efforts : Good(log.efforts[j])
          /\ summary'.efforts = 0 => rows' # << >>
      BY <2>4, <2>5, <3>1, <3>2, <3>3 DEF Summed
    <3>5. JudgeInv(logs[File])'
      BY <1>9, <3>4 DEF JudgeInv
    <3>6. (File <= Len(logs))'
      BY <1>4, <1>9
    <3> QED
      BY <1>10, <3>1, <3>5, <3>6 DEF EffortsInv
  <2>6. CASE ~WellFormed(read)
    BY <1>3, <1>11, <1>13, <2>4, <2>6
  <2> QED
    BY <2>5, <2>6
<1> QED
  BY <1>12, <1>13

\* An effort that is judged is the next one of the file.
LEMMA JudgeEffortKeeps ==
    ASSUME EffortsInv, JudgeEffort
    PROVE  EffortsInv'
<1> DEFINE log == logs[File]
           r == Head(rows)
           m == summary.efforts
           effort == log.efforts[m + 1]
           more == [efforts |-> summary.efforts + 1,
                    total   |-> summary.total + Number(r[4]),
                    maximum |-> IF Larger(summary.maximum, Number(r[4]))
                                THEN [name |-> r[1], cost |-> Number(r[4])]
                                ELSE summary.maximum]
<1>1. effortPhase = "judge" /\ rows # << >> /\ logs' = logs /\ modules' = modules
  BY DEF JudgeEffort
<1>2. /\ ~Acceptable(r) => effortPhase' = "failed"
      /\ Acceptable(r) => summary' = more /\ rows' = Tail(rows) /\ effortPhase' = effortPhase
  BY DEF JudgeEffort
<1>3. File <= Len(logs) /\ JudgeInv(log)
  BY <1>1 DEF EffortsInv
<1>4. log \in LogRecord /\ File \in 1..Len(logs)
  BY <1>3, FileIs
<1>5. log = logs[File] /\ r = Head(rows) /\ effort = log.efforts[m + 1] /\ m = summary.efforts
  OBVIOUS
<1>6. File' = File /\ (logs[File])' = log /\ Len(logs)' = Len(logs)
  BY <1>1, <1>5 DEF File
<1>7. ModulesInv' /\ logs' \in Seq(LogRecord)
  BY <1>1 DEF EffortsInv, ModulesInv
<1>8. /\ m \in 0..Len(log.efforts) /\ Remaining(log, rows, m)
      /\ Summed(SubSeq(log.efforts, 1, m), summary)
      /\ \A j \in 1..m : Good(log.efforts[j])
  BY <1>3 DEF JudgeInv
<1> HIDE DEF log, r, m
<1>9. m \in Nat /\ Len(log.efforts) \in Nat
  BY <1>4, <1>8, LogIs
<1>10. /\ m + 1 \in 1..Len(log.efforts) /\ Remaining(log, Tail(rows), m + 1)
       /\ Acceptable(r) => /\ Good(effort)
                           /\ r[1] = effort.name /\ Number(r[4]) = Cost(effort)
       /\ ~Acceptable(r) => log.lost # 0 \/ ~Good(effort)
  BY <1>1, <1>4, <1>5, <1>8, <1>9, Judging
<1>11. CASE Acceptable(r)
  <2>1. summary' = more /\ rows' = Tail(rows) /\ effortPhase' = "judge"
    BY <1>1, <1>2, <1>11
  <2>2. more = Added(summary, effort)
    BY <1>10, <1>11 DEF Added
  <2> HIDE DEF more, effort
  <2>3. summary'.efforts = m + 1
    BY <1>5, <2>1, <2>2 DEF Added
  <2>4. log.efforts \in Seq(EffortRecord) /\ effort \in EffortRecord /\ SubSeq(log.efforts, 1, m) \in Seq(EffortRecord)
    BY <1>4, <1>5, <1>8, <1>10, LogIs
  <2>5. Append(SubSeq(log.efforts, 1, m), effort) = SubSeq(log.efforts, 1, m + 1)
    <3>1. (m + 1) - 1 = m
      BY <1>9
    <3>2. Append(SubSeq(log.efforts, 1, (m + 1) - 1), log.efforts[m + 1]) = SubSeq(log.efforts, 1, m + 1)
      BY <1>10, <2>4, Longer, Zenon
    <3> QED
      BY <1>5, <3>1, <3>2, Zenon
  <2>6. Tallies(SubSeq(log.efforts, 1, m + 1), summary') /\ summary' \in TallyRecord
    <3>1. Tallies(Append(SubSeq(log.efforts, 1, m), effort), Added(summary, effort)) /\ Added(summary, effort) \in TallyRecord
      BY <1>8, <2>4, AddedTallies
    <3> QED
      BY <2>1, <2>2, <2>5, <3>1, Zenon
  <2>7. \A j \in 1..m + 1 : Good(log.efforts[j])
    <3>1. \A j \in 1..m + 1 : j \in 1..m \/ j = m + 1
      BY <1>9
    <3> QED
      BY <1>5, <1>8, <1>10, <1>11, <3>1
  <2>8. JudgeInv(log)'
    <3>1. /\ summary'.efforts \in 0..Len(log.efforts)
          /\ Remaining(log, rows', summary'.efforts)
      BY <1>9, <1>10, <2>1, <2>3
    <3>2. Summed(SubSeq(log.efforts, 1, summary'.efforts), summary')
      BY <2>3, <2>6 DEF Summed
    <3>3. \A j \in 1..summary'.efforts : Good(log.efforts[j])
      BY <2>3, <2>7
    <3>4. summary'.efforts # 0
      BY <1>9, <2>3
    <3>5. log' = log
      BY <1>6 DEF log
    <3> QED
      BY <3>1, <3>2, <3>3, <3>4, <3>5 DEF JudgeInv
  <2>9. JudgeInv(logs[File])'
    BY <2>8 DEF log
  <2>10. (File <= Len(logs))'
    BY <1>3, <1>6
  <2> QED
    BY <1>7, <2>1, <2>9, <2>10 DEF EffortsInv
<1>12. CASE ~Acceptable(r)
  <2>1. Excuse(log)
    BY <1>5, <1>10, <1>12 DEF Excuse
  <2>2. \E i \in 1..Len(logs') : Excuse(logs'[i])
    BY <1>1, <1>4, <1>5, <2>1
  <2>3. effortPhase' = "failed"
    BY <1>2, <1>12
  <2> QED
    BY <1>7, <2>2, <2>3 DEF EffortsInv
<1> QED
  BY <1>11, <1>12

\* The summary of a file that is closed is one of its first efforts.
LEMMA CloseFileKeeps ==
    ASSUME EffortsInv, CloseFile
    PROVE  EffortsInv'
<1> DEFINE log == logs[File]
<1>1. /\ effortPhase = "judge" /\ rows = << >> /\ modules' = Append(modules, summary)
      /\ effortPhase' = "open" /\ logs' = logs
  BY DEF CloseFile
<1>2. File <= Len(logs) /\ JudgeInv(log)
  BY <1>1 DEF EffortsInv
<1>3. log \in LogRecord /\ File \in 1..Len(logs)
  BY <1>2, FileIs
<1>4. /\ modules \in Seq(TallyRecord) /\ Len(modules) <= Len(logs) /\ logs \in Seq(LogRecord)
      /\ \A i \in 1..Len(modules) : Summarised(logs[i], modules[i])
  BY DEF EffortsInv, ModulesInv
<1>5. Summarised(log, summary)
  <2> HIDE DEF log
  <2>1. /\ summary.efforts \in 0..Len(log.efforts) /\ Remaining(log, rows, summary.efforts)
        /\ Summed(SubSeq(log.efforts, 1, summary.efforts), summary)
        /\ \A j \in 1..summary.efforts : Good(log.efforts[j])
        /\ summary.efforts # 0
    BY <1>1, <1>2 DEF JudgeInv
  <2>2. Len(log.efforts) \in Nat /\ log.efforts \in Seq(EffortRecord)
    BY <1>3, LogIs
  <2>3. summary.efforts \in 1..Len(log.efforts)
    BY <2>1, <2>2
  <2>4. log.lost = 0 => summary.efforts = Len(log.efforts)
    <3>1. log.lost = 0 => summary.efforts + Len(rows) = Len(log.efforts)
      BY <2>1 DEF Remaining
    <3> QED
      BY <1>1, <2>3, <3>1
  <2>5. SubSeq(log.efforts, 1, summary.efforts) # << >>
    <3>1. IsFirst(EffortRecord, log.efforts, summary.efforts, SubSeq(log.efforts, 1, summary.efforts))
      BY <2>1, <2>2, FirstIs, Zenon
    <3>2. Len(SubSeq(log.efforts, 1, summary.efforts)) = summary.efforts
      BY <3>1 DEF IsFirst
    <3> QED
      BY <2>1, <3>2
  <2>6. Tallies(SubSeq(log.efforts, 1, summary.efforts), summary) /\ summary \in TallyRecord
    BY <2>1, <2>5 DEF Summed
  <2> QED
    BY <2>1, <2>3, <2>4, <2>6 DEF Summarised
<1>6. summary \in TallyRecord
  BY <1>5 DEF Summarised
<1>7. IsAppend(TallyRecord, modules, summary, modules')
  BY <1>1, <1>4, <1>6, AppendIs, Zenon
<1>8. /\ modules' \in Seq(TallyRecord) /\ Len(modules') = Len(modules) + 1 /\ modules'[Len(modules) + 1] = summary
      /\ \A i \in 1..Len(modules) : modules'[i] = modules[i]
  BY <1>7 DEF IsAppend
<1>9. Len(modules) \in Nat /\ File = Len(modules) + 1
  BY <1>4 DEF File
<1>10. ASSUME NEW i \in 1..Len(modules') PROVE Summarised(logs'[i], modules'[i])
  <2>1. CASE i = Len(modules) + 1
    BY <1>1, <1>5, <1>8, <1>9, <2>1
  <2>2. CASE i # Len(modules) + 1
    <3>1. i \in 1..Len(modules)
      BY <1>8, <1>9, <2>2
    <3> QED
      BY <1>1, <1>4, <1>8, <3>1
  <2> QED
    BY <2>1, <2>2
<1>11. ModulesInv'
  <2>1. Len(modules') <= Len(logs')
    BY <1>1, <1>2, <1>8, <1>9
  <2> QED
    BY <1>8, <1>10, <2>1 DEF ModulesInv
<1> QED
  BY <1>1, <1>4, <1>11 DEF EffortsInv

\* The total is one of all efforts counted.
LEMMA PublishSummaryKeeps ==
    ASSUME EffortsInv, PublishSummary
    PROVE  EffortsInv'
<1>1. /\ effortPhase = "open" /\ File > Len(logs) /\ logs' = logs /\ modules' = modules
      /\ effortPhase' = IF logs = << >> THEN "failed" ELSE "done"
      /\ summary' = Total(modules)
  BY DEF PublishSummary
<1>2. ModulesInv' /\ logs' \in Seq(LogRecord)
  BY <1>1 DEF EffortsInv, ModulesInv
<1>3. Len(modules) = Len(logs)
  <2>1. modules \in Seq(TallyRecord) /\ logs \in Seq(LogRecord) /\ Len(modules) <= Len(logs)
    BY DEF EffortsInv, ModulesInv
  <2>2. Len(modules) \in Nat /\ Len(logs) \in Nat
    BY <2>1
  <2> QED
    BY <1>1, <2>1, <2>2 DEF File
<1>4. CASE logs = << >>
  BY <1>1, <1>2, <1>4 DEF EffortsInv
<1>5. CASE logs # << >>
  BY <1>1, <1>2, <1>3, <1>5 DEF EffortsInv
<1> QED
  BY <1>4, <1>5

\* The summary and its parser never leave the invariant.
THEOREM EffortsInvariant == EffortsSpec => []EffortsInv
<1>1. EffortsInit => EffortsInv
  <2>1. SUFFICES ASSUME EffortsInit PROVE EffortsInv
    OBVIOUS
  <2>2. logs \in Directories /\ effortPhase = "open" /\ modules = << >>
    BY <2>1 DEF EffortsInit
  <2>3. logs \in Seq(LogRecord)
    BY <2>2, DirectoriesAssumption
  <2>4. ModulesInv
    BY <2>2, <2>3 DEF ModulesInv
  <2> QED
    BY <2>2, <2>3, <2>4 DEF EffortsInv
<1>2. EffortsInv /\ [EffortsNext]_effortVars => EffortsInv'
  <2>1. SUFFICES ASSUME EffortsInv, [EffortsNext]_effortVars PROVE EffortsInv'
    OBVIOUS
  <2>2. CASE UNCHANGED effortVars
    <3>1. /\ logs' = logs /\ effortPhase' = effortPhase /\ rest' = rest /\ quoted' = quoted /\ field' = field
          /\ row' = row /\ rows' = rows /\ summary' = summary /\ modules' = modules
      BY <2>2 DEF effortVars
    <3> QED
      BY <2>1, <3>1 DEF EffortsInv, ModulesInv, ReadInv, JudgeInv, File
  <2> QED
    BY <2>1, <2>2, OpenFileKeeps, ReadQuotedKeeps, ReadPlainKeeps, EndOfTextKeeps, JudgeEffortKeeps,
       CloseFileKeeps, PublishSummaryKeeps DEF EffortsNext
<1> QED
  BY <1>1, <1>2, PTL DEF EffortsSpec

\* The invariant judges the efforts.
LEMMA EffortsInvJudged ==
    ASSUME EffortsInv
    PROVE  EffortsJudged
<1>1. logs \in Seq(LogRecord) /\ Len(logs) \in Nat /\ DOMAIN logs = 1..Len(logs)
  BY DEF EffortsInv
<1>2. ASSUME effortPhase = "done"
      PROVE  /\ \A i \in DOMAIN logs :
                  /\ modules[i].efforts \in 1..Len(logs[i].efforts)
                  /\ logs[i].lost = 0 => modules[i].efforts = Len(logs[i].efforts)
                  /\ \A j \in DOMAIN Counted(i) : Good(Counted(i)[j])
             /\ Tallies(Ext!FlattenSeq([i \in DOMAIN logs |-> Counted(i)]), summary)
  <2>1. /\ modules \in Seq(TallyRecord) /\ Len(modules) = Len(logs) /\ logs # << >> /\ summary = Total(modules)
        /\ \A i \in 1..Len(logs) : Summarised(logs[i], modules[i])
    BY <1>2 DEF EffortsInv, ModulesInv
  <2>2. ASSUME NEW i \in 1..Len(logs)
        PROVE  /\ modules[i].efforts \in 1..Len(logs[i].efforts)
               /\ logs[i].lost = 0 => modules[i].efforts = Len(logs[i].efforts)
               /\ \A j \in DOMAIN Counted(i) : Good(Counted(i)[j])
               /\ Tallies(Counted(i), modules[i]) /\ Counted(i) \in Seq(EffortRecord)
    <3> DEFINE efforts == logs[i].efforts
               m == modules[i].efforts
    <3>1. Summarised(logs[i], modules[i])
      BY <2>1
    <3>2. efforts \in Seq(EffortRecord) /\ Len(efforts) \in Nat
      BY <1>1, LogIs
    <3>3. /\ m \in 1..Len(efforts) /\ (logs[i].lost = 0 => m = Len(efforts))
          /\ \A j \in 1..m : Good(efforts[j])
          /\ Tallies(SubSeq(efforts, 1, m), modules[i])
      BY <3>1 DEF Summarised
    <3>4. Counted(i) = SubSeq(efforts, 1, m)
      BY DEF Counted
    <3>5. m \in 0..Len(efforts)
      BY <3>2, <3>3
    <3>6. IsFirst(EffortRecord, efforts, m, Counted(i))
      <4> HIDE DEF efforts, m
      <4> QED
        BY <3>2, <3>4, <3>5, FirstIs, Zenon
    <3> HIDE DEF efforts, m
    <3>7. Counted(i) \in Seq(EffortRecord) /\ Len(Counted(i)) = m /\ \A j \in 1..m : Counted(i)[j] = efforts[j]
      BY <3>6 DEF IsFirst
    <3>8. DOMAIN Counted(i) = 1..m
      BY <3>7
    <3>9. \A j \in DOMAIN Counted(i) : Good(Counted(i)[j])
      BY <3>3, <3>7, <3>8
    <3> QED
      BY <3>3, <3>4, <3>7, <3>9 DEF efforts, m
  <2> DEFINE parts == [i \in DOMAIN logs |-> Counted(i)]
  <2>3. \A i \in 1..Len(logs) : parts[i] = Counted(i) /\ parts[i] \in Seq(EffortRecord)
    BY <1>1, <2>2
  <2>4. parts = [i \in 1..Len(logs) |-> parts[i]]
    BY <1>1
  <2> HIDE DEF parts
  <2>5. parts \in Seq(Seq(EffortRecord)) /\ Len(parts) = Len(modules)
    BY <1>1, <2>1, <2>3, <2>4
  <2>6. Len(modules) > 0
    BY <1>1, <2>1
  <2>7. \A i \in 1..Len(modules) : Tallies(parts[i], modules[i])
    BY <2>1, <2>2, <2>3
  <2>8. Tallies(Ext!FlattenSeq(parts), Total(modules))
    BY <2>1, <2>5, <2>6, <2>7, TotalIs
  <2> QED
    BY <1>1, <2>1, <2>2, <2>8 DEF parts
<1>3. ASSUME effortPhase = "failed"
      PROVE  \/ logs = << >>
             \/ \E i \in DOMAIN logs :
                  \/ logs[i].efforts = << >> \/ logs[i].lost > 0
                  \/ \E j \in DOMAIN logs[i].efforts : ~Good(logs[i].efforts[j])
  <2>1. CASE logs = << >>
    BY <2>1
  <2>2. ASSUME NEW i \in 1..Len(logs), Excuse(logs[i])
        PROVE  \E n \in DOMAIN logs :
                  \/ logs[n].efforts = << >> \/ logs[n].lost > 0
                  \/ \E j \in DOMAIN logs[n].efforts : ~Good(logs[n].efforts[j])
    <3>1. logs[i] \in LogRecord
      BY <1>1
    <3>2. logs[i].lost \in Nat /\ DOMAIN logs[i].efforts = 1..Len(logs[i].efforts)
      BY <3>1, LogIs
    <3>3. logs[i].lost # 0 => logs[i].lost > 0
      BY <3>2
    <3> QED
      BY <1>1, <2>2, <3>2, <3>3 DEF Excuse
  <2> QED
    BY <1>3, <2>1, <2>2 DEF EffortsInv
<1> QED
  BY <1>2, <1>3 DEF EffortsJudged

\* A summary of summarize-dafny-verification.mjs that passes has counted the
\* efforts of every file as Dafny wrote them, all of a whole file, none that
\* failed or cost too much, and names the first of the most expensive ones;
\* it fails only for a bad effort, a file without efforts, a file cut off or an
\* empty directory: for any names, costs, numbers of efforts and files, quoted
\* or not, and wherever a file was cut off.
THEOREM EffortsAreJudged == EffortsSpec => []EffortsJudged
<1>1. EffortsInv => EffortsJudged
  BY EffortsInvJudged
<1> QED
  BY <1>1, EffortsInvariant, PTL
=============================================================================
