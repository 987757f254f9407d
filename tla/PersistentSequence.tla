------------------------- MODULE PersistentSequence -------------------------
(***************************************************************************)
(* What the sequences of the verified kernel promise a caller: immutable   *)
(* values behind handles.  A call answers with a handle, a new one or an   *)
(* old one that already denotes the result, or with a plain value.  No     *)
(* call changes what a handle denotes.                                     *)
(***************************************************************************)
EXTENDS Integers, Sequences, FiniteSets

CONSTANTS
    Element, Literal,  \* elements, and the sequences a caller writes down
    Offset,            \* the numbers a caller slices and indexes with
    Idle,              \* no call is running
    Omitted,           \* an argument left out
    Undefined          \* the answer to an index out of range

VARIABLES
    denotes,    \* denotes[h] is the sequence behind handle h
    call,       \* the call being answered, or Idle
    answer      \* what a call answered and its caller did not take yet

vars == <<denotes, call, answer>>

\* The calls there can be over a set of handles.  index of update is in range
\* by the precondition of the operation it implements.
Calls(handles) ==
    [op : {"of"}, values : Literal]
    \cup [op : {"concat", "equals", "prefix", "properPrefix"}, left : handles, right : handles]
    \cup [op : {"slice"}, of : handles, from : Offset \cup {Omitted}, until : Offset \cup {Omitted}]
    \cup [op : {"select"}, of : handles, index : Offset]
    \cup [op : {"update"}, of : handles, index : Offset \cap Nat, value : Element]
    \cup [op : {"contains"}, of : handles, value : Element]
    \cup [op : {"elements"}, of : handles]

Admissible(c) == c.op = "update" => c.index < Len(denotes[c.of])

\* The position an argument of slice names in n elements: a negative number
\* counts from the end.
Position(argument, n, default) ==
    IF argument = Omitted THEN default
    ELSE IF argument < 0 THEN n + argument ELSE argument

\* The elements at and after `from` and before `until`.
Sliced(s, from, until) ==
    LET n  == Len(s)
        In == { i \in 0..n - 1 : Position(from, n, 0) <= i /\ i < Position(until, n, n) }
    IN IF In = {} THEN << >>
       ELSE LET first == CHOOSE i \in In : \A j \in In : i <= j
            IN SubSeq(s, first + 1, first + Cardinality(In))

Prefixes(s) == { SubSeq(s, 1, n) : n \in 0..Len(s) }

\* The handle answered denotes s.
AnswersHandle(s) ==
    \/ /\ denotes' = Append(denotes, s)
       /\ answer' = [handle |-> Len(denotes) + 1]
    \/ \E h \in DOMAIN denotes : /\ denotes[h] = s
                                 /\ answer' = [handle |-> h]
                                 /\ UNCHANGED denotes

Answers(plain) == answer' = plain /\ UNCHANGED denotes

-----------------------------------------------------------------------------
Init == denotes = << >> /\ call = Idle /\ answer = << >>

Invoke ==
    /\ call = Idle /\ answer = << >>
    /\ \E c \in Calls(DOMAIN denotes) : Admissible(c) /\ call' = c
    /\ UNCHANGED <<denotes, answer>>

\* The caller has its answer.
Take ==
    /\ call = Idle /\ answer # << >>
    /\ answer' = << >>
    /\ UNCHANGED <<denotes, call>>

Reply ==
    /\ call # Idle
    /\ CASE call.op = "of"     -> AnswersHandle(call.values)
         [] call.op = "concat" -> AnswersHandle(denotes[call.left] \o denotes[call.right])
         [] call.op = "slice"  -> AnswersHandle(Sliced(denotes[call.of], call.from, call.until))
         [] call.op = "update" -> AnswersHandle([denotes[call.of] EXCEPT ![call.index + 1] = call.value])
         [] call.op = "select" ->
              Answers([element |-> IF call.index + 1 \in DOMAIN denotes[call.of]
                                   THEN denotes[call.of][call.index + 1] ELSE Undefined])
         [] call.op = "equals" -> Answers([holds |-> denotes[call.left] = denotes[call.right]])
         [] call.op = "prefix" ->
              Answers([holds |-> denotes[call.left] \in Prefixes(denotes[call.right])])
         [] call.op = "properPrefix" ->
              Answers([holds |-> /\ denotes[call.left] \in Prefixes(denotes[call.right])
                                 /\ denotes[call.left] # denotes[call.right]])
         [] call.op = "contains" ->
              Answers([holds |-> \E i \in DOMAIN denotes[call.of] : denotes[call.of][i] = call.value])
         [] call.op = "elements" -> Answers([values |-> denotes[call.of]])
    /\ call' = Idle

Next == Invoke \/ Take \/ Reply

Spec == Init /\ [][Next]_vars
=============================================================================
