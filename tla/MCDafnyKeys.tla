----------------------------- MODULE MCDafnyKeys -----------------------------
(***************************************************************************)
(* One large set for TLC: nine elements, one of them a set, which is one   *)
(* more than the immutable package keeps in a list.                        *)
(***************************************************************************)
EXTENDS DafnyCollections

Atom(n) == [atom |-> 48 + n]

\* The set of the first two atoms, built in either order.
Forward  == [members |-> <<Atom(1), Atom(2)>>]
Backward == [members |-> <<Atom(2), Atom(1)>>]

MCKey        == { Atom(i) : i \in 1..9 } \cup {Forward, Backward}
MCSetLiteral == { [i \in 1..8 |-> Atom(i)] \o <<Forward>>, <<Atom(1), Forward>> }
MCMapLiteral == { << >> }
=============================================================================
