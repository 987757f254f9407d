-------------------------- MODULE MCBasisSelection --------------------------
(***************************************************************************)
(* One thread selects and two share a Snapshot, on a client of each       *)
(* backend: selections meet each other only through what they share.  One  *)
(* failure, one replaced history, two revisions.  One token lies ahead of  *)
(* the first history, the other names the history that replaces it.        *)
(***************************************************************************)
EXTENDS BasisSelection

Handles == 1 .. 3
Tokens  == {[lifecycle |-> 1, revision |-> 2], [lifecycle |-> 2, revision |-> 1]}
=============================================================================
