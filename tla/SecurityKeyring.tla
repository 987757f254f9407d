---------------------------- MODULE SecurityKeyring ----------------------------
(***************************************************************************)
(* The controller of the keys that protect cursors and private pages.      *)
(* Its state is one immutable ring in an atom.  Operations read the ring,  *)
(* decide, and install a successor only where the generation they read is  *)
(* still the installed one; add!, activate! and retire! try again when it  *)
(* is not, a full replacement tells its host.  A key identifier names one  *)
(* key for ever: the material behind it is left out.                       *)
(***************************************************************************)
EXTENDS Integers, FiniteSets

CONSTANTS
    Thread,          \* threads of the host
    Kid,             \* key identifiers
    Opening,         \* the rings controllers are constructed with
    MaxKeys,         \* :max-keys
    MaxRetired,      \* :max-retired-kids
    MaxAttempts,     \* maximum-update-attempts, 32 in the code
    MaxGeneration    \* bound on the generations of one controller

ASSUME KeyringBoundsAssumption ==
    /\ MaxKeys \in Nat \ {0} /\ MaxRetired \in Nat
    /\ MaxAttempts \in Nat \ {0} /\ MaxGeneration \in Nat
    /\ IsFiniteSet(Kid)

ASSUME OpeningAssumption ==
    /\ Opening # {}
    /\ \A o \in Opening : o.keys \subseteq Kid /\ o.active \in o.keys

VARIABLES
    ring,           \* the installed ring
    update          \* update[t]: the keyring operation thread t is in

keyringVars == <<ring, update>>

\* One generation of the ring, as every caller may capture it.
Ring ==
    [ generation : 0 .. MaxGeneration, keys : SUBSET Kid, active : Kid,
      retired : SUBSET Kid ]

NoUpdate == [ pc |-> "idle" ]

KeyringInit ==
    /\ \E o \in Opening :
         ring = [ generation |-> 0, keys |-> o.keys, active |-> o.active, retired |-> {} ]
    /\ update = [t \in Thread |-> NoUpdate]

-----------------------------------------------------------------------------
\* What an operation wants of the ring it has read; the others want nothing,
\* because it is so already or because they fail.
Wants(op, kid, prior) ==
    CASE op = "add"      -> kid \notin prior.keys
      [] op = "activate" -> kid \in prior.keys /\ kid # prior.active
      [] op = "retire"   -> kid \in prior.keys /\ kid # prior.active

Desired(op, kid, prior) ==
    CASE op = "add"      -> [ keys |-> prior.keys \cup {kid}, active |-> prior.active ]
      [] op = "activate" -> [ keys |-> prior.keys, active |-> kid ]
      [] op = "retire"   -> [ keys |-> prior.keys \ {kid}, active |-> prior.active ]

\* validated-state: what leaves the ring is retired, and what is retired stays out.
NowRetired(prior, keys) == prior.retired \cup (prior.keys \ keys)

Valid(prior, desired) ==
    /\ desired.active \in desired.keys
    /\ Cardinality(desired.keys) <= MaxKeys
    /\ desired.keys \cap prior.retired = {}
    /\ Cardinality(NowRetired(prior, desired.keys)) <= MaxRetired

Successor(prior, desired) ==
    [ generation |-> prior.generation + 1, keys |-> desired.keys,
      active |-> desired.active, retired |-> NowRetired(prior, desired.keys) ]

-----------------------------------------------------------------------------
Trying(op, kid, attempt) ==
    [ pc |-> "swap", op |-> op, kid |-> kid, attempt |-> attempt,
      prior |-> ring, desired |-> Desired(op, kid, ring) ]

\* add!, activate!, retire!: one read of the ring, and its transform.
BeginUpdate(t) ==
    /\ update[t].pc = "idle"
    /\ ring.generation < MaxGeneration
    /\ \E op \in {"add", "activate", "retire"}, kid \in Kid :
         /\ Wants(op, kid, ring)
         /\ update' = [update EXCEPT ![t] = Trying(op, kid, 1)]
    /\ UNCHANGED ring

\* A host that replaces the full ring of the status it has seen.
BeginReplacement(t) ==
    /\ update[t].pc = "idle"
    /\ ring.generation < MaxGeneration
    /\ \E keys \in SUBSET Kid : \E active \in keys :
         update' = [update EXCEPT ![t] =
                      [ pc |-> "swap", op |-> "replace", prior |-> ring,
                        desired |-> [ keys |-> keys, active |-> active ] ]]
    /\ UNCHANGED ring

\* Mutant: the successor is stored whatever was installed in the meantime.
OverwritesAny(t) == TRUE

\* compare-and-set!: generations number the rings of one controller.
StillInstalled(t) == ring.generation = update[t].prior.generation

\* replace!: check the generation, construct the successor of the ring read,
\* install it.  A ring it may not become fails without a trace.
Install(t) ==
    /\ update[t].pc = "swap"
    /\ ring.generation < MaxGeneration
    /\ StillInstalled(t)
    /\ ring' = IF Valid(update[t].prior, update[t].desired)
               THEN Successor(update[t].prior, update[t].desired) ELSE ring
    /\ update' = [update EXCEPT ![t] = NoUpdate]

\* A replacement reports the conflict; update! reads again, a bounded number of
\* times, and finds the change made, impossible, or still to be made.
Conflict(t) ==
    /\ update[t].pc = "swap"
    /\ ~StillInstalled(t)
    /\ LET u == update[t] IN
       update' = [update EXCEPT ![t] =
                    IF /\ u.op # "replace" /\ u.attempt < MaxAttempts
                       /\ Wants(u.op, u.kid, ring)
                    THEN Trying(u.op, u.kid, u.attempt + 1) ELSE NoUpdate]
    /\ UNCHANGED ring

KeyringStep(t) == BeginUpdate(t) \/ BeginReplacement(t) \/ Install(t) \/ Conflict(t)

-----------------------------------------------------------------------------
KeyringTypeOK ==
    /\ ring \in Ring
    /\ ring.active \in ring.keys
    /\ \A t \in Thread : update[t].pc \in {"idle", "swap"}

\* Whoever rotates at the same time, and however often they retry: no key is
\* accepted again once it is retired, and none leaves the ring but by being
\* retired, so no installed change is lost to an operation that did not see it
\* (replace!, update!).
KeysNeverReturn ==
    [][ /\ ring.retired \subseteq ring'.retired
        /\ ring'.retired \cap ring'.keys = {}
        /\ ring.keys \subseteq ring'.keys \cup ring'.retired ]_ring
=============================================================================
