----------------------------- MODULE MCPagedWalks -----------------------------
(***************************************************************************)
(* Parts of the space, each deep where its question lies: one caller       *)
(* walking with pages of every kind, or with tokens of every kind, two     *)
(* callers and a rotation racing over plain pages, and threads that only   *)
(* rotate keys.  Three candidates, one of which expires, in two orders for *)
(* two frames.                                                             *)
(***************************************************************************)
EXTENDS PagedWalks

CONSTANTS t1, t2, t3

VARIABLE scope      \* the part of the space this behaviour explores

Orders    == << <<"a", "b", "c">>, <<"c", "a">>, << >> >>
Deadlines == [ c \in {"a", "b", "c"} |-> IF c = "b" THEN 1 ELSE Never ]
Rings     == {[ keys |-> Kid, active |-> "k3" ], [ keys |-> {"k2"}, active |-> "k2" ]}

Nothing ==
    [ first |-> {1}, kids |-> 3, callers |-> {}, rotators |-> {}, generations |-> 0,
      revisions |-> 1, operations |-> {}, modes |-> {"live"}, ways |-> {"after"},
      sizes |-> {1}, consistencies |-> {"minimize-latency"}, qualified |-> {FALSE},
      exact |-> {FALSE} ]

\* One caller, pages of every size in either direction, two revisions.
Walks ==
    [ Nothing EXCEPT !.kids = 1, !.callers = {t1}, !.revisions = MaxRevision,
        !.modes = {"live", "pinned"}, !.ways = {"after", "before"}, !.sizes = PageSize,
        !.qualified = BOOLEAN, !.exact = BOOLEAN ]

\* One caller, every descriptor and token, two revisions.
Tokens == [ Walks EXCEPT !.sizes = {1}, !.consistencies = Consistency ]

\* Two callers leave their checkpoints.
Races == [ Nothing EXCEPT !.kids = 1, !.callers = {t1, t2}, !.qualified = BOOLEAN ]

\* One caller walks while the keys rotate.
RotatedWalks ==
    [ Nothing EXCEPT !.first = {2}, !.callers = {t1}, !.rotators = {t3}, !.generations = 2,
        !.operations = {"activate", "retire"} ]

\* Two callers meet two retirements; their pages are empty.
Cleanups ==
    [ Nothing EXCEPT !.first = {3}, !.callers = {t1, t2}, !.rotators = {t3},
        !.generations = 2, !.operations = {"retire"} ]

\* Two threads rotate keys.
Rotations ==
    [ Nothing EXCEPT !.kids = 0, !.rotators = {t1, t2}, !.generations = MaxGeneration,
        !.operations = {"add", "activate", "retire", "replace"} ]

Within ==
    /\ Len(frames') <= scope.revisions
    /\ ring'.generation <= scope.generations
    /\ \A t \in scope.rotators : update'[t].pc # "idle" => update'[t].op \in scope.operations
    /\ \A t \in scope.callers : req'[t].pc # "idle" =>
         /\ req'[t].mode \in scope.modes /\ req'[t].way \in scope.ways
         /\ req'[t].size \in scope.sizes /\ req'[t].consistency \in scope.consistencies

MCInit ==
    /\ Init
    /\ scope \in {Walks, Tokens, Races, RotatedWalks, Cleanups, Rotations}
    /\ frames[1] \in scope.first
    /\ scope.kids \in {0, Cardinality(ring.keys)}
    /\ qualified \in scope.qualified /\ exactCapable \in scope.exact

\* Next, of the threads in the scope.
MCNext ==
    /\ \/ Commit
       \/ \E k \in DOMAIN store : Evict(k)
       \/ \E t \in scope.callers : Page(t)
       \/ \E t \in scope.rotators : Rotate(t)
    /\ UNCHANGED scope /\ Within

MCSpec == MCInit /\ [][MCNext]_<<vars, scope>>

\* The answer is the candidates that have not expired, in their order.
ASSUME AnswerIsSelection ==
    \A f \in Frame, time \in Time :
      Answer[f][time] = SelectSeq(Candidates[f], LAMBDA c : time < Deadline[c])
=============================================================================
