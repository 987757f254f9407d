------------------------------ MODULE MCPageSizes ------------------------------
(* Walks with pages of every size, and beside them what each held cursor was    *)
(* delivered with: the code keeps no such thing.                                *)
EXTENDS MCPagedWalks

VARIABLE asked      \* the page sizes each held cursor was delivered with

SizesInit == MCInit /\ scope = Walks /\ asked = {}

\* A cursor that is new among the held ones comes with the page of this step.
SizesNext ==
    /\ MCNext
    /\ asked' = {pair \in asked : pair[1] \in cursors'} \cup
                  { <<cursor, req[t].size>> : cursor \in cursors' \ cursors,
                      t \in {s \in scope.callers : req[s].pc = "deliver"} }

SizesSpec == SizesInit /\ [][SizesNext]_<<vars, scope, asked>>

\* "A page size change is rejected as an incompatible cursor rather than silently
\* re-windowed" (README.md:859): no call accepts a cursor with another page size
\* than that of the page the cursor was delivered with.
PageSizesAreKept ==
    \A t \in Thread :
        req[t].pc = "accept" /\ req[t].cursor # Null /\ Acceptable(t)
          => <<req[t].cursor, req[t].size>> \in asked
=============================================================================
