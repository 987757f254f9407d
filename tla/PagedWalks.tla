------------------------------ MODULE PagedWalks ------------------------------
(***************************************************************************)
(* Walks over the pages of one query.  A call captures a basis, a time and *)
(* the keyring; it may bring the cursor an earlier page was delivered      *)
(* with.  The cursor is accepted on the selected basis when that basis has *)
(* the frame the cursor was minted with, on its own basis when that one    *)
(* can be acquired again, and only at times its certificate covers.  What  *)
(* the cursor has walked is then recovered from a checkpoint an earlier    *)
(* page left behind, or replayed, and the next page is delivered with      *)
(* cursors of its own.  Meanwhile others write, rotate keys, walk the same *)
(* pages, and the store forgets what it likes.  Nothing in a cursor says   *)
(* how long the page was it came with.                                     *)
(***************************************************************************)
EXTENDS SecurityKeyring, Sequences, FiniteSetsExt

CONSTANTS
    Candidates,     \* Candidates[f]: what the traversal visits under frame f
    Deadline,       \* Deadline[c]: the time candidate c expires
    Never,          \* the deadline of what does not expire
    PageSize,       \* the page sizes calls ask for
    MaxRevision,    \* bound on the revisions of the history
    MaxEntries,     \* :max-entries of the checkpoint store
    MaxCursors,     \* bound on the cursors the host holds on to
    Null

Frame == DOMAIN Candidates
Time  == 0 .. Never - 1

\* The modes of a consistency descriptor.
Consistency ==
    {"minimize-latency", "fully-consistent", "at-least-as-fresh", "at-exact-snapshot"}

ASSUME WalksAssumption ==
    /\ Never \in Nat \ {0} /\ MaxRevision \in Nat \ {0}
    /\ MaxEntries \in Nat \ {0} /\ MaxCursors \in Nat \ {0}
    /\ PageSize \subseteq Nat \ {0}
    /\ \A f \in Frame : Candidates[f] \in Seq(DOMAIN Deadline)
    /\ \A f \in Frame : \A i \in DOMAIN Candidates[f] : Deadline[Candidates[f][i]] \in 1 .. Never

VARIABLES
    qualified,      \* whether the schema has relationships that expire
    exactCapable,   \* whether the backend can acquire a past basis again
    frames,         \* frames[r]: the frame of the query at revision r
    store,          \* the checkpoints: store[k] for the keys that have one
    observed,       \* how many retirements the last claimed cleanup had seen
    cursors,        \* the cursors the host holds
    req             \* req[t]: the page call of thread t

walkVars == <<qualified, exactCapable, frames, store, observed, cursors, req>>
vars == <<keyringVars, walkVars>>

Newest == Len(frames)
Idle == [ pc |-> "idle" ]

\* A call r that has learnt the given fields.
Extended(r, fields) ==
    [ x \in DOMAIN fields \cup DOMAIN r |-> IF x \in DOMAIN fields THEN fields[x] ELSE r[x] ]

Init ==
    /\ KeyringInit
    /\ qualified \in BOOLEAN
    /\ exactCapable \in BOOLEAN
    /\ \E f \in Frame : frames = <<f>>
    /\ store = << >>
    /\ observed = 0
    /\ cursors = {}
    /\ req = [t \in Thread |-> Idle]

-----------------------------------------------------------------------------
(* The traversal: candidates in a fixed order, the expired ones skipped.   *)

Visited(f) == Len(Candidates[f])

\* How many results the first p candidates hold.
Found == [ f \in Frame |-> [ time \in Time |->
             [ p \in 0 .. Visited(f) |->
                 Cardinality({i \in 1 .. p : time < Deadline[Candidates[f][i]]}) ] ] ]

\* The whole answer, evaluated afresh: its nth result is the candidate that makes it n.
Answer == [ f \in Frame |-> [ time \in Time |->
              [ n \in 1 .. Found[f][time][Visited(f)] |->
                  Candidates[f][Min({p \in 0 .. Visited(f) : Found[f][time][p] = n})] ] ] ]

\* A run from one position looks for n results: where it ends, what it finds,
\* and the earliest deadline it meets that is still to come (certificate).
RunEnd(f, time, from, n) ==
    LET reached(p) == Found[f][time][p] = Found[f][time][from] + n IN
    IF \E p \in from .. Visited(f) : reached(p)
    THEN CHOOSE p \in from .. Visited(f) : reached(p) /\ \A q \in from .. p - 1 : ~reached(q)
    ELSE Visited(f)

RunResults(f, time, from, to) ==
    SubSeq(Answer[f][time], Found[f][time][from] + 1, Found[f][time][to])

RunUntil(f, time, from, to) ==
    Min(({Never} \cup {Deadline[Candidates[f][i]] : i \in from + 1 .. to}) \ (0 .. time))

Meet(a, b) == IF a < b THEN a ELSE b

-----------------------------------------------------------------------------
(* The host, the writers, and the store on its own.                        *)

\* A write that changes what the query depends on, or none of it: a frame is
\* an ordered generation, and never comes back.
Commit ==
    /\ Newest < MaxRevision
    /\ \E f \in Frame :
         /\ f = frames[Newest] \/ \A r \in 1 .. Newest : frames[r] # f
         /\ frames' = Append(frames, f)
    /\ UNCHANGED <<keyringVars, qualified, exactCapable, store, observed, cursors, req>>

Without(k) == [ j \in DOMAIN store \ {k} |-> store[j] ]

Evict(k) ==
    /\ k \in DOMAIN store
    /\ store' = Without(k)
    /\ UNCHANGED <<keyringVars, qualified, exactCapable, frames, observed, cursors, req>>

-----------------------------------------------------------------------------
(* A page call: what it captures, and the cleanup it may have to do.       *)

\* A revision satisfies a descriptor whose token names the requested one.
Allows(consistency, requested, revision) ==
    /\ consistency = "at-least-as-fresh" => revision >= requested
    /\ consistency = "at-exact-snapshot" => revision = requested

\* Whom a call may ask for what: a Snapshot cannot ask for the newest basis, and
\* not every backend can select a past one.
MayAsk(mode, consistency) ==
    /\ mode = "pinned" => consistency # "fully-consistent"
    /\ mode = "live" /\ consistency = "at-exact-snapshot" => exactCapable

\* The revisions a token can name: none is behind a floor that is above it.
Requestable(consistency, basis) ==
    IF consistency \in {"at-least-as-fresh", "at-exact-snapshot"}
    THEN {n \in 1 .. Newest : Allows(consistency, n, basis)} ELSE {0}

\* A read through a Snapshot is bound to its basis and its time ("pinned"); one
\* through the client takes the newest basis, or the exact one its token names,
\* and the clock, which may go back.
Begin(t) ==
    /\ req[t].pc = "idle" /\ update[t].pc = "idle"
    /\ \E mode \in {"live", "pinned"}, consistency \in Consistency,
          time \in IF qualified THEN Time ELSE {0},
          size \in PageSize, cursor \in cursors \cup {Null} :
       /\ MayAsk(mode, consistency)
       /\ \E basis \in IF mode = "live" /\ consistency # "at-exact-snapshot" THEN {Newest}
                      ELSE 1 .. Newest,
             way \in IF cursor = Null THEN {"after"} ELSE {"after", "before"} :
          \E series \in IF cursor = Null \/ way = "before" THEN {size} ELSE PageSize,
             requested \in Requestable(consistency, basis) :
         req' = [req EXCEPT ![t] =
                   [ pc |-> IF ring.retired = {} THEN "accept" ELSE "observe",
                     mode |-> mode, time |-> time, size |-> size, series |-> series,
                     way |-> way, cursor |-> cursor, basis |-> basis,
                     frame |-> frames[basis],
                     consistency |-> consistency, requested |-> requested,
                     accepted |-> ring.keys, minting |-> ring.active,
                     retired |-> ring.retired ]]
    /\ UNCHANGED <<keyringVars, qualified, exactCapable, frames, store, observed, cursors>>

\* on-retirement!: the epochs a call has seen count the retired keys.
Observe(t) ==
    /\ req[t].pc = "observe"
    /\ req' = [req EXCEPT ![t] =
                 IF Cardinality(req[t].retired) > observed
                 THEN Extended([req[t] EXCEPT !.pc = "claim"], [previous |-> observed])
                 ELSE [req[t] EXCEPT !.pc = "accept"]]
    /\ UNCHANGED <<keyringVars, qualified, exactCapable, frames, store, observed, cursors>>

\* Mutant: the epoch is recorded without a comparison.
ClaimsAnyhow(t) == TRUE

ClaimsCleanup(t) == observed = req[t].previous

\* The winner drops every checkpoint under a retired key; a loser leaves it to
\* the call that overtook it, or to the next one.
Claim(t) ==
    /\ req[t].pc = "claim"
    /\ IF ClaimsCleanup(t)
       THEN /\ observed' = Cardinality(req[t].retired)
            /\ store' = [ k \in {j \in DOMAIN store : j.kid \notin req[t].retired} |-> store[k] ]
       ELSE UNCHANGED <<observed, store>>
    /\ req' = [req EXCEPT ![t].pc = "accept"]
    /\ UNCHANGED <<keyringVars, qualified, exactCapable, frames, cursors>>

-----------------------------------------------------------------------------
(* Accepting the cursor.                                                   *)

Reusable(certificate, time) == certificate.start <= time /\ time < certificate.until

\* cursor-time-valid?
TimeValid(cursor, time) ==
    IF cursor.mode = "pinned" THEN time = cursor.original ELSE Reusable(cursor, time)

\* Its key is one the call captured; its cursor-scope names the same query, which the mode
\* of its consistency belongs to and the page size does not, and, if the query is
\* qualified, the same kind of target.
Authentic(t) ==
    /\ req[t].cursor.kid \in req[t].accepted
    /\ req[t].cursor.consistency = req[t].consistency
    /\ qualified => req[t].cursor.mode = req[t].mode

\* ensure-cursor-satisfies-request!: only a qualified query has a certificate.
Satisfies(t) ==
    /\ qualified => TimeValid(req[t].cursor, req[t].time)
    /\ Allows(req[t].consistency, req[t].requested, req[t].cursor.revision)

\* The same immutable basis needs no proof; another one needs an equal frame, and
\* that of a qualified query is its basis (request-dependency-context).
Current(t) ==
    \/ req[t].basis = req[t].cursor.revision
    \/ ~ qualified /\ req[t].frame = req[t].cursor.frame

Acceptable(t) == req[t].cursor # Null => Authentic(t) /\ Satisfies(t) /\ Current(t)

\* A Snapshot owns no selection authority, and not every backend keeps history.
Recoverable(t) ==
    /\ req[t].cursor # Null /\ ~Current(t) /\ Authentic(t) /\ Satisfies(t)
    /\ req[t].mode = "live" /\ exactCapable

Recover(t) ==
    /\ req[t].pc = "accept" /\ Recoverable(t)
    /\ req' = [req EXCEPT ![t].basis = req[t].cursor.revision, ![t].frame = req[t].cursor.frame]
    /\ UNCHANGED <<keyringVars, qualified, exactCapable, frames, store, observed, cursors>>

Refuse(t) ==
    /\ req[t].pc = "accept" /\ ~Acceptable(t) /\ ~Recoverable(t)
    /\ req' = [req EXCEPT ![t] = Idle]
    /\ UNCHANGED <<keyringVars, qualified, exactCapable, frames, store, observed, cursors>>

-----------------------------------------------------------------------------
(* Computing the page.                                                     *)

\* scope, kid and edge: walks through the client and through Snapshots share
\* their checkpoints; one of a qualified query is bound to its basis as well.
CheckpointKey(t, kid) ==
    [ kid |-> kid, frame |-> req[t].frame, series |-> req[t].series,
      basis |-> IF qualified THEN req[t].basis ELSE 0 ]

\* Mutant: the interval retained work was evaluated for is not looked at.
HitAtAnyTime(t, k) ==
    /\ k \in DOMAIN store
    /\ store[k].ordinal = req[t].cursor.ordinal
    /\ store[k].boundary = req[t].cursor.boundary

\* checkpoint-hit, valid-qualified-checkpoint.
Hit(t, k) ==
    /\ k \in DOMAIN store
    /\ store[k].ordinal = req[t].cursor.ordinal
    /\ store[k].boundary = req[t].cursor.boundary
    /\ Reusable(store[k], req[t].time)
    /\ \A i \in DOMAIN store[k].pending : req[t].time < Deadline[store[k].pending[i]]

\* state-at-boundary: where the walk stands after its cursor, what it has looked
\* at beyond it, and until when that is good.  A replay that does not end on the
\* cursor's boundary is an invalid cursor.
Fresh == [ position |-> 0, pending |-> << >>, until |-> Never ]

Replayed(t) ==
    LET r == req[t] IN LET p == RunEnd(r.frame, r.time, 0, r.cursor.ordinal) IN
    [ position |-> p, pending |-> << >>, until |-> RunUntil(r.frame, r.time, 0, p) ]

AtBoundary(t) ==
    LET k == CheckpointKey(t, req[t].cursor.kid) IN
    IF req[t].cursor = Null THEN Fresh
    ELSE IF Hit(t, k)
    THEN [ position |-> store[k].position, pending |-> store[k].pending,
           until |-> store[k].until ]
    ELSE Replayed(t)

Validates(t) ==
    LET r == req[t] IN
    LET replayed == RunResults(r.frame, r.time, 0, Replayed(t).position) IN
    /\ Len(replayed) = r.cursor.ordinal
    /\ replayed[r.cursor.ordinal] = r.cursor.boundary

Ordinal(t) == IF req[t].cursor = Null THEN 0 ELSE req[t].cursor.ordinal

\* Mutant: off by one, the last result of the page is kept as well.
LookaheadFromLast(found, size) == SubSeq(found, size, Len(found))

\* One result beyond the page tells whether there is a next one.
Lookahead(found, size) == SubSeq(found, size + 1, Len(found))

CursorUntil(t) == IF req[t].cursor = Null THEN Never ELSE req[t].cursor.until

Served(t, page, start, until) ==
    Extended(req[t],
        [ pc |-> IF req[t].way = "before" \/ page = << >> THEN "deliver" ELSE "publish",
          page |-> page, start |-> start, until |-> until ])

\* edge-page, deliver-page: resume, or run afresh, up to one result beyond.
Serve(t) ==
    /\ req[t].pc = "accept" /\ Acceptable(t) /\ req[t].way = "after"
    /\ LET r == req[t] IN LET from == AtBoundary(t) IN
       LET to    == RunEnd(r.frame, r.time, from.position, r.size + 1 - Len(from.pending)) IN
       LET found == from.pending \o RunResults(r.frame, r.time, from.position, to) IN
       LET page  == SubSeq(found, 1, Meet(r.size, Len(found))) IN
       LET until == Meet(Meet(CursorUntil(t), from.until),
                         RunUntil(r.frame, r.time, from.position, to)) IN
       LET hit   == r.cursor # Null /\ Hit(t, CheckpointKey(t, r.cursor.kid)) IN
       req' = [req EXCEPT ![t] =
                 IF r.cursor # Null /\ ~hit /\ ~Validates(t) THEN Idle
                 ELSE Extended(Served(t, page, Ordinal(t), until),
                               [ lookahead |-> Lookahead(found, r.size), position |-> to ])]
    /\ UNCHANGED <<keyringVars, qualified, exactCapable, frames, store, observed, cursors>>

\* The page before an edge is the window a replay up to that edge ends with.
ServeBefore(t) ==
    /\ req[t].pc = "accept" /\ Acceptable(t) /\ req[t].way = "before"
    /\ LET r == req[t] IN LET to == Replayed(t).position IN
       LET found == RunResults(r.frame, r.time, 0, to) IN
       LET start == Max({0, r.cursor.ordinal - 1 - r.size}) IN
       req' = [req EXCEPT ![t] =
                 IF ~Validates(t) THEN Idle
                 ELSE Served(t, SubSeq(found, start + 1, r.cursor.ordinal - 1), start,
                             Meet(CursorUntil(t), Replayed(t).until))]
    /\ UNCHANGED <<keyringVars, qualified, exactCapable, frames, store, observed, cursors>>

-----------------------------------------------------------------------------
(* Leaving a checkpoint, and delivering.                                   *)

Checkpoint(t) ==
    [ ordinal |-> req[t].start + Len(req[t].page), boundary |-> req[t].page[Len(req[t].page)],
      pending |-> req[t].lookahead, position |-> req[t].position,
      start |-> req[t].time, until |-> req[t].until ]

Minted(t) == CheckpointKey(t, req[t].minting)

\* The entry under a key, if there is one.
Resident(k) == { store[j] : j \in DOMAIN store \cap {k} }

\* Mutant: whoever comes last is resident.
AlwaysNewer(candidate, resident) == candidate # resident

\* progress-newer?: the boundary delivered, then how far the traversal got.
ProgressNewer(candidate, resident) ==
    \/ candidate.ordinal > resident.ordinal
    \/ candidate.ordinal = resident.ordinal /\ candidate.position > resident.position

Peek(t) ==
    /\ req[t].pc = "publish"
    /\ LET seen == Resident(Minted(t)) IN
       req' = [req EXCEPT ![t] =
                 IF \A resident \in seen : ProgressNewer(Checkpoint(t), resident)
                 THEN Extended([req[t] EXCEPT !.pc = "swap"], [seen |-> seen])
                 ELSE [req[t] EXCEPT !.pc = "deliver"]]
    /\ UNCHANGED <<keyringVars, qualified, exactCapable, frames, store, observed, cursors>>

\* A full store forgets another entry for a new one.
Stored(k, value) ==
    LET others == DOMAIN store \ {k} IN
    \E held \in SUBSET others :
      /\ Cardinality(held) = Meet(Cardinality(others), MaxEntries - 1)
      /\ store' = [ j \in held \cup {k} |-> IF j = k THEN value ELSE store[j] ]

\* replace-if!, put-if-absent!: only in place of what was compared.
Swap(t) ==
    /\ req[t].pc = "swap"
    /\ IF Resident(Minted(t)) = req[t].seen
       THEN /\ Stored(Minted(t), Checkpoint(t))
            /\ req' = [req EXCEPT ![t].pc = "deliver"]
       ELSE /\ store' = store
            /\ req' = [req EXCEPT ![t].pc = "publish"]
    /\ UNCHANGED <<keyringVars, qualified, exactCapable, frames, observed, cursors>>

\* cursor-certificate: the walk keeps its first time and every deadline so far.
CursorAt(t, ordinal) ==
    LET r == req[t] IN
    [ kid |-> r.minting, mode |-> r.mode, consistency |-> r.consistency, ordinal |-> ordinal,
      boundary |-> r.page[ordinal - r.start], revision |-> r.basis, frame |-> r.frame,
      original |-> IF r.cursor = Null THEN r.time ELSE r.cursor.original,
      start |-> r.time, until |-> r.until ]

\* The host holds on to one end of the page, and to a bounded number of cursors.
Deliver(t) ==
    /\ req[t].pc = "deliver"
    /\ IF req[t].page = << >> THEN UNCHANGED cursors
       ELSE \E ordinal \in {req[t].start + 1, req[t].start + Len(req[t].page)} :
            \E held \in SUBSET cursors :
              /\ Cardinality(held) = Meet(Cardinality(cursors), MaxCursors - 1)
              /\ cursors' = held \cup {CursorAt(t, ordinal)}
    /\ req' = [req EXCEPT ![t] = Idle]
    /\ UNCHANGED <<keyringVars, qualified, exactCapable, frames, store, observed>>

-----------------------------------------------------------------------------
Page(t) ==
    \/ Begin(t) \/ Observe(t) \/ Claim(t) \/ Recover(t) \/ Refuse(t)
    \/ Serve(t) \/ ServeBefore(t) \/ Peek(t) \/ Swap(t) \/ Deliver(t)

Rotate(t) == req[t].pc = "idle" /\ KeyringStep(t) /\ UNCHANGED walkVars

Next ==
    \/ Commit
    \/ \E k \in DOMAIN store : Evict(k)
    \/ \E t \in Thread : Page(t) \/ Rotate(t)

Spec == Init /\ [][Next]_vars

-----------------------------------------------------------------------------
TypeOK ==
    /\ KeyringTypeOK
    /\ frames \in Seq(Frame) /\ Newest \in 1 .. MaxRevision
    /\ observed \in 0 .. Cardinality(Kid)
    /\ Cardinality(cursors) <= MaxCursors
    /\ Cardinality(DOMAIN store) <= MaxEntries
    /\ \A k \in DOMAIN store :
         /\ k.kid \in Kid /\ k.frame \in Frame
         /\ store[k].ordinal \in 1 .. Visited(k.frame)
         /\ store[k].position \in store[k].ordinal .. Visited(k.frame)
         /\ Len(store[k].pending) <= 1

\* However a walk got here (a newer basis with the same frame, its own basis
\* again, another time, a checkpoint of another walk, a replay): what it delivered
\* before is a prefix of the answer a fresh evaluation gives at the basis and the
\* time its cursor is accepted for, so a replay finds its boundary; the page is
\* what comes next in that answer, or just before the edge, in the size of this
\* call; and the basis is one the call asked for (select-envelope-context,
\* state-at-boundary, deliver-page).  The README says of another page size that its
\* cursor is rejected; the code accepts it (MCPageSizes), and this property says
\* what it is then answered with.
WalksAreOneAnswer ==
    \A t \in Thread :
        LET r == req[t] IN
        /\ r.pc = "accept" /\ Acceptable(t) /\ r.cursor # Null =>
             SubSeq(Answer[frames[r.basis]][r.time], 1, r.cursor.ordinal) =
               SubSeq(Answer[frames[r.cursor.revision]][r.cursor.start], 1, r.cursor.ordinal)
        /\ r.pc = "deliver" =>
             LET answer == Answer[frames[r.basis]][r.time] IN
             /\ r.page = SubSeq(answer, r.start + 1,
                                IF r.way = "before" THEN r.cursor.ordinal - 1
                                ELSE Meet(r.start + r.size, Len(answer)))
             /\ Allows(r.consistency, r.requested, r.basis)

\* Walks of one query race to leave their checkpoint, older ones late: while one
\* is resident, only one that got further takes its place (put-latest-checkpoint!).
CheckpointsOnlyAdvance ==
    [][ \A k \in DOMAIN store \cap DOMAIN store' :
          store'[k] # store[k] =>
            \/ store'[k].ordinal > store[k].ordinal
            \/ store'[k].ordinal = store[k].ordinal /\ store'[k].position > store[k].position ]_store

\* No cleanup is claimed twice, and none by a call that captured the keyring
\* before the epoch another call has cleaned up after (on-retirement!).
CleanupsAdvance == [][ observed' > observed ]_observed
=============================================================================
