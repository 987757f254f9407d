------------------------- MODULE BasisSelection_proofs -------------------------
(***************************************************************************)
(* Ownership and consistency of selected bases, for any number of threads, *)
(* callers, revisions, histories and failures, and any supply of bases the *)
(* assumptions allow.                                                      *)
(***************************************************************************)
EXTENDS BasisSelection, FiniteSetTheorems, SequenceTheorems, TLAPS

-----------------------------------------------------------------------------
(* The inductive invariant.                                                *)

Request ==
    [ pc : Stage, kind : {"read", "walk", "snapshot", "kept"}, mode : Mode,
      token : Wanted \cup {Null}, captured : 0 .. MaxLifecycle, late : BOOLEAN,
      held : Seq(Handle), using : Handle \cup {Null}, then : {"idle", "select", "acquire"} ]

Last(r) == r.held[Len(r.held)]

Releasing(r) == r.pc \in {"release", "native"}
Resuming(r)  == Releasing(r) /\ r.then # "idle"
Retrying(r)  == Releasing(r) /\ r.then = "acquire"
Selecting(r) == r.pc \in {"select", "acquire", "wait", "identify", "certify"}
ReadsOwn(r)  == r.pc = "read" /\ r.kind # "kept"
ReadsKept(r) == r.pc = "read" /\ r.kind = "kept"

\* A call that acquires, or will go on acquiring, bases of its own.
Working(r) == Selecting(r) \/ ReadsOwn(r) \/ Resuming(r)

\* A call that recovers the basis of a cursor holds the one it read from, too.
Deep(r) ==
    \/ (r.pc \in {"acquire", "wait"} /\ r.held # <<>>)
    \/ (r.pc \in {"identify", "certify", "read"} /\ Len(r.held) = 2)

\* What the stage of a call says about what it holds.
ShapeOK(r) ==
    /\ r \in Request
    /\ Len(r.held) <= 2
    /\ r.pc \in {"idle", "select"} => r.held = <<>>
    /\ r.pc \in {"acquire", "wait"} => Len(r.held) <= 1
    /\ r.pc \in {"identify", "certify"} \/ Releasing(r) => r.held # <<>>
    /\ ReadsKept(r) => r.held = <<>>
    /\ ReadsOwn(r) => r.held # <<>> /\ r.using = Last(r)
    /\ Deep(r) => r.kind = "walk" /\ r.mode = "exact"
    /\ Releasing(r) /\ r.then = "idle" => r.kind \in {"read", "kept"}
    /\ Resuming(r) => Len(r.held) = 1
    /\ Working(r) => r.kind # "kept"
    /\ r.token # Null => r.mode \in {"at-least", "exact"}
    /\ r.mode \in {"at-least", "exact"} => r.token \in Wanted

Holds(r, h)   == \E i \in DOMAIN r.held : r.held[i] = h
Touches(r, h) == Holds(r, h) \/ (r.pc = "read" /\ r.using = h)

\* A basis held by a call t is its own, or a Snapshot it is releasing.
HeldOK(t, r) ==
    /\ \A i \in DOMAIN r.held :
         /\ handle[r.held[i]] \in Basis
         /\ r.held[i] \notin kept \/ Affine => handle[r.held[i]].owner = t
         /\ r.held[i] \in kept => Releasing(r) /\ r.then = "idle" /\ Len(r.held) = 1
         /\ r.held[i] \notin kept =>
              handle[r.held[i]].state =
                IF r.pc = "native" /\ i = Len(r.held) THEN "releasing" ELSE "open"
    /\ \A i, j \in DOMAIN r.held : r.held[i] = r.held[j] => i = j

\* A Snapshot that is read stays with the host, and open if it has an owner.
ReadOK(t, r) ==
    ReadsKept(r) =>
        /\ r.using \in kept
        /\ Affine => handle[r.using].state = "open" /\ handle[r.using].owner = t

\* What a token asks of a basis.
Honours(basis, r) ==
    /\ basis.history = r.token.lifecycle
    /\ IF r.mode = "exact" THEN basis.revision = r.token.revision
       ELSE basis.revision >= r.token.revision

\* Token, captured lifecycle, history, and identity are learnt in this order.
ChainOK(r) ==
    /\ (r.pc \in {"acquire", "wait"} \/ Retrying(r)) /\ r.token # Null =>
         r.token.lifecycle <= lifecycle
    /\ Working(r) => r.captured <= lifecycle
    /\ r.pc \in {"identify", "certify"} =>
         /\ r.token # Null => r.token.lifecycle <= handle[Last(r)].history
         /\ Len(r.held) = 1 => r.captured <= handle[Last(r)].history
    /\ r.pc = "certify" => handle[Last(r)].history <= handle[Last(r)].lifecycle
    /\ r.pc = "read" /\ r.kind = "snapshot" =>
         handle[Last(r)].history = handle[Last(r)].lifecycle
    /\ r.pc = "read" /\ r.token # Null => Honours(handle[r.using], r)

CallInv(t, r) ==
    /\ ShapeOK(r)
    /\ Working(r) => t \in Caller
    /\ HeldOK(t, r)
    /\ ReadOK(t, r)
    /\ ChainOK(r)

\* A basis the host does not keep is held by the call that acquired it.
HandleOK(h) ==
    /\ h \in kept => handle[h] # Null /\ handle[h].history = handle[h].lifecycle
    /\ handle[h] # Null =>
         /\ h \notin kept => Holds(req[handle[h].owner], h)
         /\ handle[h].owner \in Caller
         /\ handle[h].closes = IF handle[h].state = "released" THEN 1 ELSE 0
         /\ handle[h].history <= lifecycle /\ handle[h].lifecycle <= lifecycle

NativeInv ==
    /\ \A t \in Thread : req[t].pc = "native" => handle[Top(t)].state = "releasing"
    /\ \A t, u \in Thread :
         req[t].pc = "native" /\ req[u].pc = "native" /\ Top(t) = Top(u) => t = u

\* A wait has one synchronisation, a synchronisation has one wait.
SyncInv ==
    /\ \A s \in syncs : s.caller \in Thread /\ req[s.caller].pc = "wait"
    /\ \A s, z \in syncs : s.caller = z.caller => s = z

\* Snapshots there are and Snapshots there will be.
CapacityInv ==
    /\ IsFiniteSet(kept)
    /\ Cardinality(kept) + Cardinality({u \in Thread : Pending(u)}) <= MaxKept

WorldOK ==
    /\ backend \in Backend
    /\ head \in 0 .. MaxRevision /\ seen \in 0 .. head
    /\ lifecycle \in 1 .. MaxLifecycle
    /\ handle \in [Handle -> Basis \cup {Null}]
    /\ kept \subseteq Handle
    /\ failures \in 0 .. MaxFailures
    /\ req \in [Thread -> Request]

IInv ==
    /\ WorldOK
    /\ \A t \in Thread : CallInv(t, req[t])
    /\ \A h \in Handle : HandleOK(h)
    /\ NativeInv
    /\ SyncInv
    /\ CapacityInv

-----------------------------------------------------------------------------
(* What a step leaves alone.                                               *)

\* To a call that touches it, a basis looks as before.
Steady(h) ==
    /\ h \in kept' <=> h \in kept
    /\ handle[h] \in Basis => handle'[h] \in Basis
    /\ handle'[h].owner = handle[h].owner
    /\ handle'[h].history = handle[h].history
    /\ handle'[h].revision = handle[h].revision
    /\ handle'[h].lifecycle = handle[h].lifecycle
    /\ h \notin kept \/ Affine => handle'[h].state = handle[h].state

LEMMA CallFrame ==
    ASSUME NEW t, NEW r, CallInv(t, r), backend' = backend,
           lifecycle \in Int, lifecycle' \in Int, lifecycle <= lifecycle',
           \A h : Touches(r, h) => Steady(h)
    PROVE  CallInv(t, r)'
<1>1. r \in Request
  BY DEF CallInv, ShapeOK
<1>2. \A i \in DOMAIN r.held : Steady(r.held[i])
  BY DEF Touches, Holds
<1>3. r.held # <<>> => Len(r.held) \in DOMAIN r.held
  BY <1>1 DEF Request
<1>4. Affine' <=> Affine
  BY DEF Affine
<1>5. ShapeOK(r)' /\ (Working(r) => t \in Caller)'
  BY DEF CallInv
<1>6. HeldOK(t, r)'
  BY <1>2, <1>4 DEF CallInv, HeldOK, Steady
<1>7. ReadOK(t, r)'
  BY <1>4 DEF CallInv, ReadOK, Touches, Steady, ReadsKept
<1>8. ChainOK(r)'
  <2>1. r.token # Null => r.token.lifecycle \in Int
    BY WantedAssumption DEF CallInv, ShapeOK
  <2>2. r.captured \in Int
    BY <1>1, BasisBoundsAssumption DEF Request
  <2>3. r.pc \in {"identify", "certify"} => Steady(Last(r))
    BY <1>2, <1>3 DEF CallInv, ShapeOK, Last
  <2>4. r.pc = "read" => Steady(r.using)
    BY DEF Touches
  <2>5. r.pc = "read" /\ r.kind = "snapshot" => Steady(Last(r))
    BY <1>2, <1>3 DEF CallInv, ShapeOK, Last, ReadsOwn
  <2> QED
    BY <2>1, <2>2, <2>3, <2>4, <2>5 DEF CallInv, ChainOK, Honours, Steady
<1> QED
  BY <1>5, <1>6, <1>7, <1>8 DEF CallInv

LEMMA HandleFrame ==
    ASSUME NEW h, HandleOK(h),
           lifecycle \in Int, lifecycle' \in Int, lifecycle <= lifecycle',
           handle[h] \in Basis \cup {Null},
           handle'[h] = handle[h], h \in kept' <=> h \in kept,
           h \in kept \/ \A t \in Thread : Holds(req[t], h) => Holds(req[t], h)'
    PROVE  HandleOK(h)'
<1>1. CASE handle[h] = Null
  BY <1>1 DEF HandleOK
<1>2. CASE handle[h] \in Basis
  <2>1. handle[h].owner \in Thread /\ handle[h].history \in Int /\ handle[h].lifecycle \in Int
    BY <1>2, BasisBoundsAssumption DEF Basis
  <2> QED
    BY <1>2, <2>1 DEF HandleOK
<1> QED
  BY <1>1, <1>2

\* The parts of the world a call never changes.
World == <<backend, head, seen, lifecycle>>

LEMMA CallOf ==
    ASSUME IInv, NEW t \in Thread
    PROVE  CallInv(t, req[t]) /\ req[t] \in Request /\ ShapeOK(req[t])
BY DEF IInv, CallInv, ShapeOK

LEMMA Replaced ==
    ASSUME IInv, NEW t \in Thread, NEW r \in Request, req' = [req EXCEPT ![t] = r]
    PROVE  /\ req' \in [Thread -> Request]
           /\ req'[t] = r
           /\ \A u \in Thread \ {t} : req'[u] = req[u]
BY DEF IInv, WorldOK

\* A step of one call that moves no basis.
LEMMA QuietStep ==
    ASSUME IInv, NEW t \in Thread, NEW r, req' = [req EXCEPT ![t] = r],
           UNCHANGED <<World, handle, kept>>, failures' \in 0 .. MaxFailures,
           CallInv(t, r),
           \A h : Holds(req[t], h) => Holds(r, h),
           r.pc = "native" => req[t].pc = "native" /\ r.held = Held(t),
           SyncInv', CapacityInv'
    PROVE  IInv'
<1>1. r \in Request
  BY DEF CallInv, ShapeOK
<1>2. req' \in [Thread -> Request] /\ req'[t] = r /\ \A u \in Thread \ {t} : req'[u] = req[u]
  BY <1>1, Replaced
<1>3. WorldOK'
  BY <1>2 DEF IInv, WorldOK, World
<1>4. lifecycle \in Int /\ lifecycle' = lifecycle /\ backend' = backend
  BY BasisBoundsAssumption DEF IInv, WorldOK, World
<1>5. \A h : Steady(h)
  BY DEF Steady
<1>6. CallInv(t, r)'
  BY <1>4, <1>5, CallFrame
<1>7. \A u \in Thread : CallInv(u, req[u])'
  <2>1. ASSUME NEW u \in Thread \ {t} PROVE CallInv(u, req[u])'
    <3>1. CallInv(u, req[u]) /\ req'[u] = req[u]
      BY <1>2 DEF IInv
    <3>2. CallInv(u, req'[u])
      BY <3>1
    <3> QED
      BY <3>2, <1>4, <1>5, CallFrame
  <2> QED
    BY <1>2, <1>6, <2>1
<1>8. \A h \in Handle : HandleOK(h)'
  <2>1. \A u \in Thread : \A h : Holds(req[u], h) => Holds(req[u], h)'
    BY <1>2 DEF Holds
  <2> QED
    BY <1>4, <2>1, HandleFrame DEF IInv, WorldOK
<1>9. NativeInv'
  BY <1>2 DEF IInv, NativeInv, Top, Held
<1> QED
  BY <1>3, <1>7, <1>8, <1>9 DEF IInv

LEMMA OneMore ==
    ASSUME NEW S, IsFiniteSet(S), NEW x, NEW T, T \subseteq S \cup {x}
    PROVE  IsFiniteSet(T) /\ Cardinality(T) \in Nat /\ Cardinality(S) \in Nat
           /\ Cardinality(T) <= Cardinality(S) + 1
<1>1. IsFiniteSet(S \cup {x})
  BY FS_AddElement
<1>2. Cardinality(S) \in Nat /\ Cardinality(S \cup {x}) \in Nat
  BY <1>1, FS_CardinalityType
<1>3. Cardinality(S \cup {x}) <= Cardinality(S) + 1
  <2>1. CASE x \in S
    <3>1. Cardinality(S \cup {x}) = Cardinality(S)
      BY <2>1, FS_AddElement
    <3> QED
      BY <3>1, <1>2
  <2>2. CASE x \notin S
    <3>1. Cardinality(S \cup {x}) = Cardinality(S) + 1
      BY <2>2, FS_AddElement
    <3> QED
      BY <3>1, <1>2
  <2> QED
    BY <2>1, <2>2
<1>4. IsFiniteSet(T) /\ Cardinality(T) <= Cardinality(S \cup {x})
  BY <1>1, FS_Subset
<1> QED
  BY <1>2, <1>3, <1>4, FS_CardinalityType

\* A call is pending only for a caller of its own.
LEMMA PendingCallers ==
    ASSUME IInv
    PROVE  /\ {u \in Thread : Pending(u)} \subseteq Caller
           /\ IsFiniteSet({u \in Thread : Pending(u)})
<1>1. ASSUME NEW u \in Thread, Pending(u) PROVE u \in Caller
  <2>1. ShapeOK(req[u]) /\ (Working(req[u]) => u \in Caller)
    BY DEF IInv, CallInv
  <2>2. Working(req[u])
    BY <1>1, <2>1 DEF Pending, ShapeOK, Request, Stage, Working, Selecting, ReadsOwn, Resuming, Releasing
  <2> QED
    BY <2>1, <2>2
<1> QED
  BY <1>1, CallerAssumption, FS_Subset

LEMMA CapacityKept ==
    ASSUME IInv, NEW t \in Thread, NEW r \in Request, req' = [req EXCEPT ![t] = r],
           kept' = kept, r.kind = "snapshot" /\ r.pc # "idle" => Pending(t)
    PROVE  CapacityInv'
<1> DEFINE P == {u \in Thread : Pending(u)}
<1>1. P' \subseteq P
  BY Replaced DEF Pending
<1>2. IsFiniteSet(P) /\ IsFiniteSet(P') /\ Cardinality(P') <= Cardinality(P)
  BY <1>1, PendingCallers, FS_Subset
<1>3. Cardinality(P) \in Nat /\ Cardinality(P') \in Nat /\ Cardinality(kept) \in Nat
  BY <1>2, FS_CardinalityType DEF IInv, CapacityInv
<1> QED
  BY <1>2, <1>3, BasisBoundsAssumption DEF IInv, CapacityInv

LEMMA SyncsKept ==
    ASSUME IInv, NEW t \in Thread, NEW r \in Request, req' = [req EXCEPT ![t] = r],
           syncs' \subseteq syncs, \A s \in syncs' : s.caller # t \/ r.pc = "wait"
    PROVE  SyncInv'
BY Replaced DEF IInv, SyncInv

\* The usual step: the call goes on with what it holds.
LEMMA CallMoves ==
    ASSUME IInv, NEW t \in Thread, NEW r, req' = [req EXCEPT ![t] = r],
           UNCHANGED <<World, handle, kept>>, failures' \in 0 .. MaxFailures,
           CallInv(t, r), r.held = Held(t), r.pc # "native",
           (syncs' = syncs /\ req[t].pc # "wait") \/ syncs' = syncs \ MySyncs(t),
           r.kind = "snapshot" /\ r.pc # "idle" => Pending(t)
    PROVE  IInv'
<1>1. r \in Request
  BY DEF CallInv, ShapeOK
<1>2. SyncInv'
  <2>1. syncs' \subseteq syncs /\ \A s \in syncs' : s.caller # t
    BY DEF IInv, SyncInv, MySyncs
  <2> QED
    BY <1>1, <2>1, SyncsKept
<1>3. CapacityInv'
  BY <1>1, CapacityKept
<1> QED
  BY <1>2, <1>3, QuietStep DEF Holds, Held

LEMMA IdleCall == \A t : CallInv(t, Idle) /\ CallInv(t, Idle)'
<1>1. ShapeOK(Idle)
  BY BasisBoundsAssumption DEF ShapeOK, Idle, Request, Stage, Mode, Releasing, ReadsKept,
     ReadsOwn, Deep, Resuming, Working, Selecting
<1>2. ~Working(Idle) /\ ~ReadsKept(Idle) /\ ~Retrying(Idle) /\ ~Resuming(Idle)
  BY DEF Idle, Working, Selecting, ReadsOwn, ReadsKept, Resuming, Retrying, Releasing
<1>3. ASSUME NEW t PROVE HeldOK(t, Idle) /\ ReadOK(t, Idle) /\ ChainOK(Idle)
  BY <1>2 DEF HeldOK, ReadOK, ChainOK, Idle
<1>4. ASSUME NEW t PROVE (HeldOK(t, Idle) /\ ReadOK(t, Idle) /\ ChainOK(Idle))'
  BY <1>2 DEF HeldOK, ReadOK, ChainOK, Idle
<1> QED
  BY <1>1, <1>2, <1>3, <1>4 DEF CallInv

LEMMA IdleRequest == Idle \in Request
BY BasisBoundsAssumption DEF Idle, Request, Stage, Mode

\* The records a call leaves behind and starts with.
ReleasingAs(r, held) == [r EXCEPT !.pc = "release", !.held = held, !.then = "idle"]

KeptAs(r, mode, token, using) ==
    [r EXCEPT !.pc = "read", !.kind = "kept", !.mode = mode, !.token = token, !.using = using]

LEMMA ReleasingRequest ==
    ASSUME NEW i \in Request, NEW held \in Seq(Handle)
    PROVE  LET r == ReleasingAs(i, held) IN
           /\ r \in Request
           /\ r.held = held /\ r.kind = i.kind /\ r.mode = i.mode /\ r.token = i.token
           /\ r.pc = "release" /\ r.then = "idle"
<1>1. "release" \in Stage
  BY DEF Stage
<1> QED
  BY <1>1 DEF Request, ReleasingAs

LEMMA KeptRequest ==
    ASSUME NEW i \in Request, NEW mode \in Mode, NEW token \in Wanted \cup {Null},
           NEW using \in Handle \cup {Null}
    PROVE  LET r == KeptAs(i, mode, token, using) IN
           /\ r \in Request
           /\ r.pc = "read" /\ r.kind = "kept" /\ r.mode = mode /\ r.token = token
           /\ r.held = i.held /\ r.using = using
<1>1. "read" \in Stage
  BY DEF Stage
<1> QED
  BY <1>1 DEF Request, KeptAs

LEMMA UnwoundIdle ==
    ASSUME NEW t \in Thread, req[t] \in Request
    PROVE  LET r == Unwound(t, "idle") IN
           /\ r \in Request
           /\ r.held = Held(t) /\ r.kind = "read" /\ r.mode = "current" /\ r.token = Null
           /\ r.pc = (IF Held(t) = <<>> THEN "idle" ELSE "release") /\ r.then = "idle"
<1>1. /\ Idle.kind = "read" /\ Idle.mode = "current" /\ Idle.token = Null
      /\ Idle.then = "idle" /\ Idle.held = <<>>
  BY DEF Idle
<1>2. CASE Held(t) = <<>>
  <2>1. Unwound(t, "idle") = [Idle EXCEPT !.pc = "idle"]
    BY <1>2 DEF Unwound
  <2> QED
    BY <1>1, <1>2, <2>1, IdleRequest DEF Stage, Request
<1>3. CASE Held(t) # <<>>
  <2>1. Unwound(t, "idle") = [Idle EXCEPT !.pc = "release", !.held = Held(t), !.then = "idle"]
    BY <1>3 DEF Unwound
  <2>2. Held(t) \in Seq(Handle)
    BY DEF Held, Request
  <2> QED
    <3>1. Unwound(t, "idle") = ReleasingAs(Idle, Held(t))
      BY <2>1 DEF ReleasingAs
    <3> QED
      BY <1>1, <1>3, <2>2, <3>1, IdleRequest, ReleasingRequest
<1> QED
  BY <1>2, <1>3

\* A call that is over gives back what it holds.
LEMMA Unwinds ==
    ASSUME IInv, NEW t \in Thread, req[t].pc \notin {"idle", "release", "native"}
    PROVE  LET r == Unwound(t, "idle") IN
           /\ CallInv(t, r)
           /\ r.held = Held(t) /\ r.kind = "read" /\ r.pc \in {"idle", "release"}
<1> DEFINE r == Unwound(t, "idle")
<1>1. CallInv(t, req[t]) /\ req[t] \in Request /\ ShapeOK(req[t])
  BY CallOf
<1>3. /\ r.held = Held(t) /\ r.kind = "read" /\ r.mode = "current" /\ r.token = Null
      /\ r.pc = (IF Held(t) = <<>> THEN "idle" ELSE "release") /\ r.then = "idle"
      /\ r \in Request
  BY <1>1, UnwoundIdle
<1> HIDE DEF r
<1>4. ShapeOK(r)
  BY <1>1, <1>3 DEF ShapeOK, Releasing, Held, ReadsKept, ReadsOwn, Deep, Resuming, Working, Selecting
<1>5. ~Working(r) /\ ~ReadsKept(r) /\ ~Retrying(r) /\ ~Resuming(r)
  BY <1>3 DEF Working, Selecting, ReadsOwn, ReadsKept, Resuming, Retrying
<1>6. HeldOK(t, r)
  <2>1. HeldOK(t, req[t])
    BY <1>1 DEF CallInv
  <2>2. ~Releasing(req[t])
    BY DEF Releasing
  <2> QED
    BY <1>3, <2>1, <2>2 DEF HeldOK, Held
<1>7. ReadOK(t, r) /\ ChainOK(r)
  BY <1>3, <1>5 DEF ReadOK, ChainOK
<1>8. CallInv(t, r)
  BY <1>4, <1>5, <1>6, <1>7 DEF CallInv
<1> QED
  BY <1>3, <1>8 DEF r

\* Every way out of a call that is not releasing yet.
LEMMA FailKeeps ==
    ASSUME IInv, NEW t \in Thread, Fail(t), req[t].pc \notin {"idle", "release", "native"},
           UNCHANGED <<World, handle, kept>>, failures' \in 0 .. MaxFailures,
           (syncs' = syncs /\ req[t].pc # "wait") \/ syncs' = syncs \ MySyncs(t)
    PROVE  IInv'
<1> DEFINE r == Unwound(t, "idle")
<1>1. CallInv(t, r) /\ r.held = Held(t) /\ r.kind = "read" /\ r.pc # "native"
  BY Unwinds
<1>2. req' = [req EXCEPT ![t] = r]
  BY DEF Fail
<1> HIDE DEF r
<1> QED
  BY <1>1, <1>2, CallMoves

-----------------------------------------------------------------------------
(* Steps of a call that move no basis.                                     *)

\* What is held changes hands only when it is released.
LEMMA HeldOn ==
    ASSUME NEW t, NEW c, NEW r, HeldOK(t, c), ~Releasing(c), r.held = c.held, r.pc # "native"
    PROVE  HeldOK(t, r)
BY DEF HeldOK, Releasing

\* A call that is not a read through a Snapshot moves on.
LEMMA GoesOn ==
    ASSUME IInv, NEW t \in Thread, NEW r, CallInv(t, req[t]), ~Releasing(req[t]),
           req' = [req EXCEPT ![t] = r], ShapeOK(r), r.held = Held(t),
           r.pc # "native", ~ReadsKept(r), Working(r) => t \in Caller, ChainOK(r),
           r.kind = "snapshot" /\ r.pc # "idle" => Pending(t),
           UNCHANGED <<World, handle, kept>>, failures' \in 0 .. MaxFailures,
           (syncs' = syncs /\ req[t].pc # "wait") \/ syncs' = syncs \ MySyncs(t)
    PROVE  IInv'
<1>1. HeldOK(t, r)
  BY HeldOn DEF CallInv, Held
<1>2. ReadOK(t, r)
  BY DEF ReadOK
<1>3. CallInv(t, r)
  BY <1>1, <1>2 DEF CallInv
<1> QED
  BY <1>3, CallMoves

LEMMA BoundsHold ==
    ASSUME IInv, NEW t \in Thread
    PROVE  /\ lifecycle \in Int /\ failures \in 0 .. MaxFailures /\ failures \in Int
           /\ req[t].captured \in Int
           /\ \A w \in Wanted : w.lifecycle \in Int /\ w.revision \in Int
           /\ 0 \in 0 .. MaxLifecycle
           /\ lifecycle \in 0 .. MaxLifecycle
BY BasisBoundsAssumption, WantedAssumption DEF IInv, WorldOK, Request

LEMMA BeginKeeps ==
    ASSUME IInv, NEW t \in Thread, Begin(t)
    PROVE  IInv'
<1>1. PICK kind \in {"read", "walk", "snapshot"}, mode \in Mode :
        \E token \in IF mode \in {"at-least", "exact"} THEN Wanted ELSE {Null} :
          /\ kind = "snapshot" =>
               Cardinality(kept) + Cardinality({u \in Thread : Pending(u)}) < MaxKept
          /\ req' = [req EXCEPT ![t] =
                       [Idle EXCEPT !.pc = "select", !.kind = kind, !.mode = mode,
                                    !.token = token, !.captured = lifecycle]]
  BY DEF Begin
<1>2. PICK token \in IF mode \in {"at-least", "exact"} THEN Wanted ELSE {Null} :
        req' = [req EXCEPT ![t] =
                  [Idle EXCEPT !.pc = "select", !.kind = kind, !.mode = mode,
                               !.token = token, !.captured = lifecycle]]
  BY <1>1
<1> DEFINE r == [Idle EXCEPT !.pc = "select", !.kind = kind, !.mode = mode,
                             !.token = token, !.captured = lifecycle]
<1>3. Idle.held = <<>>
  BY DEF Idle
<1>4. /\ r \in Request /\ r.pc = "select" /\ r.kind = kind /\ r.mode = mode
      /\ r.token = token /\ r.captured = lifecycle /\ r.held = <<>>
  BY <1>3, IdleRequest, BoundsHold DEF Request, Stage
<1>5. req[t].pc = "idle" /\ t \in Caller /\ Held(t) = <<>>
  BY CallOf DEF Begin, ShapeOK, Held
<1>6. req' = [req EXCEPT ![t] = r]
  BY <1>2
<1> HIDE DEF r
<1>7. ShapeOK(r)
  <2>1. token # Null => mode \in {"at-least", "exact"} /\ token \in Wanted
    BY <1>2
  <2>2. mode \in {"at-least", "exact"} => token \in Wanted
    OBVIOUS
  <2> QED
    BY <1>4, <2>1, <2>2 DEF ShapeOK, Releasing, ReadsKept, ReadsOwn, Deep, Resuming
<1>8. CallInv(t, r)
  <2>1. HeldOK(t, r) /\ ReadOK(t, r)
    BY <1>4 DEF HeldOK, ReadOK, ReadsKept
  <2>2. ChainOK(r)
    BY <1>4, BoundsHold DEF ChainOK, Retrying, Releasing
  <2> QED
    BY <1>5, <1>7, <2>1, <2>2 DEF CallInv
<1>9. SyncInv'
  BY <1>4, <1>5, <1>6, SyncsKept DEF Begin, IInv, SyncInv
<1>10. CapacityInv'
  <2> DEFINE P == {u \in Thread : Pending(u)}
  <2>1. CASE kind = "snapshot"
    <3>1. P' \subseteq P \cup {t}
      BY <1>4, <1>6, Replaced DEF Pending
    <3>2. IsFiniteSet(P') /\ Cardinality(P') \in Nat /\ Cardinality(P) \in Nat
          /\ Cardinality(P') <= Cardinality(P) + 1
      BY <3>1, PendingCallers, OneMore
    <3>3. kept' = kept /\ IsFiniteSet(kept) /\ Cardinality(kept) \in Nat
      BY FS_CardinalityType DEF Begin, IInv, CapacityInv
    <3>4. Cardinality(kept) + Cardinality(P) < MaxKept
      BY <1>1, <2>1
    <3>5. Cardinality(kept) + Cardinality(P') <= MaxKept
      BY <3>2, <3>3, <3>4, BasisBoundsAssumption
    <3> QED
      BY <3>3, <3>5 DEF CapacityInv
  <2>2. CASE kind # "snapshot"
    BY <1>4, <1>6, <2>2, CapacityKept DEF Begin
  <2> QED
    BY <2>1, <2>2
<1> QED
  BY <1>4, <1>5, <1>6, <1>8, <1>9, <1>10, BoundsHold, QuietStep DEF Begin, World, Holds, Held

LEMMA SelectKeeps ==
    ASSUME IInv, NEW t \in Thread, Select(t)
    PROVE  IInv'
<1>1. CASE ~Authenticated(t)
  BY <1>1, FailKeeps, BoundsHold DEF Select, World
<1>2. CASE Authenticated(t)
  <2> DEFINE c == req[t]
             r == [c EXCEPT !.pc = "acquire"]
  <2>1. CallInv(t, c) /\ c \in Request /\ ShapeOK(c) /\ c.pc = "select" /\ c.held = <<>>
    BY CallOf DEF Select, ShapeOK
  <2>2. req' = [req EXCEPT ![t] = r]
    BY <1>2 DEF Select, Goto
  <2>3. /\ r \in Request /\ r.pc = "acquire" /\ r.held = c.held /\ r.kind = c.kind
        /\ r.mode = c.mode /\ r.token = c.token /\ r.captured = c.captured
    BY <2>1 DEF Request, Stage
  <2> HIDE DEF r
  <2>4. ShapeOK(r)
    BY <2>1, <2>3 DEF ShapeOK, Releasing, ReadsKept, ReadsOwn, Deep, Resuming, Working, Selecting
  <2>5. t \in Caller
    BY <2>1 DEF CallInv, Working, Selecting
  <2>6. ChainOK(r)
    BY <1>2, <2>1, <2>3, BoundsHold DEF CallInv, ShapeOK, ChainOK, Authenticated, Working, Selecting
  <2> QED
    BY <2>1, <2>2, <2>3, <2>4, <2>5, <2>6, BoundsHold, GoesOn
    DEF Select, World, Held, Releasing, ReadsKept, Pending
<1> QED
  BY <1>1, <1>2

LEMMA StartSyncKeeps ==
    ASSUME IInv, NEW t \in Thread, StartSync(t)
    PROVE  IInv'
<1> DEFINE c == req[t]
           r == [c EXCEPT !.pc = "wait"]
           s == [caller |-> t, target |-> SyncTarget(t)]
<1>1. CallInv(t, c) /\ c \in Request /\ ShapeOK(c) /\ c.pc = "acquire"
  BY CallOf DEF StartSync
<1>2. req' = [req EXCEPT ![t] = r]
  BY DEF StartSync, Goto
<1>3. /\ r \in Request /\ r.pc = "wait" /\ r.held = c.held /\ r.kind = c.kind
      /\ r.mode = c.mode /\ r.token = c.token /\ r.captured = c.captured
  BY <1>1 DEF Request, Stage
<1> HIDE DEF r
<1>4. ShapeOK(r)
  BY <1>1, <1>3 DEF ShapeOK, Releasing, ReadsKept, ReadsOwn, Deep, Resuming, Working, Selecting
<1>5. CallInv(t, r)
  <2>1. HeldOK(t, r)
    BY <1>1, <1>3, HeldOn DEF CallInv, Releasing
  <2>2. ReadOK(t, r)
    BY <1>3 DEF ReadOK, ReadsKept
  <2>3. ChainOK(r)
    BY <1>1, <1>3 DEF CallInv, ChainOK, Working, Selecting
  <2>4. t \in Caller
    BY <1>1 DEF CallInv, Working, Selecting
  <2> QED
    BY <1>4, <2>1, <2>2, <2>3, <2>4 DEF CallInv
<1>6. SyncInv'
  <2>1. s.caller = t
    OBVIOUS
  <2>2. syncs' = syncs \cup {s} /\ \A z \in syncs : z.caller \in Thread /\ z.caller # t
    BY <1>1 DEF StartSync, IInv, SyncInv
  <2> HIDE DEF s
  <2>3. req'[t].pc = "wait" /\ \A u \in Thread \ {t} : req'[u] = req[u]
    BY <1>2, <1>3, Replaced
  <2> QED
    BY <2>1, <2>2, <2>3 DEF IInv, SyncInv
<1>7. CapacityInv'
  BY <1>1, <1>2, <1>3, CapacityKept DEF StartSync, Pending
<1> QED
  BY <1>2, <1>3, <1>5, <1>6, <1>7, BoundsHold, QuietStep DEF StartSync, World, Holds, Held

LEMMA FailuresKeep ==
    ASSUME IInv, NEW t \in Thread,
           AcquireTooLate(t) \/ GiveUpSync(t) \/ SyncFails(t) \/ Reject(t) \/ Refuse(t) \/ Abort(t)
    PROVE  IInv'
<1>1. /\ Fail(t)
      /\ req[t].pc \in {"acquire", "wait", "identify", "certify", "read"}
      /\ (syncs' = syncs /\ req[t].pc # "wait") \/ syncs' = syncs \ MySyncs(t)
      /\ UNCHANGED <<World, handle, kept>>
      /\ failures' = failures \/ (failures < MaxFailures /\ failures' = failures + 1)
  BY DEF AcquireTooLate, GiveUpSync, SyncFails, Reject, Refuse, Abort, World
<1>2. failures' \in 0 .. MaxFailures
  BY <1>1, BoundsHold, BasisBoundsAssumption
<1> QED
  BY <1>1, <1>2, FailKeeps

\* A call that will acquire again gives back the candidate it holds, first.
LEMMA UnwoundOn ==
    ASSUME NEW t \in Thread, req[t] \in Request, Held(t) # <<>>,
           NEW then \in {"acquire", "select"}
    PROVE  LET r == Unwound(t, then)
               c == req[t] IN
           /\ r \in Request
           /\ r.held = c.held /\ r.pc = "release" /\ r.then = then /\ r.kind = c.kind
           /\ r.mode = c.mode /\ r.token = c.token /\ r.captured = c.captured
<1>1. Unwound(t, then) =
        [[req[t] EXCEPT !.using = Null] EXCEPT !.pc = "release", !.held = Held(t), !.then = then]
  BY DEF Unwound
<1>2. Held(t) \in Seq(Handle) /\ "release" \in Stage
  BY DEF Held, Request, Stage
<1> QED
  BY <1>1, <1>2 DEF Request, Held

LEMMA OneOfTwo ==
    ASSUME NEW S, NEW s \in Seq(S), s # <<>>, Len(s) <= 2, Len(s) # 2
    PROVE  Len(s) = 1
<1>1. Len(s) \in Nat /\ Len(s) # 0
  BY EmptySeq
<1>2. \A n \in Nat : n <= 2 /\ n # 2 /\ n # 0 => n = 1
  OBVIOUS
<1> QED
  BY <1>1, <1>2

\* A certified candidate of a call that is not recovering is all it holds.
LEMMA OnlyCandidate ==
    ASSUME NEW r, ShapeOK(r), r.pc \in {"identify", "certify", "read"}, r.held # <<>>,
           r.kind # "walk" \/ r.mode # "exact"
    PROVE  Len(r.held) = 1
<1>1. Len(r.held) # 2 /\ Len(r.held) <= 2 /\ r.held \in Seq(Handle)
  BY DEF ShapeOK, Deep, Request
<1> QED
  BY <1>1, OneOfTwo

LEMMA RetryKeeps ==
    ASSUME IInv, NEW t \in Thread, Retry(t)
    PROVE  IInv'
<1> DEFINE c == req[t]
           r == Unwound(t, "acquire")
<1>1. /\ CallInv(t, c) /\ c \in Request /\ ShapeOK(c) /\ c.pc = "certify" /\ c.held # <<>>
      /\ c.mode = "at-least" /\ Len(c.held) = 1
  BY CallOf, OnlyCandidate DEF Retry, Behind, ShapeOK
<1>2. /\ r \in Request /\ r.held = c.held /\ r.pc = "release" /\ r.then = "acquire"
      /\ r.kind = c.kind /\ r.mode = c.mode /\ r.token = c.token /\ r.captured = c.captured
  BY <1>1, UnwoundOn DEF Held
<1>3. req' = [req EXCEPT ![t] = r]
  BY DEF Retry
<1> HIDE DEF r
<1>4. t \in Caller /\ c.kind # "kept"
  BY <1>1 DEF CallInv, ShapeOK, Working, Selecting
<1>5. ShapeOK(r)
  BY <1>1, <1>2, <1>4 DEF ShapeOK, Releasing, ReadsKept, ReadsOwn, Deep, Resuming, Working, Selecting
<1>6. ChainOK(r)
  <2>1. handle[Last(c)].history <= lifecycle /\ handle[Last(c)].history \in Int
    <3>1. Last(c) = c.held[1] /\ 1 \in DOMAIN c.held /\ Last(c) \in Handle
      BY <1>1 DEF Last, Request
    <3>2. handle[Last(c)] \in Basis
      BY <1>1, <3>1 DEF CallInv, HeldOK
    <3> QED
      BY <3>1, <3>2, NullAssumption, BasisBoundsAssumption DEF IInv, HandleOK, Basis
  <2>2. c.token # Null => c.token.lifecycle <= lifecycle
    BY <1>1, <2>1, BoundsHold DEF CallInv, ShapeOK, ChainOK
  <2>3. c.captured <= lifecycle
    BY <1>1 DEF CallInv, ChainOK, Working, Selecting
  <2> QED
    BY <1>2, <2>2, <2>3 DEF ChainOK
<1> QED
  BY <1>1, <1>2, <1>3, <1>4, <1>5, <1>6, BoundsHold, GoesOn
  DEF Retry, World, Held, Releasing, ReadsKept, Pending

LEMMA StartOverKeeps ==
    ASSUME IInv, NEW t \in Thread, StartOver(t)
    PROVE  IInv'
<1> DEFINE c == req[t]
           r == [Unwound(t, "select") EXCEPT !.captured = lifecycle]
<1>1. CallInv(t, c) /\ c \in Request /\ ShapeOK(c) /\ c.pc = "certify" /\ c.held # <<>>
  BY CallOf DEF StartOver, ShapeOK
<1>2. Len(c.held) = 1
  <2>1. c.held \in Seq(Handle) /\ Len(c.held) <= 2 /\ Len(c.held) # 2
    BY <1>1 DEF StartOver, Confirmed, Recovering, Held, ShapeOK, Request
  <2> QED
    BY <1>1, <2>1, OneOfTwo
<1>3. /\ r \in Request /\ r.held = c.held /\ r.pc = "release" /\ r.then = "select"
      /\ r.kind = c.kind /\ r.mode = c.mode /\ r.token = c.token /\ r.captured = lifecycle
  BY <1>1, UnwoundOn, BoundsHold, SMTT(30) DEF Held, Request
<1>4. req' = [req EXCEPT ![t] = r]
  BY DEF StartOver
<1> HIDE DEF r
<1>5. t \in Caller /\ c.kind # "kept"
  BY <1>1 DEF CallInv, ShapeOK, Working, Selecting
<1>6. ShapeOK(r)
  BY <1>1, <1>2, <1>3, <1>5
  DEF ShapeOK, Releasing, ReadsKept, ReadsOwn, Deep, Resuming, Working, Selecting
<1>7. ChainOK(r)
  BY <1>3, BoundsHold DEF ChainOK, Retrying
<1> QED
  BY <1>1, <1>3, <1>4, <1>5, <1>6, <1>7, BoundsHold, GoesOn
  DEF StartOver, World, Held, Releasing, ReadsKept, Pending

\* The last basis a working call holds is a real one, of a known history.
LEMMA CandidateIs ==
    ASSUME IInv, NEW t \in Thread, Held(t) # <<>>
    PROVE  /\ Top(t) = Last(req[t]) /\ Top(t) \in Handle /\ Holds(req[t], Top(t))
           /\ Len(Held(t)) \in DOMAIN Held(t)
           /\ Candidate(t) \in Basis /\ Candidate(t) # Null
           /\ Candidate(t).history \in Int /\ Candidate(t).lifecycle \in Int
           /\ Candidate(t).revision \in Int
           /\ Candidate(t).history <= lifecycle /\ Candidate(t).lifecycle <= lifecycle
<1>1. CallInv(t, req[t]) /\ req[t] \in Request
  BY CallOf
<1>2. Held(t) \in Seq(Handle) /\ Len(Held(t)) \in DOMAIN Held(t)
  BY <1>1 DEF Held, Request
<1>3. Top(t) = Last(req[t]) /\ Top(t) \in Handle /\ Holds(req[t], Top(t))
  BY <1>2 DEF Top, Last, Held, Holds
<1>4. Candidate(t) \in Basis /\ Candidate(t) # Null
  BY <1>1, <1>2, NullAssumption DEF CallInv, HeldOK, Held, Top, Candidate
<1>5. HandleOK(Top(t))
  BY <1>3 DEF IInv
<1> QED
  BY <1>2, <1>3, <1>4, <1>5, BasisBoundsAssumption DEF HandleOK, Candidate, Basis

LEMMA AcceptKeeps ==
    ASSUME IInv, NEW t \in Thread, Accept(t)
    PROVE  IInv'
<1> DEFINE c == req[t]
           r == [req[t] EXCEPT !.pc = "read", !.using = Top(t), !.captured = 0]
<1>1. CallInv(t, c) /\ c \in Request /\ ShapeOK(c) /\ c.pc = "certify" /\ c.held # <<>>
  BY CallOf DEF Accept, ShapeOK
<1>2. Held(t) # <<>> /\ Held(t) = c.held
  BY <1>1 DEF Held
<1>3. Top(t) = Last(c) /\ Top(t) \in Handle
  BY <1>2, CandidateIs
<1>4. /\ r \in Request /\ r.held = c.held /\ r.pc = "read" /\ r.using = Top(t)
      /\ r.kind = c.kind /\ r.mode = c.mode /\ r.token = c.token /\ r.captured = 0
  BY <1>1, <1>3, BoundsHold DEF Request, Stage
<1>5. req' = [req EXCEPT ![t] = r]
  BY DEF Accept
<1> HIDE DEF r
<1>6. t \in Caller /\ c.kind # "kept"
  BY <1>1 DEF CallInv, ShapeOK, Working, Selecting
<1>7. Last(r) = Top(t)
  BY <1>3, <1>4 DEF Last
<1>8. ShapeOK(r)
  BY <1>1, <1>4, <1>6, <1>7
  DEF ShapeOK, Releasing, ReadsKept, ReadsOwn, Deep, Resuming, Working, Selecting
<1>9. ChainOK(r)
  <2> DEFINE b == Candidate(t)
  <2>1. b = handle[Top(t)]
    BY DEF Candidate
  <2>2. /\ b.history \in Int /\ b.lifecycle \in Int /\ b.revision \in Int
        /\ b.history <= lifecycle /\ b.lifecycle <= lifecycle
    BY <1>2, CandidateIs
  <2>3. b.history <= b.lifecycle
    BY <1>1, <1>3, <2>1 DEF CallInv, ChainOK
  <2>4. c.kind = "snapshot" => b.history = b.lifecycle
    <3>1. SUFFICES ASSUME c.kind = "snapshot" PROVE b.history = b.lifecycle
      OBVIOUS
    <3>2. Len(c.held) = 1
      BY <1>1, <3>1, OnlyCandidate
    <3>3. c.captured = lifecycle /\ b.lifecycle = c.captured
      BY <1>2, <3>2 DEF Accept, Confirmed, Recovering
    <3>4. c.captured <= b.history
      BY <1>1, <1>3, <2>1, <3>2 DEF CallInv, ChainOK
    <3> QED
      BY <2>2, <3>3, <3>4
  <2>5. c.token # Null => Honours(b, c)
    <3>1. SUFFICES ASSUME c.token # Null PROVE Honours(b, c)
      OBVIOUS
    <3>2. b.lifecycle = c.token.lifecycle
      BY <3>1 DEF Accept, Rejected, SameScope
    <3>3. c.token.lifecycle <= b.history
      BY <1>1, <1>3, <2>1, <3>1 DEF CallInv, ChainOK
    <3>4. b.history = c.token.lifecycle
      BY <2>2, <2>3, <3>2, <3>3
    <3>5. c.mode \in {"at-least", "exact"} /\ c.token.revision \in Int
      BY <1>1, <3>1, BoundsHold DEF ShapeOK
    <3>6. c.mode = "exact" => b.revision = c.token.revision
      BY DEF Accept, Rejected, Diverged
    <3>7. c.mode = "at-least" => b.revision >= c.token.revision
      BY <2>2, <3>5 DEF Accept, Behind
    <3> QED
      BY <3>4, <3>5, <3>6, <3>7 DEF Honours
  <2> HIDE DEF b
  <2> QED
    BY <1>4, <1>7, <2>1, <2>4, <2>5, BoundsHold DEF ChainOK, Honours, Retrying, Releasing
<1> QED
  BY <1>1, <1>4, <1>5, <1>6, <1>8, <1>9, BoundsHold, GoesOn
  DEF Accept, World, Held, Releasing, ReadsKept, Pending

LEMMA DeadlineKeeps ==
    ASSUME IInv, NEW t \in Thread, DeadlinePasses(t)
    PROVE  IInv'
<1> DEFINE c == req[t]
           r == [c EXCEPT !.late = TRUE]
<1>1. CallInv(t, c) /\ c \in Request
  BY CallOf
<1>2. /\ r \in Request /\ r.pc = c.pc /\ r.kind = c.kind /\ r.mode = c.mode /\ r.token = c.token
      /\ r.captured = c.captured /\ r.held = c.held /\ r.using = c.using /\ r.then = c.then
  BY <1>1 DEF Request
<1>3. req' = [req EXCEPT ![t] = r]
  BY DEF DeadlinePasses
<1> HIDE DEF r
<1>4. /\ Releasing(r) <=> Releasing(c)
      /\ Resuming(r) <=> Resuming(c)
      /\ Retrying(r) <=> Retrying(c)
      /\ Working(r) <=> Working(c)
      /\ ReadsKept(r) <=> ReadsKept(c)
      /\ ReadsOwn(r) <=> ReadsOwn(c)
      /\ Deep(r) <=> Deep(c)
      /\ Last(r) = Last(c)
  BY <1>2 DEF Releasing, Resuming, Retrying, Working, Selecting, ReadsOwn, ReadsKept, Deep, Last
<1>5. ShapeOK(r)
  BY <1>1, <1>2, <1>4 DEF CallInv, ShapeOK
<1>6. HeldOK(t, r) /\ ReadOK(t, r)
  BY <1>1, <1>2, <1>4 DEF CallInv, HeldOK, ReadOK
<1>7. ChainOK(r)
  BY <1>1, <1>2, <1>4 DEF CallInv, ChainOK, Honours
<1>8. CallInv(t, r)
  BY <1>1, <1>4, <1>5, <1>6, <1>7 DEF CallInv
<1>9. SyncInv'
  <2>1. \A u \in Thread : req'[u].pc = req[u].pc
    BY <1>2, <1>3, Replaced
  <2> QED
    BY <2>1 DEF DeadlinePasses, IInv, SyncInv
<1>10. CapacityInv'
  <2>1. r.kind = "snapshot" /\ r.pc # "idle" => Pending(t)
    BY <1>2 DEF Pending
  <2>2. kept' = kept
    BY DEF DeadlinePasses
  <2> QED
    BY <1>2, <1>3, <2>1, <2>2, CapacityKept
<1> QED
  BY <1>2, <1>3, <1>8, <1>9, <1>10, BoundsHold, QuietStep DEF DeadlinePasses, World, Holds, Held

LEMMA RecoverKeeps ==
    ASSUME IInv, NEW t \in Thread, RecoverCursor(t)
    PROVE  IInv'
<1> DEFINE c == req[t]
<1>1. PICK cursor \in Wanted :
        /\ cursor.lifecycle = Candidate(t).lifecycle
        /\ req' = [req EXCEPT ![t].pc = "acquire", ![t].mode = "exact",
                              ![t].token = cursor, ![t].using = Null]
  BY DEF RecoverCursor
<1> DEFINE r == [c EXCEPT !.pc = "acquire", !.mode = "exact", !.token = cursor, !.using = Null]
<1>2. /\ CallInv(t, c) /\ c \in Request /\ ShapeOK(c) /\ c.pc = "read" /\ c.kind = "walk"
      /\ c.held # <<>>
  BY CallOf DEF RecoverCursor, ShapeOK, ReadsOwn
<1>3. Len(c.held) = 1
  BY <1>2, OneOfTwo DEF RecoverCursor, Recovering, Held, ShapeOK, Request
<1>4. /\ r \in Request /\ r.held = c.held /\ r.pc = "acquire" /\ r.kind = c.kind
      /\ r.mode = "exact" /\ r.token = cursor /\ r.captured = c.captured
  BY <1>2 DEF Request, Stage, Mode
<1>5. req' = [req EXCEPT ![t] = r]
  BY <1>1
<1> HIDE DEF r
<1>6. ShapeOK(r)
  <2>1. Len(r.held) <= 2 /\ Len(r.held) <= 1
    <3>1. Len(r.held) = 1
      BY <1>3, <1>4
    <3>2. \A n : n = 1 => n <= 2 /\ n <= 1
      OBVIOUS
    <3> QED
      BY <3>1, <3>2
  <2>2. ~Releasing(r) /\ ~ReadsKept(r) /\ ~ReadsOwn(r) /\ ~Resuming(r)
    BY <1>4 DEF Releasing, ReadsKept, ReadsOwn, Resuming
  <2> QED
    BY <1>2, <1>4, <2>1, <2>2 DEF ShapeOK
<1>7. t \in Caller /\ c.captured <= lifecycle
  BY <1>2 DEF CallInv, ChainOK, Working, ReadsOwn
<1>8. cursor.lifecycle <= lifecycle
  BY <1>1, <1>2, CandidateIs DEF Held
<1>9. ChainOK(r)
  BY <1>4, <1>7, <1>8 DEF ChainOK
<1> QED
  BY <1>2, <1>4, <1>5, <1>6, <1>7, <1>9, BoundsHold, GoesOn
  DEF RecoverCursor, World, Held, Releasing, ReadsKept, Pending

LEMMA ReadKeptKeeps ==
    ASSUME IInv, NEW t \in Thread, NEW h \in Handle, ReadKept(t, h)
    PROVE  IInv'
<1>1. PICK mode \in {"current", "at-least", "exact"} :
        \E token \in IF mode = "current" THEN {Null} ELSE Wanted :
          /\ Covers(handle[h], mode, token)
          /\ req' = [req EXCEPT ![t] =
                       [Idle EXCEPT !.pc = "read", !.kind = "kept", !.mode = mode,
                                    !.token = token, !.using = h]]
  BY DEF ReadKept
<1>2. PICK token \in IF mode = "current" THEN {Null} ELSE Wanted :
        /\ Covers(handle[h], mode, token)
        /\ req' = [req EXCEPT ![t] =
                     [Idle EXCEPT !.pc = "read", !.kind = "kept", !.mode = mode,
                                  !.token = token, !.using = h]]
  BY <1>1
<1> DEFINE r == [Idle EXCEPT !.pc = "read", !.kind = "kept", !.mode = mode,
                             !.token = token, !.using = h]
<1>3. Idle.held = <<>>
  BY DEF Idle
<1>4. /\ r \in Request /\ r.pc = "read" /\ r.kind = "kept" /\ r.mode = mode /\ r.token = token
      /\ r.held = <<>> /\ r.using = h
  <2>1. mode \in Mode /\ token \in Wanted \cup {Null} /\ h \in Handle \cup {Null}
    BY <1>2 DEF Mode
  <2>2. r = KeptAs(Idle, mode, token, h)
    BY DEF KeptAs
  <2> HIDE DEF r
  <2> QED
    BY <1>3, <2>1, <2>2, IdleRequest, KeptRequest
<1>5. req' = [req EXCEPT ![t] = r]
  BY <1>2
<1> HIDE DEF r
<1>6. Held(t) = <<>> /\ req[t].pc = "idle" /\ h \in kept
  BY CallOf DEF ReadKept, ShapeOK, Held
<1>7. ShapeOK(r)
  <2>1. Len(<<>>) = 0
    OBVIOUS
  <2>2. token # Null => mode \in {"at-least", "exact"}
    BY <1>2
  <2>3. mode \in {"at-least", "exact"} => token \in Wanted
    BY <1>2
  <2> QED
    BY <1>4, <2>1, <2>2, <2>3
    DEF ShapeOK, Releasing, ReadsKept, ReadsOwn, Deep, Resuming, Working, Selecting
<1>8. HeldOK(t, r)
  BY <1>4 DEF HeldOK
<1>9. ReadOK(t, r)
  BY <1>4, <1>6 DEF ReadOK, ReadKept, AssertOpen, MayTouch
<1>10. ~Working(r) /\ ~Retrying(r)
  BY <1>4 DEF Working, Selecting, ReadsOwn, Resuming, Retrying, Releasing
<1>11. r.token # Null => Honours(handle[r.using], r)
  <2>1. handle[h].history = handle[h].lifecycle
    BY <1>6 DEF IInv, HandleOK
  <2> QED
    BY <1>2, <1>4, <2>1 DEF Honours, Covers
<1>12. CallInv(t, r)
  BY <1>4, <1>7, <1>8, <1>9, <1>10, <1>11 DEF CallInv, ChainOK
<1> QED
  BY <1>4, <1>5, <1>6, <1>12, BoundsHold, CallMoves DEF ReadKept, World

LEMMA ReleaseKeptKeeps ==
    ASSUME IInv, NEW t \in Thread, NEW h \in Handle, ReleaseKept(t, h)
    PROVE  IInv'
<1> DEFINE r == [Idle EXCEPT !.pc = "release", !.kind = "kept", !.held = <<h>>]
<1>1. /\ Idle.then = "idle" /\ Idle.token = Null /\ Idle.mode = "current"
      /\ <<h>> \in Seq(Handle) /\ Len(<<h>>) = 1 /\ <<h>> # <<>>
  BY DEF Idle
<1>2. /\ r \in Request /\ r.pc = "release" /\ r.kind = "kept" /\ r.held = <<h>>
      /\ r.then = "idle" /\ r.token = Null /\ r.mode = "current"
  BY <1>1, IdleRequest DEF Request, Stage
<1>3. req' = [req EXCEPT ![t] = r]
  BY DEF ReleaseKept
<1> HIDE DEF r
<1>4. Held(t) = <<>> /\ req[t].pc = "idle" /\ h \in kept
  BY CallOf DEF ReleaseKept, ShapeOK, Held
<1>5. ShapeOK(r)
  BY <1>1, <1>2 DEF ShapeOK, Releasing, ReadsKept, ReadsOwn, Deep, Resuming, Working, Selecting
<1>6. HeldOK(t, r)
  <2>1. handle[h] \in Basis
    BY <1>4 DEF IInv, WorldOK, HandleOK
  <2>2. DOMAIN r.held = {1} /\ r.held[1] = h
    BY <1>2
  <2> QED
    BY <1>1, <1>2, <1>4, <2>1, <2>2 DEF HeldOK, Releasing, ReleaseKept, MayTouch
<1>7. ~Working(r) /\ ~Retrying(r) /\ ~ReadsKept(r)
  BY <1>2 DEF Working, Selecting, ReadsOwn, ReadsKept, Resuming, Retrying, Releasing
<1>8. CallInv(t, r)
  BY <1>2, <1>5, <1>6, <1>7 DEF CallInv, ReadOK, ChainOK
<1>9. SyncInv'
  BY <1>2, <1>3, <1>4, SyncsKept DEF ReleaseKept, IInv, SyncInv
<1>10. CapacityInv'
  BY <1>2, <1>3, CapacityKept DEF ReleaseKept
<1>11. \A g : ~Holds(req[t], g)
  BY <1>4 DEF Holds, Held
<1>12. UNCHANGED <<World, handle, kept>> /\ failures' \in 0 .. MaxFailures
  BY BoundsHold DEF ReleaseKept, World
<1>13. r.pc # "native"
  BY <1>2
<1> HIDE DEF World
<1> QED
  BY <1>3, <1>8, <1>9, <1>10, <1>11, <1>12, <1>13, QuietStep

-----------------------------------------------------------------------------
(* Steps that move a basis.                                                *)

LEMMA TouchedIsBasis ==
    ASSUME IInv, NEW u \in Thread, NEW h, Touches(req[u], h)
    PROVE  h \in Handle /\ handle[h] \in Basis
<1>1. CallInv(u, req[u]) /\ ShapeOK(req[u]) /\ req[u] \in Request
  BY CallOf
<1>2. CASE Holds(req[u], h)
  BY <1>1, <1>2 DEF CallInv, HeldOK, Holds, Request
<1>3. CASE req[u].pc = "read" /\ req[u].using = h
  <2>1. CASE req[u].kind = "kept"
    BY <1>1, <1>3, <2>1 DEF CallInv, ReadOK, ReadsKept, IInv, WorldOK, HandleOK
  <2>2. CASE req[u].kind # "kept"
    <3>1. Held(u) # <<>> /\ h = Top(u)
      BY <1>1, <1>3, <2>2, CandidateIs DEF ShapeOK, ReadsOwn, Held
    <3> QED
      BY <3>1, CandidateIs DEF Candidate
  <2> QED
    BY <2>1, <2>2
<1> QED
  BY <1>2, <1>3 DEF Touches

\* Two calls meet at a Snapshot of an unowned backend, or nowhere.
LEMMA Private ==
    ASSUME IInv, NEW t \in Thread, NEW u \in Thread \ {t}, NEW h,
           Holds(req[t], h), Touches(req[u], h)
    PROVE  h \in kept /\ ~Affine
<1>1. CallInv(t, req[t]) /\ CallInv(u, req[u])
  BY CallOf
<1>2. h \notin kept \/ Affine => handle[h].owner = t
  BY <1>1 DEF CallInv, HeldOK, Holds
<1>3. CASE Holds(req[u], h)
  <2>1. h \notin kept \/ Affine => handle[h].owner = u
    BY <1>1, <1>3 DEF CallInv, HeldOK, Holds
  <2> QED
    BY <1>2, <2>1
<1>4. CASE req[u].pc = "read" /\ req[u].using = h /\ req[u].kind # "kept"
  <2>1. Holds(req[u], h)
    BY <1>1, <1>4, CandidateIs DEF CallInv, ShapeOK, ReadsOwn, Held
  <2> QED
    BY <1>3, <2>1
<1>5. CASE req[u].pc = "read" /\ req[u].using = h /\ req[u].kind = "kept"
  BY <1>1, <1>2, <1>5 DEF CallInv, ReadOK, ReadsKept
<1> QED
  BY <1>3, <1>4, <1>5 DEF Touches

LEMMA BasisStep ==
    ASSUME IInv, NEW t \in Thread, NEW r \in Request, req' = [req EXCEPT ![t] = r],
           UNCHANGED World, failures' \in 0 .. MaxFailures,
           handle' \in [Handle -> Basis \cup {Null}], kept' \subseteq Handle,
           CallInv(t, r)',
           \A u \in Thread \ {t} : \A h : Touches(req[u], h) => Steady(h),
           \A h \in Handle : HandleOK(h)',
           NativeInv', SyncInv', CapacityInv'
    PROVE  IInv'
<1>1. req' \in [Thread -> Request] /\ req'[t] = r /\ \A u \in Thread \ {t} : req'[u] = req[u]
  BY Replaced
<1>2. WorldOK'
  BY <1>1 DEF IInv, WorldOK, World
<1>3. lifecycle \in Int /\ lifecycle' = lifecycle /\ backend' = backend
  BY BoundsHold DEF World
<1>4. ASSUME NEW u \in Thread PROVE CallInv(u, req[u])'
  <2>1. CASE u = t
    BY <1>1, <2>1
  <2>2. CASE u # t
    <3>1. CallInv(u, req[u]) /\ req'[u] = req[u]
      BY <1>1, <2>2 DEF IInv
    <3>2. \A h : Touches(req[u], h) => Steady(h)
      BY <2>2
    <3>3. CallInv(u, req'[u]) /\ \A h : Touches(req'[u], h) => Steady(h)
      BY <3>1, <3>2
    <3> QED
      BY <3>3, <1>3, CallFrame
  <2> QED
    BY <2>1, <2>2
<1> QED
  BY <1>2, <1>4 DEF IInv

\* There is always a basis left for a call that may acquire one.
LEMMA FreeExists ==
    ASSUME IInv, NEW t \in Thread, req[t].pc \in {"acquire", "wait"}
    PROVE  FreeHandle \in Handle /\ handle[FreeHandle] = Null
<1> DEFINE Transient == {h \in Handle : handle[h] # Null /\ h \notin kept}
           Places    == (Caller \X (1 .. 2)) \ {<<t, 2>>}
           Place(h)  == CHOOSE i \in 1 .. 2 : i \in DOMAIN Held(handle[h].owner)
                                            /\ Held(handle[h].owner)[i] = h
           Seat      == [h \in Transient |-> <<handle[h].owner, Place(h)>>]
<1>1. ASSUME NEW h \in Transient
      PROVE  /\ handle[h].owner \in Caller /\ Place(h) \in 1 .. 2
             /\ Place(h) \in DOMAIN Held(handle[h].owner) /\ Held(handle[h].owner)[Place(h)] = h
  <2> DEFINE u == handle[h].owner
  <2>1. u \in Caller /\ u \in Thread /\ Holds(req[u], h)
    BY CallerAssumption DEF IInv, HandleOK
  <2>2. Held(u) \in Seq(Handle) /\ Len(Held(u)) <= 2
    BY <2>1, CallOf DEF ShapeOK, Request, Held
  <2>3. \E i \in 1 .. 2 : i \in DOMAIN Held(u) /\ Held(u)[i] = h
    BY <2>1, <2>2 DEF Holds, Held
  <2> HIDE DEF u
  <2>4. \E i \in 1 .. 2 : i \in DOMAIN Held(handle[h].owner) /\ Held(handle[h].owner)[i] = h
    BY <2>3 DEF u
  <2> QED
    BY <2>1, <2>4 DEF u
<1>2. CallInv(t, req[t]) /\ Len(Held(t)) <= 1 /\ Held(t) \in Seq(Handle) /\ t \in Caller
  BY CallOf DEF CallInv, ShapeOK, Request, Held, Working, Selecting
<1> HIDE DEF Place
<1>3. Seat \in [Transient -> Places]
  BY <1>1, <1>2
<1>4. \A g, h \in Transient : Seat[g] = Seat[h] => g = h
  <2>1. SUFFICES ASSUME NEW g \in Transient, NEW h \in Transient, Seat[g] = Seat[h] PROVE g = h
    OBVIOUS
  <2>2. handle[g].owner = handle[h].owner /\ Place(g) = Place(h)
    BY <2>1
  <2> QED
    BY <1>1, <2>2
<1>5. Seat \in Injection(Transient, Places)
  BY <1>3, <1>4 DEF Injection, IsInjective
<1>6. /\ IsFiniteSet(Places) /\ Cardinality(Places) = 2 * Cardinality(Caller) - 1
      /\ Cardinality(Caller) \in Nat
  <2>1. IsFiniteSet(1 .. 2) /\ Cardinality(1 .. 2) = 2
    <3>1. IsFiniteSet({1}) /\ Cardinality({1}) = 1
      BY FS_Singleton
    <3>2. IsFiniteSet({1} \cup {2}) /\ Cardinality({1} \cup {2}) = Cardinality({1}) + 1
      BY <3>1, FS_AddElement
    <3>3. 1 .. 2 = {1} \cup {2}
      OBVIOUS
    <3> QED
      BY <3>1, <3>2, <3>3
  <2>2. Cardinality(Caller) \in Nat
    BY CallerAssumption, FS_CardinalityType
  <2>3. IsFiniteSet(Caller \X (1 .. 2)) /\ Cardinality(Caller \X (1 .. 2)) = Cardinality(Caller) * 2
    BY <2>1, CallerAssumption, FS_Product
  <2>4. <<t, 2>> \in Caller \X (1 .. 2)
    BY <1>2
  <2>5. IsFiniteSet(Places) /\ Cardinality(Places) = Cardinality(Caller \X (1 .. 2)) - 1
    BY <2>3, <2>4, FS_RemoveElement
  <2> HIDE DEF Places
  <2> QED
    BY <2>2, <2>3, <2>5
<1> HIDE DEF Seat, Places
<1>7. IsFiniteSet(Transient) /\ Cardinality(Transient) <= Cardinality(Places)
  BY <1>5, <1>6, FS_Injection
<1>8. Free # {}
  <2>1. SUFFICES ASSUME Free = {} PROVE FALSE
    OBVIOUS
  <2>2. kept \cup Transient = Handle
    BY <2>1 DEF Free, IInv, WorldOK
  <2> HIDE DEF Transient
  <2>3. IsFiniteSet(kept) /\ Cardinality(kept) \in Nat /\ Cardinality(Transient) \in Nat
    BY <1>7, FS_CardinalityType DEF IInv, CapacityInv
  <2>4. Cardinality({u \in Thread : Pending(u)}) \in Nat
    BY PendingCallers, FS_CardinalityType
  <2>5. Cardinality(kept) <= MaxKept
    <3> DEFINE p == Cardinality({u \in Thread : Pending(u)})
    <3>1. p \in Nat /\ Cardinality(kept) + p <= MaxKept
      BY <2>4 DEF IInv, CapacityInv
    <3> HIDE DEF p
    <3> QED
      BY <2>3, <3>1, BasisBoundsAssumption
  <2>6. /\ Cardinality(kept \cap Transient) \in Nat
        /\ Cardinality(Handle) = Cardinality(kept) + Cardinality(Transient)
                                   - Cardinality(kept \cap Transient)
    <3>1. IsFiniteSet(kept \cap Transient)
      BY <1>7, FS_Subset
    <3> QED
      BY <1>7, <2>2, <2>3, <3>1, FS_Union, FS_CardinalityType
  <2> QED
    BY <1>6, <1>7, <2>3, <2>5, <2>6, BasisBoundsAssumption
<1> QED
  BY <1>8 DEF Free, FreeHandle

LEMMA OpenedKeeps ==
    ASSUME IInv, NEW t \in Thread, NEW revision \in 0 .. MaxRevision, Opened(t, revision),
           req[t].pc \in {"acquire", "wait"}, UNCHANGED <<World, kept, failures>>,
           \/ syncs' = syncs /\ req[t].pc = "acquire"
           \/ \E s \in MySyncs(t) : syncs' = syncs \ {s}
    PROVE  IInv'
<1> DEFINE c == req[t]
<1>1. CallInv(t, c) /\ c \in Request /\ ShapeOK(c) /\ t \in Caller
  BY CallOf DEF CallInv, Working, Selecting
<1>a. PICK f : f = FreeHandle
  OBVIOUS
<1>b. PICK b : b = [ owner |-> t, history |-> lifecycle, revision |-> revision,
                     lifecycle |-> 0, state |-> "open", closes |-> 0 ]
  OBVIOUS
<1>c. PICK r : r = [c EXCEPT !.pc = "identify", !.held = Append(@, f)]
  OBVIOUS
<1>2. f \in Handle /\ handle[f] = Null
  BY <1>a, FreeExists
<1>3. b \in Basis /\ b.owner = t /\ b.history = lifecycle /\ b.lifecycle = 0 /\ b.state = "open"
      /\ b.closes = 0
  BY <1>b, BoundsHold, BasisBoundsAssumption DEF Basis, IInv, WorldOK
<1>4. handle' = [handle EXCEPT ![f] = b] /\ req' = [req EXCEPT ![t] = r]
  BY <1>a, <1>b, <1>c DEF Opened
<1>5. /\ handle' \in [Handle -> Basis \cup {Null}] /\ handle'[f] = b
      /\ \A h \in Handle \ {f} : handle'[h] = handle[h]
  BY <1>2, <1>3, <1>4 DEF IInv, WorldOK
<1>6. /\ r \in Request /\ r.pc = "identify" /\ r.held = Append(c.held, f) /\ r.kind = c.kind
      /\ r.mode = c.mode /\ r.token = c.token /\ r.captured = c.captured
  <2>1. Append(c.held, f) \in Seq(Handle) /\ "identify" \in Stage
    BY <1>1, <1>2 DEF Request, Stage
  <2>2. r = [c EXCEPT !.pc = "identify", !.held = Append(c.held, f)]
    BY <1>c
  <2> QED
    BY <1>1, <2>1, <2>2 DEF Request
<1>7. /\ c.held \in Seq(Handle) /\ Len(r.held) = Len(c.held) + 1 /\ Len(r.held) <= 2
      /\ r.held # <<>> /\ Last(r) = f
      /\ r.held[Len(r.held)] = f /\ DOMAIN r.held = 1 .. (Len(c.held) + 1)
      /\ \A i \in 1 .. Len(c.held) : r.held[i] = c.held[i]
  BY <1>1, <1>2, <1>6 DEF Request, ShapeOK, Last
<1>8. f \notin kept /\ \A u \in Thread : \A h : Touches(req[u], h) => h # f /\ h \in Handle
  BY <1>2, NullAssumption, TouchedIsBasis DEF IInv, HandleOK
<1>9. ShapeOK(r)
  <2>1. Len(r.held) = 2 => c.held # <<>>
    <3>1. SUFFICES ASSUME c.held = <<>> PROVE Len(r.held) # 2
      OBVIOUS
    <3>2. Len(r.held) = 0 + 1
      BY <1>7, <3>1
    <3> QED
      BY <3>2
  <2> QED
    BY <1>1, <1>6, <1>7, <2>1
    DEF ShapeOK, Releasing, ReadsKept, ReadsOwn, Deep, Resuming, Working, Selecting
<1>10. CallInv(t, r)'
  <2>1. \A i \in 1 .. Len(c.held) :
          /\ handle'[c.held[i]] = handle[c.held[i]] /\ c.held[i] # f /\ c.held[i] \notin kept'
          /\ handle'[c.held[i]] \in Basis /\ handle'[c.held[i]].owner = t
          /\ handle'[c.held[i]].state = "open"
    <3>1. SUFFICES ASSUME NEW i \in 1 .. Len(c.held)
                   PROVE  /\ handle'[c.held[i]] = handle[c.held[i]]
                          /\ c.held[i] # f /\ c.held[i] \notin kept'
                          /\ handle[c.held[i]] \in Basis /\ handle[c.held[i]].owner = t
                          /\ handle[c.held[i]].state = "open"
      BY <1>5
    <3>2. i \in DOMAIN c.held /\ Touches(c, c.held[i])
      BY <1>7 DEF Touches, Holds
    <3>3. c.held[i] # f /\ c.held[i] \in Handle
      BY <1>8, <3>2
    <3> QED
      BY <1>1, <1>5, <3>2, <3>3 DEF CallInv, HeldOK, Releasing
  <2>2. HeldOK(t, r)'
    <3>1. /\ handle'[f] \in Basis /\ handle'[f].owner = t /\ f \notin kept'
          /\ handle'[f].state = "open"
      BY <1>3, <1>5, <1>8
    <3>2. \A i, j \in 1 .. Len(c.held) : c.held[i] = c.held[j] => i = j
      BY <1>1, <1>7 DEF CallInv, HeldOK
    <3>3. \A i \in DOMAIN r.held : i \in 1 .. Len(c.held) \/ i = Len(r.held)
      BY <1>7
    <3>4. \A i \in DOMAIN r.held :
            /\ handle'[r.held[i]] \in Basis /\ handle'[r.held[i]].owner = t
            /\ r.held[i] \notin kept' /\ handle'[r.held[i]].state = "open"
      <4>1. SUFFICES ASSUME NEW i \in DOMAIN r.held
                     PROVE  /\ handle'[r.held[i]] \in Basis /\ handle'[r.held[i]].owner = t
                            /\ r.held[i] \notin kept' /\ handle'[r.held[i]].state = "open"
        OBVIOUS
      <4>2. CASE i \in 1 .. Len(c.held)
        <5>1. r.held[i] = c.held[i]
          BY <1>7, <4>2
        <5> QED
          BY <2>1, <4>2, <5>1
      <4>3. CASE i = Len(r.held)
        <5>1. r.held[i] = f
          BY <1>7, <4>3
        <5> QED
          BY <3>1, <5>1
      <4> QED
        BY <3>3, <4>2, <4>3
    <3>5. \A i, j \in DOMAIN r.held : r.held[i] = r.held[j] => i = j
      <4>1. \A i \in 1 .. Len(c.held) : r.held[i] = c.held[i] /\ c.held[i] # f
        BY <1>7, <2>1
      <4>2. r.held[Len(r.held)] = f
        BY <1>7
      <4> QED
        BY <3>2, <3>3, <4>1, <4>2, Zenon
    <3> QED
      BY <1>6, <3>4, <3>5 DEF HeldOK
  <2>3. ReadOK(t, r)'
    BY <1>6 DEF ReadOK, ReadsKept
  <2>4. ChainOK(r)'
    <3>1. handle'[f].history = lifecycle /\ lifecycle' = lifecycle
      BY <1>3, <1>5 DEF World
    <3>2. c.token # Null => c.token.lifecycle <= lifecycle
      BY <1>1 DEF CallInv, ChainOK
    <3>3. c.captured <= lifecycle
      BY <1>1 DEF CallInv, ChainOK, Working, Selecting
    <3> QED
      BY <1>6, <1>7, <3>1, <3>2, <3>3 DEF ChainOK, Retrying, Releasing
  <2> QED
    BY <1>1, <1>9, <2>2, <2>3, <2>4 DEF CallInv
<1>11. \A u \in Thread \ {t} : \A h : Touches(req[u], h) => Steady(h)
  BY <1>5, <1>8 DEF Steady
<1>12. \A h \in Handle : HandleOK(h)'
  <2>1. HandleOK(f)'
    <3>1. Holds(r, f)
      BY <1>7 DEF Holds
    <3>2. f \notin kept' /\ handle'[f].owner = t /\ Holds(req[t], f)'
      BY <1>3, <1>4, <1>5, <1>6, <1>8, <3>1, Replaced DEF Holds
    <3>3. lifecycle' = lifecycle /\ lifecycle \in Int /\ 0 <= lifecycle
      BY BasisBoundsAssumption DEF IInv, WorldOK, World
    <3> QED
      BY <1>1, <1>3, <1>5, <3>2, <3>3 DEF HandleOK
  <2>2. \A u \in Thread : \A h : Holds(req[u], h) => Holds(req[u], h)'
    <3>1. \A h : Holds(c, h) => Holds(r, h)
      BY <1>7 DEF Holds
    <3> QED
      BY <1>4, <1>6, <3>1, Replaced, SMTT(30) DEF Holds
  <2>3. ASSUME NEW h \in Handle \ {f} PROVE HandleOK(h)'
    BY <1>5, <2>2, BoundsHold, HandleFrame DEF IInv, WorldOK, World
  <2> QED
    BY <2>1, <2>3
<1>13. NativeInv'
  <2>1. req'[t].pc = "identify" /\ \A u \in Thread \ {t} : req'[u] = req[u]
    BY <1>4, <1>6, Replaced
  <2>2. ASSUME NEW u \in Thread \ {t}, req[u].pc = "native" PROVE handle'[Top(u)] = handle[Top(u)]
    <3>1. Held(u) # <<>>
      BY <2>2, CallOf DEF ShapeOK, Releasing, Held
    <3>2. Touches(req[u], Top(u))
      BY <3>1, CandidateIs DEF Touches
    <3> QED
      BY <1>5, <1>8, <3>2
  <2> QED
    BY <2>1, <2>2, SMTT(30) DEF IInv, NativeInv, Top, Held
<1>14. SyncInv'
  <2>1. syncs' \subseteq syncs /\ \A s \in syncs' : s.caller # t
    BY DEF IInv, SyncInv, MySyncs
  <2> QED
    BY <1>4, <1>6, <2>1, SyncsKept
<1>15. CapacityInv'
  <2>1. r.kind = "snapshot" /\ r.pc # "idle" => Pending(t)
    BY <1>6 DEF Pending
  <2> QED
    BY <1>4, <1>6, <2>1, CapacityKept
<1> QED
  BY <1>4, <1>5, <1>6, <1>10, <1>11, <1>12, <1>13, <1>14, <1>15, BoundsHold, BasisStep
  DEF IInv, WorldOK

LEMMA AcquireKeeps ==
    ASSUME IInv, NEW t \in Thread, Acquire(t) \/ SyncAnswers(t)
    PROVE  IInv'
<1>1. ShapeOK(req[t]) /\ head \in 0 .. MaxRevision /\ seen \in 0 .. MaxRevision
  BY CallOf, BasisBoundsAssumption DEF IInv, WorldOK
<1>2. PICK revision \in 0 .. MaxRevision : Opened(t, revision)
  <2>1. ASSUME NEW revision \in 0 .. MaxRevision PROVE Answering(t, revision) \in 0 .. MaxRevision
    BY <1>1, WantedAssumption, BasisBoundsAssumption DEF ShapeOK, Answering, Requested
  <2>2. Visible \in 0 .. MaxRevision
    BY <1>1 DEF Visible
  <2> QED
    BY <1>1, <2>1, <2>2 DEF Acquire, SyncAnswers
<1>3. /\ req[t].pc \in {"acquire", "wait"}
      /\ UNCHANGED <<World, kept, failures>>
      /\ \/ syncs' = syncs /\ req[t].pc = "acquire"
         \/ \E s \in MySyncs(t) : syncs' = syncs \ {s}
  BY DEF Acquire, SyncAnswers, World
<1> QED
  BY <1>2, <1>3, OpenedKeeps

\* A step that changes nothing but the basis its call took last.
LEMMA TopStep ==
    ASSUME IInv, NEW t \in Thread, NEW r \in Request, NEW h, NEW b \in Basis \cup {Null},
           Held(t) # <<>>, h = Top(t),
           req' = [req EXCEPT ![t] = r], handle' = [handle EXCEPT ![h] = b],
           UNCHANGED <<World, kept, syncs>>, failures' \in 0 .. MaxFailures,
           h \in kept => /\ b # Null /\ b.owner = handle[h].owner
                         /\ b.history = handle[h].history /\ b.revision = handle[h].revision
                         /\ b.lifecycle = handle[h].lifecycle,
           HandleOK(h)', CallInv(t, r)',
           \A g : g # h /\ Holds(req[t], g) => Holds(r, g),
           req[t].pc = "native" \/ h \notin kept \/ b.state = handle[h].state
             \/ handle[h].state = "open",
           r.pc = "native" =>
             b.state = "releasing" /\ r.held = Held(t) /\ handle[h].state = "open",
           req[t].pc # "wait", r.kind = "snapshot" /\ r.pc # "idle" => Pending(t)
    PROVE  IInv'
<1>1. h \in Handle /\ Holds(req[t], h) /\ handle[h] \in Basis
  BY CandidateIs DEF Candidate
<1>2. /\ handle' \in [Handle -> Basis \cup {Null}] /\ handle'[h] = b
      /\ \A g \in Handle \ {h} : handle'[g] = handle[g]
  BY <1>1 DEF IInv, WorldOK
<1>3. req'[t] = r /\ \A u \in Thread \ {t} : req'[u] = req[u]
  BY Replaced
<1>4. \A u \in Thread \ {t} : Touches(req[u], h) => h \in kept /\ ~Affine
  BY <1>1, Private
<1>5. \A u \in Thread \ {t} : \A g : Touches(req[u], g) => Steady(g)
  <2>1. SUFFICES ASSUME NEW u \in Thread \ {t}, NEW g, Touches(req[u], g) PROVE Steady(g)
    OBVIOUS
  <2>2. CASE g # h
    <3>1. g \in Handle
      BY <2>1, TouchedIsBasis
    <3> QED
      BY <1>2, <2>2, <3>1 DEF Steady
  <2>3. CASE g = h
    <3>1. h \in kept /\ ~Affine
      BY <1>4, <2>1, <2>3
    <3> QED
      BY <1>2, <2>3, <3>1 DEF Steady
  <2> QED
    BY <2>2, <2>3
<1>6. \A g \in Handle : HandleOK(g)'
  <2>1. SUFFICES ASSUME NEW g \in Handle \ {h} PROVE HandleOK(g)'
    OBVIOUS
  <2>2. \A u \in Thread : Holds(req[u], g) => Holds(req[u], g)'
    BY <1>3 DEF Holds
  <2> QED
    BY <1>2, <2>2, BoundsHold, HandleFrame DEF IInv, WorldOK, World
<1>7. NativeInv'
  <2>1. ASSUME NEW u \in Thread \ {t}, req[u].pc = "native"
        PROVE  /\ handle[Top(u)].state = "releasing" /\ handle'[Top(u)].state = "releasing"
    <3>1. Held(u) # <<>>
      BY <2>1, CallOf DEF ShapeOK, Releasing, Held
    <3>2. Touches(req[u], Top(u)) /\ Top(u) \in Handle
      BY <3>1, CandidateIs DEF Touches
    <3>3. handle[Top(u)].state = "releasing"
      BY <2>1 DEF IInv, NativeInv
    <3>4. Top(u) = h => handle'[Top(u)].state = "releasing"
      BY <1>2, <1>4, <2>1, <3>2, <3>3 DEF IInv, NativeInv
    <3> QED
      BY <1>2, <3>2, <3>3, <3>4
  <2>2. \A u \in Thread \ {t} : Top(u)' = Top(u) /\ req'[u].pc = req[u].pc
    BY <1>3 DEF Top, Held
  <2>3. req'[t].pc = "native" => Top(t)' = h /\ b.state = "releasing" /\ handle[h].state = "open"
    BY <1>3 DEF Top, Held
  <2>4. \A u \in Thread : req'[u].pc = "native" => handle'[Top(u)'].state = "releasing"
    BY <1>2, <2>1, <2>2, <2>3
  <2>5. ASSUME NEW u \in Thread, NEW v \in Thread, req'[u].pc = "native", req'[v].pc = "native",
               Top(u)' = Top(v)'
        PROVE  u = v
    BY <2>1, <2>2, <2>3, <2>5 DEF IInv, NativeInv
  <2> QED
    BY <2>4, <2>5 DEF NativeInv
<1>8. SyncInv'
  BY SyncsKept DEF IInv, SyncInv
<1>9. CapacityInv'
  BY CapacityKept
<1> QED
  BY <1>2, <1>5, <1>6, <1>7, <1>8, <1>9, BasisStep DEF IInv, WorldOK

LEMMA IdentifyKeeps ==
    ASSUME IInv, NEW t \in Thread, Identify(t)
    PROVE  IInv'
<1> DEFINE c == req[t]
<1>1. CallInv(t, c) /\ c \in Request /\ ShapeOK(c) /\ c.pc = "identify" /\ c.held # <<>>
  BY CallOf DEF Identify, ShapeOK
<1>2. PICK h : h = Top(t)
  OBVIOUS
<1>3. PICK b : b = [handle[h] EXCEPT !.lifecycle = lifecycle]
  OBVIOUS
<1>4. PICK r : r = [c EXCEPT !.pc = "certify"]
  OBVIOUS
<1>5. /\ handle[h] \in Basis /\ handle[h] # Null /\ h \in Handle /\ Last(c) = h /\ Holds(c, h)
      /\ handle[h].history <= lifecycle /\ Len(c.held) \in DOMAIN c.held
  BY <1>1, <1>2, CandidateIs DEF Candidate, Held
<1>6. /\ b \in Basis /\ b.owner = handle[h].owner /\ b.history = handle[h].history
      /\ b.revision = handle[h].revision /\ b.lifecycle = lifecycle
      /\ b.state = handle[h].state /\ b.closes = handle[h].closes
  BY <1>3, <1>5, BoundsHold DEF Basis
<1>7. handle' = [handle EXCEPT ![h] = b] /\ req' = [req EXCEPT ![t] = r]
  BY <1>2, <1>3, <1>4 DEF Identify, Goto
<1>8. /\ r \in Request /\ r.pc = "certify" /\ r.held = c.held /\ r.kind = c.kind
      /\ r.mode = c.mode /\ r.token = c.token /\ r.captured = c.captured
  BY <1>1, <1>4 DEF Request, Stage
<1>9. h \notin kept /\ handle'[h] = b /\ \A g \in Handle \ {h} : handle'[g] = handle[g]
  BY <1>1, <1>5, <1>7 DEF CallInv, HeldOK, Holds, Releasing, IInv, WorldOK
<1>10. ShapeOK(r)
  BY <1>1, <1>8 DEF ShapeOK, Releasing, ReadsKept, ReadsOwn, Deep, Resuming, Working, Selecting
<1>11. t \in Caller
  BY <1>1 DEF CallInv, Working, Selecting
<1>12. HeldOK(t, r)'
  <2>1. \A i \in DOMAIN c.held :
          /\ c.held[i] \in Handle /\ c.held[i] \notin kept
          /\ handle[c.held[i]] \in Basis /\ handle[c.held[i]].owner = t
          /\ handle[c.held[i]].state = "open"
    BY <1>1 DEF CallInv, HeldOK, Releasing, Request
  <2>2. \A i \in DOMAIN r.held :
          /\ r.held[i] \notin kept' /\ handle'[r.held[i]] \in Basis
          /\ handle'[r.held[i]].owner = t /\ handle'[r.held[i]].state = "open"
    BY <1>6, <1>8, <1>9, <2>1 DEF Identify
  <2>3. \A i, j \in DOMAIN r.held : r.held[i] = r.held[j] => i = j
    BY <1>1, <1>8 DEF CallInv, HeldOK
  <2> QED
    BY <1>8, <2>2, <2>3 DEF HeldOK
<1>13. ReadOK(t, r)'
  BY <1>8 DEF ReadOK, ReadsKept
<1>14. ChainOK(r)'
  <2>1. Last(r) = h
    BY <1>5, <1>8 DEF Last
  <2>2. c.captured <= lifecycle
    BY <1>1 DEF CallInv, ChainOK, Working, Selecting
  <2> QED
    BY <1>1, <1>5, <1>6, <1>8, <1>9, <2>1, <2>2 DEF CallInv, ChainOK, Retrying, Releasing, Identify
<1>15. CallInv(t, r)'
  BY <1>10, <1>11, <1>12, <1>13, <1>14 DEF CallInv
<1>16. HandleOK(h)'
  <2>1. Holds(req[b.owner], h)
    BY <1>5, <1>6, <1>9 DEF IInv, HandleOK
  <2>2. Holds(req[b.owner], h)'
    BY <1>5, <1>6, <1>7, <1>8, <2>1, Replaced DEF Holds, Basis
  <2>3. lifecycle' = lifecycle /\ lifecycle \in Int
    BY BoundsHold DEF Identify
  <2> QED
    BY <1>5, <1>6, <1>9, <2>2, <2>3 DEF IInv, HandleOK, Identify
<1>17. \A g : Holds(c, g) => Holds(r, g)
  BY <1>8 DEF Holds
<1>18. r.kind = "snapshot" /\ r.pc # "idle" => Pending(t)
  BY <1>1, <1>8 DEF Pending
<1>19. UNCHANGED <<World, kept, syncs>> /\ failures' \in 0 .. MaxFailures
  BY BoundsHold DEF Identify, World
<1> QED
  BY <1>1, <1>2, <1>6, <1>7, <1>8, <1>9, <1>15, <1>16, <1>17, <1>18, <1>19, TopStep DEF Held

LEMMA WinKeeps ==
    ASSUME IInv, NEW t \in Thread, BeginRelease(t), WinsRelease(Top(t))
    PROVE  IInv'
<1> DEFINE c == req[t]
<1>1. CallInv(t, c) /\ c \in Request /\ ShapeOK(c) /\ c.pc = "release" /\ c.held # <<>>
  BY CallOf DEF BeginRelease, ShapeOK, Releasing
<1>2. PICK h : h = Top(t)
  OBVIOUS
<1>3. PICK b : b = [handle[h] EXCEPT !.state = "releasing"]
  OBVIOUS
<1>4. PICK r : r = [c EXCEPT !.pc = "native"]
  OBVIOUS
<1>5. /\ handle[h] \in Basis /\ handle[h] # Null /\ h \in Handle /\ Last(c) = h /\ Holds(c, h)
      /\ Len(c.held) \in DOMAIN c.held /\ handle[h].state = "open"
  BY <1>1, <1>2, CandidateIs DEF Candidate, Held, WinsRelease
<1>6. /\ b \in Basis /\ b.owner = handle[h].owner /\ b.history = handle[h].history
      /\ b.revision = handle[h].revision /\ b.lifecycle = handle[h].lifecycle
      /\ b.state = "releasing" /\ b.closes = handle[h].closes
  BY <1>3, <1>5 DEF Basis
<1>7. handle' = [handle EXCEPT ![h] = b] /\ req' = [req EXCEPT ![t] = r]
  BY <1>2, <1>3, <1>4 DEF BeginRelease, Goto
<1>8. /\ r \in Request /\ r.pc = "native" /\ r.held = c.held /\ r.kind = c.kind
      /\ r.mode = c.mode /\ r.token = c.token /\ r.captured = c.captured /\ r.then = c.then
  BY <1>1, <1>4 DEF Request, Stage
<1>9. handle'[h] = b /\ \A g \in Handle \ {h} : handle'[g] = handle[g]
  BY <1>5, <1>7 DEF IInv, WorldOK
<1>10. /\ Releasing(r) /\ Releasing(c) /\ (Resuming(r) <=> Resuming(c))
       /\ (Retrying(r) <=> Retrying(c)) /\ (Working(r) <=> Working(c))
       /\ ~ReadsKept(r) /\ ~ReadsOwn(r) /\ ~Deep(r)
  BY <1>1, <1>8 DEF Releasing, ReadsKept, ReadsOwn, Deep, Resuming, Retrying, Working, Selecting
<1>11. ShapeOK(r)
  BY <1>1, <1>8, <1>10 DEF ShapeOK
<1>12. HeldOK(t, r)'
  <2>1. ASSUME NEW i \in DOMAIN c.held
        PROVE  /\ handle'[c.held[i]] \in Basis
               /\ c.held[i] \notin kept \/ Affine => handle'[c.held[i]].owner = t
               /\ c.held[i] \in kept => c.then = "idle" /\ Len(c.held) = 1
               /\ c.held[i] \notin kept =>
                    handle'[c.held[i]].state = IF i = Len(c.held) THEN "releasing" ELSE "open"
    <3>1. /\ c.held[i] \in Handle /\ handle[c.held[i]] \in Basis
          /\ c.held[i] \notin kept \/ Affine => handle[c.held[i]].owner = t
          /\ c.held[i] \in kept => c.then = "idle" /\ Len(c.held) = 1
          /\ c.held[i] \notin kept => handle[c.held[i]].state = "open"
      BY <1>1 DEF CallInv, HeldOK, Request
    <3>2. c.held[i] = h <=> i = Len(c.held)
      BY <1>1, <1>5 DEF CallInv, HeldOK, Last
    <3> QED
      BY <1>6, <1>9, <3>1, <3>2
  <2>2. \A i, j \in DOMAIN r.held : r.held[i] = r.held[j] => i = j
    BY <1>1, <1>8 DEF CallInv, HeldOK
  <2>3. kept' = kept /\ (Affine' <=> Affine)
    BY DEF BeginRelease, Affine
  <2> QED
    BY <1>8, <1>10, <2>1, <2>2, <2>3 DEF HeldOK
<1>13. ReadOK(t, r)' /\ (Working(r) => t \in Caller)
  BY <1>1, <1>10 DEF CallInv, ReadOK
<1>14. ChainOK(r)'
  BY <1>1, <1>8, <1>10 DEF CallInv, ChainOK, BeginRelease
<1>15. CallInv(t, r)'
  BY <1>11, <1>12, <1>13, <1>14 DEF CallInv
<1>16. HandleOK(h)'
  <2>1. h \notin kept => Holds(req[b.owner], h)
    BY <1>5, <1>6 DEF IInv, HandleOK
  <2>2. h \notin kept => Holds(req[b.owner], h)'
    BY <1>5, <1>6, <1>7, <1>8, <2>1, Replaced DEF Holds, Basis
  <2>3. kept' = kept /\ lifecycle' = lifecycle
    BY DEF BeginRelease
  <2>4. HandleOK(h)
    BY <1>5 DEF IInv
  <2>5. /\ b.closes = IF b.state = "released" THEN 1 ELSE 0
        /\ b.owner \in Caller /\ b.history <= lifecycle /\ b.lifecycle <= lifecycle
        /\ h \in kept => b.history = b.lifecycle
    BY <1>5, <1>6, <2>4 DEF HandleOK
  <2>6. handle'[h] = b /\ b # Null
    BY <1>6, <1>9, NullAssumption
  <2> QED
    BY <2>2, <2>3, <2>5, <2>6 DEF HandleOK
<1>17. \A g : Holds(c, g) => Holds(r, g)
  BY <1>8 DEF Holds
<1>18. r.kind = "snapshot" /\ r.pc # "idle" => Pending(t)
  BY <1>1, <1>8 DEF Pending
<1>19. UNCHANGED <<World, kept, syncs>> /\ failures' \in 0 .. MaxFailures
  BY BoundsHold DEF BeginRelease, World
<1>20. Held(t) # <<>> /\ r.held = Held(t) /\ req[t].pc # "wait"
  BY <1>1, <1>8 DEF Held
<1> QED
  BY <1>2, <1>5, <1>6, <1>7, <1>8, <1>15, <1>16, <1>17, <1>18, <1>19, <1>20, NullAssumption, TopStep

\* A call that has given back one basis gives back the other, goes on, or is over.
DropsTo(c, r) ==
    /\ r \in Request
    /\ \/ Len(c.held) = 2 /\ r.held = <<c.held[1]>> /\ r.pc = "release"
          /\ r.then = "idle" /\ r.kind = "read" /\ r.mode = "current" /\ r.token = Null
       \/ Len(c.held) = 1 /\ r.held = <<>> /\ r.pc = "idle"
          /\ r.mode = "current" /\ r.token = Null
       \/ Len(c.held) = 1 /\ r.held = <<>> /\ r.pc = c.then /\ Resuming(c) /\ r.then = "idle"
          /\ r.kind = c.kind /\ r.mode = c.mode /\ r.token = c.token
          /\ r.captured = c.captured

LEMMA DroppedIs ==
    ASSUME IInv, NEW t \in Thread, Releasing(req[t]), NEW then \in {req[t].then, "idle"}
    PROVE  DropsTo(req[t], Dropped(t, then))
<1> DEFINE c == req[t]
           r == Dropped(t, then)
<1>1. /\ ShapeOK(c) /\ c \in Request /\ c.held \in Seq(Handle) /\ c.held # <<>> /\ Len(c.held) <= 2
      /\ Held(t) = c.held
  BY CallOf DEF ShapeOK, Request, Held
<1>2. Idle.kind = "read" /\ Idle.mode = "current" /\ Idle.token = Null /\ Idle \in Request
  BY IdleRequest DEF Idle
<1>3. CASE Len(c.held) = 2
  <2>1. then = "idle"
    <3>1. c.then # "idle" => Len(c.held) = 1
      BY <1>1 DEF ShapeOK, Resuming
    <3> QED
      BY <1>3, <3>1
  <2>2. SubSeq(c.held, 1, Len(c.held) - 1) = <<c.held[1]>> /\ <<c.held[1]>> # <<>>
        /\ <<c.held[1]>> \in Seq(Handle)
    <3> DEFINE g == c.held[1]
               rest == SubSeq(c.held, 1, 1)
    <3>1. g \in Handle /\ Len(c.held) - 1 = 1
      BY <1>1, <1>3
    <3>2. \A i \in 1 .. 1 : c.held[i] \in Handle
      BY <3>1
    <3>3. rest \in Seq(Handle) /\ Len(rest) = 1 /\ rest[1] = g
      BY <3>2, SubSeqProperties
    <3>4. <<g>> \in Seq(Handle) /\ Len(<<g>>) = 1 /\ <<g>>[1] = g /\ <<g>> # <<>>
      BY <3>1
    <3> HIDE DEF g, rest
    <3>5. rest = <<g>>
      BY <3>3, <3>4, SeqEqual
    <3> QED
      BY <3>1, <3>4, <3>5 DEF g, rest
  <2>3. r = [Idle EXCEPT !.held = <<c.held[1]>>, !.pc = "release", !.then = "idle"]
    BY <1>1, <2>1, <2>2 DEF Dropped
  <2> QED
    BY <1>2, <1>3, <2>2, <2>3 DEF Request, Stage, DropsTo
<1>4. CASE Len(c.held) # 2
  <2>1. Len(c.held) = 1
    BY <1>1, <1>4, OneOfTwo
  <2>2. SubSeq(c.held, 1, Len(c.held) - 1) = <<>> /\ <<>> \in Seq(Handle)
    BY <1>1, <2>1
  <2>3. CASE then = "idle"
    <3>1. r = [Idle EXCEPT !.held = <<>>, !.pc = "idle", !.then = "idle"]
      BY <1>1, <2>2, <2>3 DEF Dropped
    <3> QED
      BY <1>2, <2>1, <2>2, <3>1 DEF Request, Stage, DropsTo
  <2>4. CASE then # "idle"
    <3>1. then = c.then /\ then \in Stage
      BY <1>1, <2>4 DEF Request, Stage
    <3>2. r = [c EXCEPT !.held = <<>>, !.pc = then, !.then = "idle"]
      BY <1>1, <2>2, <2>4 DEF Dropped
    <3> QED
      BY <1>1, <2>1, <2>2, <2>4, <3>1, <3>2 DEF Request, Resuming, DropsTo
  <2> QED
    BY <2>3, <2>4
<1> QED
  BY <1>3, <1>4, Zenon

\* The basis a call is done with: gone, or still the host's.
LEMMA DropKeeps ==
    ASSUME IInv, NEW t \in Thread, Releasing(req[t]), NEW h, h = Top(t),
           NEW then \in {req[t].then, "idle"}, req' = [req EXCEPT ![t] = Dropped(t, then)],
           NEW b \in Basis \cup {Null}, handle' = [handle EXCEPT ![h] = b],
           UNCHANGED <<World, kept, syncs>>, failures' \in 0 .. MaxFailures,
           h \notin kept => b = Null,
           h \in kept => /\ b \in Basis /\ b.owner = handle[h].owner
                         /\ b.history = handle[h].history /\ b.revision = handle[h].revision
                         /\ b.lifecycle = handle[h].lifecycle
                         /\ b.closes = IF b.state = "released" THEN 1 ELSE 0,
           req[t].pc = "native" \/ b.state = handle[h].state
    PROVE  IInv'
<1> DEFINE c == req[t]
<1>1. /\ CallInv(t, c) /\ c \in Request /\ ShapeOK(c) /\ c.held \in Seq(Handle) /\ c.held # <<>>
      /\ Held(t) = c.held /\ Held(t) # <<>>
  BY CallOf DEF CallInv, ShapeOK, Request, Held
<1>2. PICK r : r = Dropped(t, then)
  OBVIOUS
<1>3. /\ r \in Request
      /\ \/ Len(c.held) = 2 /\ r.held = <<c.held[1]>> /\ r.pc = "release"
            /\ r.then = "idle" /\ r.kind = "read" /\ r.mode = "current" /\ r.token = Null
         \/ Len(c.held) = 1 /\ r.held = <<>> /\ r.pc = "idle"
            /\ r.mode = "current" /\ r.token = Null
         \/ Len(c.held) = 1 /\ r.held = <<>> /\ r.pc = c.then /\ Resuming(c) /\ r.then = "idle"
            /\ r.kind = c.kind /\ r.mode = c.mode /\ r.token = c.token
            /\ r.captured = c.captured
  <2>1. DropsTo(c, r)
    BY <1>2, DroppedIs, Zenon
  <2> QED
    BY <2>1, SMTT(60) DEF DropsTo
<1>4. /\ h \in Handle /\ h = c.held[Len(c.held)] /\ handle[h] \in Basis /\ handle[h] # Null
      /\ DOMAIN c.held = 1 .. Len(c.held)
  BY <1>1, CandidateIs DEF Candidate, Last
<1>5. handle'[h] = b /\ \A g \in Handle \ {h} : handle'[g] = handle[g]
  BY <1>4 DEF IInv, WorldOK
<1>6. req' = [req EXCEPT ![t] = r]
  BY <1>2
<1>7. \A g : g # h /\ Holds(c, g) => Holds(r, g)
  <2>1. SUFFICES ASSUME NEW g, g # h, Holds(c, g) PROVE Holds(r, g)
    OBVIOUS
  <2>2. PICK i \in 1 .. Len(c.held) : c.held[i] = g /\ i # Len(c.held)
    BY <1>4, <2>1 DEF Holds
  <2>3. Len(c.held) = 2 /\ i = 1
    <3>1. Len(c.held) \in Nat /\ Len(c.held) <= 2 /\ i \in Int /\ 1 <= i /\ i <= Len(c.held)
      BY <1>1, <2>2 DEF ShapeOK
    <3>2. \A n \in Nat : n <= 2 /\ i <= n /\ i # n => n = 2 /\ i = 1
      BY <3>1
    <3> QED
      BY <2>2, <3>1, <3>2
  <2>4. r.held = <<g>>
    BY <1>3, <2>2, <2>3
  <2> QED
    BY <2>4 DEF Holds
<1>8. CallInv(t, r)'
  <2>1. CASE r.held = <<>>
    <3>1. r.pc = "idle" \/ (Resuming(c) /\ r.pc = c.then /\ r.kind = c.kind
                            /\ r.mode = c.mode /\ r.token = c.token /\ r.captured = c.captured)
      BY <1>3, <2>1
    <3>2. Resuming(c) => c.then \in {"acquire", "select"} /\ Working(c)
      BY <1>1 DEF Resuming, Working, Request
    <3>3. r.pc \in {"idle", "acquire", "select"}
      BY <3>1, <3>2
    <3>4. /\ r.token # Null => r.mode \in {"at-least", "exact"}
          /\ r.mode \in {"at-least", "exact"} => r.token \in Wanted
      BY <1>1, <1>3, <2>1 DEF ShapeOK
    <3>5. Working(r) => Resuming(c) /\ r.pc = c.then /\ r.kind = c.kind
                        /\ r.token = c.token /\ r.captured = c.captured
      BY <3>1, <3>3 DEF Working, Selecting, ReadsOwn, Resuming, Releasing
    <3>6. Working(r) => r.kind # "kept" /\ t \in Caller
      BY <1>1, <3>2, <3>5 DEF CallInv, ShapeOK
    <3>7. ShapeOK(r)
      <4>1. Len(r.held) = 0
        BY <2>1
      <4> QED
        BY <1>3, <2>1, <3>3, <3>4, <3>6, <4>1
        DEF ShapeOK, Releasing, ReadsKept, ReadsOwn, Deep, Resuming
    <3>8. HeldOK(t, r)' /\ ReadOK(t, r)'
      BY <2>1, <3>3 DEF HeldOK, ReadOK, ReadsKept
    <3>9. ChainOK(r)'
      <4>1. Working(r) => r.captured <= lifecycle
        BY <1>1, <3>2, <3>5 DEF CallInv, ChainOK
      <4>2. r.pc = "acquire" => Retrying(c) /\ r.token = c.token
        BY <3>1, <3>2 DEF Retrying, Resuming
      <4>3. r.pc = "acquire" /\ r.token # Null => r.token.lifecycle <= lifecycle
        BY <1>1, <4>2 DEF CallInv, ChainOK
      <4>4. lifecycle' = lifecycle
        BY DEF World
      <4> QED
        BY <3>3, <4>1, <4>3, <4>4 DEF ChainOK, Retrying, Releasing
    <3> QED
      BY <3>6, <3>7, <3>8, <3>9 DEF CallInv
  <2>2. CASE r.held # <<>>
    <3>1. PICK g : g = c.held[1]
      OBVIOUS
    <3>2. /\ Len(c.held) = 2 /\ r.held = <<g>> /\ r.pc = "release"
          /\ r.then = "idle" /\ r.kind = "read" /\ r.mode = "current" /\ r.token = Null
      BY <1>3, <2>2, <3>1
    <3>3. 1 \in DOMAIN c.held /\ 1 # Len(c.held) /\ 2 \in DOMAIN c.held /\ g # h /\ Len(c.held) # 1
      <4>1. 1 \in DOMAIN c.held /\ 2 \in DOMAIN c.held /\ Len(c.held) # 1 /\ h = c.held[2]
        BY <1>4, <3>2
      <4> QED
        BY <1>1, <3>1, <4>1 DEF CallInv, HeldOK
    <3>4. /\ handle[g] \in Basis /\ g \notin kept /\ handle[g].owner = t
          /\ handle[g].state = "open" /\ g \in Handle
      BY <1>1, <3>1, <3>3 DEF CallInv, HeldOK
    <3>5. handle'[g] = handle[g] /\ g \notin kept'
      BY <1>5, <3>3, <3>4
    <3>6. HeldOK(t, r)'
      <4>1. DOMAIN r.held = {1} /\ r.held[1] = g
        BY <3>2
      <4> QED
        BY <3>2, <3>4, <3>5, <4>1 DEF HeldOK
    <3>7. ~Working(r) /\ ~Resuming(r) /\ ~Retrying(r) /\ ~ReadsKept(r) /\ ~ReadsOwn(r) /\ ~Deep(r)
          /\ Releasing(r)
      BY <3>2 DEF Working, Selecting, ReadsOwn, ReadsKept, Resuming, Retrying, Releasing, Deep
    <3>8. ShapeOK(r)
      <4>1. Len(r.held) = 1
        BY <3>2
      <4>2. Len(r.held) <= 2
        BY <4>1
      <4> QED
        BY <1>3, <3>2, <3>7, <4>2 DEF ShapeOK
    <3>9. ReadOK(t, r)' /\ ChainOK(r)'
      BY <3>2, <3>7 DEF ReadOK, ChainOK
    <3> QED
      BY <3>6, <3>7, <3>8, <3>9 DEF CallInv
  <2> QED
    BY <2>1, <2>2
<1>9. HandleOK(h)'
  <2>1. HandleOK(h) /\ kept' = kept /\ lifecycle' = lifecycle
    BY <1>4 DEF IInv, World
  <2>2. CASE h \in kept
    <3>1. b # Null /\ b \in Basis
      BY <2>2, NullAssumption
    <3>2. b.owner \in Caller /\ b.history <= lifecycle /\ b.lifecycle <= lifecycle
          /\ b.history = b.lifecycle
      BY <1>4, <2>1, <2>2 DEF HandleOK
    <3> QED
      BY <1>5, <2>1, <2>2, <3>1, <3>2 DEF HandleOK
  <2>3. CASE h \notin kept
    BY <1>5, <2>1, <2>3 DEF HandleOK
  <2> QED
    BY <2>2, <2>3
<1>10. r.kind = "snapshot" /\ r.pc # "idle" => Pending(t)
  <2>1. c.pc # "idle"
    BY DEF Releasing
  <2> QED
    BY <1>3, <2>1 DEF Pending
<1>11. r.pc # "native" /\ c.pc # "wait"
  <2>1. c.then \in {"idle", "acquire", "select"}
    BY <1>1 DEF Request
  <2> QED
    BY <1>3, <2>1 DEF Releasing
<1>12. h \in kept => b # Null
  BY NullAssumption
<1> QED
  BY <1>1, <1>3, <1>6, <1>7, <1>8, <1>9, <1>10, <1>11, <1>12, TopStep

\* A release ends: lost to another call, done, or failed.
LEMMA ReleaseEnds ==
    ASSUME IInv, NEW t \in Thread,
           \/ BeginRelease(t) /\ ~WinsRelease(Top(t))
           \/ NativeRelease(t) \/ NativeReleaseFails(t)
    PROVE  IInv'
<1> DEFINE c == req[t]
<1>1. /\ CallInv(t, c) /\ c.held # <<>> /\ Held(t) = c.held /\ Releasing(c)
  BY CallOf DEF CallInv, ShapeOK, Held, BeginRelease, NativeRelease, NativeReleaseFails, Releasing
<1>2. PICK h : h = Top(t)
  OBVIOUS
<1>3. /\ h \in Handle /\ handle[h] \in Basis /\ Holds(c, h) /\ HandleOK(h)
      /\ Len(c.held) \in DOMAIN c.held /\ h = c.held[Len(c.held)]
  BY <1>1, <1>2, CandidateIs DEF Candidate, Last, IInv
<1>4. /\ handle[h].closes \in {0, 1}
      /\ handle[h].closes = IF handle[h].state = "released" THEN 1 ELSE 0
  BY <1>3, NullAssumption DEF HandleOK
<1>5. CASE BeginRelease(t) /\ ~WinsRelease(Top(t))
  <2>1. handle[h].state # "open" /\ c.pc = "release"
    BY <1>2, <1>5 DEF WinsRelease, BeginRelease
  <2>2. h \in kept
    BY <1>1, <1>3, <2>1 DEF CallInv, HeldOK
  <2>3. handle' = [handle EXCEPT ![h] = handle[h]]
    BY <1>2, <1>5, <2>2 DEF BeginRelease, IInv, WorldOK
  <2>4. req' = [req EXCEPT ![t] = Dropped(t, req[t].then)]
    BY <1>5 DEF BeginRelease
  <2>5. UNCHANGED <<World, kept, syncs>> /\ failures' \in 0 .. MaxFailures
    BY <1>5, BoundsHold DEF BeginRelease, World
  <2> QED
    BY <1>1, <1>2, <1>3, <1>4, <2>2, <2>3, <2>4, <2>5, DropKeeps
<1>6. CASE NativeRelease(t)
  <2>1. PICK n : n = handle[h].closes + 1
    OBVIOUS
  <2>a. PICK b : b = IF h \in kept THEN [handle[h] EXCEPT !.state = "released", !.closes = n]
                     ELSE Null
    OBVIOUS
  <2>2. handle' = [handle EXCEPT ![h] = b] /\ c.pc = "native"
    BY <1>2, <1>6, <2>1, <2>a DEF NativeRelease
  <2>3. handle[h].state = "releasing" /\ n = 1
    BY <1>2, <1>4, <2>1, <2>2 DEF IInv, NativeInv
  <2>4. h \in kept => /\ b \in Basis /\ b.owner = handle[h].owner
                      /\ b.history = handle[h].history /\ b.revision = handle[h].revision
                      /\ b.lifecycle = handle[h].lifecycle
                      /\ b.closes = 1 /\ b.state = "released"
    BY <1>3, <2>a, <2>3 DEF Basis
  <2>5. req' = [req EXCEPT ![t] = Dropped(t, req[t].then)]
    BY <1>6 DEF NativeRelease
  <2>6. UNCHANGED <<World, kept, syncs>> /\ failures' \in 0 .. MaxFailures
    BY <1>6, BoundsHold DEF NativeRelease, World
  <2> QED
    BY <1>1, <1>2, <2>a, <2>2, <2>4, <2>5, <2>6, DropKeeps
<1>7. CASE NativeReleaseFails(t)
  <2>1. PICK b : b = IF h \in kept THEN [handle[h] EXCEPT !.state = "open"] ELSE Null
    OBVIOUS
  <2>2. handle' = [handle EXCEPT ![h] = b] /\ c.pc = "native"
    BY <1>2, <1>7, <2>1 DEF NativeReleaseFails
  <2>3. handle[h].state = "releasing" /\ handle[h].closes = 0
    BY <1>2, <1>4, <2>2 DEF IInv, NativeInv
  <2>4. h \in kept => /\ b \in Basis /\ b.owner = handle[h].owner
                      /\ b.history = handle[h].history /\ b.revision = handle[h].revision
                      /\ b.lifecycle = handle[h].lifecycle
                      /\ b.closes = 0 /\ b.state = "open"
    BY <1>3, <2>1, <2>3 DEF Basis
  <2>5. req' = [req EXCEPT ![t] = Dropped(t, "idle")]
    BY <1>7 DEF NativeReleaseFails
  <2>6. UNCHANGED <<World, kept, syncs>> /\ failures' \in 0 .. MaxFailures
    BY <1>7, BoundsHold, BasisBoundsAssumption DEF NativeReleaseFails, World
  <2> QED
    BY <1>1, <1>2, <2>1, <2>2, <2>4, <2>5, <2>6, DropKeeps
<1> QED
  BY <1>5, <1>6, <1>7

-----------------------------------------------------------------------------
(* The host and the world.                                                 *)

\* A Snapshot is handed over with the history it was certified for.
LEMMA DeliverKeeps ==
    ASSUME IInv, NEW t \in Thread, Deliver(t)
    PROVE  IInv'
<1> DEFINE c == req[t]
<1>1. CallInv(t, c) /\ ShapeOK(c) /\ c.pc = "read" /\ c \in Request
  BY CallOf DEF Deliver
<1>2. CASE c.kind # "snapshot"
  BY <1>1, <1>2, BoundsHold, FailKeeps DEF Deliver, Fail, World
<1>3. CASE c.kind = "snapshot"
  <2>1. PICK h : h = Top(t)
    OBVIOUS
  <2>2. c.held # <<>> /\ Held(t) = c.held /\ Len(c.held) = 1
    BY <1>1, <1>3, OnlyCandidate DEF ShapeOK, ReadsOwn, Held
  <2>3. /\ h \in Handle /\ handle[h] \in Basis /\ handle[h] # Null /\ Holds(c, h) /\ h = Last(c)
        /\ \A g : Holds(c, g) => g = h
    BY <2>1, <2>2, CandidateIs DEF Candidate, Holds, Last, Held
  <2>4. kept' = kept \cup {h} /\ req' = [req EXCEPT ![t] = Idle]
    BY <1>3, <2>1 DEF Deliver
  <2>5. h \notin kept
    BY <1>1, <2>3 DEF CallInv, HeldOK, Holds, Releasing
  <2>6. req'[t] = Idle /\ \A u \in Thread \ {t} : req'[u] = req[u]
    BY <2>4, IdleRequest, Replaced
  <2>7. \A u \in Thread \ {t} : \A g : Touches(req[u], g) => Steady(g)
    <3>1. \A u \in Thread \ {t} : ~Touches(req[u], h)
      BY <2>3, <2>5, Private
    <3> QED
      BY <2>4, <3>1 DEF Steady, Deliver
  <2>8. \A g \in Handle : HandleOK(g)'
    <3>1. HandleOK(h)'
      <4>1. handle[h].history = handle[h].lifecycle
        BY <1>1, <1>3, <2>3 DEF CallInv, ChainOK
      <4>2. HandleOK(h) /\ handle' = handle /\ lifecycle' = lifecycle
        BY <2>3 DEF IInv, Deliver
      <4> QED
        BY <2>3, <2>4, <4>1, <4>2 DEF HandleOK
    <3>2. ASSUME NEW g \in Handle \ {h} PROVE HandleOK(g)'
      <4>1. \A u \in Thread : Holds(req[u], g) => Holds(req[u], g)'
        BY <2>3, <2>6 DEF Holds
      <4>2. /\ HandleOK(g) /\ handle[g] \in Basis \cup {Null} /\ handle'[g] = handle[g]
            /\ g \in kept' <=> g \in kept
        BY <2>4 DEF IInv, WorldOK, Deliver
      <4> QED
        BY <4>1, <4>2, BoundsHold, HandleFrame DEF Deliver
    <3> QED
      BY <3>1, <3>2
  <2>9. NativeInv'
    <3>1. Idle.pc # "native"
      BY DEF Idle
    <3> QED
      BY <2>6, <3>1 DEF IInv, NativeInv, Top, Held, Deliver
  <2>10. SyncInv'
    BY <1>1, <2>4, IdleRequest, SyncsKept DEF Deliver, IInv, SyncInv
  <2>11. CapacityInv'
    <3> DEFINE P == {u \in Thread : Pending(u)}
    <3>1. IsFiniteSet(P) /\ IsFiniteSet(kept) /\ t \in P
      BY <1>1, <1>3, PendingCallers DEF IInv, CapacityInv, Pending
    <3>2. P' = P \ {t}
      <4>1. Idle.pc = "idle"
        BY DEF Idle
      <4> QED
        BY <2>6, <4>1 DEF Pending
    <3>3. Cardinality(P) \in Nat /\ Cardinality(kept) \in Nat
      BY <3>1, FS_CardinalityType
    <3>4. Cardinality(kept) + Cardinality(P) <= MaxKept
      BY DEF IInv, CapacityInv
    <3> HIDE DEF P
    <3>5. Cardinality(P \ {t}) = Cardinality(P) - 1
      BY <3>1, FS_RemoveElement
    <3>6. IsFiniteSet(kept \cup {h}) /\ Cardinality(kept \cup {h}) = Cardinality(kept) + 1
      BY <2>5, <3>1, FS_AddElement
    <3>7. Cardinality(kept') + Cardinality(P') <= MaxKept
      BY <2>4, <3>2, <3>3, <3>4, <3>5, <3>6, BasisBoundsAssumption
    <3> QED
      BY <2>4, <3>6, <3>7 DEF CapacityInv, P
  <2>12. /\ UNCHANGED World /\ failures' \in 0 .. MaxFailures
         /\ handle' \in [Handle -> Basis \cup {Null}] /\ kept' \subseteq Handle
    BY <2>3, <2>4, BoundsHold DEF Deliver, World, IInv, WorldOK
  <2> QED
    BY <2>4, <2>7, <2>8, <2>9, <2>10, <2>11, <2>12, IdleCall, IdleRequest, BasisStep
<1> QED
  BY <1>2, <1>3

LEMMA ForgetKeeps ==
    ASSUME IInv, NEW h \in Handle, Forget(h)
    PROVE  IInv'
<1>1. /\ kept' = kept \ {h} /\ handle' = [handle EXCEPT ![h] = Null] /\ req' = req
      /\ UNCHANGED <<World, syncs, failures>>
  BY DEF Forget, World
<1>2. /\ handle' \in [Handle -> Basis \cup {Null}] /\ handle'[h] = Null
      /\ \A g \in Handle \ {h} : handle'[g] = handle[g]
  BY <1>1 DEF IInv, WorldOK
<1>3. \A u \in Thread : ~Touches(req[u], h)
  BY DEF Forget, Touches, Holds, Held
<1>4. WorldOK'
  BY <1>1, <1>2 DEF IInv, WorldOK, World
<1>5. ASSUME NEW u \in Thread PROVE CallInv(u, req[u])'
  <2>1. \A g : Touches(req[u], g) => Steady(g)
    <3>1. SUFFICES ASSUME NEW g, Touches(req[u], g) PROVE Steady(g)
      OBVIOUS
    <3>2. g \in Handle \ {h}
      BY <1>3, <3>1, TouchedIsBasis
    <3> QED
      BY <1>1, <1>2, <3>2 DEF Steady
  <2>2. CallInv(u, req'[u]) /\ \A g : Touches(req'[u], g) => Steady(g)
    BY <1>1, <2>1 DEF IInv
  <2> QED
    BY <1>1, <2>2, BoundsHold, CallFrame DEF World
<1>6. ASSUME NEW g \in Handle PROVE HandleOK(g)'
  <2>1. CASE g = h
    BY <1>1, <1>2, <2>1 DEF HandleOK
  <2>2. CASE g # h
    <3>1. \A u \in Thread : Holds(req[u], g) => Holds(req[u], g)'
      BY <1>1 DEF Holds
    <3> QED
      BY <1>1, <1>2, <2>2, <3>1, BoundsHold, HandleFrame DEF IInv, WorldOK, World
  <2> QED
    BY <2>1, <2>2
<1>7. NativeInv'
  <2>1. ASSUME NEW u \in Thread, req[u].pc = "native" PROVE handle'[Top(u)] = handle[Top(u)]
    <3>1. Held(u) # <<>>
      BY <2>1, CallOf DEF ShapeOK, Releasing, Held
    <3>2. Touches(req[u], Top(u)) /\ Top(u) \in Handle
      BY <3>1, CandidateIs DEF Touches
    <3> QED
      BY <1>2, <1>3, <3>2
  <2> QED
    BY <1>1, <2>1 DEF IInv, NativeInv, Top, Held
<1>8. SyncInv'
  BY <1>1 DEF IInv, SyncInv
<1>9. CapacityInv'
  <2> DEFINE p == Cardinality({u \in Thread : Pending(u)})
  <2>1. p' = p
    BY <1>1 DEF Pending
  <2>2. p \in Nat /\ IsFiniteSet(kept) /\ Cardinality(kept) \in Nat
        /\ Cardinality(kept) + p <= MaxKept
    BY PendingCallers, FS_CardinalityType DEF IInv, CapacityInv
  <2>3. IsFiniteSet(kept \ {h}) /\ Cardinality(kept \ {h}) \in Nat
        /\ Cardinality(kept \ {h}) <= Cardinality(kept)
    BY <2>2, FS_Subset, FS_CardinalityType
  <2> HIDE DEF p
  <2>4. Cardinality(kept') + p' <= MaxKept
    BY <1>1, <2>1, <2>2, <2>3, BasisBoundsAssumption
  <2> QED
    BY <1>1, <2>3, <2>4 DEF CapacityInv, p
<1> QED
  BY <1>4, <1>5, <1>6, <1>7, <1>8, <1>9 DEF IInv

LEMMA WorldKeeps ==
    ASSUME IInv, Commit \/ CatchUp \/ ReplaceHistory
    PROVE  IInv'
<1>1. /\ UNCHANGED <<backend, handle, syncs, req, kept, failures>>
      /\ lifecycle' = lifecycle \/ (lifecycle < MaxLifecycle /\ lifecycle' = lifecycle + 1)
  BY DEF Commit, CatchUp, ReplaceHistory
<1>2. /\ lifecycle \in 1 .. MaxLifecycle /\ lifecycle' \in 1 .. MaxLifecycle
      /\ lifecycle \in Int /\ lifecycle' \in Int /\ lifecycle <= lifecycle'
  BY <1>1, BasisBoundsAssumption DEF IInv, WorldOK
<1>3. head' \in 0 .. MaxRevision /\ seen' \in 0 .. head'
  <2>1. head \in 0 .. MaxRevision /\ seen \in 0 .. head
    BY DEF IInv, WorldOK
  <2>2. CASE Commit
    BY <2>1, <2>2, BasisBoundsAssumption DEF Commit
  <2>3. CASE CatchUp
    BY <2>1, <2>3, BasisBoundsAssumption DEF CatchUp
  <2>4. CASE ReplaceHistory
    BY <2>1, <2>4, BasisBoundsAssumption DEF ReplaceHistory
  <2> QED
    BY <2>2, <2>3, <2>4
<1>4. WorldOK'
  BY <1>1, <1>2, <1>3 DEF IInv, WorldOK
<1>5. \A h : Steady(h)
  BY <1>1 DEF Steady
<1>6. ASSUME NEW u \in Thread PROVE CallInv(u, req[u])'
  <2>1. CallInv(u, req'[u])
    BY <1>1 DEF IInv
  <2> QED
    BY <1>1, <1>2, <1>5, <2>1, CallFrame
<1>7. ASSUME NEW h \in Handle PROVE HandleOK(h)'
  <2>1. \A u \in Thread : Holds(req[u], h) => Holds(req[u], h)'
    BY <1>1 DEF Holds
  <2> QED
    BY <1>1, <1>2, <2>1, HandleFrame DEF IInv, WorldOK
<1>8. NativeInv'
  BY <1>1 DEF IInv, NativeInv, Top, Held
<1>9. SyncInv' /\ CapacityInv'
  BY <1>1 DEF IInv, SyncInv, CapacityInv, Pending
<1> QED
  BY <1>4, <1>6, <1>7, <1>8, <1>9 DEF IInv

LEMMA InitIInv == Init => IInv
<1>1. SUFFICES ASSUME Init PROVE IInv
  OBVIOUS
<1>2. WorldOK
  <2>1. req \in [Thread -> Request]
    BY <1>1, IdleRequest DEF Init
  <2>2. head \in 0 .. MaxRevision /\ seen \in 0 .. head /\ lifecycle \in 1 .. MaxLifecycle
        /\ failures \in 0 .. MaxFailures
    BY <1>1, BasisBoundsAssumption DEF Init
  <2> QED
    BY <1>1, <2>1, <2>2 DEF Init, WorldOK
<1>3. \A t \in Thread : req[t] = Idle
  BY <1>1 DEF Init
<1>4. Idle.pc = "idle"
  BY DEF Idle
<1>5. \A t \in Thread : CallInv(t, req[t])
  BY <1>3, IdleCall
<1>6. \A h \in Handle : HandleOK(h)
  BY <1>1 DEF Init, HandleOK
<1>7. NativeInv /\ SyncInv
  BY <1>1, <1>3, <1>4 DEF Init, NativeInv, SyncInv
<1>8. CapacityInv
  <2>1. {u \in Thread : Pending(u)} = {} /\ kept = {}
    BY <1>1, <1>3, <1>4 DEF Init, Pending
  <2>2. Cardinality(kept) = 0 /\ Cardinality({u \in Thread : Pending(u)}) = 0 /\ IsFiniteSet(kept)
    BY <2>1, FS_EmptySet
  <2> QED
    BY <2>2, BasisBoundsAssumption DEF CapacityInv
<1> QED
  BY <1>2, <1>5, <1>6, <1>7, <1>8 DEF IInv

LEMMA StutterKeeps == IInv /\ UNCHANGED vars => IInv'
<1>1. SUFFICES ASSUME IInv, UNCHANGED vars PROVE IInv'
  OBVIOUS
<1>2. /\ UNCHANGED <<backend, head, seen, lifecycle, handle, syncs, req, kept, failures>>
      /\ lifecycle \in Int
  BY <1>1, BoundsHold, BasisBoundsAssumption DEF vars, IInv, WorldOK
<1>3. WorldOK'
  BY <1>1, <1>2 DEF IInv, WorldOK
<1>4. ASSUME NEW u \in Thread PROVE CallInv(u, req[u])'
  <2>1. CallInv(u, req'[u]) /\ \A h : Steady(h)
    BY <1>1, <1>2 DEF IInv, Steady
  <2> QED
    BY <1>2, <2>1, CallFrame
<1>5. ASSUME NEW h \in Handle PROVE HandleOK(h)'
  BY <1>1, <1>2 DEF IInv, HandleOK, Holds
<1>6. NativeInv' /\ SyncInv' /\ CapacityInv'
  BY <1>1, <1>2 DEF IInv, NativeInv, SyncInv, CapacityInv, Pending, Top, Held
<1> QED
  BY <1>3, <1>4, <1>5, <1>6 DEF IInv

\* Every step of every call, of the host and of the world.
LEMMA NextIInv == IInv /\ [Next]_vars => IInv'
<1>1. SUFFICES ASSUME IInv, [Next]_vars PROVE IInv'
  OBVIOUS
<1>2. CASE UNCHANGED vars
  BY <1>1, <1>2, StutterKeeps
<1>3. CASE Commit \/ CatchUp \/ ReplaceHistory
  BY <1>1, <1>3, WorldKeeps
<1>4. ASSUME NEW h \in Handle, Forget(h) PROVE IInv'
  BY <1>1, <1>4, ForgetKeeps
<1>5. ASSUME NEW t \in Thread, Begin(t) \/ RecoverCursor(t) \/ DeadlinePasses(t) PROVE IInv'
  BY <1>1, <1>5, BeginKeeps, RecoverKeeps, DeadlineKeeps
<1>6. ASSUME NEW t \in Thread, Call(t) PROVE IInv'
  <2>1. CASE Select(t)
    BY <1>1, <2>1, SelectKeeps
  <2>2. CASE Acquire(t) \/ SyncAnswers(t)
    BY <1>1, <2>2, AcquireKeeps
  <2>3. CASE AcquireTooLate(t) \/ GiveUpSync(t) \/ Refuse(t) \/ Abort(t)
    BY <1>1, <2>3, FailuresKeep
  <2>4. CASE StartSync(t)
    BY <1>1, <2>4, StartSyncKeeps
  <2>5. CASE Identify(t)
    BY <1>1, <2>5, IdentifyKeeps
  <2>6. CASE Retry(t) \/ StartOver(t) \/ Accept(t)
    BY <1>1, <2>6, RetryKeeps, StartOverKeeps, AcceptKeeps
  <2>7. CASE Deliver(t)
    BY <1>1, <2>7, DeliverKeeps
  <2>8. CASE BeginRelease(t)
    BY <1>1, <2>8, WinKeeps, ReleaseEnds
  <2>9. CASE NativeRelease(t)
    BY <1>1, <2>9, ReleaseEnds
  <2> QED
    BY <1>6, <2>1, <2>2, <2>3, <2>4, <2>5, <2>6, <2>7, <2>8, <2>9 DEF Call
<1>7. ASSUME NEW t \in Thread, Mishap(t) PROVE IInv'
  BY <1>1, <1>7, FailuresKeep, ReleaseEnds DEF Mishap
<1>8. ASSUME NEW t \in Thread, NEW h \in Handle, ReadKept(t, h) \/ ReleaseKept(t, h) PROVE IInv'
  BY <1>1, <1>8, ReadKeptKeeps, ReleaseKeptKeeps
<1> QED
  BY <1>1, <1>2, <1>3, <1>4, <1>5, <1>6, <1>7, <1>8 DEF Next

LEMMA AlwaysIInv == Spec => []IInv
BY InitIInv, NextIInv, PTL DEF Spec

-----------------------------------------------------------------------------
(* What the invariant says.                                                *)

LEMMA IInvTypes == IInv => TypeOK
<1>1. SUFFICES ASSUME IInv PROVE TypeOK
  OBVIOUS
<1>2. \A t \in Thread : req[t].pc \in Stage /\ Len(req[t].held) <= 2
  BY <1>1, CallOf DEF ShapeOK, Request
<1> QED
  BY <1>1, <1>2 DEF IInv, WorldOK, TypeOK

LEMMA IInvReleases == IInv => ReleasedOnce
<1>1. SUFFICES ASSUME IInv, NEW h \in Handle, handle[h] # Null
               PROVE  /\ handle[h].closes <= 1
                      /\ handle[h].closes = 1 <=> handle[h].state = "released"
                      /\ Cardinality({t \in Thread : req[t].pc = "native" /\ Top(t) = h}) <= 1
  BY DEF ReleasedOnce
<1>2. handle[h].closes = IF handle[h].state = "released" THEN 1 ELSE 0
  BY <1>1 DEF IInv, HandleOK
<1> DEFINE Closing == {t \in Thread : req[t].pc = "native" /\ Top(t) = h}
<1>3. Cardinality(Closing) <= 1
  <2>1. CASE Closing = {}
    <3>1. Cardinality({}) = 0
      BY FS_EmptySet
    <3> HIDE DEF Closing
    <3> QED
      BY <2>1, <3>1
  <2>2. CASE Closing # {}
    <3>1. PICK t : t \in Closing
      BY <2>2
    <3>2. \A u \in Closing : u = t
      BY <1>1, <3>1 DEF IInv, NativeInv
    <3>3. Closing = {t}
      BY <3>1, <3>2
    <3>4. Cardinality({t}) = 1
      BY FS_Singleton
    <3> HIDE DEF Closing
    <3> QED
      BY <3>3, <3>4
  <2> QED
    BY <2>1, <2>2
<1> QED
  BY <1>2, <1>3

LEMMA IInvReads == IInv => ReadsAreOpen
<1>1. SUFFICES ASSUME IInv, Affine, NEW t \in Thread, req[t].pc = "read"
               PROVE  /\ handle[req[t].using] # Null
                      /\ handle[req[t].using].state = "open"
                      /\ handle[req[t].using].owner = t
  BY DEF ReadsAreOpen
<1> DEFINE h == req[t].using
<1>2. CallInv(t, req[t]) /\ ShapeOK(req[t])
  BY <1>1, CallOf
<1>3. CASE req[t].kind = "kept"
  <2>1. /\ h \in kept /\ h \in Handle
        /\ handle[h].state = "open" /\ handle[h].owner = t
    BY <1>1, <1>2, <1>3 DEF CallInv, ReadOK, ReadsKept, IInv, WorldOK
  <2> QED
    BY <1>1, <2>1 DEF IInv, HandleOK
<1>4. CASE req[t].kind # "kept"
  <2>1. Held(t) # <<>> /\ h = Top(t) /\ Held(t) = req[t].held
    BY <1>1, <1>2, <1>4, CandidateIs DEF ShapeOK, ReadsOwn, Held
  <2>2. Holds(req[t], h) /\ handle[h] # Null
    BY <1>1, <2>1, CandidateIs DEF Candidate
  <2>3. PICK i \in DOMAIN req[t].held : req[t].held[i] = h
    BY <2>2 DEF Holds
  <2>4. HeldOK(t, req[t]) /\ ~Releasing(req[t])
    BY <1>1, <1>2 DEF CallInv, Releasing
  <2>5. h \notin kept /\ handle[h].owner = t
    BY <1>1, <2>3, <2>4 DEF HeldOK
  <2>6. handle[h].state = "open"
    BY <1>1, <2>3, <2>4, <2>5 DEF HeldOK
  <2> QED
    BY <2>2, <2>5, <2>6
<1> QED
  BY <1>3, <1>4

LEMMA IInvLeaks == IInv => NothingLeaks
<1>1. SUFFICES ASSUME IInv PROVE NothingLeaks
  OBVIOUS
<1>2. ASSUME NEW h \in Handle, handle[h] # Null, h \notin kept
      PROVE  \E t \in Thread : \E i \in DOMAIN Held(t) : Held(t)[i] = h
  BY <1>1, <1>2, CallerAssumption DEF IInv, HandleOK, Holds, Held
<1>3. \A s \in syncs : req[s.caller].pc = "wait"
  BY <1>1 DEF IInv, SyncInv
<1> QED
  BY <1>2, <1>3 DEF NothingLeaks

LEMMA IInvTokens == IInv => TokensHonoured
<1>1. SUFFICES ASSUME IInv, NEW t \in Thread, req[t].pc = "read", req[t].token # Null
               PROVE  Honours(handle[req[t].using], req[t])
  BY DEF TokensHonoured, Honours
<1> QED
  BY <1>1 DEF IInv, CallInv, ChainOK

-----------------------------------------------------------------------------
(* The theorems.                                                           *)

\* The state of the client is well formed, and no call ever holds more than
\* the basis it answers from and the one a cursor is recovered at.
THEOREM TypeCorrect == Spec => []TypeOK
BY AlwaysIInv, IInvTypes, PTL

\* However many threads race to release a Snapshot, and however often a release
\* fails and is retried, its native release succeeds at most once (release!).
THEOREM ReleasesOnce == Spec => []ReleasedOnce
BY AlwaysIInv, IInvReleases, PTL

\* With any number of threads, an owned native value is read only while it is
\* open and by the thread that opened it (assert-open!, require-owner-thread!).
THEOREM ReadsOnlyOpen == Spec => []ReadsAreOpen
BY AlwaysIInv, IInvReads, PTL

\* No failure, timeout, retry or recovery leaves a basis or a synchronisation
\* behind that nobody answers for (release-after-selection-error!, cancel-waiter!).
THEOREM NeverLeaks == Spec => []NothingLeaks
BY AlwaysIInv, IInvLeaks, PTL

\* An answer under a token comes from the token's own history, at or beyond its
\* floor or at its exact revision, for any number of replaced histories.
THEOREM HonoursTokens == Spec => []TokensHonoured
BY AlwaysIInv, IInvTokens, PTL
=============================================================================
