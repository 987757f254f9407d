-------------------------- MODULE PagedWalks_proofs --------------------------
(***************************************************************************)
(* Rotation, cleanups, checkpoints and pages, for any number of threads,   *)
(* keys, revisions, candidates, times and page sizes.                      *)
(***************************************************************************)
EXTENDS PagedWalks, SequenceTheorems, FiniteSetTheorems, WellFoundedInduction, TLAPS

-----------------------------------------------------------------------------
(* The keyring.  Generations number the rings, so whoever finds the        *)
(* generation it has read still holds the ring it has read.                *)

RingOK ==
    /\ ring.generation \in Nat
    /\ ring.retired \cap ring.keys = {}

UpdateOK(t) ==
    update[t].pc = "swap" =>
        /\ update[t].prior.generation \in Nat
        /\ update[t].prior.generation <= ring.generation
        /\ update[t].prior.generation = ring.generation => update[t].prior = ring

KeyringInv ==
    /\ RingOK
    /\ update = [t \in Thread |-> update[t]]
    /\ \A t \in Thread : UpdateOK(t)

LEMMA KeyringInitially == KeyringInit => KeyringInv
<1> SUFFICES ASSUME KeyringInit PROVE KeyringInv
  OBVIOUS
<1>1. RingOK
  BY DEF KeyringInit, RingOK
<1>2. update = [t \in Thread |-> update[t]]
  BY DEF KeyringInit
<1>3. \A t \in Thread : UpdateOK(t)
  BY DEF KeyringInit, UpdateOK, NoUpdate
<1> QED
  BY <1>1, <1>2, <1>3 DEF KeyringInv

\* What an operation is about to swap in was decided on the ring installed now.
LEMMA BegunOnInstalled ==
    ASSUME KeyringInv, NEW t \in Thread, NEW u,
           UNCHANGED ring, update' = [update EXCEPT ![t] = u],
           u.pc = "swap" => u.prior = ring
    PROVE  KeyringInv'
<1>1. RingOK'
  BY DEF KeyringInv, RingOK
<1>2. update' = [s \in Thread |-> update'[s]]
  BY DEF KeyringInv
<1>3. ASSUME NEW s \in Thread PROVE UpdateOK(s)'
  <2>1. CASE s = t
    <3>1. update'[s] = u
      BY <2>1 DEF KeyringInv
    <3> QED
      BY <3>1 DEF KeyringInv, RingOK, UpdateOK
  <2>2. CASE s # t
    <3>1. update'[s] = update[s]
      BY <2>2 DEF KeyringInv
    <3> QED
      BY <3>1 DEF KeyringInv, UpdateOK
  <2> QED
    BY <2>1, <2>2
<1> QED
  BY <1>1, <1>2, <1>3 DEF KeyringInv

LEMMA InstallKeeps ==
    ASSUME KeyringInv, NEW t \in Thread, Install(t)
    PROVE  /\ KeyringInv'
           /\ ring' # ring =>
                /\ ring.retired \subseteq ring'.retired
                /\ ring'.retired \cap ring'.keys = {}
                /\ ring.keys \subseteq ring'.keys \cup ring'.retired
<1> DEFINE prior   == update[t].prior
           desired == update[t].desired
<1>1. prior = ring
  BY DEF Install, StillInstalled, KeyringInv, UpdateOK
<1>2. update' = [update EXCEPT ![t] = NoUpdate]
  BY DEF Install
<1>3. CASE ~Valid(prior, desired)
  <2>1. ring' = ring
    BY <1>3 DEF Install
  <2>2. KeyringInv'
    BY <1>2, <2>1, BegunOnInstalled DEF NoUpdate
  <2> QED
    BY <2>1, <2>2
<1>4. CASE Valid(prior, desired)
  <2>1. ring' = Successor(ring, desired)
    BY <1>1, <1>4 DEF Install
  <2>2. desired.keys \cap ring.retired = {}
    BY <1>1, <1>4 DEF Valid
  <2>3. /\ ring'.generation = ring.generation + 1
        /\ ring'.keys = desired.keys
        /\ ring'.retired = ring.retired \cup (ring.keys \ desired.keys)
    BY <2>1 DEF Successor, NowRetired
  <2>4. RingOK'
    BY <2>2, <2>3 DEF KeyringInv, RingOK
  <2>5. ASSUME NEW s \in Thread PROVE UpdateOK(s)'
    <3>1. CASE s = t
      BY <1>2, <3>1 DEF KeyringInv, UpdateOK, NoUpdate
    <3>2. CASE s # t
      <4>1. update'[s] = update[s]
        BY <1>2, <3>2 DEF KeyringInv
      <4> QED
        BY <2>3, <4>1 DEF KeyringInv, RingOK, UpdateOK
    <3> QED
      BY <3>1, <3>2
  <2>6. update' = [s \in Thread |-> update'[s]]
    BY <1>2 DEF KeyringInv
  <2>7. KeyringInv'
    BY <2>4, <2>5, <2>6 DEF KeyringInv
  <2> QED
    BY <2>2, <2>3, <2>7
<1> QED
  BY <1>3, <1>4

LEMMA KeyringStepKeeps ==
    ASSUME KeyringInv, NEW t \in Thread, KeyringStep(t)
    PROVE  /\ KeyringInv'
           /\ ring' # ring =>
                /\ ring.retired \subseteq ring'.retired
                /\ ring'.retired \cap ring'.keys = {}
                /\ ring.keys \subseteq ring'.keys \cup ring'.retired
<1>1. CASE BeginUpdate(t)
  <2>1. PICK op \in {"add", "activate", "retire"}, kid \in Kid :
          update' = [update EXCEPT ![t] = Trying(op, kid, 1)]
    BY <1>1 DEF BeginUpdate
  <2>2. Trying(op, kid, 1).prior = ring
    BY DEF Trying
  <2>3. UNCHANGED ring
    BY <1>1 DEF BeginUpdate
  <2> QED
    BY <2>1, <2>2, <2>3, BegunOnInstalled
<1>2. CASE BeginReplacement(t)
  <2>1. UNCHANGED ring
    BY <1>2 DEF BeginReplacement
  <2>2. PICK keys \in SUBSET Kid : \E active \in keys :
          update' = [update EXCEPT ![t] =
                       [ pc |-> "swap", op |-> "replace", prior |-> ring,
                         desired |-> [ keys |-> keys, active |-> active ] ]]
    BY <1>2 DEF BeginReplacement
  <2>3. PICK active \in keys :
          update' = [update EXCEPT ![t] =
                       [ pc |-> "swap", op |-> "replace", prior |-> ring,
                         desired |-> [ keys |-> keys, active |-> active ] ]]
    BY <2>2
  <2> QED
    BY <2>1, <2>3, BegunOnInstalled
<1>3. CASE Install(t)
  BY <1>3, InstallKeeps
<1>4. CASE Conflict(t)
  <2>1. UNCHANGED ring
    BY <1>4 DEF Conflict
  <2>2. \/ update' = [update EXCEPT ![t] = NoUpdate]
        \/ update' = [update EXCEPT ![t] =
                        Trying(update[t].op, update[t].kid, update[t].attempt + 1)]
    BY <1>4 DEF Conflict
  <2>3. NoUpdate.pc # "swap"
    BY DEF NoUpdate
  <2>4. Trying(update[t].op, update[t].kid, update[t].attempt + 1).prior = ring
    BY DEF Trying
  <2> QED
    BY <2>1, <2>2, <2>3, <2>4, BegunOnInstalled
<1> QED
  BY <1>1, <1>2, <1>3, <1>4 DEF KeyringStep

LEMMA KeyringUntouched == KeyringInv /\ UNCHANGED keyringVars => KeyringInv'
  BY DEF keyringVars, KeyringInv, RingOK, UpdateOK
-----------------------------------------------------------------------------
(* Calls.  A call keeps what it has learnt, a call that may claim a cleanup *)
(* has captured a later epoch, and one that may store a checkpoint has got  *)
(* further than the entry it compared it with.                              *)

Captured == {"pc", "retired", "minting", "series", "basis", "frame", "time"}
Paged    == Captured \cup {"page", "start", "until", "lookahead", "position"}

CallOK(r) ==
    /\ r.pc \in {"observe", "claim", "accept"} => Captured \subseteq DOMAIN r
    /\ r.pc = "claim" => Cardinality(r.retired) > r.previous
    /\ r.pc \in {"publish", "swap"} => Paged \subseteq DOMAIN r

Outruns(t) ==
    req[t].pc = "swap" => \A resident \in req[t].seen : ProgressNewer(Checkpoint(t), resident)

CallsInv ==
    /\ req = [t \in Thread |-> req[t]]
    /\ \A t \in Thread : CallOK(req[t]) /\ Outruns(t)

LEMMA CallsInitially == Init => CallsInv
<1> SUFFICES ASSUME Init PROVE CallsInv
  OBVIOUS
<1>1. \A t \in Thread : req[t].pc = "idle"
  BY DEF Init, Idle
<1>2. req = [t \in Thread |-> req[t]]
  BY DEF Init
<1> QED
  BY <1>1, <1>2 DEF CallsInv, CallOK, Outruns

LEMMA CallsUntouched == CallsInv /\ UNCHANGED req => CallsInv'
BY DEF CallsInv, CallOK, Outruns, Checkpoint, ProgressNewer

\* A step of one call leaves the others as they are.
LEMMA OneCall ==
    ASSUME CallsInv, NEW t \in Thread, NEW r, req' = [req EXCEPT ![t] = r],
           CallOK(r), r.pc # "swap"
    PROVE  CallsInv'
<1>1. req' = [s \in Thread |-> req'[s]]
  BY DEF CallsInv
<1>2. ASSUME NEW s \in Thread PROVE (CallOK(req[s]) /\ Outruns(s))'
  <2>1. CASE s = t
    <3>1. req'[s] = r
      BY <2>1 DEF CallsInv
    <3> QED
      BY <3>1 DEF Outruns, CallOK
  <2>2. CASE s # t
    <3>1. req'[s] = req[s]
      BY <2>2 DEF CallsInv
    <3> QED
      BY <3>1 DEF CallsInv, CallOK, Outruns, Checkpoint, ProgressNewer
  <2> QED
    BY <2>1, <2>2
<1> QED
  BY <1>1, <1>2 DEF CallsInv

LEMMA IdleIsOK == CallOK(Idle) /\ Idle.pc # "swap"
BY DEF CallOK, Idle

LEMMA BeginKeeps ==
    ASSUME CallsInv, NEW t \in Thread, Begin(t) PROVE CallsInv'
<1> DEFINE call(mode, consistency, time, size, cursor, basis, way, series, requested) ==
             [ pc |-> IF ring.retired = {} THEN "accept" ELSE "observe",
               mode |-> mode, time |-> time, size |-> size, series |-> series,
               way |-> way, cursor |-> cursor, basis |-> basis,
               frame |-> frames[basis],
               consistency |-> consistency, requested |-> requested,
               accepted |-> ring.keys, minting |-> ring.active,
               retired |-> ring.retired ]
<1>1. PICK mode \in {"live", "pinned"}, consistency \in Consistency,
           time \in IF qualified THEN Time ELSE {0}, size \in PageSize,
           cursor \in cursors \cup {Null} :
       /\ MayAsk(mode, consistency)
       /\ \E basis \in IF mode = "live" /\ consistency # "at-exact-snapshot" THEN {Newest}
                      ELSE 1 .. Newest,
             way \in IF cursor = Null THEN {"after"} ELSE {"after", "before"} :
          \E series \in IF cursor = Null \/ way = "before" THEN {size} ELSE PageSize,
             requested \in Requestable(consistency, basis) :
         req' = [req EXCEPT ![t] = call(mode, consistency, time, size, cursor, basis, way,
                                        series, requested)]
  BY Zenon DEF Begin
<1>2. PICK basis \in IF mode = "live" /\ consistency # "at-exact-snapshot" THEN {Newest}
                     ELSE 1 .. Newest,
           way \in IF cursor = Null THEN {"after"} ELSE {"after", "before"} :
       \E series \in IF cursor = Null \/ way = "before" THEN {size} ELSE PageSize,
          requested \in Requestable(consistency, basis) :
         req' = [req EXCEPT ![t] = call(mode, consistency, time, size, cursor, basis, way,
                                        series, requested)]
  BY <1>1, Zenon
<1>3. PICK series \in IF cursor = Null \/ way = "before" THEN {size} ELSE PageSize,
           requested \in Requestable(consistency, basis) :
         req' = [req EXCEPT ![t] = call(mode, consistency, time, size, cursor, basis, way,
                                        series, requested)]
  BY <1>2, Zenon
<1> DEFINE r == call(mode, consistency, time, size, cursor, basis, way, series, requested)
<1>4. req' = [req EXCEPT ![t] = r]
  BY <1>3
<1>5. r.pc = "accept" \/ r.pc = "observe"
  OBVIOUS
<1>6. Captured \subseteq DOMAIN r
  BY DEF Captured
<1>7. CallOK(r) /\ r.pc # "swap"
  BY <1>5, <1>6 DEF CallOK
<1> HIDE DEF r
<1> QED
  BY <1>4, <1>7, OneCall

LEMMA ObserveKeeps ==
    ASSUME CallsInv, NEW t \in Thread, Observe(t) PROVE CallsInv'
<1>1. Captured \subseteq DOMAIN req[t]
  BY DEF Observe, CallsInv, CallOK
<1>2. CASE Cardinality(req[t].retired) > observed
  <2> DEFINE r == Extended([req[t] EXCEPT !.pc = "claim"], [previous |-> observed])
  <2>1. req' = [req EXCEPT ![t] = r]
    BY <1>2 DEF Observe
  <2>2. r.pc = "claim" /\ r.previous = observed /\ r.retired = req[t].retired
    <3>1. "pc" \in DOMAIN req[t] /\ "retired" \in DOMAIN req[t]
      BY <1>1 DEF Captured
    <3> QED
      BY <3>1 DEF Extended
  <2>3. Captured \subseteq DOMAIN r
    BY <1>1 DEF Extended
  <2> HIDE DEF r
  <2>4. CallOK(r) /\ r.pc # "swap"
    BY <1>2, <2>2, <2>3 DEF CallOK
  <2> QED
    BY <2>1, <2>4, OneCall
<1>3. CASE ~(Cardinality(req[t].retired) > observed)
  <2> DEFINE r == [req[t] EXCEPT !.pc = "accept"]
  <2>1. req' = [req EXCEPT ![t] = r]
    BY <1>3 DEF Observe
  <2>2. CallOK(r) /\ r.pc # "swap"
    BY <1>1 DEF CallOK, Observe, Captured
  <2> HIDE DEF r
  <2> QED
    BY <2>1, <2>2, OneCall
<1> QED
  BY <1>2, <1>3

LEMMA ClaimKeeps ==
    ASSUME CallsInv, NEW t \in Thread, Claim(t) PROVE CallsInv'
<1> DEFINE r == [req[t] EXCEPT !.pc = "accept"]
<1>1. req' = [req EXCEPT ![t] = r]
  BY DEF Claim
<1>2. Captured \subseteq DOMAIN req[t]
  BY DEF Claim, CallsInv, CallOK
<1>3. CallOK(r) /\ r.pc # "swap"
  BY <1>2 DEF CallOK, Captured
<1> HIDE DEF r
<1> QED
  BY <1>1, <1>3, OneCall

LEMMA RecoverKeeps ==
    ASSUME CallsInv, NEW t \in Thread, Recover(t) PROVE CallsInv'
<1> DEFINE r == [req[t] EXCEPT !.basis = req[t].cursor.revision, !.frame = req[t].cursor.frame]
<1>1. req' = [req EXCEPT ![t] = r]
  BY DEF Recover
<1>2. Captured \subseteq DOMAIN req[t] /\ req[t].pc = "accept"
  BY DEF Recover, CallsInv, CallOK
<1>3. r.pc = "accept" /\ DOMAIN r = DOMAIN req[t]
  BY <1>2 DEF Captured
<1> HIDE DEF r
<1>4. CallOK(r) /\ r.pc # "swap"
  BY <1>2, <1>3 DEF CallOK
<1> QED
  BY <1>1, <1>4, OneCall

LEMMA ServedIsOK ==
    ASSUME CallsInv, NEW t \in Thread, req[t].pc = "accept",
           NEW page, NEW start, NEW until
    PROVE  LET r == Served(t, page, start, until) IN
           /\ r.pc \in {"publish", "deliver"}
           /\ req[t].way = "before" => r.pc = "deliver"
           /\ Captured \cup {"page", "start", "until"} \subseteq DOMAIN r
<1>1. Captured \subseteq DOMAIN req[t]
  BY DEF CallsInv, CallOK
<1> QED
  BY <1>1 DEF Served, Extended, Captured

LEMMA ServeKeeps ==
    ASSUME CallsInv, NEW t \in Thread, Serve(t) PROVE CallsInv'
<1>1. \/ req' = [req EXCEPT ![t] = Idle]
      \/ \E page, until, found, size, to :
           req' = [req EXCEPT ![t] =
                     Extended(Served(t, page, Ordinal(t), until),
                              [ lookahead |-> Lookahead(found, size), position |-> to ])]
  BY Zenon DEF Serve
<1>2. CASE req' = [req EXCEPT ![t] = Idle]
  BY <1>2, IdleIsOK, OneCall
<1>3. CASE \E page, until, found, size, to :
           req' = [req EXCEPT ![t] =
                     Extended(Served(t, page, Ordinal(t), until),
                              [ lookahead |-> Lookahead(found, size), position |-> to ])]
  <2>0. PICK page, until, found, size, to :
          req' = [req EXCEPT ![t] =
                    Extended(Served(t, page, Ordinal(t), until),
                             [ lookahead |-> Lookahead(found, size), position |-> to ])]
    BY <1>3
  <2> DEFINE q == Served(t, page, Ordinal(t), until)
             r == Extended(q, [ lookahead |-> Lookahead(found, size), position |-> to ])
  <2>1. req[t].pc = "accept"
    BY DEF Serve
  <2>2. /\ q.pc \in {"publish", "deliver"}
        /\ Captured \cup {"page", "start", "until"} \subseteq DOMAIN q
    BY <2>1, ServedIsOK
  <2>3. req' = [req EXCEPT ![t] = r]
    BY <2>0
  <2> HIDE DEF q
  <2>4. /\ r.pc = q.pc
        /\ Paged \subseteq DOMAIN r
    <3>1. "pc" \in DOMAIN q
      BY <2>2 DEF Captured
    <3> QED
      BY <2>2, <3>1 DEF Extended, Paged
  <2> HIDE DEF r
  <2>5. CallOK(r) /\ r.pc # "swap"
    BY <2>2, <2>4 DEF CallOK
  <2> QED
    BY <2>3, <2>5, OneCall
<1> QED
  BY <1>1, <1>2, <1>3

LEMMA ServeBeforeKeeps ==
    ASSUME CallsInv, NEW t \in Thread, ServeBefore(t) PROVE CallsInv'
<1>1. \/ req' = [req EXCEPT ![t] = Idle]
      \/ \E page, start, until : req' = [req EXCEPT ![t] = Served(t, page, start, until)]
  BY Zenon DEF ServeBefore
<1>2. CASE req' = [req EXCEPT ![t] = Idle]
  BY <1>2, IdleIsOK, OneCall
<1>3. ASSUME NEW page, NEW start, NEW until,
             req' = [req EXCEPT ![t] = Served(t, page, start, until)]
      PROVE  CallsInv'
  <2>1. req[t].pc = "accept" /\ req[t].way = "before"
    BY DEF ServeBefore
  <2> DEFINE r == Served(t, page, start, until)
  <2>2. r.pc = "deliver"
    BY <2>1, ServedIsOK
  <2>3. req' = [req EXCEPT ![t] = r]
    BY <1>3
  <2> HIDE DEF r
  <2>4. CallOK(r) /\ r.pc # "swap"
    BY <2>2 DEF CallOK
  <2> QED
    BY <2>3, <2>4, OneCall
<1> QED
  BY <1>1, <1>2, <1>3

LEMMA PeekKeeps ==
    ASSUME CallsInv, NEW t \in Thread, Peek(t) PROVE CallsInv'
<1> DEFINE seen == Resident(Minted(t))
<1>1. Paged \subseteq DOMAIN req[t]
  BY DEF Peek, CallsInv, CallOK
<1>2. CASE ~\A resident \in seen : ProgressNewer(Checkpoint(t), resident)
  <2> DEFINE r == [req[t] EXCEPT !.pc = "deliver"]
  <2>1. req' = [req EXCEPT ![t] = r]
    BY <1>2 DEF Peek
  <2>2. CallOK(r) /\ r.pc # "swap"
    BY <1>1 DEF CallOK, Paged, Captured
  <2> HIDE DEF r
  <2> QED
    BY <2>1, <2>2, OneCall
<1>3. CASE \A resident \in seen : ProgressNewer(Checkpoint(t), resident)
  <2> DEFINE r == Extended([req[t] EXCEPT !.pc = "swap"], [seen |-> seen])
  <2>1. req' = [req EXCEPT ![t] = r]
    BY <1>3 DEF Peek
  <2>2. /\ "pc" \in DOMAIN req[t] /\ "page" \in DOMAIN req[t] /\ "start" \in DOMAIN req[t]
        /\ "until" \in DOMAIN req[t] /\ "time" \in DOMAIN req[t]
        /\ "lookahead" \in DOMAIN req[t] /\ "position" \in DOMAIN req[t]
    BY <1>1 DEF Paged, Captured
  <2> HIDE DEF seen
  <2>3. /\ r.pc = "swap" /\ r.seen = seen
        /\ r.page = req[t].page /\ r.start = req[t].start /\ r.until = req[t].until
        /\ r.time = req[t].time /\ r.lookahead = req[t].lookahead
        /\ r.position = req[t].position
    BY <2>2 DEF Extended
  <2>4. Paged \subseteq DOMAIN r
    BY <1>1 DEF Extended
  <2> HIDE DEF r
  <2>5. req'[t] = r
    BY <2>1 DEF CallsInv
  <2>6. Checkpoint(t)' = Checkpoint(t)
    BY <2>3, <2>5 DEF Checkpoint
  <2>7. CallOK(req[t])'
    BY <2>3, <2>4, <2>5 DEF CallOK
  <2>8. Outruns(t)'
    BY <1>3, <2>3, <2>5, <2>6 DEF Outruns, ProgressNewer
  <2>9. ASSUME NEW s \in Thread, s # t PROVE (CallOK(req[s]) /\ Outruns(s))'
    <3>1. req'[s] = req[s]
      BY <2>1, <2>9 DEF CallsInv
    <3> QED
      BY <3>1 DEF CallsInv, CallOK, Outruns, Checkpoint, ProgressNewer
  <2>10. req' = [s \in Thread |-> req'[s]]
    BY <2>1 DEF CallsInv
  <2> QED
    BY <2>7, <2>8, <2>9, <2>10 DEF CallsInv
<1> QED
  BY <1>2, <1>3

LEMMA SwapKeeps ==
    ASSUME CallsInv, NEW t \in Thread, Swap(t) PROVE CallsInv'
<1>1. Paged \subseteq DOMAIN req[t]
  BY DEF Swap, CallsInv, CallOK
<1>2. PICK pc \in {"deliver", "publish"} : req' = [req EXCEPT ![t].pc = pc]
  BY DEF Swap
<1> DEFINE r == [req[t] EXCEPT !.pc = pc]
<1>3. req' = [req EXCEPT ![t] = r]
  BY <1>2
<1>4. CallOK(r) /\ r.pc # "swap"
  BY <1>1 DEF CallOK, Paged, Captured
<1> HIDE DEF r
<1> QED
  BY <1>3, <1>4, OneCall

LEMMA PageKeeps ==
    ASSUME CallsInv, NEW t \in Thread, Page(t) PROVE CallsInv'
<1>1. CASE Refuse(t)
  BY <1>1, IdleIsOK, OneCall DEF Refuse
<1>2. CASE Deliver(t)
  BY <1>2, IdleIsOK, OneCall DEF Deliver
<1> QED
  BY <1>1, <1>2, BeginKeeps, ObserveKeeps, ClaimKeeps, RecoverKeeps, ServeKeeps,
     ServeBeforeKeeps, PeekKeeps, SwapKeeps DEF Page
-----------------------------------------------------------------------------
(* The specification.                                                      *)

IInv == KeyringInv /\ CallsInv

LEMMA InitIInv == Init => IInv
BY KeyringInitially, CallsInitially DEF Init, IInv

LEMMA PageLeavesKeyring == ASSUME NEW t, Page(t) PROVE UNCHANGED keyringVars
<1>1. CASE Begin(t)       BY <1>1 DEF Begin
<1>2. CASE Observe(t)     BY <1>2 DEF Observe
<1>3. CASE Claim(t)       BY <1>3 DEF Claim
<1>4. CASE Recover(t)     BY <1>4 DEF Recover
<1>5. CASE Refuse(t)      BY <1>5 DEF Refuse
<1>6. CASE Serve(t)       BY <1>6 DEF Serve
<1>7. CASE ServeBefore(t) BY <1>7 DEF ServeBefore
<1>8. CASE Peek(t)        BY <1>8 DEF Peek
<1>9. CASE Swap(t)        BY <1>9 DEF Swap
<1>10. CASE Deliver(t)    BY <1>10 DEF Deliver
<1> QED
  BY <1>1, <1>2, <1>3, <1>4, <1>5, <1>6, <1>7, <1>8, <1>9, <1>10 DEF Page

LEMMA NextIInv == IInv /\ [Next]_vars => IInv'
<1> SUFFICES ASSUME IInv, [Next]_vars PROVE IInv'
  OBVIOUS
<1>0. KeyringInv /\ CallsInv
  BY DEF IInv
<1>1. CASE Commit \/ \E k \in DOMAIN store : Evict(k)
  <2>1. UNCHANGED keyringVars /\ UNCHANGED req
    BY <1>1 DEF Commit, Evict
  <2> QED
    BY <1>0, <2>1, KeyringUntouched, CallsUntouched DEF IInv
<1>2. ASSUME NEW t \in Thread, Page(t) PROVE IInv'
  BY <1>0, <1>2, PageLeavesKeyring, PageKeeps, KeyringUntouched DEF IInv
<1>3. ASSUME NEW t \in Thread, Rotate(t) PROVE IInv'
  <2>1. KeyringStep(t) /\ UNCHANGED req
    BY <1>3 DEF Rotate, walkVars
  <2> QED
    BY <1>0, <2>1, KeyringStepKeeps, CallsUntouched DEF IInv
<1>4. CASE UNCHANGED vars
  <2>1. UNCHANGED keyringVars /\ UNCHANGED req
    BY <1>4 DEF vars, walkVars
  <2> QED
    BY <1>0, <2>1, KeyringUntouched, CallsUntouched DEF IInv
<1> QED
  BY <1>1, <1>2, <1>3, <1>4 DEF Next

\* However many threads rotate, replace and retry: a retired key is never
\* accepted again, and no installed change is lost (update!, replace!).
THEOREM RetirementIsPermanent == Spec => KeysNeverReturn
<1> DEFINE Kept == /\ ring.retired \subseteq ring'.retired
                   /\ ring'.retired \cap ring'.keys = {}
                   /\ ring.keys \subseteq ring'.keys \cup ring'.retired
<1>1. IInv /\ [Next]_vars => [Kept]_ring
  <2> SUFFICES ASSUME IInv, [Next]_vars, ring' # ring PROVE Kept
    OBVIOUS
  <2>1. PICK t \in Thread : Rotate(t)
    <3>1. ~Commit /\ ~\E k \in DOMAIN store : Evict(k)
      BY DEF Commit, Evict, keyringVars
    <3>2. \A t \in Thread : ~Page(t)
      BY PageLeavesKeyring DEF keyringVars
    <3>3. ~UNCHANGED vars
      BY DEF vars, keyringVars
    <3> QED
      BY <3>1, <3>2, <3>3 DEF Next
  <2> QED
    BY <2>1, KeyringStepKeeps DEF IInv, Rotate
<1> QED
  BY <1>1, InitIInv, NextIInv, PTL DEF Spec, KeysNeverReturn

\* Whoever observes a retirement late never claims the cleanup of an epoch
\* that was claimed before (on-retirement!).
THEOREM EveryCleanupIsLater == Spec => CleanupsAdvance
<1>1. IInv /\ [Next]_vars => [observed' > observed]_observed
  <2> SUFFICES ASSUME IInv, [Next]_vars, observed' # observed PROVE observed' > observed
    OBVIOUS
  <2>1. PICK t \in Thread : Claim(t)
    <3>1. ~Commit /\ ~\E k \in DOMAIN store : Evict(k)
      BY DEF Commit, Evict
    <3>2. \A t \in Thread : ~Rotate(t)
      BY DEF Rotate, walkVars
    <3>3. ~UNCHANGED vars
      BY DEF vars, walkVars
    <3>4. \A t \in Thread : Page(t) => Claim(t)
      BY DEF Page, Begin, Observe, Recover, Refuse, Serve, ServeBefore, Peek, Swap, Deliver
    <3> QED
      BY <3>1, <3>2, <3>3, <3>4 DEF Next
  <2>2. observed = req[t].previous /\ observed' = Cardinality(req[t].retired)
    BY <2>1 DEF Claim, ClaimsCleanup
  <2>3. Cardinality(req[t].retired) > req[t].previous
    BY <2>1 DEF IInv, CallsInv, CallOK, Claim
  <2> QED
    BY <2>2, <2>3
<1> QED
  BY <1>1, InitIInv, NextIInv, PTL DEF Spec, CleanupsAdvance

\* However many walks leave their checkpoints, in whatever order, and whatever
\* the store forgets in between: an entry gives way only to one that got
\* further (put-latest-checkpoint!).
THEOREM CheckpointsKeepProgress == Spec => CheckpointsOnlyAdvance
<1> DEFINE Advanced ==
      \A k \in DOMAIN store \cap DOMAIN store' :
        store'[k] # store[k] =>
          \/ store'[k].ordinal > store[k].ordinal
          \/ store'[k].ordinal = store[k].ordinal /\ store'[k].position > store[k].position
<1>1. IInv /\ [Next]_vars => [Advanced]_store
  <2> SUFFICES ASSUME IInv, [Next]_vars, store' # store PROVE Advanced
    OBVIOUS
  <2>1. CASE \E k \in DOMAIN store : Evict(k)
    BY <2>1 DEF Evict, Without
  <2>2. ASSUME NEW t \in Thread, Claim(t) PROVE Advanced
    BY <2>2 DEF Claim
  <2>3. ASSUME NEW t \in Thread, Swap(t) PROVE Advanced
    <3>1. /\ Resident(Minted(t)) = req[t].seen
          /\ Stored(Minted(t), Checkpoint(t))
      BY <2>3 DEF Swap
    <3>2. PICK held \in SUBSET (DOMAIN store \ {Minted(t)}) :
            store' = [ j \in held \cup {Minted(t)} |->
                         IF j = Minted(t) THEN Checkpoint(t) ELSE store[j] ]
      BY <3>1 DEF Stored
    <3>3. \A resident \in req[t].seen : ProgressNewer(Checkpoint(t), resident)
      BY <2>3 DEF IInv, CallsInv, Outruns, Swap
    <3>4. ASSUME NEW k \in DOMAIN store \cap DOMAIN store', store'[k] # store[k]
          PROVE  ProgressNewer(store'[k], store[k])
      <4>1. k = Minted(t) /\ store'[k] = Checkpoint(t)
        BY <3>2, <3>4
      <4>2. store[k] \in Resident(Minted(t))
        BY <4>1 DEF Resident
      <4> QED
        BY <3>1, <3>3, <4>1, <4>2
    <3> QED
      BY <3>4 DEF ProgressNewer
  <2>4. \/ \E k \in DOMAIN store : Evict(k)
        \/ \E t \in Thread : Claim(t) \/ Swap(t)
    <3>1. ~Commit
      BY DEF Commit
    <3>2. \A t \in Thread : ~Rotate(t)
      BY DEF Rotate, walkVars
    <3>3. ~UNCHANGED vars
      BY DEF vars, walkVars
    <3>4. \A t \in Thread : Page(t) => Claim(t) \/ Swap(t)
      BY DEF Page, Begin, Observe, Recover, Refuse, Serve, ServeBefore, Peek, Deliver
    <3> QED
      BY <3>1, <3>2, <3>3, <3>4 DEF Next
  <2> QED
    BY <2>1, <2>2, <2>3, <2>4
<1> QED
  BY <1>1, InitIInv, NextIInv, PTL DEF Spec, CheckpointsOnlyAdvance
-----------------------------------------------------------------------------
(* Counting: a function on 0 .. v that starts at 0 and rises by at most one. *)

\* A set of numbers that is not empty has a least one.
LEMMA Least ==
    ASSUME NEW T \in SUBSET Nat, T # {}
    PROVE  \E x \in T : \A y \in T : x <= y
<1>1. \E x \in T : \A y \in T : ~ (<<y, x>> \in OpToRel(<, Nat))
  BY NatLessThanWellFounded, WFMin, Zenon
<1>2. ASSUME NEW x \in T, NEW y \in T, ~ (<<y, x>> \in OpToRel(<, Nat)) PROVE x <= y
  <2>1. ~ (y < x)
    BY <1>2, Zenon DEF OpToRel
  <2> QED
    BY <2>1
<1> QED
  BY <1>1, <1>2, Zenon

LEMMA MinIsLeast ==
    ASSUME NEW T \in SUBSET Nat, T # {}
    PROVE  Min(T) \in T /\ \A y \in T : Min(T) <= y
BY Least, Zenon DEF Min

Counts(g, v) ==
    /\ v \in Nat
    /\ g \in [0 .. v -> Nat]
    /\ g[0] = 0
    /\ \A p \in 1 .. v : g[p] = g[p - 1] \/ g[p] = g[p - 1] + 1

LEMMA CountsAt == ASSUME NEW g, NEW v, Counts(g, v), NEW p \in 0 .. v PROVE g[p] \in Nat
BY DEF Counts

LEMMA CountsUp ==
    ASSUME NEW g, NEW v, Counts(g, v), NEW p \in 0 .. v, NEW q \in p .. v
    PROVE  g[p] <= g[q]
<1> DEFINE T == {i \in p .. v : ~ (g[p] <= g[i])}
<1> SUFFICES ASSUME T # {} PROVE FALSE
  OBVIOUS
<1>1. T \in SUBSET Nat
  BY DEF Counts
<1>2. PICK i \in T : \A j \in T : i <= j
  BY <1>1, Least
<1>3. i \in p .. v /\ ~ (g[p] <= g[i])
  BY <1>2
<1>4. i # p
  BY <1>3 DEF Counts
<1>5. i - 1 \in p .. v /\ i \in 1 .. v
  BY <1>3, <1>4 DEF Counts
<1>6. i - 1 \notin T
  BY <1>1, <1>2, <1>5
<1>7. g[p] <= g[i - 1]
  BY <1>5, <1>6
<1>8. g[p] \in Nat /\ g[i - 1] \in Nat /\ g[i] \in Nat
  BY <1>3, <1>5 DEF Counts
<1> QED
  <2>1. g[i] = g[i - 1] \/ g[i] = g[i - 1] + 1
    BY <1>5, Zenon DEF Counts
  <2>2. g[p] \in Nat /\ g[i - 1] \in Nat /\ ~ (g[p] <= g[i])
    BY <1>3, <1>8
  <2>3. \A a, b, c \in Nat : a <= b /\ (c = b \/ c = b + 1) => a <= c
    OBVIOUS
  <2> QED
    BY <1>7, <1>8, <2>1, <2>2, <2>3, Zenon

LEMMA CountsAtMost ==
    ASSUME NEW g, NEW v, Counts(g, v), NEW p \in 0 .. v
    PROVE  g[p] \in 0 .. p
<1> DEFINE T == {i \in 0 .. v : ~ (g[i] <= i)}
<1>1. g[p] \in Nat
  BY DEF Counts
<1>2. SUFFICES ASSUME T # {} PROVE FALSE
  BY <1>1
<1>3. T \in SUBSET Nat
  BY DEF Counts
<1>4. PICK i \in T : \A j \in T : i <= j
  BY <1>2, <1>3, Least
<1>5. i \in 0 .. v /\ ~ (g[i] <= i)
  BY <1>4
<1>6. i # 0
  BY <1>5 DEF Counts
<1>7. i - 1 \in 0 .. v /\ i \in 1 .. v
  BY <1>5, <1>6 DEF Counts
<1>8. i - 1 \notin T
  BY <1>3, <1>4, <1>7
<1>9. g[i - 1] <= i - 1
  BY <1>7, <1>8
<1>10. g[i - 1] \in Nat /\ g[i] \in Nat
  BY <1>5, <1>7 DEF Counts
<1> QED
  BY <1>5, <1>7, <1>9, <1>10 DEF Counts

\* What it does not skip, it reaches, and for a first time.
LEMMA CountsThrough ==
    ASSUME NEW g, NEW v, Counts(g, v), NEW p \in 0 .. v, NEW n \in Nat, g[p] <= n, n <= g[v]
    PROVE  \E q \in p .. v : g[q] = n /\ \A i \in p .. q - 1 : g[i] < n
<1> DEFINE T == {i \in p .. v : n <= g[i]}
<1>1. T \in SUBSET Nat
  BY DEF Counts
<1>2. v \in T
  BY DEF Counts
<1>3. PICK q \in T : \A j \in T : q <= j
  BY <1>1, <1>2, Least
<1>4. q \in p .. v /\ n <= g[q]
  BY <1>3
<1>5. \A i \in p .. q - 1 : g[i] < n
  <2> SUFFICES ASSUME NEW i \in p .. q - 1 PROVE g[i] < n
    OBVIOUS
  <2>1. i \in p .. v /\ i \in 0 .. v
    BY <1>4 DEF Counts
  <2>2. i \notin T
    BY <1>1, <1>3, <1>4
  <2>3. g[i] \in Nat
    BY <2>1 DEF Counts
  <2> QED
    BY <2>1, <2>2, <2>3
<1>6. g[q] = n
  <2>1. CASE q = p
    BY <1>4, <2>1 DEF Counts
  <2>2. CASE q # p
    <3>1. q - 1 \in p .. q - 1 /\ q - 1 \in 0 .. v /\ q \in 1 .. v
      BY <1>4, <2>2 DEF Counts
    <3>2. g[q - 1] < n
      BY <1>5, <3>1
    <3>3. g[q - 1] \in Nat /\ g[q] \in Nat
      BY <3>1 DEF Counts
    <3>4. g[q] = g[q - 1] \/ g[q] = g[q - 1] + 1
      BY <3>1, Zenon DEF Counts
    <3>5. \A a, b \in Nat : n <= a /\ b < n /\ (a = b \/ a = b + 1) => a = n
      OBVIOUS
    <3> QED
      BY <1>4, <3>2, <3>3, <3>4, <3>5, Zenon
  <2> QED
    BY <2>1, <2>2
<1> QED
  BY <1>4, <1>5, <1>6

-----------------------------------------------------------------------------
(* The traversal of one frame at one time.                                 *)

Sequences == Seq(DOMAIN Deadline)

Alive(f, time, i) == time < Deadline[Candidates[f][i]]

LEMMA Traversed ==
    ASSUME NEW f \in Frame
    PROVE  /\ Candidates[f] \in Sequences /\ Visited(f) \in Nat
           /\ \A i \in 1 .. Visited(f) : /\ Candidates[f][i] \in DOMAIN Deadline
                                         /\ Deadline[Candidates[f][i]] \in 1 .. Never
BY WalksAssumption DEF Visited, Sequences

LEMMA FoundIs ==
    ASSUME NEW f \in Frame, NEW time \in Time
    PROVE  /\ Found[f][time] = [p \in 0 .. Visited(f) |-> Found[f][time][p]]
           /\ \A p \in 0 .. Visited(f) :
                Found[f][time][p] = Cardinality({i \in 1 .. p : Alive(f, time, i)})
BY DEF Found, Alive

LEMMA FoundCounts ==
    ASSUME NEW f \in Frame, NEW time \in Time
    PROVE  /\ Counts(Found[f][time], Visited(f))
           /\ \A p \in 1 .. Visited(f) :
                Found[f][time][p] = Found[f][time][p - 1] + (IF Alive(f, time, p) THEN 1 ELSE 0)
<1> DEFINE S(p) == {i \in 1 .. p : Alive(f, time, i)}
           g == Found[f][time]
<1>0. Visited(f) \in Nat
  BY Traversed
<1>1. \A p \in 0 .. Visited(f) : g[p] = Cardinality(S(p))
  BY FoundIs
<1>2. ASSUME NEW p \in Nat PROVE IsFiniteSet(S(p))
  <2>1. IsFiniteSet(1 .. p)
    BY FS_Interval
  <2>2. S(p) \subseteq 1 .. p
    OBVIOUS
  <2> HIDE DEF S
  <2> QED
    BY <2>1, <2>2, FS_Subset
<1>3. \A p \in 0 .. Visited(f) : g[p] \in Nat
  <2> SUFFICES ASSUME NEW p \in 0 .. Visited(f) PROVE g[p] \in Nat
    OBVIOUS
  <2> HIDE DEF S
  <2> QED
    BY <1>0, <1>1, <1>2, FS_CardinalityType
<1>4. g[0] = 0
  <2>1. S(0) = {}
    OBVIOUS
  <2> QED
    BY <1>0, <1>1, <2>1, FS_EmptySet
<1>5. ASSUME NEW p \in 1 .. Visited(f)
      PROVE  g[p] = g[p - 1] + (IF Alive(f, time, p) THEN 1 ELSE 0)
  <2>1. p - 1 \in 0 .. Visited(f) /\ p \in 0 .. Visited(f) /\ p - 1 \in Nat
    BY <1>0
  <2>2. CASE Alive(f, time, p)
    <3>1. S(p) = S(p - 1) \cup {p} /\ p \notin S(p - 1)
      BY <2>1, <2>2
    <3> HIDE DEF S
    <3>2. Cardinality(S(p)) = Cardinality(S(p - 1)) + 1
      BY <1>2, <2>1, <3>1, FS_AddElement
    <3> QED
      BY <1>1, <2>1, <2>2, <3>2
  <2>3. CASE ~ Alive(f, time, p)
    <3>1. S(p) = S(p - 1)
      BY <2>1, <2>3
    <3> HIDE DEF S
    <3> QED
      BY <1>1, <1>3, <2>1, <2>3, <3>1
  <2> QED
    BY <2>2, <2>3
<1>6. g \in [0 .. Visited(f) -> Nat]
  BY <1>3, FoundIs
<1>7. Counts(g, Visited(f))
  <2>1. ASSUME NEW p \in 1 .. Visited(f) PROVE g[p] = g[p - 1] \/ g[p] = g[p - 1] + 1
    <3>1. g[p - 1] \in Nat
      BY <1>0, <1>3
    <3> HIDE DEF g
    <3> QED
      BY <1>5, <3>1
  <2> QED
    BY <1>0, <1>4, <1>6, <2>1 DEF Counts
<1> QED
  BY <1>5, <1>7

\* A run of the reducer ends on the result asked for, or on the last one there is.
LEMMA RunEnds ==
    ASSUME NEW f \in Frame, NEW time \in Time, NEW from \in 0 .. Visited(f), NEW n \in Nat
    PROVE  /\ RunEnd(f, time, from, n) \in from .. Visited(f)
           /\ Found[f][time][RunEnd(f, time, from, n)] =
                Meet(Found[f][time][from] + n, Found[f][time][Visited(f)])
<1> DEFINE g == Found[f][time]
           v == Visited(f)
           to == RunEnd(f, time, from, n)
           Reached(p) == g[p] = g[from] + n
<1>1. Counts(g, v) /\ v \in Nat /\ from \in 0 .. v
  BY FoundCounts, Traversed
<1>2. g[from] \in Nat /\ g[v] \in Nat /\ g[from] <= g[v] /\ v \in from .. v
  <2>1. v \in from .. v /\ v \in 0 .. v
    BY <1>1
  <2> HIDE DEF g, v
  <2>2. g[from] <= g[v]
    BY <1>1, <2>1, CountsUp, Zenon
  <2>3. g[from] \in Nat /\ g[v] \in Nat
    BY <1>1, <2>1, CountsAt, Zenon
  <2> QED
    BY <2>1, <2>2, <2>3
<1>3. CASE \E p \in from .. v : Reached(p)
  <2>1. PICK p \in from .. v : Reached(p)
    BY <1>3
  <2>2. g[p] <= g[v]
    <3>1. p \in 0 .. v /\ v \in p .. v
      BY <1>1
    <3> HIDE DEF g, v
    <3> QED
      BY <1>1, <3>1, CountsUp
  <2>3. g[from] + n <= g[v] /\ g[from] <= g[from] + n /\ g[from] + n \in Nat
    BY <1>2, <2>1, <2>2
  <2>4. \E q \in from .. v : Reached(q) /\ \A i \in from .. q - 1 : ~ Reached(i)
    <3>1. \E q \in from .. v : g[q] = g[from] + n /\ \A i \in from .. q - 1 : g[i] < g[from] + n
      <4> HIDE DEF g, v
      <4> QED
        BY <1>1, <2>3, CountsThrough
    <3>2. \A i : g[i] < g[from] + n => ~ Reached(i)
      BY <2>3
    <3> HIDE DEF g, v
    <3> QED
      BY <3>1, <3>2
  <2>5. to = CHOOSE q \in from .. v : Reached(q) /\ \A i \in from .. q - 1 : ~ Reached(i)
    BY <1>3, Zenon DEF RunEnd
  <2>6. to \in from .. v /\ Reached(to)
    <3> HIDE DEF g, v, to, Reached
    <3> QED
      BY <2>4, <2>5, Zenon
  <2> HIDE DEF to, v
  <2>7. g[to] = Meet(g[from] + n, g[v])
    BY <1>2, <2>3, <2>6 DEF Meet
  <2> QED
    BY <2>6, <2>7 DEF to, v
<1>4. CASE ~ \E p \in from .. v : Reached(p)
  <2>1. to = v
    BY <1>4, Zenon DEF RunEnd
  <2>2. ~ (g[from] + n <= g[v])
    <3> SUFFICES ASSUME g[from] + n <= g[v] PROVE FALSE
      OBVIOUS
    <3>1. g[from] <= g[from] + n /\ g[from] + n \in Nat
      BY <1>2
    <3>2. \E q \in from .. v :
            g[q] = g[from] + n /\ \A i \in from .. q - 1 : g[i] < g[from] + n
      <4> HIDE DEF g, v
      <4> QED
        BY <1>1, <3>1, CountsThrough
    <3> QED
      BY <1>4, <3>2
  <2>3. Meet(g[from] + n, g[v]) = g[v]
    BY <1>2, <2>2 DEF Meet
  <2> QED
    BY <1>2, <2>1, <2>3
<1> QED
  BY <1>3, <1>4

\* The nth result is the candidate that makes the count n.
LEMMA ResultsAre ==
    ASSUME NEW f \in Frame, NEW time \in Time
    PROVE  /\ Answer[f][time] \in Sequences
           /\ Len(Answer[f][time]) = Found[f][time][Visited(f)]
           /\ \A n \in 1 .. Found[f][time][Visited(f)] : \E p \in 1 .. Visited(f) :
                /\ Alive(f, time, p) /\ Found[f][time][p] = n
                /\ Answer[f][time][n] = Candidates[f][p]
           /\ \A p \in 1 .. Visited(f) :
                Alive(f, time, p) => /\ Found[f][time][p] \in 1 .. Found[f][time][Visited(f)]
                                     /\ Answer[f][time][Found[f][time][p]] = Candidates[f][p]
<1> DEFINE g == Found[f][time]
           v == Visited(f)
           A == Answer[f][time]
           T(n) == {p \in 0 .. v : g[p] = n}
<1>1. Counts(g, v) /\ v \in Nat /\ g[v] \in Nat
  BY FoundCounts, Traversed DEF Counts
<1>2. \A p \in 1 .. v : g[p] = g[p - 1] + (IF Alive(f, time, p) THEN 1 ELSE 0)
  BY FoundCounts
<1>3. A = [n \in 1 .. g[v] |-> Candidates[f][Min(T(n))]]
  BY DEF Answer
<1>4. \A p \in 0 .. v : g[p] \in Nat
  BY <1>1 DEF Counts
<1>5. ASSUME NEW n \in 1 .. g[v]
      PROVE  /\ Min(T(n)) \in 1 .. v /\ g[Min(T(n))] = n /\ Alive(f, time, Min(T(n)))
             /\ \A p \in 0 .. v : g[p] = n => Min(T(n)) <= p
  <2>1. T(n) \in SUBSET Nat
    BY <1>1
  <2>2. T(n) # {}
    <3>1. 0 \in 0 .. v /\ n \in Nat /\ n <= g[v]
      BY <1>1
    <3>2. g[0] <= n
      BY <1>1, <3>1 DEF Counts
    <3>3. \E q \in 0 .. v : g[q] = n
      <4> HIDE DEF g, v
      <4> QED
        BY <1>1, <3>1, <3>2, CountsThrough
    <3> QED
      BY <3>3
  <2>3. PICK m : m = Min(T(n))
    OBVIOUS
  <2>4. m \in T(n) /\ \A p \in T(n) : m <= p
    <3> HIDE DEF T
    <3> QED
      BY <2>1, <2>2, <2>3, MinIsLeast
  <2>5. m # 0
    BY <1>1, <2>4 DEF Counts
  <2>6. m \in 1 .. v /\ m - 1 \in 0 .. v /\ m - 1 < m
    BY <1>1, <2>4, <2>5
  <2>7. g[m - 1] # n
    <3>1. m - 1 \notin T(n)
      BY <2>4, <2>6
    <3> QED
      BY <2>6, <3>1
  <2>8. Alive(f, time, m)
    <3>1. g[m] = g[m - 1] + (IF Alive(f, time, m) THEN 1 ELSE 0)
      BY <1>2, <2>6, Zenon
    <3>2. g[m - 1] \in Nat /\ g[m] = n
      BY <1>4, <2>4, <2>6
    <3> HIDE DEF g
    <3> QED
      BY <2>7, <3>1, <3>2
  <2> QED
    BY <2>3, <2>4, <2>6, <2>8
<1>6. A \in Sequences /\ Len(A) = g[v]
  <2>1. \A n \in 1 .. g[v] : Candidates[f][Min(T(n))] \in DOMAIN Deadline
    <3> HIDE DEF g, T
    <3> QED
      BY <1>5, Traversed DEF v
  <2> HIDE DEF A, T, g
  <2> QED
    BY <1>1, <1>3, <2>1 DEF Sequences
<1>7. \A n \in 1 .. g[v] : A[n] = Candidates[f][Min(T(n))]
  <2> HIDE DEF A, T, g
  <2> QED
    BY <1>3
<1>8. ASSUME NEW p \in 1 .. v, Alive(f, time, p)
      PROVE  g[p] \in 1 .. g[v] /\ A[g[p]] = Candidates[f][p]
  <2>1. p - 1 \in 0 .. v /\ p \in 0 .. v /\ v \in p .. v
    BY <1>1
  <2>2. g[p] = g[p - 1] + 1 /\ g[p - 1] \in Nat /\ g[p] \in Nat
    <3>1. g[p] = g[p - 1] + (IF Alive(f, time, p) THEN 1 ELSE 0)
      BY <1>2, Zenon
    <3> QED
      BY <1>4, <1>8, <2>1, <3>1
  <2>3. g[p] <= g[v]
    <3> HIDE DEF g, v
    <3> QED
      BY <1>1, <2>1, CountsUp
  <2>4. g[p] \in 1 .. g[v]
    <3> HIDE DEF g
    <3> QED
      BY <1>1, <2>2, <2>3
  <2>5. PICK m : m = Min(T(g[p]))
    OBVIOUS
  <2>6. m \in 1 .. v /\ g[m] = g[p] /\ m <= p
    <3> HIDE DEF g, T, v
    <3> QED
      BY <1>5, <2>1, <2>4, <2>5
  <2>7. m = p
    <3> SUFFICES ASSUME m # p PROVE FALSE
      OBVIOUS
    <3>1. m \in 0 .. v /\ p - 1 \in m .. v
      BY <1>1, <2>6
    <3>2. g[m] <= g[p - 1]
      <4> HIDE DEF g, v
      <4> QED
        BY <1>1, <3>1, CountsUp
    <3> HIDE DEF g
    <3> QED
      BY <2>2, <2>6, <3>2
  <2> QED
    <3> HIDE DEF g, A, T
    <3> QED
      BY <1>7, <2>4, <2>5, <2>7
<1> HIDE DEF g, A, T
<1>9. \A n \in 1 .. g[v] : \E p \in 1 .. v :
        Alive(f, time, p) /\ g[p] = n /\ A[n] = Candidates[f][p]
  BY <1>5, <1>7
<1> QED
  BY <1>6, <1>8, <1>9 DEF g, A

\* The deadlines the first p candidates have after start are not before until.
Stable(f, start, until, p) ==
    \A i \in 1 .. p :
      start < Deadline[Candidates[f][i]] => until <= Deadline[Candidates[f][i]]

\* Until then they hold the same results.
LEMMA Agreement ==
    ASSUME NEW f \in Frame, NEW start \in Time, NEW time \in Time, NEW until \in 1 .. Never,
           NEW p \in 0 .. Visited(f), Stable(f, start, until, p), start <= time, time < until
    PROVE  /\ \A q \in 0 .. p : Found[f][time][q] = Found[f][start][q]
           /\ \A n \in 1 .. Found[f][start][p] :
                /\ n \in 1 .. Found[f][time][Visited(f)] /\ n \in 1 .. Found[f][start][Visited(f)]
                /\ Answer[f][time][n] = Answer[f][start][n]
<1> DEFINE g == Found[f][start]
           h == Found[f][time]
           v == Visited(f)
<1>1. Counts(g, v) /\ Counts(h, v) /\ v \in Nat /\ p \in 0 .. v
  BY FoundCounts, Traversed
<1>2. \A i \in 1 .. p : Alive(f, time, i) <=> Alive(f, start, i)
  <2> SUFFICES ASSUME NEW i \in 1 .. p PROVE Alive(f, time, i) <=> Alive(f, start, i)
    OBVIOUS
  <2>1. Deadline[Candidates[f][i]] \in 1 .. Never
    BY <1>1, Traversed
  <2>2. start \in Nat /\ time \in Nat /\ until \in Nat
    BY WalksAssumption DEF Time
  <2>3. start < Deadline[Candidates[f][i]] => until <= Deadline[Candidates[f][i]]
    BY DEF Stable
  <2> QED
    BY <2>1, <2>2, <2>3 DEF Alive
<1>3. ASSUME NEW q \in 0 .. p PROVE h[q] = g[q]
  <2>1. q \in 0 .. v
    BY <1>1
  <2>2. {i \in 1 .. q : Alive(f, time, i)} = {i \in 1 .. q : Alive(f, start, i)}
    BY <1>2
  <2>3. /\ h[q] = Cardinality({i \in 1 .. q : Alive(f, time, i)})
        /\ g[q] = Cardinality({i \in 1 .. q : Alive(f, start, i)})
    BY <2>1, FoundIs
  <2> QED
    BY <2>2, <2>3
<1>4. g[p] \in Nat /\ h[p] = g[p] /\ g[p] <= g[v] /\ h[p] <= h[v] /\ g[v] \in Nat /\ h[v] \in Nat
  <2>1. p \in 0 .. p /\ v \in p .. v /\ v \in 0 .. v
    BY <1>1
  <2>2. h[p] = g[p]
    BY <1>3, <2>1
  <2> HIDE DEF g, h, v
  <2>3. g[p] <= g[v] /\ h[p] <= h[v]
    BY <1>1, <2>1, CountsUp, Zenon
  <2>4. g[p] \in Nat /\ g[v] \in Nat /\ h[v] \in Nat
    BY <1>1, <2>1, CountsAt, Zenon
  <2> QED
    BY <2>2, <2>3, <2>4, Zenon
<1>5. ASSUME NEW n \in 1 .. g[p]
      PROVE  n \in 1 .. h[v] /\ n \in 1 .. g[v] /\ Answer[f][time][n] = Answer[f][start][n]
  <2>1. n \in 1 .. g[v] /\ n \in 1 .. h[v]
    <3> HIDE DEF g, h
    <3> QED
      BY <1>4
  <2>2. PICK i \in 1 .. v :
          Alive(f, start, i) /\ g[i] = n /\ Answer[f][start][n] = Candidates[f][i]
    BY <2>1, ResultsAre
  <2>3. i <= p
    <3> SUFFICES ASSUME ~ (i <= p) PROVE FALSE
      OBVIOUS
    <3>1. i - 1 \in p .. v /\ i - 1 \in 0 .. v
      BY <1>1
    <3>2. g[i] = g[i - 1] + 1
      BY <2>2, FoundCounts
    <3>3. g[p] <= g[i - 1] /\ g[i - 1] \in Nat
      <4> HIDE DEF g, v
      <4> QED
        BY <1>1, <3>1, CountsUp, CountsAt, Zenon
    <3> HIDE DEF g
    <3> QED
      BY <1>4, <2>2, <3>2, <3>3
  <2>4. i \in 1 .. p /\ i \in 0 .. p
    BY <2>3
  <2>5. Alive(f, time, i) /\ h[i] = n
    BY <1>2, <1>3, <2>2, <2>4
  <2>6. Answer[f][time][n] = Candidates[f][i]
    BY <2>5, ResultsAre
  <2> QED
    BY <2>1, <2>2, <2>6
<1> QED
  BY <1>3, <1>5

\* What a run meets is good until then.
LEMMA RunIsGoodUntil ==
    ASSUME NEW f \in Frame, NEW time \in Time, NEW from \in 0 .. Visited(f),
           NEW to \in from .. Visited(f)
    PROVE  /\ RunUntil(f, time, from, to) \in 1 .. Never
           /\ time < RunUntil(f, time, from, to)
           /\ \A i \in from + 1 .. to : Alive(f, time, i) =>
                RunUntil(f, time, from, to) <= Deadline[Candidates[f][i]]
<1> DEFINE T == ({Never} \cup {Deadline[Candidates[f][i]] : i \in from + 1 .. to}) \ (0 .. time)
<1>1. Visited(f) \in Nat /\ time \in Nat /\ time < Never /\ Never \in Nat
  BY WalksAssumption, Traversed DEF Time
<1>2. \A i \in from + 1 .. to : Deadline[Candidates[f][i]] \in 1 .. Never
  BY <1>1, Traversed
<1>3. T \in SUBSET (1 .. Never) /\ T \in SUBSET Nat
  BY <1>1, <1>2
<1>4. Never \in T
  BY <1>1
<1>5. PICK m : m = Min(T)
  OBVIOUS
<1>6. m \in T /\ \A y \in T : m <= y
  <2> HIDE DEF T
  <2> QED
    BY <1>3, <1>4, <1>5, MinIsLeast
<1>7. RunUntil(f, time, from, to) = m
  BY <1>5 DEF RunUntil
<1>8. \A i \in from + 1 .. to : Alive(f, time, i) => Deadline[Candidates[f][i]] \in T
  BY <1>1, <1>2 DEF Alive
<1>9. time < m /\ m \in 1 .. Never
  BY <1>1, <1>3, <1>6
<1> HIDE DEF T
<1> QED
  BY <1>6, <1>7, <1>8, <1>9

-----------------------------------------------------------------------------
(* Pieces of an answer.                                                    *)

\* The results after the first a, up to the bth.
Part(answer, a, b) == SubSeq(answer, a + 1, b)

LEMMA PartIs ==
    ASSUME NEW A \in Sequences, NEW a \in Nat, NEW b \in a .. Len(A)
    PROVE  /\ Part(A, a, b) \in Sequences
           /\ Len(Part(A, a, b)) = b - a
           /\ \A i \in 1 .. b - a : Part(A, a, b)[i] = A[a + i]
<1>1. \A i \in a + 1 .. b : A[i] \in DOMAIN Deadline
  BY DEF Sequences
<1>2. a + 1 \in Int /\ b \in Int
  OBVIOUS
<1>3. /\ SubSeq(A, a + 1, b) \in Sequences
      /\ Len(SubSeq(A, a + 1, b)) = IF a + 1 <= b THEN b - (a + 1) + 1 ELSE 0
      /\ \A i \in 1 .. b - (a + 1) + 1 : SubSeq(A, a + 1, b)[i] = A[a + 1 + i - 1]
  BY <1>1, <1>2, SubSeqProperties DEF Sequences
<1>4. b - (a + 1) + 1 = b - a
  OBVIOUS
<1>5. \A i \in 1 .. b - a : a + 1 + i - 1 = a + i
  OBVIOUS
<1> QED
  BY <1>3, <1>4, <1>5 DEF Part

LEMMA FirstPart == ASSUME NEW A, NEW n PROVE Part(A, 0, n) = SubSeq(A, 1, n)
<1>1. 0 + 1 = 1
  OBVIOUS
<1> QED
  BY <1>1, Zenon DEF Part

LEMMA SamePart ==
    ASSUME NEW s \in Sequences, NEW t \in Sequences, Len(s) = Len(t),
           \A i \in 1 .. Len(s) : s[i] = t[i]
    PROVE  s = t
BY SeqEqual DEF Sequences

LEMMA PartOfPart ==
    ASSUME NEW A \in Sequences, NEW a \in Nat, NEW b \in a .. Len(A),
           NEW c \in 0 .. b - a, NEW d \in c .. b - a
    PROVE  Part(Part(A, a, b), c, d) = Part(A, a + c, a + d)
<1> DEFINE B == Part(A, a, b)
           P == Part(B, c, d)
           Q == Part(A, a + c, a + d)
<1>1. B \in Sequences /\ Len(B) = b - a /\ \A i \in 1 .. b - a : B[i] = A[a + i]
  BY PartIs
<1>2. c \in Nat /\ d \in c .. Len(B) /\ a + c \in Nat /\ a + d \in a + c .. Len(A) /\ d - c \in Nat
  BY <1>1
<1> HIDE DEF B
<1>3. P \in Sequences /\ Len(P) = d - c /\ \A i \in 1 .. d - c : P[i] = B[c + i]
  BY <1>1, <1>2, PartIs
<1>4. Q \in Sequences /\ Len(Q) = d - c /\ \A i \in 1 .. d - c : Q[i] = A[a + c + i]
  <2>1. (a + d) - (a + c) = d - c
    OBVIOUS
  <2>2. /\ Q \in Sequences /\ Len(Q) = (a + d) - (a + c)
        /\ \A i \in 1 .. (a + d) - (a + c) : Q[i] = A[a + c + i]
    BY <1>2, PartIs
  <2> HIDE DEF Q
  <2> QED
    BY <2>1, <2>2
<1>5. \A i \in 1 .. d - c : c + i \in 1 .. b - a /\ a + (c + i) = a + c + i
  OBVIOUS
<1> HIDE DEF P, Q
<1>6. \A i \in 1 .. d - c : P[i] = Q[i]
  BY <1>1, <1>3, <1>4, <1>5
<1>7. P = Q
  BY <1>3, <1>4, <1>6, SamePart
<1> QED
  BY <1>7 DEF P, Q, B

LEMMA PartsJoin ==
    ASSUME NEW A \in Sequences, NEW a \in Nat, NEW b \in a .. Len(A), NEW c \in b .. Len(A)
    PROVE  Part(A, a, b) \o Part(A, b, c) = Part(A, a, c)
<1> DEFINE P == Part(A, a, b)
           Q == Part(A, b, c)
           R == Part(A, a, c)
           S == P \o Q
<1>1. P \in Sequences /\ Len(P) = b - a /\ \A i \in 1 .. b - a : P[i] = A[a + i]
  BY PartIs
<1>0. b \in Nat /\ c \in a .. Len(A)
  OBVIOUS
<1>2. Q \in Sequences /\ Len(Q) = c - b /\ \A i \in 1 .. c - b : Q[i] = A[b + i]
  BY <1>0, PartIs
<1>3. R \in Sequences /\ Len(R) = c - a /\ \A i \in 1 .. c - a : R[i] = A[a + i]
  BY <1>0, PartIs
<1> HIDE DEF P, Q, R
<1>4. /\ S \in Sequences /\ Len(S) = c - a
      /\ \A i \in 1 .. c - a : S[i] = IF i <= b - a THEN P[i] ELSE Q[i - (b - a)]
  <2>1. /\ S \in Sequences /\ Len(S) = Len(P) + Len(Q)
        /\ \A i \in 1 .. Len(P) + Len(Q) : S[i] = IF i <= Len(P) THEN P[i] ELSE Q[i - Len(P)]
    BY <1>1, <1>2, ConcatProperties DEF Sequences
  <2>2. Len(P) + Len(Q) = c - a /\ Len(P) = b - a
    BY <1>1, <1>2
  <2> HIDE DEF S
  <2> QED
    BY <2>1, <2>2, Zenon
<1> HIDE DEF S
<1>5. \A i \in 1 .. c - a : S[i] = R[i]
  <2> SUFFICES ASSUME NEW i \in 1 .. c - a PROVE S[i] = R[i]
    OBVIOUS
  <2>1. CASE i <= b - a
    BY <1>1, <1>3, <1>4, <2>1
  <2>2. CASE ~ (i <= b - a)
    <3>1. i - (b - a) \in 1 .. c - b /\ b + (i - (b - a)) = a + i
      BY <2>2
    <3>2. Q[i - (b - a)] = A[a + i]
      BY <1>2, <3>1
    <3> QED
      BY <1>3, <1>4, <2>2, <3>2
  <2> QED
    BY <2>1, <2>2
<1>6. S = R
  <2> QED
    BY <1>3, <1>4, <1>5, SamePart
<1> QED
  BY <1>6 DEF S, P, Q, R

\* Answers that agree have the same pieces.
LEMMA PartsAgree ==
    ASSUME NEW A \in Sequences, NEW B \in Sequences, NEW a \in Nat, NEW b \in a .. Len(A),
           b <= Len(B), \A n \in 1 .. b : A[n] = B[n]
    PROVE  Part(A, a, b) = Part(B, a, b)
<1> DEFINE P == Part(A, a, b)
           Q == Part(B, a, b)
<1>1. P \in Sequences /\ Len(P) = b - a /\ \A i \in 1 .. b - a : P[i] = A[a + i]
  BY PartIs
<1>2. b \in a .. Len(B)
  BY DEF Sequences
<1>3. Q \in Sequences /\ Len(Q) = b - a /\ \A i \in 1 .. b - a : Q[i] = B[a + i]
  BY <1>2, PartIs
<1> HIDE DEF P, Q
<1>4. \A i \in 1 .. b - a : a + i \in 1 .. b
  OBVIOUS
<1>5. \A i \in 1 .. b - a : P[i] = Q[i]
  BY <1>1, <1>3, <1>4
<1>6. P = Q
  BY <1>1, <1>3, <1>5, SamePart
<1> QED
  BY <1>6 DEF P, Q

\* A run finds the piece between where it starts and where it ends.
LEMMA RunFinds ==
    ASSUME NEW f, NEW time, NEW from, NEW to
    PROVE  RunResults(f, time, from, to) =
             Part(Answer[f][time], Found[f][time][from], Found[f][time][to])
BY DEF RunResults, Part

-----------------------------------------------------------------------------
(* From a boundary to the next page.                                       *)

\* Where a walk of frame f at some time stands after ord results, how it knows.
Stands(f, time, ord, position, pending, until) ==
    /\ position \in 0 .. Visited(f)
    /\ Len(pending) \in 0 .. 1
    /\ Found[f][time][position] = ord + Len(pending)
    /\ pending = Part(Answer[f][time], ord, ord + Len(pending))
    /\ until \in 1 .. Never /\ time < until
    /\ Stable(f, time, until, position)

\* A run from there up to one result beyond the next page ends at to.
Resumed(f, time, ord, position, pending, until, size, to, found) ==
    /\ f \in Frame /\ time \in Time /\ ord \in Nat /\ size \in Nat \ {0}
    /\ Stands(f, time, ord, position, pending, until)
    /\ to = RunEnd(f, time, position, size + 1 - Len(pending))
    /\ found = pending \o RunResults(f, time, position, to)

\* What is evaluated in a run goes on where the walk stands.
LEMMA RunGoesOn ==
    ASSUME NEW f, NEW time, NEW ord, NEW position, NEW pending, NEW until, NEW size, NEW to,
           NEW found, Resumed(f, time, ord, position, pending, until, size, to, found)
    PROVE  /\ to \in position .. Visited(f)
           /\ Found[f][time][to] = Meet(ord + size + 1, Len(Answer[f][time]))
           /\ ord <= Found[f][time][to] /\ ord <= Len(Answer[f][time])
           /\ Found[f][time][to] <= Len(Answer[f][time])
           /\ found = Part(Answer[f][time], ord, Found[f][time][to])
           /\ Len(found) = Found[f][time][to] - ord
<1> USE DEF Resumed
<1> DEFINE g == Found[f][time]
           v == Visited(f)
           A == Answer[f][time]
           k == Len(pending)
<1>1. /\ Counts(g, v) /\ v \in Nat /\ A \in Sequences /\ Len(A) = g[v]
      /\ position \in 0 .. v /\ k \in 0 .. 1 /\ g[position] = ord + k
      /\ pending = Part(A, ord, ord + k)
  BY FoundCounts, Traversed, ResultsAre DEF Stands
<1>2. size + 1 - k \in Nat /\ ord + k + (size + 1 - k) = ord + size + 1
  <2>1. k \in 0 .. 1
    BY <1>1
  <2> HIDE DEF k
  <2> QED
    BY <2>1
<1>3. to \in position .. v /\ g[to] = Meet(g[position] + (size + 1 - k), g[v])
  BY <1>1, <1>2, RunEnds
<1>4. g[to] = Meet(ord + size + 1, Len(A))
  <2> HIDE DEF g, v, A, k
  <2> QED
    BY <1>1, <1>2, <1>3
<1>5. to \in 0 .. v /\ v \in to .. v /\ v \in 0 .. v
  BY <1>1, <1>3
<1>6. g[position] <= g[to] /\ g[to] <= g[v] /\ g[to] \in Nat /\ g[v] \in Nat
  <2> HIDE DEF g, v, A, k
  <2>1. g[position] <= g[to] /\ g[to] <= g[v]
    BY <1>1, <1>3, <1>5, CountsUp, Zenon
  <2>2. g[to] \in Nat /\ g[v] \in Nat
    BY <1>1, <1>5, CountsAt, Zenon
  <2> QED
    BY <2>1, <2>2
<1>7. found = pending \o Part(A, ord + k, g[to])
  <2>1. RunResults(f, time, position, to) = Part(A, g[position], g[to])
    BY RunFinds
  <2> QED
    BY <1>1, <2>1
<1>8. ord + k \in ord .. Len(A) /\ g[to] \in ord + k .. Len(A) /\ g[to] \in ord .. Len(A)
  <2> HIDE DEF g, v, A, k
  <2> QED
    BY <1>1, <1>6
<1>9. found = Part(A, ord, g[to])
  <2>1. Part(A, ord, ord + k) \o Part(A, ord + k, g[to]) = Part(A, ord, g[to])
    <3> HIDE DEF g, v, A, k
    <3> QED
      BY <1>1, <1>8, PartsJoin
  <2> HIDE DEF g, v, A, k
  <2> QED
    BY <1>1, <1>7, <2>1
<1>10. Len(found) = g[to] - ord
  <2> HIDE DEF g, v, A, k
  <2>1. Len(Part(A, ord, g[to])) = g[to] - ord
    BY <1>1, <1>8, PartIs, Zenon
  <2> QED
    BY <1>9, <2>1
<1> HIDE DEF g, v, A, k
<1>11. ord <= g[to] /\ ord <= Len(A) /\ g[to] <= Len(A)
  BY <1>1, <1>6, <1>8
<1> QED
  BY <1>3, <1>4, <1>9, <1>10, <1>11 DEF g, v, A

\* What is found goes up to one result beyond the page that is cut from it.
Cut(A, ord, size, last, found, page) ==
    /\ A \in Sequences /\ ord \in Nat /\ ord <= Len(A) /\ size \in Nat \ {0}
    /\ last = Meet(ord + size + 1, Len(A))
    /\ found = Part(A, ord, last)
    /\ page = SubSeq(found, 1, Meet(size, Len(found)))

\* The page is what comes next, and the lookahead what comes after it.
LEMMA PageComesNext ==
    ASSUME NEW A, NEW ord, NEW size, NEW last, NEW found, NEW page,
           Cut(A, ord, size, last, found, page)
    PROVE  /\ page = Part(A, ord, Meet(ord + size, Len(A)))
           /\ Len(page) \in Nat /\ ord + Len(page) = Meet(ord + size, Len(A))
           /\ Len(Lookahead(found, size)) \in 0 .. 1
           /\ last = ord + Len(page) + Len(Lookahead(found, size))
           /\ Lookahead(found, size) =
                Part(A, ord + Len(page), ord + Len(page) + Len(Lookahead(found, size)))
<1> USE DEF Cut
<1>1. Len(A) \in Nat
  BY DEF Sequences
<1>2. last \in ord .. Len(A) /\ last <= ord + size + 1
  BY <1>1 DEF Meet
<1>3. Len(found) = last - ord /\ found \in Sequences
  BY <1>2, PartIs
<1> DEFINE m == Meet(size, Len(found))
<1>4. m \in 0 .. last - ord /\ ord + m = Meet(ord + size, Len(A)) /\ m \in Nat
  BY <1>1, <1>2, <1>3 DEF Meet
<1> HIDE DEF m
<1>5. page = Part(found, 0, m)
  BY DEF Part, m
<1>6. page = Part(A, ord, ord + m)
  <2>1. 0 \in 0 .. last - ord /\ m \in 0 .. last - ord
    BY <1>2, <1>4
  <2>2. Part(Part(A, ord, last), 0, m) = Part(A, ord + 0, ord + m)
    BY <1>2, <2>1, PartOfPart
  <2>3. ord + 0 = ord
    OBVIOUS
  <2> QED
    BY <1>5, <2>2, <2>3
<1>7. Len(page) = m
  <2>1. ord + m \in ord .. Len(A)
    BY <1>2, <1>4
  <2>2. Len(Part(A, ord, ord + m)) = (ord + m) - ord
    BY <2>1, PartIs
  <2>3. (ord + m) - ord = m
    BY <1>4
  <2> QED
    BY <1>6, <2>2, <2>3
<1> DEFINE more == Lookahead(found, size)
           After == /\ Len(more) \in 0 .. 1 /\ last = ord + m + Len(more)
                    /\ more = Part(A, ord + m, ord + m + Len(more))
<1>8. ASSUME last - ord <= size PROVE After
  <2>1. Lookahead(found, size) = <<>>
    <3>1. Len(found) \in Int /\ size + 1 \in Int /\ Len(found) < size + 1
      BY <1>2, <1>3, <1>8
    <3> QED
      BY <3>1, SubSeqEmpty DEF Lookahead
  <2>2. last = ord + m
    BY <1>2, <1>3, <1>8 DEF m, Meet
  <2>3. Part(A, last, last) = <<>>
    <3>1. last < last + 1 /\ last \in Int
      BY <1>2
    <3> QED
      BY <3>1, SubSeqEmpty DEF Part
  <2>4. Len(<<>>) = 0 /\ last + 0 = last
    BY <1>2
  <2>5. Len(more) = 0
    BY <2>1
  <2> HIDE DEF more
  <2>6. last = ord + m + Len(more) /\ ord + m + Len(more) = last
    BY <1>2, <2>2, <2>5
  <2> QED
    BY <2>1, <2>2, <2>3, <2>5, <2>6 DEF more
<1>9. ASSUME ~ (last - ord <= size) PROVE After
  <2>1. last - ord = size + 1 /\ m = size
    BY <1>2, <1>3, <1>9 DEF m, Meet
  <2>2. Lookahead(found, size) = Part(found, size, size + 1)
    BY <1>3, <2>1 DEF Lookahead, Part
  <2>3. Part(found, size, size + 1) = Part(A, ord + size, ord + (size + 1))
    <3>1. size \in 0 .. last - ord /\ size + 1 \in size .. last - ord
      BY <2>1
    <3> QED
      BY <1>2, <3>1, PartOfPart
  <2>4. Len(Part(A, ord + size, ord + (size + 1))) = 1
    <3>1. ord + size \in Nat /\ ord + (size + 1) \in ord + size .. Len(A)
      BY <1>2, <2>1
    <3>2. (ord + (size + 1)) - (ord + size) = 1
      OBVIOUS
    <3> QED
      BY <3>1, <3>2, PartIs
  <2>5. last = ord + m + 1 /\ ord + (size + 1) = ord + m + 1 /\ ord + size = ord + m
    BY <1>2, <2>1
  <2>6. more = Part(A, ord + m, ord + m + 1)
    BY <2>2, <2>3, <2>5
  <2>7. Len(more) = 1
    BY <2>2, <2>3, <2>4
  <2> HIDE DEF more
  <2>8. ord + m + Len(more) = ord + m + 1 /\ Len(more) \in 0 .. 1
    BY <2>7
  <2>9. last = ord + m + Len(more) /\ more = Part(A, ord + m, ord + m + Len(more))
    BY <2>5, <2>6, <2>8, Zenon
  <2> QED
    BY <2>8, <2>9, Zenon
<1>10. After
  BY <1>8, <1>9
<1> HIDE DEF more
<1> QED
  <2>1. /\ page = Part(A, ord, Meet(ord + size, Len(A)))
        /\ Len(page) \in Nat /\ ord + Len(page) = Meet(ord + size, Len(A))
    BY <1>4, <1>6, <1>7
  <2>2. /\ Len(more) \in 0 .. 1
        /\ last = ord + Len(page) + Len(more)
        /\ more = Part(A, ord + Len(page), ord + Len(page) + Len(more))
    BY <1>7, <1>10, Zenon
  <2> QED
    BY <2>1, <2>2 DEF more

-----------------------------------------------------------------------------
(* Where a walk stands, by each of the three ways to know it.              *)

LEMMA StableLater ==
    ASSUME NEW f \in Frame, NEW start \in Time, NEW time \in Time, start <= time,
           NEW until \in 1 .. Never, NEW sooner \in 1 .. Never, sooner <= until,
           NEW p \in 0 .. Visited(f), Stable(f, start, until, p)
    PROVE  Stable(f, time, sooner, p)
<1> SUFFICES ASSUME NEW i \in 1 .. p, time < Deadline[Candidates[f][i]]
             PROVE  sooner <= Deadline[Candidates[f][i]]
  BY DEF Stable
<1>1. Deadline[Candidates[f][i]] \in Nat
  BY Traversed, WalksAssumption
<1>2. start \in Nat /\ time \in Nat /\ until \in Nat /\ sooner \in Nat
  BY WalksAssumption DEF Time
<1>3. start < Deadline[Candidates[f][i]] => until <= Deadline[Candidates[f][i]]
  BY DEF Stable
<1> QED
  BY <1>1, <1>2, <1>3

\* A run that goes on is good as long as both its parts are.
LEMMA StableJoins ==
    ASSUME NEW f \in Frame, NEW time \in Time, NEW until \in 1 .. Never,
           NEW from \in 0 .. Visited(f), NEW to \in from .. Visited(f),
           Stable(f, time, until, from),
           \A i \in from + 1 .. to : Alive(f, time, i) => until <= Deadline[Candidates[f][i]]
    PROVE  Stable(f, time, until, to)
<1> SUFFICES ASSUME NEW i \in 1 .. to, time < Deadline[Candidates[f][i]]
             PROVE  until <= Deadline[Candidates[f][i]]
  BY DEF Stable
<1>1. i \in 1 .. from \/ i \in from + 1 .. to
  OBVIOUS
<1> QED
  BY <1>1 DEF Stable, Alive

LEMMA EmptyPart == ASSUME NEW A, NEW a \in Nat PROVE Part(A, a, a) = <<>>
<1>1. a + 1 \in Int /\ a \in Int /\ a < a + 1
  OBVIOUS
<1> QED
  BY <1>1, SubSeqEmpty DEF Part

LEMMA FreshStands ==
    ASSUME NEW f \in Frame, NEW time \in Time
    PROVE  Stands(f, time, 0, 0, <<>>, Never)
<1>1. Counts(Found[f][time], Visited(f)) /\ Visited(f) \in Nat
  BY FoundCounts, Traversed
<1>2. 0 \in 0 .. Visited(f) /\ Found[f][time][0] = 0
  BY <1>1 DEF Counts
<1>3. Never \in 1 .. Never /\ time < Never
  BY WalksAssumption DEF Time
<1>4. Stable(f, time, Never, 0)
  BY DEF Stable
<1>5. Len(<<>>) = 0 /\ 0 + Len(<<>>) = 0 /\ Part(Answer[f][time], 0, 0) = <<>>
  BY EmptyPart
<1> QED
  BY <1>2, <1>3, <1>4, <1>5 DEF Stands

LEMMA ReplayStands ==
    ASSUME NEW f \in Frame, NEW time \in Time, NEW ord \in Nat,
           NEW p, p = RunEnd(f, time, 0, ord), Len(RunResults(f, time, 0, p)) = ord
    PROVE  /\ Stands(f, time, ord, p, <<>>, RunUntil(f, time, 0, p))
           /\ RunResults(f, time, 0, p) = Part(Answer[f][time], 0, ord)
           /\ ord <= Len(Answer[f][time])
<1> DEFINE g == Found[f][time]
           v == Visited(f)
           A == Answer[f][time]
<1>1. Counts(g, v) /\ v \in Nat /\ A \in Sequences /\ Len(A) = g[v] /\ g[0] = 0 /\ 0 \in 0 .. v
  BY FoundCounts, Traversed, ResultsAre DEF Counts
<1>2. p \in 0 .. v
  BY <1>1, RunEnds
<1>3. g[p] \in Nat /\ g[p] <= g[v] /\ g[v] \in Nat
  <2>1. v \in p .. v /\ v \in 0 .. v
    BY <1>1, <1>2
  <2> HIDE DEF g, v
  <2>2. g[p] <= g[v]
    BY <1>1, <1>2, <2>1, CountsUp, Zenon
  <2> QED
    BY <1>1, <1>2, <2>1, <2>2, CountsAt, Zenon
<1>4. RunResults(f, time, 0, p) = Part(A, 0, g[p])
  BY <1>1, RunFinds
<1>5. Len(Part(A, 0, g[p])) = g[p] - 0
  <2>1. g[p] \in 0 .. Len(A) /\ 0 \in Nat
    BY <1>1, <1>3
  <2> HIDE DEF g, v, A
  <2> QED
    BY <1>1, <2>1, PartIs, Zenon
<1>6. g[p] = ord
  BY <1>3, <1>4, <1>5
<1>7. RunUntil(f, time, 0, p) \in 1 .. Never /\ time < RunUntil(f, time, 0, p)
  BY <1>1, <1>2, RunIsGoodUntil
<1>8. Stable(f, time, RunUntil(f, time, 0, p), p)
  <2>1. \A i \in 1 .. p : Alive(f, time, i) => RunUntil(f, time, 0, p) <= Deadline[Candidates[f][i]]
    BY <1>1, <1>2, RunIsGoodUntil
  <2> QED
    BY <2>1 DEF Stable, Alive
<1>9. Len(<<>>) = 0 /\ ord + Len(<<>>) = ord /\ Part(A, ord, ord) = <<>>
  BY EmptyPart
<1> QED
  BY <1>1, <1>2, <1>3, <1>4, <1>6, <1>7, <1>8, <1>9 DEF Stands

-----------------------------------------------------------------------------
(* What pages, cursors and checkpoints hold.                               *)

CursorRecord ==
    [ kid : Kid, mode : {"live", "pinned"}, consistency : Consistency, ordinal : Nat \ {0},
      boundary : DOMAIN Deadline, revision : Nat, frame : Frame, original : Time, start : Time, until : 1 .. Never ]

\* Something of a frame evaluated at start and good until then: the candidates
\* that make its first n results have no deadline in between.
Good(f, start, until, n) ==
    /\ start < until
    /\ \E p \in 0 .. Visited(f) : Stable(f, start, until, p) /\ n <= Found[f][start][p]

\* The time is between the start and the end of what is good.
Covers(f, start, time, until, n) ==
    /\ f \in Frame /\ start \in Time /\ time \in Time /\ until \in 1 .. Never
    /\ start <= time /\ time < until /\ n \in Nat /\ Good(f, start, until, n)

LEMMA GoodCarries ==
    ASSUME NEW f, NEW start, NEW time, NEW until, NEW n, Covers(f, start, time, until, n)
    PROVE  /\ n <= Len(Answer[f][time]) /\ n <= Len(Answer[f][start])
           /\ \A m \in 1 .. n : Answer[f][time][m] = Answer[f][start][m]
           /\ Part(Answer[f][time], 0, n) = Part(Answer[f][start], 0, n)
<1> USE DEF Covers
<1> DEFINE A == Answer[f][time]
           B == Answer[f][start]
<1>1. PICK p \in 0 .. Visited(f) : Stable(f, start, until, p) /\ n <= Found[f][start][p]
  BY DEF Good
<1>2. /\ Counts(Found[f][start], Visited(f)) /\ Visited(f) \in Nat
      /\ A \in Sequences /\ Len(A) = Found[f][time][Visited(f)]
      /\ B \in Sequences /\ Len(B) = Found[f][start][Visited(f)]
  BY FoundCounts, ResultsAre, Traversed
<1>3. Found[f][start][p] \in Nat /\ Len(A) \in Nat /\ Len(B) \in Nat
  BY <1>2, CountsAt DEF Sequences
<1>4. \A m \in 1 .. Found[f][start][p] : m \in 1 .. Len(A) /\ m \in 1 .. Len(B) /\ A[m] = B[m]
  BY <1>1, <1>2, Agreement
<1>5. \A m \in 1 .. n : m \in 1 .. Len(A) /\ m \in 1 .. Len(B) /\ A[m] = B[m]
  BY <1>1, <1>3, <1>4
<1> HIDE DEF A, B
<1>6. n <= Len(A) /\ n <= Len(B)
  <2>1. CASE n = 0
    BY <1>3, <2>1
  <2>2. CASE n # 0
    <3>1. n \in 1 .. n
      BY <2>2
    <3> QED
      BY <1>3, <1>5, <3>1
  <2> QED
    BY <2>1, <2>2
<1>7. Part(A, 0, n) = Part(B, 0, n)
  <2>1. 0 \in Nat /\ n \in 0 .. Len(A)
    BY <1>3, <1>6
  <2> QED
    BY <1>2, <1>5, <1>6, <2>1, PartsAgree
<1> QED
  BY <1>5, <1>6, <1>7 DEF A, B

LEMMA GoodForLess ==
    ASSUME NEW f \in Frame, NEW start \in Time, NEW until, NEW n \in Nat, NEW m \in 0 .. n,
           Good(f, start, until, n)
    PROVE  Good(f, start, until, m)
<1>1. PICK p \in 0 .. Visited(f) : Stable(f, start, until, p) /\ n <= Found[f][start][p]
  BY DEF Good
<1>2. Found[f][start][p] \in Nat
  BY FoundCounts, CountsAt
<1>3. m <= Found[f][start][p]
  BY <1>1, <1>2
<1> QED
  BY <1>1, <1>3 DEF Good

\* A cursor stands on a result of the basis it was minted at; what is not timed
\* is read at time 0.
CursorOK(timed, fs, c) ==
    /\ c \in CursorRecord
    /\ c.revision \in 1 .. Len(fs) /\ c.frame = fs[c.revision]
    /\ timed \/ (c.start = 0 /\ c.original = 0)
    /\ c.mode = "pinned" => c.start = c.original
    /\ Good(c.frame, c.start, c.until, c.ordinal)
    /\ c.boundary = Answer[c.frame][c.start][c.ordinal]

\* A checkpoint is where a walk of frame f stands after the result it names.
CheckpointOK(f, v) ==
    /\ v.ordinal \in Nat \ {0} /\ v.start \in Time
    /\ Stands(f, v.start, v.ordinal, v.position, v.pending, v.until)

\* At a time its interval covers, a later walk stands there as well.
LEMMA CheckpointStands ==
    ASSUME NEW f \in Frame, NEW time \in Time, NEW v, CheckpointOK(f, v), Reusable(v, time)
    PROVE  Stands(f, time, v.ordinal, v.position, v.pending, v.until)
<1> DEFINE n == v.ordinal + Len(v.pending)
           A == Answer[f][time]
           B == Answer[f][v.start]
<1>1. /\ v.start <= time /\ time < v.until /\ v.start \in Time /\ v.ordinal \in Nat
      /\ v.position \in 0 .. Visited(f) /\ Len(v.pending) \in 0 .. 1
      /\ Found[f][v.start][v.position] = n /\ v.pending = Part(B, v.ordinal, n)
      /\ v.until \in 1 .. Never /\ Stable(f, v.start, v.until, v.position)
  BY DEF CheckpointOK, Stands, Reusable
<1>2. n \in Nat /\ v.ordinal <= n
  BY <1>1
<1>3. Found[f][time][v.position] = n
  <2>1. v.position \in 0 .. v.position
    BY <1>1, Traversed
  <2> QED
    BY <1>1, <2>1, Agreement
<1>4. Good(f, v.start, v.until, n)
  <2>1. v.start < v.until /\ n <= Found[f][v.start][v.position]
    BY <1>1, <1>2 DEF CheckpointOK, Stands
  <2> QED
    BY <1>1, <2>1 DEF Good
<1>5. n <= Len(A) /\ n <= Len(B) /\ \A m \in 1 .. n : A[m] = B[m]
  <2>1. Covers(f, v.start, time, v.until, n)
    BY <1>1, <1>2, <1>4 DEF Covers
  <2> HIDE DEF n
  <2> QED
    BY <2>1, GoodCarries
<1>6. A \in Sequences /\ B \in Sequences
  BY <1>1, ResultsAre
<1> HIDE DEF n, A, B
<1>7. n \in v.ordinal .. Len(A)
  BY <1>1, <1>2, <1>5, <1>6 DEF Sequences
<1>8. Part(A, v.ordinal, n) = Part(B, v.ordinal, n)
  BY <1>1, <1>5, <1>6, <1>7, PartsAgree
<1>9. Stable(f, time, v.until, v.position)
  <2>1. v.until <= v.until
    BY <1>1, WalksAssumption
  <2> QED
    BY <1>1, <2>1, StableLater
<1> QED
  BY <1>1, <1>3, <1>8, <1>9 DEF Stands, n, A

-----------------------------------------------------------------------------
(* What a call holds.                                                      *)

Known == {"pc", "mode", "time", "size", "series", "way", "cursor", "basis", "frame",
          "consistency", "requested", "accepted", "minting", "retired"}

\* What a call captured, and the basis it reads.
BegunOK(timed, fs, r) ==
    /\ Known \subseteq DOMAIN r
    /\ r.mode \in {"live", "pinned"} /\ r.way \in {"after", "before"}
    /\ r.time \in Time /\ r.size \in PageSize /\ r.series \in PageSize
    /\ r.minting \in Kid /\ r.retired \subseteq Kid
    /\ r.basis \in 1 .. Len(fs) /\ r.frame = fs[r.basis]
    /\ timed \/ r.time = 0
    /\ r.consistency \in Consistency /\ Allows(r.consistency, r.requested, r.basis)
    /\ r.cursor # Null => CursorOK(timed, fs, r.cursor)
    /\ r.way = "before" => r.cursor # Null

LastOf(r) ==
    IF r.way = "before" THEN r.cursor.ordinal - 1
    ELSE Meet(r.start + r.size, Len(Answer[r.frame][r.time]))

\* The page is a piece of the answer, good until then, and a walk through
\* Snapshots stays at one time.
PageOK(r) ==
    /\ {"page", "start", "until"} \subseteq DOMAIN r
    /\ r.start \in Nat /\ r.until \in 1 .. Never
    /\ LastOf(r) \in r.start .. Len(Answer[r.frame][r.time])
    /\ r.page = Part(Answer[r.frame][r.time], r.start, LastOf(r))
    /\ Good(r.frame, r.time, r.until, LastOf(r))
    /\ r.mode = "pinned" /\ r.cursor # Null => r.time = r.cursor.original

CheckpointOf(r) ==
    [ ordinal |-> r.start + Len(r.page), boundary |-> r.page[Len(r.page)],
      pending |-> r.lookahead, position |-> r.position, start |-> r.time, until |-> r.until ]

Publishing(r) ==
    {"lookahead", "position"} \subseteq DOMAIN r /\ CheckpointOK(r.frame, CheckpointOf(r))

RequestOK(timed, fs, r) ==
    /\ r.pc \in {"idle", "observe", "claim", "accept", "publish", "swap", "deliver"}
    /\ r.pc # "idle" => BegunOK(timed, fs, r)
    /\ r.pc \in {"publish", "swap", "deliver"} => PageOK(r)
    /\ r.pc \in {"publish", "swap"} => Publishing(r)

EntryOK(k, v) == k.kid \in Kid /\ k.frame \in Frame /\ CheckpointOK(k.frame, v)

WalksInv ==
    /\ frames \in Seq(Frame) /\ Newest \in 1 .. MaxRevision
    /\ \A c \in cursors : CursorOK(qualified, frames, c)
    /\ \A k \in DOMAIN store : EntryOK(k, store[k])
    /\ \A t \in Thread : RequestOK(qualified, frames, req[t])

RingTyped == ring \in Ring /\ ring.active \in ring.keys

\* A call that goes on with what it captured.
SameCall(r, next) ==
    /\ Known \subseteq DOMAIN next
    /\ next.mode = r.mode /\ next.way = r.way /\ next.time = r.time /\ next.size = r.size
    /\ next.series = r.series /\ next.minting = r.minting /\ next.retired = r.retired
    /\ next.basis = r.basis /\ next.frame = r.frame /\ next.cursor = r.cursor
    /\ next.consistency = r.consistency /\ next.requested = r.requested

SamePage(r, next) ==
    /\ {"page", "start", "until"} \subseteq DOMAIN next
    /\ next.page = r.page /\ next.start = r.start /\ next.until = r.until

SameProgress(r, next) ==
    /\ {"lookahead", "position"} \subseteq DOMAIN next
    /\ next.lookahead = r.lookahead /\ next.position = r.position

LEMMA SameCallOK ==
    ASSUME NEW timed, NEW fs, NEW r, NEW next, SameCall(r, next), BegunOK(timed, fs, r)
    PROVE  BegunOK(timed, fs, next)
BY DEF SameCall, BegunOK

LEMMA SamePageOK ==
    ASSUME NEW r, NEW next, SameCall(r, next), SamePage(r, next), PageOK(r)
    PROVE  PageOK(next)
<1>1. LastOf(next) = LastOf(r)
  BY DEF SameCall, SamePage, LastOf
<1> QED
  BY <1>1 DEF SameCall, SamePage, PageOK

LEMMA SameProgressOK ==
    ASSUME NEW r, NEW next, SameCall(r, next), SamePage(r, next), SameProgress(r, next),
           Publishing(r)
    PROVE  Publishing(next)
<1>1. CheckpointOf(next) = CheckpointOf(r)
  BY DEF SameCall, SamePage, SameProgress, CheckpointOf
<1> QED
  BY <1>1 DEF SameCall, SameProgress, Publishing

LEMMA IdleRequestOK == ASSUME NEW timed, NEW fs PROVE RequestOK(timed, fs, Idle)
BY DEF RequestOK, Idle

\* Revisions to come leave the frames of those there are as they were.
LEMMA FramesGrow ==
    ASSUME NEW timed, NEW fs \in Seq(Frame), NEW f \in Frame, NEW r
    PROVE  /\ CursorOK(timed, fs, r) => CursorOK(timed, Append(fs, f), r)
           /\ RequestOK(timed, fs, r) => RequestOK(timed, Append(fs, f), r)
<1> DEFINE gs == Append(fs, f)
<1>1. Len(gs) = Len(fs) + 1 /\ Len(fs) \in Nat /\ \A i \in 1 .. Len(fs) : gs[i] = fs[i]
  OBVIOUS
<1>2. \A i \in 1 .. Len(fs) : i \in 1 .. Len(gs)
  BY <1>1
<1> HIDE DEF gs
<1>3. \A c : CursorOK(timed, fs, c) => CursorOK(timed, gs, c)
  BY <1>1, <1>2 DEF CursorOK
<1>4. BegunOK(timed, fs, r) => BegunOK(timed, gs, r)
  BY <1>1, <1>2, <1>3 DEF BegunOK
<1>5. RequestOK(timed, fs, r) => RequestOK(timed, gs, r)
  BY <1>4 DEF RequestOK
<1> QED
  BY <1>3, <1>5 DEF gs

\* A step of one call.
LEMMA OneRequest ==
    ASSUME CallsInv, WalksInv, NEW t \in Thread, NEW r, req' = [req EXCEPT ![t] = r],
           RequestOK(qualified, frames, r), UNCHANGED <<qualified, frames>>,
           \A c \in cursors' : CursorOK(qualified, frames, c),
           \A k \in DOMAIN store' : EntryOK(k, store'[k])
    PROVE  WalksInv'
<1>1. ASSUME NEW s \in Thread PROVE RequestOK(qualified', frames', req'[s])
  <2>1. CASE s = t
    <3>1. req'[s] = r
      BY <2>1 DEF CallsInv
    <3> QED
      BY <3>1
  <2>2. CASE s # t
    <3>1. req'[s] = req[s]
      BY <2>2 DEF CallsInv
    <3> QED
      BY <3>1 DEF WalksInv
  <2> QED
    BY <2>1, <2>2
<1> QED
  BY <1>1 DEF WalksInv, Newest

LEMMA OneRequestOnly ==
    ASSUME CallsInv, WalksInv, NEW t \in Thread, NEW r, req' = [req EXCEPT ![t] = r],
           RequestOK(qualified, frames, r), UNCHANGED <<qualified, frames, cursors, store>>
    PROVE  WalksInv'
<1>1. /\ \A c \in cursors' : CursorOK(qualified, frames, c)
      /\ \A k \in DOMAIN store' : EntryOK(k, store'[k])
  BY DEF WalksInv
<1> QED
  BY <1>1, OneRequest

LEMMA WalksInitially == Init => WalksInv
<1> SUFFICES ASSUME Init PROVE WalksInv
  OBVIOUS
<1>1. PICK f \in Frame : frames = <<f>>
  BY DEF Init
<1>2. frames \in Seq(Frame) /\ Newest \in 1 .. MaxRevision
  BY <1>1, WalksAssumption DEF Newest
<1>3. cursors = {} /\ DOMAIN store = {}
  BY DEF Init
<1>4. \A t \in Thread : RequestOK(qualified, frames, req[t])
  BY IdleRequestOK DEF Init
<1> QED
  BY <1>2, <1>3, <1>4 DEF WalksInv

LEMMA WalksUntouched ==
    WalksInv /\ UNCHANGED <<qualified, frames, store, cursors, req>> => WalksInv'
BY DEF WalksInv, Newest

LEMMA CommitWalks == ASSUME WalksInv, Commit PROVE WalksInv'
<1>1. PICK f \in Frame : frames' = Append(frames, f)
  BY DEF Commit
<1>2. frames \in Seq(Frame) /\ Newest < MaxRevision /\ Newest \in Nat
      /\ UNCHANGED <<qualified, store, cursors, req>>
  BY DEF Commit, WalksInv
<1>3. frames' \in Seq(Frame) /\ Newest' \in 1 .. MaxRevision
  BY <1>1, <1>2, WalksAssumption DEF Newest
<1>4. \A r : /\ CursorOK(qualified, frames, r) => CursorOK(qualified', frames', r)
             /\ RequestOK(qualified, frames, r) => RequestOK(qualified', frames', r)
  BY <1>1, <1>2, FramesGrow
<1> QED
  BY <1>2, <1>3, <1>4 DEF WalksInv

LEMMA EvictWalks == ASSUME WalksInv, NEW k \in DOMAIN store, Evict(k) PROVE WalksInv'
<1>1. /\ DOMAIN store' \subseteq DOMAIN store
      /\ \A j \in DOMAIN store' : store'[j] = store[j]
  BY DEF Evict, Without
<1>2. UNCHANGED <<qualified, frames, cursors, req>>
  BY DEF Evict
<1> QED
  BY <1>1, <1>2 DEF WalksInv, Newest

LEMMA BeginWalks ==
    ASSUME CallsInv, WalksInv, RingTyped, NEW t \in Thread, Begin(t) PROVE WalksInv'
<1> DEFINE call(mode, consistency, time, size, cursor, basis, way, series, requested) ==
             [ pc |-> IF ring.retired = {} THEN "accept" ELSE "observe",
               mode |-> mode, time |-> time, size |-> size, series |-> series,
               way |-> way, cursor |-> cursor, basis |-> basis,
               frame |-> frames[basis],
               consistency |-> consistency, requested |-> requested,
               accepted |-> ring.keys, minting |-> ring.active,
               retired |-> ring.retired ]
<1>1. PICK mode \in {"live", "pinned"}, consistency \in Consistency,
           time \in IF qualified THEN Time ELSE {0}, size \in PageSize,
           cursor \in cursors \cup {Null} :
       /\ MayAsk(mode, consistency)
       /\ \E basis \in IF mode = "live" /\ consistency # "at-exact-snapshot" THEN {Newest}
                      ELSE 1 .. Newest,
             way \in IF cursor = Null THEN {"after"} ELSE {"after", "before"} :
          \E series \in IF cursor = Null \/ way = "before" THEN {size} ELSE PageSize,
             requested \in Requestable(consistency, basis) :
         req' = [req EXCEPT ![t] = call(mode, consistency, time, size, cursor, basis, way,
                                        series, requested)]
  BY Zenon DEF Begin
<1>2. PICK basis \in IF mode = "live" /\ consistency # "at-exact-snapshot" THEN {Newest}
                     ELSE 1 .. Newest,
           way \in IF cursor = Null THEN {"after"} ELSE {"after", "before"} :
       \E series \in IF cursor = Null \/ way = "before" THEN {size} ELSE PageSize,
          requested \in Requestable(consistency, basis) :
         req' = [req EXCEPT ![t] = call(mode, consistency, time, size, cursor, basis, way,
                                        series, requested)]
  BY <1>1, Zenon
<1>3. PICK series \in IF cursor = Null \/ way = "before" THEN {size} ELSE PageSize,
           requested \in Requestable(consistency, basis) :
         req' = [req EXCEPT ![t] = call(mode, consistency, time, size, cursor, basis, way,
                                        series, requested)]
  BY <1>2, Zenon
<1> DEFINE r == call(mode, consistency, time, size, cursor, basis, way, series, requested)
<1>4. req' = [req EXCEPT ![t] = r]
  BY <1>3
<1>5. Newest \in 1 .. MaxRevision /\ Newest = Len(frames)
  BY DEF WalksInv, Newest
<1>6. time \in Time /\ (qualified \/ time = 0)
  BY <1>1, WalksAssumption DEF Time
<1>7. basis \in 1 .. Len(frames) /\ Allows(consistency, requested, basis)
  <2>1. Newest \in Nat /\ 1 <= Newest
    BY <1>5, WalksAssumption
  <2>2. basis \in 1 .. Newest
    BY <1>2, <2>1
  <2>3. Allows(consistency, requested, basis)
    BY <1>3 DEF Requestable, Allows
  <2> QED
    BY <1>5, <2>2, <2>3
<1>8. way \in {"after", "before"} /\ (way = "before" => cursor # Null) /\ series \in PageSize
  BY <1>1, <1>2, <1>3
<1>9. cursor # Null => CursorOK(qualified, frames, cursor)
  BY <1>1 DEF WalksInv
<1>10. ring.active \in Kid /\ ring.retired \subseteq Kid
  BY DEF RingTyped, Ring
<1>11. /\ Known \subseteq DOMAIN r /\ r.pc \in {"accept", "observe"}
       /\ r.mode = mode /\ r.time = time /\ r.size = size /\ r.series = series
       /\ r.way = way /\ r.cursor = cursor /\ r.basis = basis /\ r.frame = frames[basis]
       /\ r.consistency = consistency /\ r.requested = requested
       /\ r.minting = ring.active /\ r.retired = ring.retired
  BY DEF Known
<1> HIDE DEF r
<1>12. BegunOK(qualified, frames, r)
  BY <1>1, <1>6, <1>7, <1>8, <1>9, <1>10, <1>11 DEF BegunOK
<1>13. RequestOK(qualified, frames, r)
  BY <1>11, <1>12 DEF RequestOK
<1>14. UNCHANGED <<qualified, frames, cursors, store>>
  BY DEF Begin
<1> QED
  BY <1>4, <1>13, <1>14, OneRequestOnly

\* A call that owes no page yet.
LEMMA BegunRequest ==
    ASSUME NEW timed, NEW fs, NEW r, r.pc \in {"observe", "claim", "accept"}, BegunOK(timed, fs, r)
    PROVE  RequestOK(timed, fs, r)
BY DEF RequestOK

LEMMA ObserveWalks ==
    ASSUME CallsInv, WalksInv, NEW t \in Thread, Observe(t) PROVE WalksInv'
<1>1. req[t].pc = "observe" /\ RequestOK(qualified, frames, req[t]) /\ UNCHANGED <<qualified, frames, cursors, store>>
  BY DEF Observe, WalksInv
<1>2. BegunOK(qualified, frames, req[t]) /\ Known \subseteq DOMAIN req[t]
  BY <1>1 DEF RequestOK, BegunOK
<1>3. CASE Cardinality(req[t].retired) > observed
  <2> DEFINE r == Extended([req[t] EXCEPT !.pc = "claim"], [previous |-> observed])
  <2>1. req' = [req EXCEPT ![t] = r]
    BY <1>3 DEF Observe
  <2>2. SameCall(req[t], r) /\ r.pc = "claim"
    BY <1>2 DEF Extended, Known, SameCall
  <2> HIDE DEF r
  <2>3. RequestOK(qualified, frames, r)
    BY <1>2, <2>2, SameCallOK, BegunRequest
  <2> QED
    BY <1>1, <2>1, <2>3, OneRequestOnly
<1>4. CASE ~ (Cardinality(req[t].retired) > observed)
  <2> DEFINE r == [req[t] EXCEPT !.pc = "accept"]
  <2>1. req' = [req EXCEPT ![t] = r]
    BY <1>4 DEF Observe
  <2>2. SameCall(req[t], r) /\ r.pc = "accept"
    BY <1>2 DEF Known, SameCall
  <2> HIDE DEF r
  <2>3. RequestOK(qualified, frames, r)
    BY <1>2, <2>2, SameCallOK, BegunRequest
  <2> QED
    BY <1>1, <2>1, <2>3, OneRequestOnly
<1> QED
  BY <1>3, <1>4

LEMMA ClaimWalks ==
    ASSUME CallsInv, WalksInv, NEW t \in Thread, Claim(t) PROVE WalksInv'
<1>1. req[t].pc = "claim" /\ RequestOK(qualified, frames, req[t]) /\ UNCHANGED <<qualified, frames, cursors>>
  BY DEF Claim, WalksInv
<1>2. BegunOK(qualified, frames, req[t]) /\ Known \subseteq DOMAIN req[t]
  BY <1>1 DEF RequestOK, BegunOK
<1> DEFINE r == [req[t] EXCEPT !.pc = "accept"]
<1>3. req' = [req EXCEPT ![t] = r]
  BY DEF Claim
<1>4. SameCall(req[t], r) /\ r.pc = "accept"
  BY <1>2 DEF Known, SameCall
<1> HIDE DEF r
<1>5. RequestOK(qualified, frames, r)
  BY <1>2, <1>4, SameCallOK, BegunRequest
<1>6. \A k \in DOMAIN store' : k \in DOMAIN store /\ store'[k] = store[k]
  BY DEF Claim
<1>7. /\ \A c \in cursors' : CursorOK(qualified, frames, c)
      /\ \A k \in DOMAIN store' : EntryOK(k, store'[k])
  BY <1>1, <1>6 DEF WalksInv
<1> QED
  BY <1>1, <1>3, <1>5, <1>7, OneRequest

LEMMA RecoverWalks ==
    ASSUME CallsInv, WalksInv, NEW t \in Thread, Recover(t) PROVE WalksInv'
<1> DEFINE c == req[t].cursor
           r == [req[t] EXCEPT !.basis = c.revision, !.frame = c.frame]
<1>1. req[t].pc = "accept" /\ RequestOK(qualified, frames, req[t]) /\ UNCHANGED <<qualified, frames, cursors, store>>
  BY DEF Recover, WalksInv
<1>2. BegunOK(qualified, frames, req[t]) /\ Known \subseteq DOMAIN req[t]
  BY <1>1 DEF RequestOK, BegunOK
<1>3. req' = [req EXCEPT ![t] = r]
  BY DEF Recover
<1>4. /\ c # Null /\ Allows(req[t].consistency, req[t].requested, c.revision)
      /\ CursorOK(qualified, frames, c)
  BY <1>2 DEF Recover, Recoverable, Satisfies, BegunOK
<1>5. c.revision \in 1 .. Len(frames) /\ c.frame = frames[c.revision]
  BY <1>4 DEF CursorOK
<1>6. /\ Known \subseteq DOMAIN r /\ r.pc = "accept" /\ r.basis = c.revision /\ r.frame = c.frame
      /\ r.mode = req[t].mode /\ r.way = req[t].way /\ r.time = req[t].time
      /\ r.size = req[t].size /\ r.series = req[t].series /\ r.minting = req[t].minting
      /\ r.retired = req[t].retired /\ r.consistency = req[t].consistency
      /\ r.requested = req[t].requested /\ r.cursor = c
  BY <1>1, <1>2 DEF Known
<1> HIDE DEF r, c
<1>7. BegunOK(qualified, frames, r)
  <2>1. r.consistency \in Consistency /\ Allows(r.consistency, r.requested, r.basis)
    BY <1>2, <1>4, <1>6 DEF BegunOK
  <2> QED
    BY <1>2, <1>4, <1>5, <1>6, <2>1 DEF BegunOK, c
<1>8. RequestOK(qualified, frames, r)
  BY <1>6, <1>7, BegunRequest
<1> QED
  BY <1>1, <1>3, <1>8, OneRequestOnly

LEMMA RefuseWalks ==
    ASSUME CallsInv, WalksInv, NEW t \in Thread, Refuse(t) PROVE WalksInv'
<1>1. req' = [req EXCEPT ![t] = Idle] /\ UNCHANGED <<qualified, frames, cursors, store>>
  BY DEF Refuse
<1> QED
  BY <1>1, IdleRequestOK, OneRequestOnly

-----------------------------------------------------------------------------
(* Serving.                                                                *)

\* A call is accepted at a time its cursor covers, on the cursor's frame.
LEMMA AcceptedInTime ==
    ASSUME NEW t \in Thread, BegunOK(qualified, frames, req[t]), Acceptable(t), req[t].cursor # Null
    PROVE  LET r == req[t] IN
           /\ CursorOK(qualified, frames, r.cursor)
           /\ r.cursor.start <= r.time /\ r.time < r.cursor.until
           /\ r.frame = r.cursor.frame
           /\ r.mode = "pinned" => r.time = r.cursor.original
<1> DEFINE r == req[t]
           c == r.cursor
<1>1. /\ CursorOK(qualified, frames, c) /\ Current(t) /\ r.frame = frames[r.basis]
      /\ qualified => c.mode = r.mode /\ TimeValid(c, r.time)
      /\ qualified \/ r.time = 0
  BY DEF BegunOK, Acceptable, Authentic, Satisfies
<1>2. /\ c.start \in Time /\ c.until \in 1 .. Never /\ c.frame = frames[c.revision]
      /\ c.mode = "pinned" => c.start = c.original
      /\ c.start < c.until
      /\ qualified \/ (c.start = 0 /\ c.original = 0)
  BY <1>1 DEF CursorOK, CursorRecord, Good
<1>3. r.frame = c.frame
  BY <1>1, <1>2 DEF Current
<1> HIDE DEF r, c
<1>4. CASE ~ qualified
  <2>1. r.time = 0 /\ c.start = 0 /\ c.original = 0 /\ 0 < c.until
    BY <1>1, <1>2, <1>4
  <2>2. c.start <= r.time /\ r.time < c.until /\ r.time = c.original
    BY <2>1
  <2> QED
    BY <1>1, <1>3, <2>2 DEF r, c
<1>5. CASE qualified
  <2>1. c.mode = r.mode /\ TimeValid(c, r.time)
    BY <1>1, <1>5
  <2>2. c.mode = "pinned" => r.time = c.original
    BY <2>1 DEF TimeValid
  <2>3. c.start <= r.time /\ r.time < c.until
    <3>1. CASE c.mode = "pinned"
      <4>1. r.time = c.start
        BY <1>2, <2>2, <3>1
      <4>2. c.start \in Nat
        BY <1>2, WalksAssumption DEF Time
      <4> QED
        BY <1>2, <4>1, <4>2
    <3>2. CASE c.mode # "pinned"
      BY <2>1, <3>2 DEF TimeValid, Reusable
    <3> QED
      BY <3>1, <3>2
  <2> QED
    BY <1>1, <1>3, <2>1, <2>2, <2>3 DEF r, c
<1> QED
  BY <1>4, <1>5

LEMMA CursorUntilIs ==
    ASSUME NEW t \in Thread, BegunOK(qualified, frames, req[t]), Acceptable(t)
    PROVE  CursorUntil(t) \in 1 .. Never /\ req[t].time < CursorUntil(t)
<1>1. CASE req[t].cursor = Null
  <2>1. req[t].time \in Time /\ CursorUntil(t) = Never
    BY <1>1 DEF CursorUntil, BegunOK
  <2> QED
    BY <2>1, WalksAssumption DEF Time
<1>2. CASE req[t].cursor # Null
  <2>1. req[t].time < req[t].cursor.until /\ CursorOK(qualified, frames, req[t].cursor)
    BY <1>2, AcceptedInTime
  <2>2. CursorUntil(t) = req[t].cursor.until
    BY <1>2 DEF CursorUntil
  <2> QED
    BY <2>1, <2>2 DEF CursorOK, CursorRecord
<1> QED
  BY <1>1, <1>2

LEMMA MeetIs ==
    ASSUME NEW a \in 1 .. Never, NEW b \in 1 .. Never, NEW time \in Nat, time < a, time < b
    PROVE  Meet(a, b) \in 1 .. Never /\ time < Meet(a, b) /\ Meet(a, b) <= a /\ Meet(a, b) <= b
BY WalksAssumption DEF Meet

\* A replay that validates ends on the cursor.
LEMMA ValidatedStands ==
    ASSUME NEW t \in Thread, BegunOK(qualified, frames, req[t]), req[t].frame \in Frame,
           req[t].cursor # Null, Validates(t)
    PROVE  LET r == req[t] IN
           /\ Stands(r.frame, r.time, r.cursor.ordinal, Replayed(t).position, Replayed(t).pending,
                     Replayed(t).until)
           /\ Replayed(t).position \in 0 .. Visited(r.frame)
           /\ RunResults(r.frame, r.time, 0, Replayed(t).position) =
                Part(Answer[r.frame][r.time], 0, r.cursor.ordinal)
           /\ r.cursor.ordinal <= Len(Answer[r.frame][r.time])
<1> DEFINE r == req[t]
           p == RunEnd(r.frame, r.time, 0, r.cursor.ordinal)
<1>1. r.time \in Time /\ r.cursor.ordinal \in Nat
  BY DEF BegunOK, CursorOK, CursorRecord
<1>2. /\ Replayed(t).position = p /\ Replayed(t).pending = <<>>
      /\ Replayed(t).until = RunUntil(r.frame, r.time, 0, p)
  BY DEF Replayed
<1>3. Len(RunResults(r.frame, r.time, 0, p)) = r.cursor.ordinal
  BY <1>2 DEF Validates
<1>4. /\ Stands(r.frame, r.time, r.cursor.ordinal, p, <<>>, RunUntil(r.frame, r.time, 0, p))
      /\ RunResults(r.frame, r.time, 0, p) = Part(Answer[r.frame][r.time], 0, r.cursor.ordinal)
      /\ r.cursor.ordinal <= Len(Answer[r.frame][r.time])
  <2> HIDE DEF r
  <2> QED
    BY <1>1, <1>3, ReplayStands DEF r
<1>5. p \in 0 .. Visited(r.frame)
  BY <1>4 DEF Stands
<1> QED
  BY <1>2, <1>4, <1>5

\* However the boundary of the call's cursor is recovered, the walk stands there.
LEMMA BoundaryStands ==
    ASSUME WalksInv, NEW t \in Thread, BegunOK(qualified, frames, req[t]), req[t].frame \in Frame,
           req[t].cursor # Null =>
             Hit(t, CheckpointKey(t, req[t].cursor.kid)) \/ Validates(t)
    PROVE  /\ Ordinal(t) \in Nat
           /\ Stands(req[t].frame, req[t].time, Ordinal(t), AtBoundary(t).position,
                     AtBoundary(t).pending, AtBoundary(t).until)
<1> DEFINE r == req[t]
           k == CheckpointKey(t, r.cursor.kid)
<1>1. r.time \in Time
  BY DEF BegunOK
<1>2. CASE r.cursor = Null
  <2>1. /\ AtBoundary(t).position = 0 /\ AtBoundary(t).pending = <<>>
        /\ AtBoundary(t).until = Never /\ Ordinal(t) = 0
    BY <1>2 DEF AtBoundary, Fresh, Ordinal
  <2> QED
    BY <1>1, <2>1, FreshStands
<1>3. CASE r.cursor # Null /\ Hit(t, k)
  <2>1. /\ AtBoundary(t).position = store[k].position
        /\ AtBoundary(t).pending = store[k].pending
        /\ AtBoundary(t).until = store[k].until
    BY <1>3 DEF AtBoundary
  <2>2. /\ k \in DOMAIN store /\ store[k].ordinal = r.cursor.ordinal
        /\ Reusable(store[k], r.time)
    BY <1>3, Zenon DEF Hit
  <2>3. k.frame = r.frame
    BY DEF CheckpointKey
  <2>4. CheckpointOK(r.frame, store[k])
    BY <2>2, <2>3 DEF WalksInv, EntryOK
  <2>5. /\ Stands(r.frame, r.time, store[k].ordinal, store[k].position, store[k].pending,
                  store[k].until)
        /\ store[k].ordinal \in Nat
    BY <1>1, <2>2, <2>4, CheckpointStands DEF CheckpointOK
  <2>6. Ordinal(t) = store[k].ordinal
    BY <1>3, <2>2 DEF Ordinal
  <2> QED
    BY <2>1, <2>5, <2>6
<1>4. CASE r.cursor # Null /\ ~ Hit(t, k)
  <2>1. Validates(t)
    BY <1>4
  <2>2. AtBoundary(t) = Replayed(t) /\ Ordinal(t) = r.cursor.ordinal
    BY <1>4, Zenon DEF AtBoundary, Ordinal
  <2>3. r.cursor.ordinal \in Nat
    BY <1>4 DEF BegunOK, CursorOK, CursorRecord
  <2> QED
    BY <1>4, <2>1, <2>2, <2>3, ValidatedStands
<1> QED
  BY <1>2, <1>3, <1>4

LEMMA SizeIs == ASSUME NEW size \in PageSize PROVE size \in Nat \ {0}
BY WalksAssumption

\* What is served goes on with the call and holds the page.
LEMMA ServedIs ==
    ASSUME NEW t \in Thread, Known \subseteq DOMAIN req[t], NEW page, NEW start, NEW until
    PROVE  LET s == Served(t, page, start, until) IN
           /\ SameCall(req[t], s)
           /\ {"page", "start", "until"} \subseteq DOMAIN s
           /\ s.page = page /\ s.start = start /\ s.until = until
           /\ s.pc = IF req[t].way = "before" \/ page = <<>> THEN "deliver" ELSE "publish"
BY DEF Served, Extended, Known, SameCall

LEMMA ServedOnwardIs ==
    ASSUME NEW t \in Thread, Known \subseteq DOMAIN req[t], NEW page, NEW start, NEW until,
           NEW lookahead, NEW position
    PROVE  LET s == Extended(Served(t, page, start, until),
                             [ lookahead |-> lookahead, position |-> position ]) IN
           /\ SameCall(req[t], s)
           /\ {"page", "start", "until", "lookahead", "position"} \subseteq DOMAIN s
           /\ s.page = page /\ s.start = start /\ s.until = until
           /\ s.lookahead = lookahead /\ s.position = position
           /\ s.pc = IF req[t].way = "before" \/ page = <<>> THEN "deliver" ELSE "publish"
<1> DEFINE q == Served(t, page, start, until)
<1>1. /\ SameCall(req[t], q) /\ {"page", "start", "until"} \subseteq DOMAIN q
      /\ q.page = page /\ q.start = start /\ q.until = until
      /\ q.pc = IF req[t].way = "before" \/ page = <<>> THEN "deliver" ELSE "publish"
  BY ServedIs
<1> HIDE DEF q
<1>2. Known \subseteq DOMAIN q
  BY <1>1 DEF SameCall
<1> QED
  BY <1>1, <1>2 DEF Extended, Known, SameCall, q

LEMMA ServeWalks ==
    ASSUME CallsInv, WalksInv, NEW t \in Thread, Serve(t) PROVE WalksInv'
<1> DEFINE r     == req[t]
           from  == AtBoundary(t)
           ord   == Ordinal(t)
           to    == RunEnd(r.frame, r.time, from.position, r.size + 1 - Len(from.pending))
           found == from.pending \o RunResults(r.frame, r.time, from.position, to)
           page  == SubSeq(found, 1, Meet(r.size, Len(found)))
           until == Meet(Meet(CursorUntil(t), from.until),
                         RunUntil(r.frame, r.time, from.position, to))
           hit   == r.cursor # Null /\ Hit(t, CheckpointKey(t, r.cursor.kid))
           more  == Lookahead(found, r.size)
           next  == Extended(Served(t, page, ord, until), [ lookahead |-> more, position |-> to ])
           A     == Answer[r.frame][r.time]
<1>1. /\ r.pc = "accept" /\ Acceptable(t) /\ r.way = "after"
      /\ req' = [req EXCEPT ![t] =
                   IF r.cursor # Null /\ ~ hit /\ ~ Validates(t) THEN Idle ELSE next]
      /\ UNCHANGED <<qualified, frames, cursors, store>>
  BY Zenon DEF Serve
<1>2. BegunOK(qualified, frames, r) /\ Known \subseteq DOMAIN r
  BY <1>1 DEF WalksInv, RequestOK, BegunOK
<1>3. /\ r.frame \in Frame /\ r.time \in Time /\ r.time \in Nat /\ r.size \in Nat \ {0}
  <2>1. r.frame = frames[r.basis] /\ r.basis \in 1 .. Len(frames) /\ frames \in Seq(Frame)
    BY <1>2 DEF BegunOK, WalksInv
  <2>2. r.time \in Time /\ r.size \in PageSize
    BY <1>2 DEF BegunOK
  <2> HIDE DEF r
  <2>3. r.frame \in Frame
    BY <2>1
  <2>4. r.time \in Nat
    BY <2>2, WalksAssumption DEF Time
  <2>5. r.size \in Nat \ {0}
    BY <2>2, SizeIs
  <2> QED
    BY <2>2, <2>3, <2>4, <2>5
<1>4. CASE r.cursor # Null /\ ~ hit /\ ~ Validates(t)
  <2>1. req' = [req EXCEPT ![t] = Idle]
    BY <1>1, <1>4
  <2> QED
    BY <1>1, <2>1, IdleRequestOK, OneRequestOnly
<1>5. CASE ~ (r.cursor # Null /\ ~ hit /\ ~ Validates(t))
  <2>1. req' = [req EXCEPT ![t] = next]
    BY <1>1, <1>5
  <2>2. /\ ord \in Nat
        /\ Stands(r.frame, r.time, ord, from.position, from.pending, from.until)
    <3>1. r.cursor # Null => Hit(t, CheckpointKey(t, r.cursor.kid)) \/ Validates(t)
      BY <1>5
    <3> QED
      BY <1>2, <1>3, <3>1, BoundaryStands
  <2>3. CursorUntil(t) \in 1 .. Never /\ r.time < CursorUntil(t)
    BY <1>1, <1>2, CursorUntilIs
  <2>4. /\ SameCall(r, next)
        /\ {"page", "start", "until", "lookahead", "position"} \subseteq DOMAIN next
        /\ next.page = page /\ next.start = ord /\ next.until = until
        /\ next.lookahead = more /\ next.position = to
        /\ next.pc = IF page = <<>> THEN "deliver" ELSE "publish"
    <3> HIDE DEF page, ord, until, more, to
    <3> QED
      BY <1>1, <1>2, ServedOnwardIs
  <2>5. /\ to \in from.position .. Visited(r.frame)
        /\ Found[r.frame][r.time][to] = Meet(ord + r.size + 1, Len(A))
        /\ ord <= Found[r.frame][r.time][to] /\ ord <= Len(A)
        /\ Found[r.frame][r.time][to] <= Len(A)
        /\ found = Part(A, ord, Found[r.frame][r.time][to])
    <3>1. to = RunEnd(r.frame, r.time, from.position, r.size + 1 - Len(from.pending))
      OBVIOUS
    <3>2. found = from.pending \o RunResults(r.frame, r.time, from.position, to)
      OBVIOUS
    <3> HIDE DEF r, from, ord, to, found
    <3>3. Resumed(r.frame, r.time, ord, from.position, from.pending, from.until, r.size,
                  to, found)
      BY <1>3, <2>2, <3>1, <3>2, Zenon DEF Resumed
    <3> QED
      BY <3>3, RunGoesOn
  <2>6. from.position \in 0 .. Visited(r.frame) /\ from.until \in 1 .. Never
        /\ r.time < from.until /\ Stable(r.frame, r.time, from.until, from.position)
    BY <2>2 DEF Stands
  <2>7. A \in Sequences
    BY <1>3, ResultsAre
  <2> DEFINE last == Found[r.frame][r.time][to]
  <2>8. /\ page = Part(A, ord, Meet(ord + r.size, Len(A)))
        /\ Len(page) \in Nat /\ ord + Len(page) = Meet(ord + r.size, Len(A))
        /\ Len(more) \in 0 .. 1
        /\ last = ord + Len(page) + Len(more)
        /\ more = Part(A, ord + Len(page), ord + Len(page) + Len(more))
    <3>1. page = SubSeq(found, 1, Meet(r.size, Len(found)))
      OBVIOUS
    <3>2. found = Part(A, ord, last) /\ last = Meet(ord + r.size + 1, Len(A)) /\ ord <= Len(A)
      BY <2>5
    <3>3. more = Lookahead(found, r.size)
      OBVIOUS
    <3> HIDE DEF r, A, ord, found, last, page, more
    <3>4. Cut(A, ord, r.size, last, found, page)
      BY <1>3, <2>2, <2>7, <3>1, <3>2, Zenon DEF Cut
    <3> QED
      BY <3>3, <3>4, PageComesNext
  <2>9. RunUntil(r.frame, r.time, from.position, to) \in 1 .. Never
        /\ r.time < RunUntil(r.frame, r.time, from.position, to)
        /\ \A i \in from.position + 1 .. to : Alive(r.frame, r.time, i) =>
             RunUntil(r.frame, r.time, from.position, to) <= Deadline[Candidates[r.frame][i]]
    <3> HIDE DEF r, from, to
    <3> QED
      BY <1>3, <2>5, <2>6, RunIsGoodUntil
  <2>10. /\ until \in 1 .. Never /\ r.time < until /\ until <= from.until
         /\ until <= RunUntil(r.frame, r.time, from.position, to)
    <3> DEFINE a == Meet(CursorUntil(t), from.until)
               b == RunUntil(r.frame, r.time, from.position, to)
    <3>1. a \in 1 .. Never /\ r.time < a /\ a <= from.until
      <4> HIDE DEF r, from
      <4> QED
        BY <1>3, <2>3, <2>6, MeetIs
    <3>2. b \in 1 .. Never /\ r.time < b
      BY <2>9
    <3> HIDE DEF a, b, r
    <3>3. Meet(a, b) \in 1 .. Never /\ r.time < Meet(a, b) /\ Meet(a, b) <= a /\ Meet(a, b) <= b
      BY <1>3, <3>1, <3>2, MeetIs
    <3>4. Meet(a, b) <= from.until
      BY <2>6, <3>1, <3>3, WalksAssumption
    <3>5. until = Meet(a, b)
      BY DEF a, b, r
    <3> QED
      BY <3>3, <3>4, <3>5 DEF b
  <2>11. Stable(r.frame, r.time, until, to)
    <3> HIDE DEF r, from, to, until
    <3>1. r.time <= r.time
      BY <1>3
    <3>4. from.position \in 0 .. Visited(r.frame) /\ to \in from.position .. Visited(r.frame)
      BY <2>5, <2>6, Zenon
    <3>5. r.frame \in Frame /\ Visited(r.frame) \in Nat
      BY <1>3, Traversed, Zenon
    <3>2. Stable(r.frame, r.time, until, from.position)
      BY <1>3, <2>6, <2>10, <3>1, StableLater
    <3>3. \A i \in from.position + 1 .. to :
            Alive(r.frame, r.time, i) => until <= Deadline[Candidates[r.frame][i]]
      <4> SUFFICES ASSUME NEW i \in from.position + 1 .. to, Alive(r.frame, r.time, i)
                   PROVE  until <= Deadline[Candidates[r.frame][i]]
        OBVIOUS
      <4>1. i \in 1 .. Visited(r.frame)
        BY <3>4, <3>5
      <4>2. Deadline[Candidates[r.frame][i]] \in 1 .. Never
        BY <1>3, <4>1, Traversed
      <4>3. RunUntil(r.frame, r.time, from.position, to) <= Deadline[Candidates[r.frame][i]]
        BY <2>9
      <4>4. \A a, b, c \in 1 .. Never : a <= b /\ b <= c => a <= c
        BY WalksAssumption
      <4> QED
        BY <2>9, <2>10, <4>2, <4>3, <4>4, Zenon
    <3>6. until \in 1 .. Never
      BY <2>10, Zenon
    <3> QED
      BY <1>3, <3>2, <3>3, <3>4, <3>5, <3>6, StableJoins, Zenon
  <2>12. to \in 0 .. Visited(r.frame)
    <3> HIDE DEF r, from, to
    <3>1. from.position \in 0 .. Visited(r.frame) /\ to \in from.position .. Visited(r.frame)
      BY <2>5, <2>6, Zenon
    <3>2. Visited(r.frame) \in Nat
      BY <1>3, Traversed, Zenon
    <3> QED
      BY <3>1, <3>2
  <2> HIDE DEF next, page, more, until, to, found, last, from, A, ord, r
  <2>13. r.mode = "pinned" /\ r.cursor # Null => r.time = r.cursor.original
    BY <1>1, <1>2, AcceptedInTime DEF r
  <2>14. PageOK(next)
    <3>1. /\ next.mode = r.mode /\ next.cursor = r.cursor /\ next.time = r.time
          /\ next.frame = r.frame /\ next.size = r.size /\ next.way = "after"
      BY <1>1, <2>4 DEF SameCall
    <3>2. LastOf(next) = Meet(ord + r.size, Len(A))
      BY <2>4, <3>1 DEF LastOf, A
    <3>3. LastOf(next) = ord + Len(page)
      BY <2>8, <3>2
    <3>4. LastOf(next) \in ord .. Len(A)
      <4>1. Len(A) \in Nat
        BY <2>7 DEF Sequences
      <4> QED
        BY <2>2, <2>5, <2>8, <3>3, <4>1 DEF last
    <3>5. Good(r.frame, r.time, until, LastOf(next))
      <4>1. LastOf(next) <= last
        BY <2>2, <2>8, <3>3
      <4> QED
        BY <2>10, <2>11, <2>12, <4>1 DEF Good, last
    <3> QED
      BY <2>2, <2>4, <2>8, <2>10, <2>13, <3>1, <3>2, <3>4, <3>5 DEF PageOK, A
  <2>15. page # <<>> => Publishing(next)
    <3> SUFFICES ASSUME page # <<>> PROVE Publishing(next)
      OBVIOUS
    <3> DEFINE v == CheckpointOf(next)
    <3>1. /\ v.ordinal = ord + Len(page) /\ v.position = to /\ v.pending = more
          /\ v.start = r.time /\ v.until = until /\ next.frame = r.frame
      BY <2>4 DEF CheckpointOf, SameCall
    <3>2. ord + Len(page) \in Nat \ {0}
      <4>1. Len(page) # 0
        BY <2>8, EmptyPart
      <4> QED
        BY <2>2, <2>8, <4>1
    <3> HIDE DEF v
    <3>3. Stands(r.frame, r.time, ord + Len(page), to, more, until)
      BY <2>8, <2>10, <2>11, <2>12 DEF Stands, A, last
    <3>4. CheckpointOK(next.frame, v)
      BY <1>3, <3>1, <3>2, <3>3 DEF CheckpointOK
    <3> QED
      BY <2>4, <3>4 DEF Publishing, v
  <2>16. BegunOK(qualified, frames, next)
    BY <1>2, <2>4, SameCallOK
  <2>17. RequestOK(qualified, frames, next)
    BY <2>4, <2>14, <2>15, <2>16 DEF RequestOK
  <2> QED
    BY <1>1, <2>1, <2>17, OneRequestOnly
<1> QED
  BY <1>4, <1>5

LEMMA MaxOrZero ==
    ASSUME NEW n \in Int
    PROVE  Max({0, n}) \in Nat /\ Max({0, n}) \in {0, n}
<1>1. \E x \in {0, n} : \A y \in {0, n} : x >= y
  <2>1. CASE n <= 0
    BY <2>1
  <2>2. CASE ~ (n <= 0)
    BY <2>2
  <2> QED
    BY <2>1, <2>2
<1>2. Max({0, n}) \in {0, n} /\ \A y \in {0, n} : Max({0, n}) >= y
  BY <1>1, Zenon DEF Max
<1>3. Max({0, n}) >= 0 /\ Max({0, n}) \in Int
  BY <1>2
<1> QED
  BY <1>2, <1>3

\* The window that ends before the edge.
Window(A, ord, size, start, found, page) ==
    /\ A \in Sequences /\ ord \in Nat \ {0} /\ ord <= Len(A) /\ size \in Nat \ {0}
    /\ start = Max({0, ord - 1 - size})
    /\ found = Part(A, 0, ord)
    /\ page = SubSeq(found, start + 1, ord - 1)

LEMMA PageBefore ==
    ASSUME NEW A, NEW ord, NEW size, NEW start, NEW found, NEW page,
           Window(A, ord, size, start, found, page)
    PROVE  /\ start \in Nat /\ ord - 1 \in start .. Len(A) /\ ord - 1 \in Nat
           /\ page = Part(A, start, ord - 1)
<1> USE DEF Window
<1>1. Len(A) \in Nat
  BY DEF Sequences
<1>2. start \in Nat /\ start <= ord - 1
  <2>1. ord - 1 - size \in Int /\ ord - 1 - size <= ord - 1 /\ 0 <= ord - 1
    OBVIOUS
  <2> DEFINE n == ord - 1 - size
  <2>2. Max({0, n}) \in Nat /\ Max({0, n}) \in {0, n}
    BY <2>1, MaxOrZero
  <2>3. start \in Nat /\ (start = 0 \/ start = n)
    BY <2>2
  <2> QED
    BY <2>1, <2>3
<1>3. ord - 1 \in start .. Len(A) /\ ord - 1 \in Nat
  BY <1>1, <1>2
<1>4. Part(Part(A, 0, ord), start, ord - 1) = Part(A, 0 + start, 0 + (ord - 1))
  <2>1. /\ 0 \in Nat /\ ord \in 0 .. Len(A) /\ start \in 0 .. ord - 0
        /\ ord - 1 \in start .. ord - 0
    BY <1>1, <1>2
  <2> QED
    BY <2>1, PartOfPart
<1>5. 0 + start = start /\ 0 + (ord - 1) = ord - 1
  BY <1>2
<1>6. page = Part(Part(A, 0, ord), start, ord - 1)
  BY DEF Part
<1> QED
  BY <1>2, <1>3, <1>4, <1>5, <1>6

LEMMA ServeBeforeWalks ==
    ASSUME CallsInv, WalksInv, NEW t \in Thread, ServeBefore(t) PROVE WalksInv'
<1> DEFINE r     == req[t]
           ord   == r.cursor.ordinal
           p     == Replayed(t).position
           found == RunResults(r.frame, r.time, 0, p)
           start == Max({0, ord - 1 - r.size})
           page  == SubSeq(found, start + 1, ord - 1)
           good  == Replayed(t).until
           until == Meet(CursorUntil(t), good)
           next  == Served(t, page, start, until)
           A     == Answer[r.frame][r.time]
<1>1. /\ r.pc = "accept" /\ Acceptable(t) /\ r.way = "before"
      /\ req' = [req EXCEPT ![t] = IF ~ Validates(t) THEN Idle ELSE next]
      /\ UNCHANGED <<qualified, frames, cursors, store>>
  BY Zenon DEF ServeBefore
<1>2. BegunOK(qualified, frames, r) /\ Known \subseteq DOMAIN r
  BY <1>1 DEF WalksInv, RequestOK, BegunOK
<1>3. /\ r.frame \in Frame /\ r.time \in Time /\ r.time \in Nat /\ r.size \in Nat \ {0}
      /\ r.cursor # Null /\ ord \in Nat \ {0}
  <2>1. r.frame = frames[r.basis] /\ r.basis \in 1 .. Len(frames) /\ frames \in Seq(Frame)
    BY <1>2 DEF BegunOK, WalksInv
  <2>2. r.time \in Time /\ r.size \in PageSize
    BY <1>2 DEF BegunOK
  <2>3. r.cursor # Null
    BY <1>1, <1>2 DEF BegunOK
  <2>4. ord \in Nat \ {0}
    BY <1>2, <2>3 DEF BegunOK, CursorOK, CursorRecord
  <2> HIDE DEF r
  <2>5. r.frame \in Frame
    BY <2>1
  <2>6. r.time \in Nat
    BY <2>2, WalksAssumption DEF Time
  <2>7. r.size \in Nat \ {0}
    BY <2>2, SizeIs
  <2> QED
    BY <2>2, <2>3, <2>4, <2>5, <2>6, <2>7
<1>4. CASE ~ Validates(t)
  <2>1. req' = [req EXCEPT ![t] = Idle]
    BY <1>1, <1>4
  <2> QED
    BY <1>1, <2>1, IdleRequestOK, OneRequestOnly
<1>5. CASE Validates(t)
  <2>1. req' = [req EXCEPT ![t] = next]
    BY <1>1, <1>5
  <2>2. /\ Stands(r.frame, r.time, ord, p, Replayed(t).pending, good)
        /\ p \in 0 .. Visited(r.frame)
        /\ found = Part(A, 0, ord)
        /\ ord <= Len(A)
    BY <1>2, <1>3, <1>5, ValidatedStands
  <2>3. CursorUntil(t) \in 1 .. Never /\ r.time < CursorUntil(t)
    BY <1>1, <1>2, CursorUntilIs
  <2>4. /\ SameCall(r, next) /\ {"page", "start", "until"} \subseteq DOMAIN next
        /\ next.page = page /\ next.start = start /\ next.until = until
        /\ next.pc = "deliver"
    <3> HIDE DEF page, start, until
    <3> QED
      BY <1>1, <1>2, ServedIs
  <2>5. A \in Sequences
    BY <1>3, ResultsAre
  <2>6. start \in Nat /\ ord - 1 \in start .. Len(A) /\ ord - 1 \in Nat
        /\ page = Part(A, start, ord - 1)
    <3>1. start = Max({0, ord - 1 - r.size}) /\ page = SubSeq(found, start + 1, ord - 1)
      OBVIOUS
    <3> HIDE DEF r, ord, A, start, found, page
    <3>2. Window(A, ord, r.size, start, found, page)
      BY <1>3, <2>2, <2>5, <3>1, Zenon DEF Window
    <3> QED
      BY <3>2, PageBefore
  <2>7. /\ good \in 1 .. Never /\ r.time < good /\ Stable(r.frame, r.time, good, p)
        /\ Found[r.frame][r.time][p] = ord + Len(Replayed(t).pending)
        /\ Len(Replayed(t).pending) \in 0 .. 1
    BY <2>2 DEF Stands
  <2>8. until \in 1 .. Never /\ r.time < until /\ until <= good
    <3> HIDE DEF r, good
    <3> QED
      BY <1>3, <2>3, <2>7, MeetIs
  <2>9. Stable(r.frame, r.time, until, p)
    <3>1. r.time <= r.time
      BY <1>3
    <3> HIDE DEF r, good, until, p
    <3> QED
      BY <1>3, <2>2, <2>7, <2>8, <3>1, StableLater
  <2>10. ord - 1 <= Found[r.frame][r.time][p]
    <3> HIDE DEF r, ord, p
    <3> QED
      BY <1>3, <2>7
  <2> HIDE DEF next, page, start, until, good, found, p, A, ord, r
  <2>11. r.mode = "pinned" /\ r.cursor # Null => r.time = r.cursor.original
    BY <1>1, <1>2, AcceptedInTime DEF r
  <2>12. PageOK(next)
    <3>1. /\ next.mode = r.mode /\ next.cursor = r.cursor /\ next.time = r.time
          /\ next.frame = r.frame /\ next.way = "before"
      BY <1>1, <2>4 DEF SameCall
    <3>2. LastOf(next) = ord - 1
      BY <3>1 DEF LastOf, ord
    <3>3. Good(r.frame, r.time, until, ord - 1)
      BY <2>2, <2>8, <2>9, <2>10 DEF Good
    <3> QED
      BY <2>4, <2>6, <2>8, <2>11, <3>1, <3>2, <3>3 DEF PageOK, A
  <2>13. BegunOK(qualified, frames, next)
    BY <1>2, <2>4, SameCallOK
  <2>14. RequestOK(qualified, frames, next)
    BY <2>4, <2>12, <2>13 DEF RequestOK
  <2> QED
    BY <1>1, <2>1, <2>14, OneRequestOnly
<1> QED
  BY <1>4, <1>5

-----------------------------------------------------------------------------
(* Publishing and delivering.                                              *)

LEMMA PeekWalks ==
    ASSUME CallsInv, WalksInv, NEW t \in Thread, Peek(t) PROVE WalksInv'
<1> DEFINE q    == req[t]
           seen == Resident(Minted(t))
<1>1. q.pc = "publish" /\ RequestOK(qualified, frames, q) /\ UNCHANGED <<qualified, frames, cursors, store>>
  BY DEF Peek, WalksInv
<1>2. /\ BegunOK(qualified, frames, q) /\ PageOK(q) /\ Publishing(q)
      /\ Known \subseteq DOMAIN q /\ {"page", "start", "until"} \subseteq DOMAIN q
      /\ {"lookahead", "position"} \subseteq DOMAIN q
  BY <1>1 DEF RequestOK, BegunOK, PageOK, Publishing
<1>3. CASE \A resident \in seen : ProgressNewer(Checkpoint(t), resident)
  <2> DEFINE r == Extended([q EXCEPT !.pc = "swap"], [seen |-> seen])
  <2>1. req' = [req EXCEPT ![t] = r]
    BY <1>3 DEF Peek
  <2> HIDE DEF seen, q
  <2>2. SameCall(q, r) /\ SamePage(q, r) /\ SameProgress(q, r) /\ r.pc = "swap"
    BY <1>2 DEF Extended, Known, SameCall, SamePage, SameProgress
  <2> HIDE DEF r
  <2>3. RequestOK(qualified, frames, r)
    BY <1>2, <2>2, SameCallOK, SamePageOK, SameProgressOK DEF RequestOK
  <2> QED
    BY <1>1, <2>1, <2>3, OneRequestOnly
<1>4. CASE ~ \A resident \in seen : ProgressNewer(Checkpoint(t), resident)
  <2> DEFINE r == [q EXCEPT !.pc = "deliver"]
  <2>1. req' = [req EXCEPT ![t] = r]
    BY <1>4 DEF Peek
  <2> HIDE DEF seen, q
  <2>2. SameCall(q, r) /\ SamePage(q, r) /\ r.pc = "deliver"
    BY <1>2 DEF Known, SameCall, SamePage
  <2> HIDE DEF r
  <2>3. RequestOK(qualified, frames, r)
    BY <1>2, <2>2, SameCallOK, SamePageOK DEF RequestOK
  <2> QED
    BY <1>1, <2>1, <2>3, OneRequestOnly
<1> QED
  BY <1>3, <1>4

LEMMA SwapWalks ==
    ASSUME CallsInv, WalksInv, NEW t \in Thread, Swap(t) PROVE WalksInv'
<1> DEFINE q == req[t]
<1>1. q.pc = "swap" /\ RequestOK(qualified, frames, q) /\ UNCHANGED <<qualified, frames, cursors>>
  BY DEF Swap, WalksInv
<1>2. /\ BegunOK(qualified, frames, q) /\ PageOK(q) /\ Publishing(q)
      /\ Known \subseteq DOMAIN q /\ {"page", "start", "until"} \subseteq DOMAIN q
      /\ {"lookahead", "position"} \subseteq DOMAIN q
  BY <1>1 DEF RequestOK, BegunOK, PageOK, Publishing
<1>3. PICK pc \in {"deliver", "publish"} : req' = [req EXCEPT ![t].pc = pc]
  BY DEF Swap
<1> DEFINE r == [q EXCEPT !.pc = pc]
<1>4. req' = [req EXCEPT ![t] = r]
  BY <1>3
<1>5. RequestOK(qualified, frames, r)
  <2> HIDE DEF q
  <2>1. SameCall(q, r) /\ SamePage(q, r) /\ SameProgress(q, r) /\ r.pc = pc
    BY <1>2 DEF Known, SameCall, SamePage, SameProgress
  <2>2. pc \in {"deliver", "publish"}
    BY <1>3
  <2> HIDE DEF r
  <2> QED
    BY <1>2, <2>1, <2>2, SameCallOK, SamePageOK, SameProgressOK DEF RequestOK
<1>6. EntryOK(Minted(t), Checkpoint(t))
  <2>1. Minted(t).kid = q.minting /\ Minted(t).frame = q.frame
    BY DEF Minted, CheckpointKey
  <2>2. Checkpoint(t) = CheckpointOf(q)
    BY DEF Checkpoint, CheckpointOf
  <2>3. q.minting \in Kid /\ q.frame \in Frame
    BY <1>2 DEF BegunOK, WalksInv
  <2>4. CheckpointOK(q.frame, CheckpointOf(q))
    BY <1>2 DEF Publishing
  <2> QED
    BY <2>1, <2>2, <2>3, <2>4 DEF EntryOK
<1>7. \A k \in DOMAIN store' :
        \/ k = Minted(t) /\ store'[k] = Checkpoint(t)
        \/ k \in DOMAIN store /\ store'[k] = store[k]
  <2>1. CASE store' = store
    BY <2>1
  <2>2. CASE Stored(Minted(t), Checkpoint(t))
    <3> DEFINE m == Minted(t)
               v == Checkpoint(t)
    <3>1. PICK held \in SUBSET (DOMAIN store \ {m}) :
            store' = [ j \in held \cup {m} |-> IF j = m THEN v ELSE store[j] ]
      BY <2>2, Zenon DEF Stored
    <3> HIDE DEF m, v
    <3>2. \A k \in DOMAIN store' :
            \/ k = m /\ store'[k] = v
            \/ k \in DOMAIN store /\ store'[k] = store[k]
      BY <3>1
    <3> QED
      BY <3>2 DEF m, v
  <2> QED
    BY <2>1, <2>2 DEF Swap
<1>8. /\ \A c \in cursors' : CursorOK(qualified, frames, c)
      /\ \A k \in DOMAIN store' : EntryOK(k, store'[k])
  <2>1. \A k \in DOMAIN store : EntryOK(k, store[k])
    BY DEF WalksInv
  <2>2. \A c \in cursors' : CursorOK(qualified, frames, c)
    BY <1>1 DEF WalksInv
  <2> HIDE DEF q, r
  <2> QED
    BY <1>6, <1>7, <2>1, <2>2, Zenon
<1> HIDE DEF r
<1> QED
  BY <1>1, <1>4, <1>5, <1>8, OneRequest

\* The cursors a page is delivered with.
LEMMA MintedCursorOK ==
    ASSUME WalksInv, NEW t \in Thread, BegunOK(qualified, frames, req[t]), PageOK(req[t]),
           req[t].page # <<>>,
           NEW ordinal \in {req[t].start + 1, req[t].start + Len(req[t].page)}
    PROVE  CursorOK(qualified, frames, CursorAt(t, ordinal))
<1> DEFINE r    == req[t]
           A    == Answer[r.frame][r.time]
           last == LastOf(r)
           n    == Len(r.page)
<1>1. /\ r.frame = frames[r.basis] /\ r.basis \in 1 .. Len(frames) /\ frames \in Seq(Frame)
      /\ r.time \in Time /\ r.minting \in Kid /\ r.mode \in {"live", "pinned"}
      /\ r.cursor # Null => CursorOK(qualified, frames, r.cursor)
      /\ r.consistency \in Consistency /\ (qualified \/ r.time = 0)
  BY DEF BegunOK, WalksInv
<1>2. r.frame \in Frame
  <2> HIDE DEF r
  <2> QED
    BY <1>1
<1>3. /\ r.start \in Nat /\ r.until \in 1 .. Never
      /\ last \in r.start .. Len(A) /\ r.page = Part(A, r.start, last)
      /\ Good(r.frame, r.time, r.until, last)
      /\ r.mode = "pinned" /\ r.cursor # Null => r.time = r.cursor.original
  BY DEF PageOK
<1>4. A \in Sequences
  BY <1>1, <1>2, ResultsAre
<1> HIDE DEF r, A, last
<1>5. /\ r.page \in Sequences /\ n = last - r.start
      /\ \A i \in 1 .. last - r.start : r.page[i] = A[r.start + i]
  <2>1. /\ Part(A, r.start, last) \in Sequences
        /\ Len(Part(A, r.start, last)) = last - r.start
        /\ \A i \in 1 .. last - r.start : Part(A, r.start, last)[i] = A[r.start + i]
    BY <1>3, <1>4, PartIs, Zenon
  <2> QED
    BY <1>3, <2>1, Zenon
<1>6. n # 0
  <2>1. CASE n = 0
    <3>1. last = r.start
      BY <1>3, <1>4, <1>5, <2>1 DEF Sequences
    <3>2. r.page = <<>>
      BY <1>3, <3>1, EmptyPart
    <3> QED
      BY <3>2 DEF r
  <2> QED
    BY <2>1
<1>7. last \in Nat /\ n \in Nat /\ last = r.start + n
  BY <1>3, <1>4, <1>5 DEF Sequences
<1>8. /\ ordinal \in Nat \ {0} /\ ordinal \in 0 .. last
      /\ ordinal - r.start \in 1 .. last - r.start
      /\ ordinal - r.start \in 1 .. Len(r.page)
      /\ r.start + (ordinal - r.start) = ordinal
  <2>1. ordinal = r.start + 1 \/ ordinal = r.start + n
    BY DEF r
  <2> HIDE DEF n
  <2>2. n >= 1 /\ r.start \in Nat /\ last = r.start + n /\ n \in Nat
    BY <1>3, <1>6, <1>7
  <2>3. n = Len(r.page)
    BY DEF n
  <2> QED
    BY <2>1, <2>2, <2>3
<1>9. r.page[ordinal - r.start] = A[ordinal] /\ r.page[ordinal - r.start] \in DOMAIN Deadline
  <2>1. r.page[ordinal - r.start] = A[r.start + (ordinal - r.start)]
    BY <1>5, <1>8
  <2>2. r.page[ordinal - r.start] \in DOMAIN Deadline
    BY <1>5, <1>8 DEF Sequences
  <2> QED
    BY <1>8, <2>1, <2>2
<1>10. Good(r.frame, r.time, r.until, ordinal)
  BY <1>1, <1>2, <1>3, <1>7, <1>8, GoodForLess
<1> DEFINE original == IF r.cursor = Null THEN r.time ELSE r.cursor.original
<1>11. /\ original \in Time /\ (r.mode = "pinned" => r.time = original)
       /\ qualified \/ original = 0
  BY <1>1, <1>3 DEF CursorOK, CursorRecord
<1> DEFINE c == CursorAt(t, ordinal)
<1>12. /\ c = [ kid |-> r.minting, mode |-> r.mode, consistency |-> r.consistency,
                ordinal |-> ordinal, boundary |-> r.page[ordinal - r.start],
                revision |-> r.basis, frame |-> r.frame, original |-> original,
                start |-> r.time, until |-> r.until ]
  BY DEF CursorAt, r
<1> HIDE DEF original, c
<1>13. r.basis \in Nat
  BY <1>1
<1>14. c \in CursorRecord
  BY <1>1, <1>2, <1>3, <1>8, <1>9, <1>11, <1>12, <1>13 DEF CursorRecord
<1>15. /\ c.kid = r.minting /\ c.mode = r.mode /\ c.ordinal = ordinal /\ c.revision = r.basis
       /\ c.frame = r.frame /\ c.original = original /\ c.start = r.time /\ c.until = r.until
       /\ c.boundary = r.page[ordinal - r.start]
  BY <1>12
<1>16. CursorOK(qualified, frames, c)
  BY <1>1, <1>9, <1>10, <1>11, <1>14, <1>15 DEF CursorOK, A
<1> QED
  BY <1>16 DEF c

LEMMA DeliverWalks ==
    ASSUME CallsInv, WalksInv, NEW t \in Thread, Deliver(t) PROVE WalksInv'
<1>1. req[t].pc = "deliver" /\ RequestOK(qualified, frames, req[t]) /\ UNCHANGED <<qualified, frames, store>>
      /\ req' = [req EXCEPT ![t] = Idle]
  BY DEF Deliver, WalksInv
<1>2. BegunOK(qualified, frames, req[t]) /\ PageOK(req[t])
  BY <1>1 DEF RequestOK
<1>3. \A c \in cursors : CursorOK(qualified, frames, c)
  BY DEF WalksInv
<1>4. \A c \in cursors' : CursorOK(qualified, frames, c)
  <2>1. CASE cursors' = cursors
    BY <1>3, <2>1
  <2>2. CASE req[t].page # <<>>
    <3>1. PICK ordinal \in {req[t].start + 1, req[t].start + Len(req[t].page)} :
            \E held \in SUBSET cursors : cursors' = held \cup {CursorAt(t, ordinal)}
      BY <2>2, Zenon DEF Deliver
    <3>2. CursorOK(qualified, frames, CursorAt(t, ordinal))
      BY <1>2, <2>2, <3>1, MintedCursorOK
    <3> QED
      BY <1>3, <3>1, <3>2
  <2> QED
    BY <2>1, <2>2 DEF Deliver
<1>5. \A k \in DOMAIN store' : EntryOK(k, store'[k])
  BY <1>1 DEF WalksInv
<1> QED
  BY <1>1, <1>4, <1>5, IdleRequestOK, OneRequest

LEMMA PageWalks ==
    ASSUME CallsInv, WalksInv, RingTyped, NEW t \in Thread, Page(t) PROVE WalksInv'
BY BeginWalks, ObserveWalks, ClaimWalks, RecoverWalks, RefuseWalks, ServeWalks,
   ServeBeforeWalks, PeekWalks, SwapWalks, DeliverWalks DEF Page

LEMMA NextWalks ==
    ASSUME CallsInv, WalksInv, RingTyped, [Next]_vars PROVE WalksInv'
<1>1. CASE Commit
  BY <1>1, CommitWalks
<1>2. CASE \E k \in DOMAIN store : Evict(k)
  BY <1>2, EvictWalks
<1>3. ASSUME NEW t \in Thread, Page(t) PROVE WalksInv'
  BY <1>3, PageWalks
<1>4. ASSUME NEW t \in Thread, Rotate(t) PROVE WalksInv'
  BY <1>4, WalksUntouched DEF Rotate, walkVars
<1>5. CASE UNCHANGED vars
  BY <1>5, WalksUntouched DEF vars, walkVars
<1> QED
  BY <1>1, <1>2, <1>3, <1>4, <1>5 DEF Next

-----------------------------------------------------------------------------
(* Types and bounds.                                                       *)

UpdateTyped(u) ==
    /\ u.pc \in {"idle", "swap"}
    /\ u.pc = "swap" =>
         /\ u.op \in {"add", "activate", "retire", "replace"}
         /\ u.op # "replace" => u.kid \in Kid
         /\ u.desired.keys \subseteq Kid

KeyringTyped == RingTyped /\ \A t \in Thread : UpdateTyped(update[t])

Bounded(S, n) == IsFiniteSet(S) /\ Cardinality(S) <= n

BoundsInv ==
    /\ KeyringTyped
    /\ observed \in 0 .. Cardinality(Kid)
    /\ Bounded(cursors, MaxCursors) /\ Bounded(DOMAIN store, MaxEntries)

LEMMA NoUpdateTyped == UpdateTyped(NoUpdate)
BY DEF UpdateTyped, NoUpdate

LEMMA KeyringTypedInitially == KeyringInit => KeyringTyped
<1> SUFFICES ASSUME KeyringInit PROVE KeyringTyped
  OBVIOUS
<1>1. PICK o \in Opening :
        ring = [ generation |-> 0, keys |-> o.keys, active |-> o.active, retired |-> {} ]
  BY DEF KeyringInit
<1>2. o.keys \subseteq Kid /\ o.active \in o.keys
  BY <1>1, OpeningAssumption
<1>3. 0 \in 0 .. MaxGeneration
  BY KeyringBoundsAssumption
<1>4. RingTyped
  BY <1>1, <1>2, <1>3 DEF RingTyped, Ring
<1>5. \A t \in Thread : UpdateTyped(update[t])
  BY NoUpdateTyped DEF KeyringInit
<1> QED
  BY <1>4, <1>5 DEF KeyringTyped

LEMMA OneUpdateTyped ==
    ASSUME KeyringInv, KeyringTyped, NEW t \in Thread, NEW u,
           update' = [update EXCEPT ![t] = u], UpdateTyped(u), RingTyped'
    PROVE  KeyringTyped'
<1>1. ASSUME NEW s \in Thread PROVE UpdateTyped(update'[s])
  <2>1. CASE s = t
    <3>1. update'[s] = u
      BY <2>1 DEF KeyringInv
    <3> QED
      BY <3>1
  <2>2. CASE s # t
    <3>1. update'[s] = update[s]
      BY <2>2 DEF KeyringInv
    <3> QED
      BY <3>1 DEF KeyringTyped
  <2> QED
    BY <2>1, <2>2
<1> QED
  BY <1>1 DEF KeyringTyped

LEMMA TryingTyped ==
    ASSUME RingTyped, NEW op \in {"add", "activate", "retire"}, NEW kid \in Kid, NEW n
    PROVE  UpdateTyped(Trying(op, kid, n))
<1>1. ring.keys \subseteq Kid
  BY DEF RingTyped, Ring
<1>2. Desired(op, kid, ring).keys \subseteq Kid
  <2>1. CASE op = "add"
    BY <1>1, <2>1 DEF Desired
  <2>2. CASE op = "activate"
    BY <1>1, <2>2 DEF Desired
  <2>3. CASE op = "retire"
    BY <1>1, <2>3 DEF Desired
  <2> QED
    BY <2>1, <2>2, <2>3
<1>3. /\ Trying(op, kid, n).pc = "swap" /\ Trying(op, kid, n).op = op
      /\ Trying(op, kid, n).kid = kid
      /\ Trying(op, kid, n).desired = Desired(op, kid, ring)
  BY DEF Trying
<1> QED
  BY <1>2, <1>3 DEF UpdateTyped

LEMMA InstallTyped ==
    ASSUME KeyringInv, KeyringTyped, NEW t \in Thread, Install(t) PROVE KeyringTyped'
<1> DEFINE prior   == update[t].prior
           desired == update[t].desired
<1>1. /\ update[t].pc = "swap" /\ ring.generation < MaxGeneration /\ StillInstalled(t)
      /\ ring' = IF Valid(prior, desired) THEN Successor(prior, desired) ELSE ring
      /\ update' = [update EXCEPT ![t] = NoUpdate]
  BY DEF Install
<1>2. RingTyped
  BY DEF KeyringTyped
<1>3. CASE ~ Valid(prior, desired)
  <2>1. ring' = ring
    BY <1>1, <1>3
  <2>2. RingTyped'
    BY <1>2, <2>1 DEF RingTyped, Ring
  <2> QED
    BY <1>1, <2>2, NoUpdateTyped, OneUpdateTyped
<1>4. CASE Valid(prior, desired)
  <2>1. prior = ring
    BY <1>1 DEF KeyringInv, UpdateOK, StillInstalled
  <2>2. desired.keys \subseteq Kid
    BY <1>1 DEF KeyringTyped, UpdateTyped
  <2>3. ring' = Successor(ring, desired)
    BY <1>1, <1>4, <2>1
  <2>4. desired.active \in desired.keys
    BY <1>4 DEF Valid
  <2>5. /\ ring.generation \in 0 .. MaxGeneration /\ ring.keys \subseteq Kid
        /\ ring.retired \subseteq Kid
    BY <1>2 DEF RingTyped, Ring
  <2>6. ring.generation + 1 \in 0 .. MaxGeneration
    BY <1>1, <2>5, KeyringBoundsAssumption
  <2>7. NowRetired(ring, desired.keys) \subseteq Kid
    BY <2>5 DEF NowRetired
  <2> HIDE DEF desired
  <2>8. Successor(ring, desired) \in Ring
    BY <2>2, <2>4, <2>6, <2>7 DEF Successor, Ring
  <2>9. Successor(ring, desired).active \in Successor(ring, desired).keys
    BY <2>4 DEF Successor
  <2>10. RingTyped'
    BY <2>3, <2>8, <2>9 DEF RingTyped, Ring
  <2> QED
    BY <1>1, <2>10, NoUpdateTyped, OneUpdateTyped
<1> QED
  BY <1>3, <1>4

LEMMA KeyringStepTyped ==
    ASSUME KeyringInv, KeyringTyped, NEW t \in Thread, KeyringStep(t) PROVE KeyringTyped'
<1>0. RingTyped
  BY DEF KeyringTyped
<1>1. CASE BeginUpdate(t)
  <2>1. PICK op \in {"add", "activate", "retire"}, kid \in Kid :
          update' = [update EXCEPT ![t] = Trying(op, kid, 1)]
    BY <1>1 DEF BeginUpdate
  <2>2. RingTyped'
    BY <1>0, <1>1 DEF BeginUpdate, RingTyped, Ring
  <2>3. UpdateTyped(Trying(op, kid, 1))
    BY <1>0, <2>1, TryingTyped
  <2> QED
    BY <2>1, <2>2, <2>3, OneUpdateTyped
<1>2. CASE BeginReplacement(t)
  <2>1. PICK keys \in SUBSET Kid : \E active \in keys :
          update' = [update EXCEPT ![t] =
                       [ pc |-> "swap", op |-> "replace", prior |-> ring,
                         desired |-> [ keys |-> keys, active |-> active ] ]]
    BY <1>2 DEF BeginReplacement
  <2>2. PICK active \in keys :
          update' = [update EXCEPT ![t] =
                       [ pc |-> "swap", op |-> "replace", prior |-> ring,
                         desired |-> [ keys |-> keys, active |-> active ] ]]
    BY <2>1
  <2>3. RingTyped'
    BY <1>0, <1>2 DEF BeginReplacement, RingTyped, Ring
  <2>4. UpdateTyped([ pc |-> "swap", op |-> "replace", prior |-> ring,
                      desired |-> [ keys |-> keys, active |-> active ] ])
    BY <2>1 DEF UpdateTyped
  <2> QED
    BY <2>2, <2>3, <2>4, OneUpdateTyped
<1>3. CASE Install(t)
  BY <1>3, InstallTyped
<1>4. CASE Conflict(t)
  <2> DEFINE u == update[t]
  <2>1. RingTyped'
    BY <1>0, <1>4 DEF Conflict, RingTyped, Ring
  <2>2. \/ update' = [update EXCEPT ![t] = NoUpdate]
        \/ /\ u.op # "replace"
           /\ update' = [update EXCEPT ![t] = Trying(u.op, u.kid, u.attempt + 1)]
    BY <1>4 DEF Conflict
  <2>3. CASE update' = [update EXCEPT ![t] = NoUpdate]
    BY <2>1, <2>3, NoUpdateTyped, OneUpdateTyped
  <2>4. CASE /\ u.op # "replace"
             /\ update' = [update EXCEPT ![t] = Trying(u.op, u.kid, u.attempt + 1)]
    <3>1. u.op \in {"add", "activate", "retire"} /\ u.kid \in Kid
      BY <1>4, <2>4 DEF Conflict, KeyringTyped, UpdateTyped
    <3>2. UpdateTyped(Trying(u.op, u.kid, u.attempt + 1))
      BY <1>0, <3>1, TryingTyped
    <3> QED
      BY <2>1, <2>4, <3>2, OneUpdateTyped
  <2> QED
    BY <2>2, <2>3, <2>4
<1> QED
  BY <1>1, <1>2, <1>3, <1>4 DEF KeyringStep

LEMMA KeyringUntouchedTyped == KeyringTyped /\ UNCHANGED keyringVars => KeyringTyped'
BY DEF keyringVars, KeyringTyped, RingTyped, Ring

LEMMA SmallerIsBounded ==
    ASSUME NEW S, NEW n \in Nat, Bounded(S, n), NEW T \in SUBSET S PROVE Bounded(T, n)
<1>1. IsFiniteSet(S) /\ Cardinality(S) <= n
  BY DEF Bounded
<1>2. IsFiniteSet(T) /\ Cardinality(T) <= Cardinality(S)
  BY <1>1, FS_Subset
<1>3. Cardinality(T) \in Nat /\ Cardinality(S) \in Nat
  BY <1>1, <1>2, FS_CardinalityType
<1>4. Cardinality(T) <= n
  BY <1>1, <1>2, <1>3
<1> QED
  BY <1>2, <1>4 DEF Bounded

\* What is held of the others leaves room for one more.
LEMMA RoomForOne ==
    ASSUME NEW others, IsFiniteSet(others), NEW n \in Nat \ {0}, NEW held \in SUBSET others,
           Cardinality(held) = Meet(Cardinality(others), n - 1), NEW x
    PROVE  Bounded(held \cup {x}, n)
<1>1. IsFiniteSet(held)
  BY FS_Subset
<1>2. Cardinality(held) \in Nat /\ Cardinality(others) \in Nat
  BY <1>1, FS_CardinalityType
<1>3. Cardinality(held) <= n - 1
  BY <1>2 DEF Meet
<1>4. /\ IsFiniteSet(held \cup {x})
      /\ Cardinality(held \cup {x}) =
           IF x \in held THEN Cardinality(held) ELSE Cardinality(held) + 1
  BY <1>1, FS_AddElement
<1>5. Cardinality(held \cup {x}) <= n
  BY <1>2, <1>3, <1>4
<1> QED
  BY <1>4, <1>5 DEF Bounded

LEMMA NothingIsBounded == ASSUME NEW n \in Nat PROVE Bounded({}, n)
BY FS_EmptySet DEF Bounded

LEMMA BoundsInitially == Init => BoundsInv
<1> SUFFICES ASSUME Init PROVE BoundsInv
  OBVIOUS
<1>1. KeyringTyped
  BY KeyringTypedInitially DEF Init
<1>2. observed \in 0 .. Cardinality(Kid)
  <2>1. Cardinality(Kid) \in Nat
    BY KeyringBoundsAssumption, FS_CardinalityType
  <2> QED
    BY <2>1 DEF Init
<1>3. cursors = {} /\ DOMAIN store = {}
  BY DEF Init
<1> QED
  BY <1>1, <1>2, <1>3, NothingIsBounded, WalksAssumption DEF BoundsInv

\* Steps that leave what is bounded alone, or drop some of it.
LEMMA BoundsKept ==
    ASSUME BoundsInv, KeyringTyped', UNCHANGED <<observed, cursors>>,
           DOMAIN store' \subseteq DOMAIN store
    PROVE  BoundsInv'
<1>1. Bounded(DOMAIN store', MaxEntries)
  BY SmallerIsBounded, WalksAssumption DEF BoundsInv
<1> QED
  BY <1>1 DEF BoundsInv, Bounded

LEMMA ClaimBounds ==
    ASSUME BoundsInv, WalksInv, NEW t \in Thread, Claim(t), KeyringTyped' PROVE BoundsInv'
<1>1. UNCHANGED cursors /\ DOMAIN store' \subseteq DOMAIN store
  BY DEF Claim
<1>2. CASE observed' = observed
  BY <1>1, <1>2, BoundsKept
<1>3. CASE observed' = Cardinality(req[t].retired)
  <2>1. req[t].retired \subseteq Kid
    BY DEF Claim, WalksInv, RequestOK, BegunOK
  <2>2. IsFiniteSet(req[t].retired) /\ Cardinality(req[t].retired) <= Cardinality(Kid)
    BY <2>1, FS_Subset, KeyringBoundsAssumption
  <2>3. Cardinality(req[t].retired) \in Nat /\ Cardinality(Kid) \in Nat
    BY <2>2, FS_CardinalityType, KeyringBoundsAssumption
  <2>4. observed' \in 0 .. Cardinality(Kid)
    BY <1>3, <2>2, <2>3
  <2>5. Bounded(DOMAIN store', MaxEntries)
    BY <1>1, SmallerIsBounded, WalksAssumption DEF BoundsInv
  <2> QED
    BY <1>1, <2>4, <2>5 DEF BoundsInv, Bounded
<1> QED
  BY <1>2, <1>3 DEF Claim

LEMMA SwapBounds ==
    ASSUME BoundsInv, NEW t \in Thread, Swap(t), KeyringTyped' PROVE BoundsInv'
<1>1. UNCHANGED <<observed, cursors>>
  BY DEF Swap
<1>2. CASE store' = store
  BY <1>1, <1>2, BoundsKept
<1>3. CASE Stored(Minted(t), Checkpoint(t))
  <2> DEFINE k == Minted(t)
             v == Checkpoint(t)
             others == DOMAIN store \ {k}
  <2>1. PICK held \in SUBSET others :
          /\ Cardinality(held) = Meet(Cardinality(others), MaxEntries - 1)
          /\ store' = [ j \in held \cup {k} |-> IF j = k THEN v ELSE store[j] ]
    BY <1>3, Zenon DEF Stored
  <2> HIDE DEF k, v
  <2>2. IsFiniteSet(others)
    <3>1. IsFiniteSet(DOMAIN store) /\ others \in SUBSET DOMAIN store
      BY DEF BoundsInv, Bounded
    <3> QED
      BY <3>1, FS_Subset
  <2>3. DOMAIN store' = held \cup {k}
    BY <2>1
  <2> HIDE DEF others
  <2>4. Bounded(held \cup {k}, MaxEntries)
    BY <2>1, <2>2, RoomForOne, WalksAssumption
  <2> QED
    BY <1>1, <2>3, <2>4 DEF BoundsInv, Bounded
<1> QED
  BY <1>2, <1>3 DEF Swap

LEMMA DeliverBounds ==
    ASSUME BoundsInv, NEW t \in Thread, Deliver(t), KeyringTyped' PROVE BoundsInv'
<1>1. UNCHANGED <<observed, store>>
  BY DEF Deliver
<1>2. CASE cursors' = cursors
  BY <1>1, <1>2, BoundsKept
<1>3. CASE req[t].page # <<>>
  <2>1. PICK ordinal \in {req[t].start + 1, req[t].start + Len(req[t].page)} :
          \E held \in SUBSET cursors :
            /\ Cardinality(held) = Meet(Cardinality(cursors), MaxCursors - 1)
            /\ cursors' = held \cup {CursorAt(t, ordinal)}
    BY <1>3, Zenon DEF Deliver
  <2>2. PICK held \in SUBSET cursors :
          /\ Cardinality(held) = Meet(Cardinality(cursors), MaxCursors - 1)
          /\ cursors' = held \cup {CursorAt(t, ordinal)}
    BY <2>1, Zenon
  <2>3. IsFiniteSet(cursors)
    BY DEF BoundsInv, Bounded
  <2> DEFINE x == CursorAt(t, ordinal)
  <2>4. cursors' = held \cup {x}
    BY <2>2
  <2> HIDE DEF x
  <2>5. Bounded(held \cup {x}, MaxCursors)
    BY <2>2, <2>3, RoomForOne, WalksAssumption
  <2> QED
    BY <1>1, <2>4, <2>5 DEF BoundsInv, Bounded
<1> QED
  BY <1>2, <1>3 DEF Deliver

LEMMA PageBounds ==
    ASSUME BoundsInv, WalksInv, NEW t \in Thread, Page(t) PROVE BoundsInv'
<1>1. KeyringTyped'
  BY PageLeavesKeyring, KeyringUntouchedTyped DEF BoundsInv
<1>2. CASE Begin(t)       BY <1>1, <1>2, BoundsKept DEF Begin
<1>3. CASE Observe(t)     BY <1>1, <1>3, BoundsKept DEF Observe
<1>4. CASE Recover(t)     BY <1>1, <1>4, BoundsKept DEF Recover
<1>5. CASE Refuse(t)      BY <1>1, <1>5, BoundsKept DEF Refuse
<1>6. CASE Serve(t)       BY <1>1, <1>6, BoundsKept DEF Serve
<1>7. CASE ServeBefore(t) BY <1>1, <1>7, BoundsKept DEF ServeBefore
<1>8. CASE Peek(t)        BY <1>1, <1>8, BoundsKept DEF Peek
<1> QED
  BY <1>1, <1>2, <1>3, <1>4, <1>5, <1>6, <1>7, <1>8, ClaimBounds, SwapBounds, DeliverBounds
  DEF Page

LEMMA NextBounds ==
    ASSUME KeyringInv, WalksInv, BoundsInv, [Next]_vars PROVE BoundsInv'
<1>0. KeyringTyped
  BY DEF BoundsInv
<1>1. CASE Commit
  <2>1. KeyringTyped'
    BY <1>0, <1>1, KeyringUntouchedTyped DEF Commit
  <2> QED
    BY <1>1, <2>1, BoundsKept DEF Commit
<1>2. ASSUME NEW k \in DOMAIN store, Evict(k) PROVE BoundsInv'
  <2>1. KeyringTyped'
    BY <1>0, <1>2, KeyringUntouchedTyped DEF Evict
  <2>2. DOMAIN store' \subseteq DOMAIN store
    BY <1>2 DEF Evict, Without
  <2> QED
    BY <1>2, <2>1, <2>2, BoundsKept DEF Evict
<1>3. ASSUME NEW t \in Thread, Page(t) PROVE BoundsInv'
  BY <1>3, PageBounds
<1>4. ASSUME NEW t \in Thread, Rotate(t) PROVE BoundsInv'
  <2>1. KeyringTyped'
    BY <1>0, <1>4, KeyringStepTyped DEF Rotate
  <2> QED
    BY <1>4, <2>1, BoundsKept DEF Rotate, walkVars
<1>5. CASE UNCHANGED vars
  <2>1. KeyringTyped'
    BY <1>0, <1>5, KeyringUntouchedTyped DEF vars
  <2> QED
    BY <1>5, <2>1, BoundsKept DEF vars, walkVars
<1> QED
  BY <1>1, <1>2, <1>3, <1>4, <1>5 DEF Next

-----------------------------------------------------------------------------
(* What follows of the invariant.                                          *)

\* The whole inductive invariant.
WIInv == IInv /\ WalksInv /\ BoundsInv

LEMMA InitWIInv == Init => WIInv
BY InitIInv, WalksInitially, BoundsInitially DEF WIInv

LEMMA NextWIInv == WIInv /\ [Next]_vars => WIInv'
<1> SUFFICES ASSUME WIInv, [Next]_vars PROVE WIInv'
  OBVIOUS
<1>1. IInv /\ KeyringInv /\ CallsInv /\ WalksInv /\ BoundsInv /\ RingTyped
  BY DEF WIInv, IInv, BoundsInv, KeyringTyped
<1>2. IInv'
  BY <1>1, NextIInv
<1>3. WalksInv'
  BY <1>1, NextWalks
<1>4. BoundsInv'
  BY <1>1, NextBounds
<1> QED
  BY <1>2, <1>3, <1>4 DEF WIInv

LEMMA EntryTyped ==
    ASSUME NEW f \in Frame, NEW v, CheckpointOK(f, v)
    PROVE  /\ v.ordinal \in 1 .. Visited(f) /\ v.position \in v.ordinal .. Visited(f)
           /\ Len(v.pending) <= 1
<1>1. /\ v.ordinal \in Nat \ {0} /\ v.start \in Time /\ v.position \in 0 .. Visited(f)
      /\ Len(v.pending) \in 0 .. 1
      /\ Found[f][v.start][v.position] = v.ordinal + Len(v.pending)
  BY DEF CheckpointOK, Stands
<1>2. Visited(f) \in Nat /\ Counts(Found[f][v.start], Visited(f))
  BY <1>1, Traversed, FoundCounts
<1>3. Found[f][v.start][v.position] \in 0 .. v.position
  BY <1>1, <1>2, CountsAtMost
<1>4. \A o \in Nat \ {0}, l \in 0 .. 1, p \in 0 .. Visited(f) : \A n \in 0 .. p :
        n = o + l => o \in 1 .. Visited(f) /\ p \in o .. Visited(f) /\ l <= 1
  BY <1>2
<1> QED
  BY <1>1, <1>3, <1>4, Zenon

LEMMA InvariantTyped == WIInv => TypeOK
<1> SUFFICES ASSUME WIInv PROVE TypeOK
  OBVIOUS
<1>1. WalksInv /\ BoundsInv
  BY DEF WIInv
<1>2. KeyringTypeOK
  BY <1>1 DEF BoundsInv, KeyringTyped, RingTyped, UpdateTyped, KeyringTypeOK
<1>3. ASSUME NEW k \in DOMAIN store
      PROVE  /\ k.kid \in Kid /\ k.frame \in Frame
             /\ store[k].ordinal \in 1 .. Visited(k.frame)
             /\ store[k].position \in store[k].ordinal .. Visited(k.frame)
             /\ Len(store[k].pending) <= 1
  <2>1. EntryOK(k, store[k])
    BY <1>1 DEF WalksInv
  <2> QED
    BY <2>1, EntryTyped DEF EntryOK
<1>4. /\ frames \in Seq(Frame) /\ Newest \in 1 .. MaxRevision
      /\ observed \in 0 .. Cardinality(Kid)
      /\ Cardinality(cursors) <= MaxCursors /\ Cardinality(DOMAIN store) <= MaxEntries
  BY <1>1 DEF WalksInv, BoundsInv, Bounded
<1> QED
  BY <1>2, <1>3, <1>4 DEF TypeOK

\* What a cursor has delivered is a prefix of the answer where it is accepted.
LEMMA AcceptedIsPrefix ==
    ASSUME WalksInv, NEW t \in Thread, req[t].pc = "accept", Acceptable(t), req[t].cursor # Null
    PROVE  LET r == req[t] IN
           /\ r.frame = frames[r.basis] /\ r.cursor.frame = frames[r.cursor.revision]
           /\ r.frame = r.cursor.frame /\ r.frame \in Frame /\ r.time \in Time
           /\ r.cursor.ordinal \in Nat \ {0}
           /\ r.cursor.boundary = Answer[r.frame][r.cursor.start][r.cursor.ordinal]
           /\ r.cursor.ordinal <= Len(Answer[r.frame][r.time])
           /\ Answer[r.frame][r.time][r.cursor.ordinal] =
                Answer[r.frame][r.cursor.start][r.cursor.ordinal]
           /\ SubSeq(Answer[r.frame][r.time], 1, r.cursor.ordinal) =
                SubSeq(Answer[r.frame][r.cursor.start], 1, r.cursor.ordinal)
<1> DEFINE r == req[t]
           c == r.cursor
<1>1. BegunOK(qualified, frames, r)
  BY DEF WalksInv, RequestOK
<1>2. CursorOK(qualified, frames, c) /\ c.start <= r.time /\ r.time < c.until /\ r.frame = c.frame
  BY <1>1, AcceptedInTime
<1>3. /\ c.frame = frames[c.revision] /\ c.ordinal \in Nat \ {0} /\ c.frame \in Frame
      /\ c.start \in Time /\ c.until \in 1 .. Never /\ Good(c.frame, c.start, c.until, c.ordinal)
      /\ c.boundary = Answer[c.frame][c.start][c.ordinal]
  BY <1>2 DEF CursorOK, CursorRecord
<1>4. r.time \in Time /\ r.frame = frames[r.basis]
  BY <1>1 DEF BegunOK
<1> HIDE DEF r, c
<1>5. c.ordinal \in Nat /\ c.ordinal \in 1 .. c.ordinal
  BY <1>3
<1>6. /\ c.ordinal <= Len(Answer[c.frame][r.time])
      /\ \A m \in 1 .. c.ordinal : Answer[c.frame][r.time][m] = Answer[c.frame][c.start][m]
      /\ SubSeq(Answer[c.frame][r.time], 1, c.ordinal) =
           SubSeq(Answer[c.frame][c.start], 1, c.ordinal)
  <2>1. Covers(c.frame, c.start, r.time, c.until, c.ordinal)
    BY <1>2, <1>3, <1>4, <1>5, Zenon DEF Covers
  <2>2. c.ordinal <= Len(Answer[c.frame][r.time])
    BY <2>1, GoodCarries
  <2>3. \A m \in 1 .. c.ordinal : Answer[c.frame][r.time][m] = Answer[c.frame][c.start][m]
    BY <2>1, GoodCarries
  <2>4. Part(Answer[c.frame][r.time], 0, c.ordinal) =
          Part(Answer[c.frame][c.start], 0, c.ordinal)
    BY <2>1, GoodCarries
  <2>5. SubSeq(Answer[c.frame][r.time], 1, c.ordinal) =
          SubSeq(Answer[c.frame][c.start], 1, c.ordinal)
    BY <2>4, FirstPart, Zenon
  <2> QED
    BY <2>2, <2>3, <2>5
<1>7. Answer[c.frame][r.time][c.ordinal] = Answer[c.frame][c.start][c.ordinal]
  BY <1>5, <1>6
<1> QED
  BY <1>2, <1>3, <1>4, <1>6, <1>7, Zenon DEF r, c

LEMMA InvariantAnswers == WIInv => WalksAreOneAnswer
<1> SUFFICES ASSUME WalksInv, NEW t \in Thread
             PROVE  LET r == req[t] IN
                    /\ r.pc = "accept" /\ Acceptable(t) /\ r.cursor # Null =>
                         SubSeq(Answer[frames[r.basis]][r.time], 1, r.cursor.ordinal) =
                           SubSeq(Answer[frames[r.cursor.revision]][r.cursor.start], 1,
                                  r.cursor.ordinal)
                    /\ r.pc = "deliver" =>
                         LET answer == Answer[frames[r.basis]][r.time] IN
                         /\ r.page = SubSeq(answer, r.start + 1,
                                            IF r.way = "before" THEN r.cursor.ordinal - 1
                                            ELSE Meet(r.start + r.size, Len(answer)))
                         /\ Allows(r.consistency, r.requested, r.basis)
  BY DEF WIInv, WalksAreOneAnswer
<1> DEFINE r == req[t]
<1>1. ASSUME r.pc = "accept", Acceptable(t), r.cursor # Null
      PROVE  SubSeq(Answer[frames[r.basis]][r.time], 1, r.cursor.ordinal) =
               SubSeq(Answer[frames[r.cursor.revision]][r.cursor.start], 1, r.cursor.ordinal)
  <2>1. /\ r.frame = frames[r.basis] /\ r.cursor.frame = frames[r.cursor.revision]
        /\ r.frame = r.cursor.frame
        /\ SubSeq(Answer[r.frame][r.time], 1, r.cursor.ordinal) =
             SubSeq(Answer[r.frame][r.cursor.start], 1, r.cursor.ordinal)
    BY <1>1, AcceptedIsPrefix
  <2> QED
    BY <2>1, Zenon
<1>2. ASSUME r.pc = "deliver"
      PROVE  LET answer == Answer[frames[r.basis]][r.time] IN
             /\ r.page = SubSeq(answer, r.start + 1,
                                IF r.way = "before" THEN r.cursor.ordinal - 1
                                ELSE Meet(r.start + r.size, Len(answer)))
             /\ Allows(r.consistency, r.requested, r.basis)
  <2>1. BegunOK(qualified, frames, r) /\ PageOK(r)
    BY <1>2 DEF WalksInv, RequestOK
  <2>2. r.frame = frames[r.basis] /\ Allows(r.consistency, r.requested, r.basis)
    BY <2>1 DEF BegunOK
  <2>3. r.page = SubSeq(Answer[r.frame][r.time], r.start + 1, LastOf(r))
    BY <2>1 DEF PageOK, Part
  <2>4. LastOf(r) = IF r.way = "before" THEN r.cursor.ordinal - 1
                    ELSE Meet(r.start + r.size, Len(Answer[r.frame][r.time]))
    BY DEF LastOf
  <2> HIDE DEF r
  <2> QED
    BY <2>2, <2>3, <2>4, Zenon
<1> QED
  BY <1>1, <1>2

\* A replay of as many results as there are ends on the last of them.
LEMMA ReplayReaches ==
    ASSUME NEW f \in Frame, NEW time \in Time, NEW ord \in Nat \ {0}, ord <= Len(Answer[f][time]),
           NEW p, p = RunEnd(f, time, 0, ord)
    PROVE  /\ Len(RunResults(f, time, 0, p)) = ord
           /\ RunResults(f, time, 0, p)[ord] = Answer[f][time][ord]
<1> DEFINE A == Answer[f][time]
           g == Found[f][time]
           v == Visited(f)
<1>1. Counts(g, v) /\ A \in Sequences /\ Len(A) = g[v] /\ g[0] = 0 /\ 0 \in 0 .. v
  <2>1. Counts(g, v)
    BY FoundCounts
  <2>2. A \in Sequences /\ Len(A) = g[v]
    BY ResultsAre
  <2> HIDE DEF A, g, v
  <2>3. g[0] = 0 /\ v \in Nat
    BY <2>1 DEF Counts
  <2> QED
    BY <2>1, <2>2, <2>3
<1>2. g[p] = Meet(g[0] + ord, g[v])
  BY <1>1, RunEnds
<1>3. RunResults(f, time, 0, p) = Part(A, g[0], g[p])
  BY RunFinds
<1> HIDE DEF A, g, v
<1>4. g[p] = ord
  BY <1>1, <1>2 DEF Meet, A, Sequences
<1>5. ord \in 0 .. Len(A) /\ ord \in 1 .. ord - 0 /\ 0 + ord = ord /\ ord - 0 = ord /\ 0 \in Nat
  BY <1>1 DEF A, Sequences
<1>6. Len(Part(A, 0, ord)) = ord - 0 /\ \A i \in 1 .. ord - 0 : Part(A, 0, ord)[i] = A[0 + i]
  BY <1>1, <1>5, PartIs
<1>7. Len(Part(A, 0, ord)) = ord /\ Part(A, 0, ord)[ord] = A[ord]
  BY <1>5, <1>6
<1> QED
  BY <1>1, <1>3, <1>4, <1>7 DEF A

\* A cursor that is accepted would be found again: a replay on the accepted basis
\* at the accepted time ends on its boundary (state-at-boundary).
AcceptedCursorsReplay ==
    \A t \in Thread :
      req[t].pc = "accept" /\ Acceptable(t) /\ req[t].cursor # Null => Validates(t)

LEMMA InvariantReplays == WIInv => AcceptedCursorsReplay
<1> SUFFICES ASSUME WalksInv, NEW t \in Thread, req[t].pc = "accept", Acceptable(t),
                    req[t].cursor # Null
             PROVE  Validates(t)
  BY DEF WIInv, AcceptedCursorsReplay
<1> DEFINE r   == req[t]
           ord == r.cursor.ordinal
           p   == RunEnd(r.frame, r.time, 0, ord)
<1>1. /\ r.frame \in Frame /\ r.time \in Time /\ ord \in Nat \ {0}
      /\ r.cursor.boundary = Answer[r.frame][r.cursor.start][ord]
      /\ ord <= Len(Answer[r.frame][r.time])
      /\ Answer[r.frame][r.time][ord] = Answer[r.frame][r.cursor.start][ord]
  BY AcceptedIsPrefix
<1>2. Replayed(t).position = p
  BY DEF Replayed
<1>3. p = RunEnd(r.frame, r.time, 0, ord)
  OBVIOUS
<1> HIDE DEF r, ord, p
<1>4. /\ Len(RunResults(r.frame, r.time, 0, p)) = ord
      /\ RunResults(r.frame, r.time, 0, p)[ord] = Answer[r.frame][r.time][ord]
  BY <1>1, <1>3, ReplayReaches
<1>5. RunResults(r.frame, r.time, 0, p)[ord] = r.cursor.boundary
  BY <1>1, <1>4, Zenon
<1> QED
  BY <1>2, <1>4, <1>5, Zenon DEF Validates, r, ord

\* Whatever is rotated, written, forgotten and walked at the same time, rings,
\* frames, epochs, cursors and checkpoints are of their types, and the store and
\* the cursors stay within their bounds (put-latest-checkpoint!, on-retirement!).
THEOREM WalksAreTyped == Spec => []TypeOK
<1> QED
  BY InitWIInv, NextWIInv, InvariantTyped, PTL DEF Spec

\* However a walk got to its page (a newer basis, its own again, another time, a
\* checkpoint of another walk, a replay), and however long the pages before were:
\* what was delivered before is a prefix of the answer at the basis and the time
\* its cursor is accepted for, and the page is what comes next in it, or just
\* before the edge, on a basis the call asked for (select-envelope-context,
\* state-at-boundary, deliver-page).
THEOREM PagesAreOfOneAnswer == Spec => []WalksAreOneAnswer
<1> QED
  BY InitWIInv, NextWIInv, InvariantAnswers, PTL DEF Spec

\* A cursor that is accepted is never found invalid afterwards: a replay on the
\* accepted basis at the accepted time ends on the cursor's boundary, so that a
\* forgotten checkpoint costs the work and not the walk (state-at-boundary).
THEOREM AcceptedCursorsAreReplayed == Spec => []AcceptedCursorsReplay
<1> QED
  BY InitWIInv, NextWIInv, InvariantReplays, PTL DEF Spec
=============================================================================
