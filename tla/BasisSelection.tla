---------------------------- MODULE BasisSelection ----------------------------
(***************************************************************************)
(* How a request gets the one immutable database value it answers from,    *)
(* and how it gives it back.  A call captures the client's source          *)
(* lifecycle, authenticates its consistency token, acquires candidates     *)
(* from the backend until one satisfies it, checks that the candidate      *)
(* belongs to the lifecycle it captured, reads, and releases on every way  *)
(* out.  Candidates of Datalevin are native read transactions that only    *)
(* the thread that opened them may touch; those of Datomic and DataScript  *)
(* are borrowed values, and Datomic reaches a revision this peer has not   *)
(* seen by a bounded wait for a synchronisation it must cancel.  A host    *)
(* may keep a Snapshot, share it between threads and release it whenever   *)
(* it likes, while the writers move on and the history is replaced.        *)
(***************************************************************************)
EXTENDS Integers, Sequences, FiniteSets

CONSTANTS
    Thread,         \* threads that hold the client or a Snapshot of it
    Caller,         \* the threads that select bases of their own
    Wanted,         \* the tokens and cursors calls bring along
    Backend,        \* the backends explored
    Handle,         \* a supply of selected bases
    MaxRevision,    \* bound on the revisions of one history
    MaxLifecycle,   \* bound on source lifecycles (expire-cache!)
    MaxFailures,    \* bound on native releases that fail
    MaxKept,        \* bound on the Snapshots the host holds at once
    Null

ASSUME BackendAssumption == Backend \subseteq {"datalevin", "datomic", "datascript"}
ASSUME CallerAssumption == Caller \subseteq Thread /\ IsFiniteSet(Caller)
ASSUME BasisBoundsAssumption ==
    /\ MaxRevision \in Nat \ {0} /\ MaxLifecycle \in Nat \ {0}
    /\ MaxFailures \in Nat /\ MaxKept \in Nat
    \* two calls of a thread never run at once, and each holds two bases at most
    /\ Cardinality(Handle) >= 2 * Cardinality(Caller) + MaxKept

ASSUME WantedAssumption ==
    Wanted \subseteq [ lifecycle : 1 .. MaxLifecycle, revision : 1 .. MaxRevision ]

VARIABLES
    backend,        \* the backend of this client
    head,           \* the newest committed revision of the current history
    seen,           \* the revision this process has caught up with
    lifecycle,      \* the installed source lifecycle; it numbers the histories
    handle,         \* handle[h]: a selected basis, or Null
    syncs,          \* synchronisations the provider still works on
    req,            \* req[t]: the call thread t is making
    kept,           \* the bases of the Snapshots the host holds
    failures        \* native releases that failed so far

vars == <<backend, head, seen, lifecycle, handle, syncs, req, kept, failures>>

Mode  == {"current", "authoritative", "at-least", "exact"}
Stage == {"idle", "select", "acquire", "wait", "identify", "certify", "read", "release", "native"}

\* history and revision are what the native value holds; lifecycle is the
\* identity captured for it at acquisition, 0 before that.
Basis ==
    [ owner : Thread, history : 1 .. MaxLifecycle, revision : 0 .. MaxRevision,
      lifecycle : 0 .. MaxLifecycle, state : {"open", "releasing", "released"},
      closes : Nat ]

ASSUME NullAssumption == Null \notin Basis

Idle ==
    [ pc |-> "idle", kind |-> "read", mode |-> "current", token |-> Null,
      captured |-> 0, late |-> FALSE, held |-> <<>>, using |-> Null,
      then |-> "idle" ]

Init ==
    /\ backend \in Backend
    /\ head = 1
    /\ seen = 1
    /\ lifecycle = 1
    /\ handle = [h \in Handle |-> Null]
    /\ syncs = {}
    /\ req = [t \in Thread |-> Idle]
    /\ kept = {}
    /\ failures = 0

-----------------------------------------------------------------------------
Affine  == backend = "datalevin"
Synced  == backend = "datomic"
Visible == IF Synced THEN seen ELSE head

Held(t)    == req[t].held
Top(t)     == Held(t)[Len(Held(t))]
Candidate(t) == handle[Top(t)]
Recovering(t) == Len(Held(t)) = 2
Free       == {h \in Handle : handle[h] = Null}
FreeHandle == CHOOSE h \in Free : TRUE

\* Mutant: the constraint is checked nowhere.
AnyThreadTouches(t, h) == TRUE

\* snapshot-thread and release-thread are :acquiring-thread for Datalevin only.
MayTouch(t, h) == Affine => handle[h].owner = t

AssertOpen(t, h) == handle[h].state = "open" /\ MayTouch(t, h)

Goto(t, pc) == req' = [req EXCEPT ![t].pc = pc]

\* Every way out releases what the call holds before anything else happens.
\* Of a call that is over nothing else is remembered.
Unwound(t, then) ==
    LET call == IF then = "idle" THEN Idle ELSE [req[t] EXCEPT !.using = Null] IN
    IF Held(t) = <<>> THEN [call EXCEPT !.pc = then]
    ELSE [call EXCEPT !.pc = "release", !.held = Held(t), !.then = then]

Fail(t) == req' = [req EXCEPT ![t] = Unwound(t, "idle")]

-----------------------------------------------------------------------------
(* The world outside the call.                                             *)

Commit ==
    /\ head < MaxRevision
    /\ head' = head + 1
    /\ UNCHANGED <<backend, seen, lifecycle, handle, syncs, req, kept, failures>>

CatchUp ==
    /\ Synced /\ seen < head
    /\ seen' = seen + 1
    /\ UNCHANGED <<backend, head, lifecycle, handle, syncs, req, kept, failures>>

\* Mutant: the peer keeps the revision it had seen of the history before.
ReplaceHistoryOnly ==
    /\ lifecycle < MaxLifecycle
    /\ lifecycle' = lifecycle + 1
    /\ head' \in 0 .. head
    /\ UNCHANGED <<backend, seen, handle, syncs, req, kept, failures>>

\* A replaced database, announced by expire-cache!: revisions may start over.
ReplaceHistory ==
    /\ lifecycle < MaxLifecycle
    /\ lifecycle' = lifecycle + 1
    /\ head' \in 0 .. head
    /\ seen' = head'
    /\ UNCHANGED <<backend, handle, syncs, req, kept, failures>>

\* A call that is only giving back, or reads what the host keeps, ends anyway.
DeadlinePasses(t) ==
    /\ req[t].pc # "idle" /\ ~req[t].late
    /\ req[t].kind # "kept"
    /\ req[t].pc \in {"release", "native"} => req[t].then # "idle"
    /\ req' = [req EXCEPT ![t].late = TRUE]
    /\ UNCHANGED <<backend, head, seen, lifecycle, handle, syncs, kept, failures>>

\* The host drops its last reference to a released Snapshot.
Forget(h) ==
    /\ h \in kept /\ handle[h].state = "released"
    /\ \A t \in Thread : req[t].using # h /\ \A i \in DOMAIN Held(t) : Held(t)[i] # h
    /\ kept' = kept \ {h}
    /\ handle' = [handle EXCEPT ![h] = Null]
    /\ UNCHANGED <<backend, head, seen, lifecycle, syncs, req, failures>>

-----------------------------------------------------------------------------
(* Selecting: capture, authenticate, acquire.                              *)

Pending(t) == req[t].kind = "snapshot" /\ req[t].pc # "idle"

\* A page read may resume a cursor ("walk"); only a snapshot call keeps its basis.
Begin(t) ==
    /\ t \in Caller /\ req[t].pc = "idle"
    /\ \E kind \in {"read", "walk", "snapshot"}, mode \in Mode :
         \E token \in IF mode \in {"at-least", "exact"} THEN Wanted ELSE {Null} :
           /\ kind = "walk" => mode = "current" /\ Synced
           /\ mode = "authoritative" => Synced
           /\ kind = "snapshot" =>
                Cardinality(kept) + Cardinality({u \in Thread : Pending(u)}) < MaxKept
           /\ req' = [req EXCEPT ![t] =
                        [Idle EXCEPT !.pc = "select", !.kind = kind, !.mode = mode,
                                     !.token = token, !.captured = lifecycle]]
    /\ UNCHANGED <<backend, head, seen, lifecycle, handle, syncs, kept, failures>>

\* The capability and the token are judged before anything is acquired.
Authenticated(t) ==
    /\ ~req[t].late
    /\ req[t].mode = "exact" => Synced
    /\ req[t].token # Null => req[t].token.lifecycle = lifecycle

Select(t) ==
    /\ req[t].pc = "select"
    /\ IF Authenticated(t) THEN Goto(t, "acquire") ELSE Fail(t)
    /\ UNCHANGED <<backend, head, seen, lifecycle, handle, syncs, kept, failures>>

\* The native value exists before its identity is read; ownership is recorded
\* under the thread that opened it.
Opened(t, revision) ==
    /\ handle' = [handle EXCEPT ![FreeHandle] =
                    [ owner |-> t, history |-> lifecycle, revision |-> revision,
                      lifecycle |-> 0, state |-> "open", closes |-> 0 ]]
    /\ req' = [req EXCEPT ![t].pc = "identify", ![t].held = Append(@, FreeHandle)]

Requested(t) == IF req[t].mode \in {"at-least", "exact"} THEN req[t].token.revision ELSE 0
Answering(t, revision) == IF req[t].mode = "exact" THEN Requested(t) ELSE revision

\* Datomic's targeted wait is needed only below the floor; an authoritative
\* selection always synchronises, with what the transactor has committed.
MustSync(t)   == Synced /\ (req[t].mode = "authoritative" \/ Visible < Requested(t))
SyncTarget(t) == IF req[t].mode = "authoritative" THEN head ELSE Requested(t)

\* acquire-current!, acquire-authoritative!, acquire-at-least!, acquire-exact!
\* where they need not wait.  Datalevin returns whatever it finds: a first
\* candidate below the floor is closed and, after a pause, replaced by a second
\* one nobody looks at, which is the one opened here.
Acquire(t) ==
    /\ req[t].pc = "acquire" /\ ~req[t].late
    /\ ~MustSync(t)
    /\ Affine \/ Visible >= Requested(t)
    /\ Opened(t, Answering(t, Visible))
    /\ UNCHANGED <<backend, head, seen, lifecycle, syncs, kept, failures>>

\* The deadline is checked before each acquisition; DataScript polls until then.
AcquireTooLate(t) ==
    /\ req[t].pc = "acquire" /\ req[t].late
    /\ Fail(t)
    /\ UNCHANGED <<backend, head, seen, lifecycle, handle, syncs, kept, failures>>

StartSync(t) ==
    /\ req[t].pc = "acquire" /\ ~req[t].late
    /\ MustSync(t)
    /\ syncs' = syncs \cup {[caller |-> t, target |-> SyncTarget(t)]}
    /\ Goto(t, "wait")
    /\ UNCHANGED <<backend, head, seen, lifecycle, handle, kept, failures>>

MySyncs(t) == {s \in syncs : s.caller = t}

\* The provider answers once this peer has caught up.  A sync started before a
\* restore answers from the database that replaced it.
SyncAnswers(t) ==
    /\ req[t].pc = "wait"
    /\ \E s \in MySyncs(t) :
         /\ seen >= s.target
         /\ syncs' = syncs \ {s}
    /\ Opened(t, Answering(t, seen))
    /\ UNCHANGED <<backend, head, seen, lifecycle, kept, failures>>

\* Mutant: a timed-out wait leaves its synchronisation running.
LeaveSync(t) ==
    /\ req[t].pc = "wait" /\ req[t].late
    /\ Fail(t)
    /\ UNCHANGED <<backend, head, seen, lifecycle, handle, syncs, kept, failures>>

\* Timeout, interruption: the caller owns the cancellation.
GiveUpSync(t) ==
    /\ req[t].pc = "wait" /\ req[t].late
    /\ syncs' = syncs \ MySyncs(t)
    /\ Fail(t)
    /\ UNCHANGED <<backend, head, seen, lifecycle, handle, kept, failures>>

\* The synchronisation itself fails, and is over.
SyncFails(t) ==
    /\ req[t].pc = "wait" /\ failures < MaxFailures
    /\ syncs' = syncs \ MySyncs(t)
    /\ failures' = failures + 1
    /\ Fail(t)
    /\ UNCHANGED <<backend, head, seen, lifecycle, handle, kept>>

-----------------------------------------------------------------------------
(* Certifying a candidate.                                                 *)

\* adapter-semantic-identity reads the CURRENT lifecycle, after the fact.
Identify(t) ==
    /\ req[t].pc = "identify"
    /\ handle' = [handle EXCEPT ![Top(t)].lifecycle = lifecycle]
    /\ Goto(t, "certify")
    /\ UNCHANGED <<backend, head, seen, lifecycle, syncs, kept, failures>>

\* An acquisition core cannot certify is given back; no token, no cleanup else.
Reject(t) ==
    /\ req[t].pc = "identify" /\ failures < MaxFailures
    /\ failures' = failures + 1
    /\ Fail(t)
    /\ UNCHANGED <<backend, head, seen, lifecycle, handle, syncs, kept>>

\* The scope a token was authenticated for, not the one installed by now.
SameScope(t) == req[t].token # Null => Candidate(t).lifecycle = req[t].token.lifecycle

\* Mutant: what the backend returned for a floor is taken at its word.
NeverBehind(t) == FALSE

Behind(t) == req[t].mode = "at-least" /\ Candidate(t).revision < req[t].token.revision

Diverged(t) == req[t].mode = "exact" /\ Candidate(t).revision # req[t].token.revision

Rejected(t) == req[t].late \/ (~Behind(t) /\ (~SameScope(t) \/ Diverged(t)))

\* The basis must belong to the lifecycle the call captured, and that one must
\* still be installed.  A recovered cursor basis is compared with its cursor only.
Confirmed(t) ==
    \/ Recovering(t)
    \/ req[t].captured = lifecycle /\ Candidate(t).lifecycle = req[t].captured

Refuse(t) ==
    /\ req[t].pc = "certify" /\ Rejected(t)
    /\ Fail(t)
    /\ UNCHANGED <<backend, head, seen, lifecycle, handle, syncs, kept, failures>>

\* Mutant: each retry of the floor gets the whole timeout again.
RetryWithFreshDeadline(t) ==
    /\ req[t].pc = "certify" /\ Behind(t)
    /\ req' = [req EXCEPT ![t] = [Unwound(t, "acquire") EXCEPT !.late = FALSE]]
    /\ UNCHANGED <<backend, head, seen, lifecycle, handle, syncs, kept, failures>>

\* Below the floor: release the candidate, look again until the deadline.
Retry(t) ==
    /\ req[t].pc = "certify" /\ ~Rejected(t) /\ Behind(t)
    /\ req' = [req EXCEPT ![t] = Unwound(t, "acquire")]
    /\ UNCHANGED <<backend, head, seen, lifecycle, handle, syncs, kept, failures>>

\* The lifecycle rotated between the capture and the identity: release, and
\* start over under the one installed now.
StartOver(t) ==
    /\ req[t].pc = "certify" /\ ~Rejected(t) /\ ~Behind(t) /\ ~Confirmed(t)
    /\ req' = [req EXCEPT ![t] = [Unwound(t, "select") EXCEPT !.captured = lifecycle]]
    /\ UNCHANGED <<backend, head, seen, lifecycle, handle, syncs, kept, failures>>

\* What was captured is not looked at again.
Accept(t) ==
    /\ req[t].pc = "certify" /\ ~Rejected(t) /\ ~Behind(t) /\ Confirmed(t)
    /\ req' = [req EXCEPT ![t].pc = "read", ![t].using = Top(t), ![t].captured = 0]
    /\ UNCHANGED <<backend, head, seen, lifecycle, handle, syncs, kept, failures>>

-----------------------------------------------------------------------------
(* Reading, and giving back.                                               *)

\* A cursor whose proof no longer holds at the selected basis: the basis that
\* minted it is acquired while the first one is still held.
RecoverCursor(t) ==
    /\ req[t].pc = "read" /\ req[t].kind = "walk" /\ ~Recovering(t)
    /\ \E cursor \in Wanted :
         /\ cursor.lifecycle = Candidate(t).lifecycle
         /\ cursor.revision <= Candidate(t).revision
         /\ req' = [req EXCEPT ![t].pc = "acquire", ![t].mode = "exact",
                               ![t].token = cursor, ![t].using = Null]
    /\ UNCHANGED <<backend, head, seen, lifecycle, handle, syncs, kept, failures>>

\* The response is complete: the basis is given back, or given to the host.
Deliver(t) ==
    /\ req[t].pc = "read" /\ ~req[t].late
    /\ IF req[t].kind = "snapshot"
       THEN kept' = kept \cup {Top(t)} /\ req' = [req EXCEPT ![t] = Idle]
       ELSE kept' = kept /\ req' = [req EXCEPT ![t] = Unwound(t, "idle")]
    /\ UNCHANGED <<backend, head, seen, lifecycle, handle, syncs, failures>>

Abort(t) ==
    /\ req[t].pc = "read" /\ req[t].late
    /\ Fail(t)
    /\ UNCHANGED <<backend, head, seen, lifecycle, handle, syncs, kept, failures>>

\* A read through a Snapshot borrows its basis; its token is compared with the
\* identity the basis was selected under, never with a live one.
Covers(basis, mode, token) ==
    CASE mode = "current"  -> TRUE
      [] mode = "at-least" -> /\ token.lifecycle = basis.lifecycle
                              /\ basis.revision >= token.revision
      [] mode = "exact"    -> /\ token.lifecycle = basis.lifecycle
                              /\ basis.revision = token.revision
      [] OTHER -> FALSE

ReadKept(t, h) ==
    /\ req[t].pc = "idle" /\ h \in kept
    /\ AssertOpen(t, h)
    /\ \E mode \in {"current", "at-least", "exact"} :
         \E token \in IF mode = "current" THEN {Null} ELSE Wanted :
           /\ Covers(handle[h], mode, token)
           /\ req' = [req EXCEPT ![t] =
                        [Idle EXCEPT !.pc = "read", !.kind = "kept", !.mode = mode,
                                     !.token = token, !.using = h]]
    /\ UNCHANGED <<backend, head, seen, lifecycle, handle, syncs, kept, failures>>

\* eacl/release! by any thread, or a read that finds the Snapshot open and older
\* than :maximum-snapshot-retention-ms: the two do the same to the basis.
ReleaseKept(t, h) ==
    /\ req[t].pc = "idle" /\ h \in kept
    /\ MayTouch(t, h)
    /\ req' = [req EXCEPT ![t] =
                 [Idle EXCEPT !.pc = "release", !.kind = "kept", !.held = <<h>>]]
    /\ UNCHANGED <<backend, head, seen, lifecycle, handle, syncs, kept, failures>>

\* The call is done with the basis it took last, whatever became of it.
Dropped(t, then) ==
    LET rest == SubSeq(Held(t), 1, Len(Held(t)) - 1) IN
    LET call == IF then = "idle" THEN Idle ELSE req[t] IN
    IF rest # <<>> THEN [call EXCEPT !.held = rest, !.pc = "release", !.then = then]
    ELSE [call EXCEPT !.held = rest, !.pc = then, !.then = "idle"]

\* Mutant: the winner of a release is decided by a read, not by the swap.
WinsByReading(h) == handle[h].state # "released"

WinsRelease(h) == handle[h].state = "open"

\* compare-and-set! :open :releasing.  A loser either finds it released or
\* fails with release-in-progress; both are done with it.
BeginRelease(t) ==
    /\ req[t].pc = "release"
    /\ IF WinsRelease(Top(t))
       THEN /\ handle' = [handle EXCEPT ![Top(t)].state = "releasing"]
            /\ Goto(t, "native")
       ELSE /\ handle' = IF Top(t) \in kept \/ handle[Top(t)].state # "released"
                         THEN handle ELSE [handle EXCEPT ![Top(t)] = Null]
            /\ req' = [req EXCEPT ![t] = Dropped(t, req[t].then)]
    /\ UNCHANGED <<backend, head, seen, lifecycle, syncs, kept, failures>>

\* A transient basis is garbage once it is released; a Snapshot stays visible.
NativeRelease(t) ==
    /\ req[t].pc = "native"
    /\ handle' = [handle EXCEPT ![Top(t)] =
                    IF Top(t) \in kept
                    THEN [handle[Top(t)] EXCEPT !.state = "released", !.closes = @ + 1]
                    ELSE Null]
    /\ req' = [req EXCEPT ![t] = Dropped(t, req[t].then)]
    /\ UNCHANGED <<backend, head, seen, lifecycle, syncs, kept, failures>>

\* A failed native release is not a closed resource: a Snapshot can be released
\* again.  A transient basis is out of everybody's reach from here on; the caller
\* was told (snapshot-release-failed), and it is not followed any further.
NativeReleaseFails(t) ==
    /\ req[t].pc = "native" /\ failures < MaxFailures
    /\ failures' = failures + 1
    /\ handle' = [handle EXCEPT ![Top(t)] =
                    IF Top(t) \in kept THEN [@ EXCEPT !.state = "open"] ELSE Null]
    /\ req' = [req EXCEPT ![t] = Dropped(t, "idle")]
    /\ UNCHANGED <<backend, head, seen, lifecycle, syncs, kept>>

-----------------------------------------------------------------------------
Call(t) ==
    \/ Select(t) \/ Acquire(t) \/ AcquireTooLate(t) \/ StartSync(t) \/ SyncAnswers(t) \/ GiveUpSync(t)
    \/ Identify(t) \/ Refuse(t) \/ Retry(t) \/ StartOver(t) \/ Accept(t)
    \/ Deliver(t) \/ Abort(t) \/ BeginRelease(t) \/ NativeRelease(t)

Mishap(t) == SyncFails(t) \/ Reject(t) \/ NativeReleaseFails(t)

Next ==
    \/ Commit \/ CatchUp \/ ReplaceHistory
    \/ \E h \in Handle : Forget(h)
    \/ \E t \in Thread :
         \/ Begin(t) \/ RecoverCursor(t) \/ DeadlinePasses(t)
         \/ Call(t) \/ Mishap(t)
         \/ \E h \in Handle : ReadKept(t, h) \/ ReleaseKept(t, h)

\* Threads are scheduled and clocks advance; nobody promises a commit, a
\* synchronisation that catches up, or a host that releases anything.
Fairness ==
    /\ \A t \in Thread : WF_vars(Call(t))
    /\ \A t \in Caller : WF_vars(DeadlinePasses(t))

Spec == Init /\ [][Next]_vars /\ Fairness

-----------------------------------------------------------------------------
TypeOK ==
    /\ backend \in Backend
    /\ head \in 0 .. MaxRevision /\ seen \in 0 .. head
    /\ lifecycle \in 1 .. MaxLifecycle
    /\ handle \in [Handle -> Basis \cup {Null}]
    /\ \A t \in Thread : req[t].pc \in Stage /\ Len(req[t].held) <= 2
    /\ kept \subseteq Handle
    /\ failures \in 0 .. MaxFailures

\* The native release of one basis succeeds at most once, two calls never
\* attempt it together, and no basis counts as released while it is still
\* open: however many threads release a Snapshot, a release fails and is
\* retried, or a read that found it too old releases it first (release!).
ReleasedOnce ==
    \A h \in Handle : handle[h] # Null =>
        /\ handle[h].closes <= 1
        /\ handle[h].closes = 1 <=> handle[h].state = "released"
        /\ Cardinality({t \in Thread : req[t].pc = "native" /\ Top(t) = h}) <= 1

\* No thread reads a native value that another call is closing or has closed:
\* owned snapshots are read, and released, by the thread that opened them
\* (assert-open!, require-owner-thread!).
ReadsAreOpen ==
    Affine =>
        \A t \in Thread : req[t].pc = "read" =>
            /\ handle[req[t].using] # Null
            /\ handle[req[t].using].state = "open"
            /\ handle[req[t].using].owner = t

\* Whatever failed, timed out, was retried or recovered: an open basis is held
\* by a running call or by the host, save one whose failed release was reported; a
\* running synchronisation has a caller that waits for it
\* (release-after-selection-error!, release-selected-after-error!, cancel-waiter!).
NothingLeaks ==
    /\ \A h \in Handle : handle[h] # Null =>
         \/ h \in kept
         \/ \E t \in Thread : \E i \in DOMAIN Held(t) : Held(t)[i] = h
    /\ \A s \in syncs : req[s.caller].pc = "wait"

\* What is answered under a token came from the history the token names, at or
\* beyond its floor or exactly at its revision, however the candidate was found
\* and although the history may be replaced, and revisions start over, at any
\* moment in between (select-source-at-least!, source-selected-adapter!).
TokensHonoured ==
    \A t \in Thread :
        req[t].pc = "read" /\ req[t].token # Null =>
            LET basis == handle[req[t].using] IN
            /\ basis.history = req[t].token.lifecycle
            /\ IF req[t].mode = "exact"
               THEN basis.revision = req[t].token.revision
               ELSE basis.revision >= req[t].token.revision

\* Every call returns: the wait for a synchronisation and the retries for a
\* floor share one deadline, and start over only when the lifecycle rotates.
EveryRequestEnds == \A t \in Thread : req[t].pc # "idle" ~> req[t].pc = "idle"
=============================================================================
