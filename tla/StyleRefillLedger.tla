-------------------------- MODULE StyleRefillLedger --------------------------
(***************************************************************************)
(* The refill request ledger and the workers that claim its requests: a    *)
(* worker loads the document, picks the oldest pending request, claims it  *)
(* under a token and later completes it; a supervisor puts claims that     *)
(* look interrupted back to PENDING, whether or not the worker is alive.   *)
(* Each operation runs under the lock file and is one atomic step; a       *)
(* rejected one changes nothing.                                           *)
(*                                                                         *)
(* A crashed worker is one that never completes: every worker may stop     *)
(* after its claim, and a token is used by one worker for one attempt or   *)
(* presented again by a retry.                                             *)
(***************************************************************************)
EXTENDS RefillDocument, SequencesExt

CONSTANTS
    Workers,
    Tokens,         \* claim tokens
    Releases,       \* terminal transitions that release a slot
    Seconds,        \* seconds of the clock
    Fractions,      \* fractions of a second, 0 when the stamp has none
    MaxRevision,    \* bound on the ledger revision
    MaxAttempts     \* bound on claims of one request

ASSUME BoundAssumption ==
    /\ Seconds \subseteq Nat
    /\ Fractions \subseteq Nat
    /\ MaxRevision \in Nat
    /\ MaxAttempts \in Nat

VARIABLES
    refill,         \* the document in the refill ledger file
    observed,       \* [Workers -> the revision each last saw]
    now,            \* the clock, a stamp
    claims,         \* history: [request id -> tokens of its claims, in order]
    finishes        \* history: [request id -> tokens that finished it]

vars == <<refill, observed, now, claims, finishes>>

RequestIds == {RequestId(r) : r \in Releases}

Stamps == [second : Seconds, fraction : Fractions]

\* The stamps that follow s in time.
Later(s) ==
    {t \in Stamps : \/ t.second > s.second
                    \/ t.second = s.second /\ t.fraction > s.fraction}

Init ==
    /\ refill = EmptyRefillLedger
    /\ observed = [w \in Workers |-> 0]
    /\ now \in {s \in Stamps : \A t \in Stamps : s.second <= t.second}
    /\ claims = [id \in RequestIds |-> <<>>]
    /\ finishes = [id \in RequestIds |-> <<>>]

Returned(w, R) == observed' = [observed EXCEPT ![w] = R.revision]

Persist(w, R) ==
    /\ R.revision <= MaxRevision
    /\ refill' = R
    /\ Returned(w, R)

Reread(w) ==
    /\ UNCHANGED <<refill, claims, finishes>>
    /\ Returned(w, refill)

LoadRefillLedger(w) == Reread(w) /\ UNCHANGED now

\* `expected` is None when the caller does not compare revisions.
ReconcileTerminalTransition(w, release, expected) ==
    /\ expected \in {None, refill.revision}
    /\ \/ ReleaseKnown(refill, release) /\ Reread(w)
       \/ /\ ReleaseAccepted(refill, release)
          /\ Persist(w, RecordRelease(refill, release, now))
          /\ UNCHANGED <<claims, finishes>>
    /\ UNCHANGED now

ClaimRefillRequest(w, id, token) ==
    /\ \/ ClaimRepeated(refill, id, token, observed[w]) /\ Reread(w)
       \/ /\ ClaimAllowed(refill, id, observed[w])
          /\ refill.requests[id].attempts < MaxAttempts
          /\ Persist(w, ClaimedBy(refill, id, token, now))
          /\ claims' = [claims EXCEPT ![id] = Append(@, token)]
          /\ UNCHANGED finishes
    /\ UNCHANGED now

\* select_next_pending_refill, then a claim of what it selected.
ClaimNextPending(w, token, modes) ==
    \E id \in Oldest(refill, modes) : ClaimRefillRequest(w, id, token)

CompleteRefillRequest(w, id, token, outcome) ==
    /\ \/ CompletionRepeated(refill, id, token, outcome, observed[w]) /\ Reread(w)
       \/ /\ CompletionAllowed(refill, id, token, observed[w])
          /\ Persist(w, CompletedWith(refill, id, outcome))
          /\ finishes' = [finishes EXCEPT ![id] = Append(@, token)]
          /\ UNCHANGED claims
    /\ UNCHANGED now

RecoverInterruptedClaims(w, cutoff) ==
    /\ observed[w] = refill.revision
    /\ \/ Interrupted(refill, cutoff) = {} /\ Reread(w)
       \/ /\ Interrupted(refill, cutoff) # {}
          /\ Persist(w, Recovered(refill, Interrupted(refill, cutoff)))
          /\ UNCHANGED <<claims, finishes>>
    /\ UNCHANGED now

Tick ==
    /\ now' \in Later(now)
    /\ UNCHANGED <<refill, observed, claims, finishes>>

Next ==
    \/ Tick
    \/ \E w \in Workers :
          \/ LoadRefillLedger(w)
          \/ \E r \in Releases, e \in {None, observed[w]} :
                ReconcileTerminalTransition(w, r, e)
          \/ \E t \in Tokens :
                \/ ClaimNextPending(w, t, {r.mode : r \in Releases})
                \/ \E id \in RequestIds :
                      \/ ClaimRefillRequest(w, id, t)
                      \/ \E o \in CompletionOutcomes :
                            CompleteRefillRequest(w, id, t, o)
          \/ \E cutoff \in {s \in Stamps : s = now \/ now \in Later(s)} :
                RecoverInterruptedClaims(w, cutoff)

Spec == Init /\ [][Next]_vars

-----------------------------------------------------------------------------
(* Safety. *)

\* Whoever holds a request is the one who claimed it last, and that one alone
\* finishes it, once: a worker whose claim was taken back can neither finish
\* the request nor lend its token to a later attempt.
LatestClaimHolds ==
    \A id \in DOMAIN refill.requests :
        LET request == refill.requests[id]
        IN  /\ request.status # Pending =>
                  claims[id] # <<>> /\ request.token = Last(claims[id])
            /\ finishes[id] = IF request.status \in {Completed, Cancelled}
                              THEN <<request.token>> ELSE <<>>
=============================================================================
