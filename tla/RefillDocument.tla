--------------------------- MODULE RefillDocument ---------------------------
(***************************************************************************)
(* The style-refill request ledger as a document                           *)
(* (style_refill_request_ledger_v1.py): one request per terminal           *)
(* transition that released a slot, and what each operation makes of it.   *)
(*                                                                         *)
(* Abstractions.  A request id is the SHA-256 of the four identity fields; *)
(* here it is the tuple of them, which names a request as injectively.     *)
(* updated_at and completed_at, which no guard reads, are left out.        *)
(***************************************************************************)
EXTENDS Naturals, FiniteSets

CONSTANT None       \* Python's None

Pending   == "PENDING"
Claimed   == "CLAIMED"
Completed == "COMPLETED"
Cancelled == "CANCELLED"

Dispatched == "DISPATCHED"
StyleFull  == "STYLE_FULL"

CompletionOutcomes == {Dispatched, StyleFull, Cancelled}

\* The terminal states that release a slot to refill: neither of the two
\* outcomes the owner chooses by hand is among them.
RefillableStates ==
    { "CLOSED_PROFIT", "CLOSED_STOP_LOSS", "CANCELLED", "EXPIRED",
      "INVALIDATED" }

\* dict[key] = value
Assign(f, key, value) ==
    [k \in DOMAIN f \cup {key} |-> IF k = key THEN value ELSE f[k]]

Empty == [k \in {} |-> None]

EmptyRefillLedger == [revision |-> 0, requests |-> Empty, sources |-> Empty]

\* The evidence of one terminal transition: what the active ledger recorded
\* under its id, and the revision at which it did.
Release(transition, signal, mode, state, revision) ==
    [ transition |-> transition, signal |-> signal, mode |-> mode,
      state |-> state, revision |-> revision ]

RequestId(release) ==
    <<release.transition, release.signal, release.mode, release.state>>

-----------------------------------------------------------------------------
(* reconcile_terminal_transition *)

\* The release is recorded and equal in every field: nothing to do.
ReleaseKnown(R, release) ==
    /\ release.transition \in DOMAIN R.sources
    /\ R.sources[release.transition] = release

ReleaseAccepted(R, release) ==
    /\ release.state \in RefillableStates
    /\ release.transition \notin DOMAIN R.sources
    /\ RequestId(release) \notin DOMAIN R.requests

RecordRelease(R, release, at) ==
    [ revision |-> R.revision + 1,
      requests |-> Assign(R.requests, RequestId(release),
                          [ status     |-> Pending,
                            token      |-> None,
                            claimed_at |-> None,
                            outcome    |-> None,
                            attempts   |-> 0,
                            created_at |-> at ]),
      sources  |-> Assign(R.sources, release.transition, release) ]

-----------------------------------------------------------------------------
(* claim_refill_request, complete_refill_request *)

\* The caller's own token is on the request already.
ClaimRepeated(R, id, token, expected) ==
    /\ expected = R.revision
    /\ id \in DOMAIN R.requests
    /\ R.requests[id].status = Claimed
    /\ R.requests[id].token = token

ClaimAllowed(R, id, expected) ==
    /\ expected = R.revision
    /\ id \in DOMAIN R.requests
    /\ R.requests[id].status = Pending

ClaimedBy(R, id, token, at) ==
    [R EXCEPT !.revision = @ + 1,
              !.requests[id] = [@ EXCEPT !.status     = Claimed,
                                         !.token      = token,
                                         !.claimed_at = at,
                                         !.attempts   = R.requests[id].attempts + 1]]

CompletionRepeated(R, id, token, outcome, expected) ==
    /\ expected = R.revision
    /\ id \in DOMAIN R.requests
    /\ R.requests[id].status \in {Completed, Cancelled}
    /\ R.requests[id].token = token
    /\ R.requests[id].outcome = outcome

\* Fault: the claim token is not compared.
CompletionAllowedToAnyone(R, id, token, expected) ==
    /\ expected = R.revision
    /\ id \in DOMAIN R.requests
    /\ R.requests[id].status = Claimed

CompletionAllowed(R, id, token, expected) ==
    /\ expected = R.revision
    /\ id \in DOMAIN R.requests
    /\ R.requests[id].status = Claimed
    /\ R.requests[id].token = token

CompletedWith(R, id, outcome) ==
    [R EXCEPT !.revision = @ + 1,
              !.requests[id] =
                  [@ EXCEPT !.status  = IF outcome = Cancelled THEN Cancelled
                                                                ELSE Completed,
                            !.outcome = outcome]]

-----------------------------------------------------------------------------
(* recover_interrupted_claims *)

\* Timestamps are compared as text.  A stamp is [second, fraction], fraction 0
\* when it is absent: "...:00.5Z" sorts before "...:00Z", because '.' does.
TextBefore(a, b) ==
    \/ a.second < b.second
    \/ /\ a.second = b.second
       /\ a.fraction # 0
       /\ b.fraction = 0 \/ a.fraction < b.fraction

Interrupted(R, cutoff) ==
    {id \in DOMAIN R.requests :
        /\ R.requests[id].status = Claimed
        /\ TextBefore(R.requests[id].claimed_at, cutoff)}

Recovered(R, ids) ==
    [R EXCEPT !.revision = @ + 1,
              !.requests =
                  [id \in DOMAIN @ |->
                      IF id \in ids
                      THEN [@[id] EXCEPT !.status = Pending, !.token = None,
                                         !.claimed_at = None]
                      ELSE @[id]]]

-----------------------------------------------------------------------------
(* select_next_pending_refill *)

Waiting(R, modes) ==
    {id \in DOMAIN R.requests : R.requests[id].status = Pending /\ id[3] \in modes}

\* The oldest waiting request by the text of created_at; ties go to the
\* smallest digest, which is any of them.
Oldest(R, modes) ==
    {id \in Waiting(R, modes) :
        \A other \in Waiting(R, modes) :
            ~TextBefore(R.requests[other].created_at, R.requests[id].created_at)}
=============================================================================
