------------------------- MODULE SignalRegistration -------------------------
(***************************************************************************)
(* Registering a delivered publication in the active ledger                *)
(* (passive_published_signal_registration_v1): the ledger is read and      *)
(* compared first, and changed in a second operation of its own, under the *)
(* ledger's lock.  A repair differs from a registration in what it calls a *)
(* replay.                                                                 *)
(***************************************************************************)
EXTENDS LedgerDocument

VARIABLE ledger     \* the document in the active ledger file

\* _signal_identity_conflict
SignalConflict(L, request) ==
    IF request.signal_id \in DOMAIN L.signals
    THEN Identity(L.signals[request.signal_id]) # Identity(request)
    ELSE \E s \in DOMAIN L.signals : L.signals[s].delivery_id = request.delivery_id

\* _known_reservation_conflict
KnownConflict(L, request) ==
    \/ SignalConflict(L, request)
    \/ /\ request.transaction_id \in DOMAIN L.transactions
       /\ ~ReservationKnown(L, request)
    \/ /\ request.transaction_id \notin DOMAIN L.transactions
       /\ request.transition_id \in DOMAIN L.transitions

\* The document that reserve_published_signal returns, or None if it raises.
Reserved(L, request, expected) ==
    LET document == CASE ResumeAllowed(L, request)    -> CommitOccupancy(L, request.transaction_id)
                      [] ReservationKnown(L, request)
                         /\ ~ResumeAllowed(L, request) -> L
                      [] ReservationAllowed(L, request, expected) -> PrepareAndCommit(L, request)
                      [] OTHER                         -> None
    IN  IF document # None /\ Valid(document) THEN document ELSE None

\* _active_error, of the errors that are not about locking or writing.
Refused(L, request, expected) ==
    IF request.transaction_id \notin DOMAIN L.transactions /\ expected # L.revision
    THEN "ACTIVE_REVISION_CONFLICT"
    ELSE "IDENTITY_CONFLICT"

\* _matches_persisted: a signal that has moved on since does not match.
MatchesPersisted(L, request) ==
    /\ request.signal_id \in DOMAIN L.signals
    /\ LET signal == L.signals[request.signal_id]
       IN  /\ Identity(signal) = Identity(request)
           /\ signal.state = PendingEntry
           /\ signal.last_transition_id = request.transition_id
    /\ ReservationKnown(L, request)
    /\ L.transactions[request.transaction_id].state = Committed
    /\ request.transition_id \in DOMAIN L.transitions
    /\ L.transitions[request.transition_id].operation = "RESERVE"
    /\ L.transitions[request.transition_id].signal_id = request.signal_id

\* The end of _reserve: what the caller is told, from the revision it read
\* before and the document it got.
Classification(before, document, request, repair) ==
    CASE ~MatchesPersisted(document, request) -> "FAIL_CLOSED"
      [] MatchesPersisted(document, request) /\ document.revision = before + 1 ->
            "PUBLISHED_SIGNAL_REGISTERED"
      [] OTHER -> IF repair THEN "REGISTRATION_ALREADY_PRESENT"
                  ELSE "PUBLISHED_SIGNAL_REGISTRATION_REPLAYED"

RegisteredResults ==
    { "PUBLISHED_SIGNAL_REGISTERED", "PUBLISHED_SIGNAL_REGISTRATION_REPLAYED",
      "REGISTRATION_ALREADY_PRESENT" }
=============================================================================
