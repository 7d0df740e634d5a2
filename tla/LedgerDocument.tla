--------------------------- MODULE LedgerDocument ---------------------------
(***************************************************************************)
(* The active-signal ledger as a document: what validate_ledger demands of *)
(* it, and what each public function of active_signal_ledger_v1.py reads   *)
(* from it and makes of it.  Every operator takes the document, so that    *)
(* the state machines that own a ledger file (ActiveSignalLedger,          *)
(* TerminalRefill, OwnerControl) share one reading of the code.            *)
(*                                                                         *)
(* Abstractions.  The two payload hashes and published_at, always written  *)
(* together and only ever compared, are one `payload`.  The occurrence     *)
(* time and reason of a transition are one `evidence`.  created_at,        *)
(* updated_at and entry_at, which no guard reads, are left out.            *)
(***************************************************************************)
EXTENDS Naturals, FiniteSets

CONSTANTS
    Modes,          \* trading styles
    ModeCapacity,   \* CAPACITY_BY_MODE, a function on Modes
    TotalCapacity,  \* TOTAL_CAPACITY
    Symbols,        \* spellings of trading pairs
    CanonicalPair,  \* normalize_pair, a function on Symbols
    None            \* Python's None

ASSUME CapacityAssumption ==
    /\ IsFiniteSet(Modes)
    /\ ModeCapacity \in [Modes -> Nat]
    /\ TotalCapacity \in Nat

ASSUME PairAssumption == DOMAIN CanonicalPair = Symbols

-----------------------------------------------------------------------------
(* Lifecycle and transaction states. *)

PendingEntry == "PUBLISHED_PENDING_ENTRY"
EntryActive  == "ENTRY_ACTIVE"

TerminalStates ==
    { "CLOSED_PROFIT", "CLOSED_STOP_LOSS", "CLOSED_MANUAL",
      "REJECTED_BY_OWNER", "CANCELLED", "EXPIRED", "INVALIDATED" }

LifecycleStates == {PendingEntry, EntryActive} \cup TerminalStates

Prepared  == "PREPARED"
Committed == "OCCUPANCY_COMMITTED"
Aborted   == "ABORTED"

\* dict[key] = value
Put(f, key, value) ==
    [k \in DOMAIN f \cup {key} |-> IF k = key THEN value ELSE f[k]]

\* A dict with no keys.
NoEntries == [k \in {} |-> None]

EmptyLedger ==
    [ revision     |-> 0,
      signals      |-> NoEntries,
      transitions  |-> NoEntries,
      transactions |-> NoEntries ]

-----------------------------------------------------------------------------
(* Reading the document.  A definition marked Fault is a plausible mistake *)
(* in the one that follows it; only the mutation runs use it.              *)

Occupants(L) == {s \in DOMAIN L.signals : L.signals[s].state = EntryActive}

\* Fault: entered signals are counted under their symbol.
ActiveInBySymbol(L, mode) == {s \in Occupants(L) : L.signals[s].symbol = mode}

ActiveIn(L, mode) == {s \in Occupants(L) : L.signals[s].mode = mode}

PairOf(record) == CanonicalPair[record.symbol]

\* The fields a signal takes over from its publication transaction.
Identity(record) ==
    <<record.delivery_id, record.mode, record.symbol, record.payload>>

WithinCapacity(L) ==
    /\ Cardinality(Occupants(L)) <= TotalCapacity
    /\ \A m \in Modes : Cardinality(ActiveIn(L, m)) <= ModeCapacity[m]

DistinctDeliveries(L) ==
    \A s, r \in DOMAIN L.signals :
        L.signals[s].delivery_id = L.signals[r].delivery_id => s = r

DistinctPairs(L) ==
    \A s, r \in Occupants(L) :
        PairOf(L.signals[s]) = PairOf(L.signals[r]) => s = r

TransitionsRegistered(L) ==
    \A t \in DOMAIN L.transitions :
        L.transitions[t].signal_id \in DOMAIN L.signals

CommittedAgree(L) ==
    \A x \in DOMAIN L.transactions :
        L.transactions[x].state = Committed =>
            LET s == L.transactions[x].signal_id
            IN  /\ s \in DOMAIN L.signals
                /\ Identity(L.signals[s]) = Identity(L.transactions[x])

\* _validate_signal: a signal has the fields of one, and no others.
IsSignal(s) ==
    s = [ delivery_id |-> s.delivery_id, mode |-> s.mode, symbol |-> s.symbol,
          payload |-> s.payload, state |-> s.state, terminal |-> s.terminal,
          last_transition_id |-> s.last_transition_id ]

Valid(L) ==
    /\ DistinctDeliveries(L)
    /\ DistinctPairs(L)
    /\ TransitionsRegistered(L)
    /\ CommittedAgree(L)
    /\ WithinCapacity(L)

-----------------------------------------------------------------------------
(* reserve_published_signal.  A request is what the caller passes: the     *)
(* transaction id and the publication it claims.                           *)

TransactionOf(request, state) ==
    [ signal_id               |-> request.signal_id,
      delivery_id             |-> request.delivery_id,
      mode                    |-> request.mode,
      symbol                  |-> request.symbol,
      payload                 |-> request.payload,
      reservation_transition_id |-> request.transition_id,
      state                   |-> state ]

\* The transaction is already recorded with the same identity.
ReservationKnown(L, request) ==
    /\ request.transaction_id \in DOMAIN L.transactions
    /\ LET known == L.transactions[request.transaction_id]
       IN  known = TransactionOf(request, known.state)

PendingConflict(L, request) ==
    \E x \in DOMAIN L.transactions :
        /\ L.transactions[x].state = Prepared
        /\ \/ L.transactions[x].signal_id # request.signal_id
           \/ L.transactions[x].delivery_id # request.delivery_id

\* Fault: collisions are looked for among signals, not among transactions.
ReservationAllowedAfterAbort(L, request, expected) ==
    /\ request.transaction_id \notin DOMAIN L.transactions
    /\ expected = L.revision
    /\ ~PendingConflict(L, request)
    /\ request.signal_id \notin DOMAIN L.signals
    /\ \A s \in DOMAIN L.signals :
          L.signals[s].delivery_id # request.delivery_id

\* Fault: a publication is turned away while its pair is occupied.
ReservationAllowedForFreePair(L, request, expected) ==
    /\ request.transaction_id \notin DOMAIN L.transactions
    /\ expected = L.revision
    /\ request.signal_id \notin DOMAIN L.signals
    /\ \A s \in Occupants(L) : PairOf(L.signals[s]) # CanonicalPair[request.symbol]

ReservationAllowed(L, request, expected) ==
    /\ request.transaction_id \notin DOMAIN L.transactions
    /\ expected = L.revision
    /\ ~PendingConflict(L, request)
    /\ request.signal_id \notin DOMAIN L.signals
    /\ \A s \in DOMAIN L.signals :
          L.signals[s].delivery_id # request.delivery_id
    /\ \A x \in DOMAIN L.transactions :
          /\ L.transactions[x].signal_id # request.signal_id
          /\ L.transactions[x].delivery_id # request.delivery_id

PublishedSignal(transaction) ==
    [ delivery_id |-> transaction.delivery_id,
      mode        |-> transaction.mode,
      symbol      |-> transaction.symbol,
      payload     |-> transaction.payload,
      state       |-> PendingEntry,
      terminal    |-> None,
      last_transition_id |-> transaction.reservation_transition_id ]

ReserveTransition(signal, revision) ==
    [ operation  |-> "RESERVE",
      signal_id  |-> signal,
      from_state |-> None,
      to_state   |-> PendingEntry,
      evidence   |-> None,
      revision   |-> revision ]

\* The signal record and RESERVE transition that a commit writes, over
\* whatever is recorded under those two ids.
CommitOccupancy(L, id) ==
    LET x == L.transactions[id] IN
    [ revision     |-> L.revision + 1,
      signals      |-> Put(L.signals, x.signal_id, PublishedSignal(x)),
      transitions  |-> Put(L.transitions, x.reservation_transition_id,
                           ReserveTransition(x.signal_id, L.revision + 1)),
      transactions |-> Put(L.transactions, id, [x EXCEPT !.state = Committed]) ]

\* candidate inserted, the revision still to be raised by the write.
WithCandidate(L, request) ==
    [ revision     |-> L.revision,
      signals      |-> L.signals,
      transitions  |-> L.transitions,
      transactions |-> Put(L.transactions, request.transaction_id,
                           TransactionOf(request, Prepared)) ]

Prepare(L, request) ==
    [WithCandidate(L, request) EXCEPT !.revision = L.revision + 1]

\* With the publication intent durable, the transaction is inserted and
\* committed in one write.
PrepareAndCommit(L, request) ==
    CommitOccupancy(WithCandidate(L, request), request.transaction_id)

\* A second call finds its own PREPARED transaction; no revision is compared.
ResumeAllowed(L, request) ==
    /\ ReservationKnown(L, request)
    /\ L.transactions[request.transaction_id].state = Prepared

-----------------------------------------------------------------------------
(* mark_entry_active *)

EntryTransition(signal, evidence, revision) ==
    [ operation  |-> "ENTRY",
      signal_id  |-> signal,
      from_state |-> PendingEntry,
      to_state   |-> EntryActive,
      evidence   |-> evidence,
      revision   |-> revision ]

EntryReplayed(L, id, signal, evidence) ==
    /\ signal \in DOMAIN L.signals
    /\ id \in DOMAIN L.transitions
    /\ L.transitions[id] =
          EntryTransition(signal, evidence, L.transitions[id].revision)

EntryHasCapacity(L, mode) ==
    /\ Cardinality(ActiveIn(L, mode)) < ModeCapacity[mode]
    /\ Cardinality(Occupants(L)) < TotalCapacity

\* Fault: a pair is exclusive within one style only.
PairIsFreeInMode(L, signal) ==
    \A other \in ActiveIn(L, L.signals[signal].mode) \ {signal} :
        PairOf(L.signals[other]) # PairOf(L.signals[signal])

PairIsFree(L, signal) ==
    \A other \in Occupants(L) \ {signal} :
        PairOf(L.signals[other]) # PairOf(L.signals[signal])

\* Fault: anything but an entered signal may be entered.
EntryAllowedFromTerminal(L, id, signal, expected) ==
    /\ signal \in DOMAIN L.signals
    /\ id \notin DOMAIN L.transitions
    /\ expected = L.revision
    /\ L.signals[signal].state # EntryActive
    /\ EntryHasCapacity(L, L.signals[signal].mode)
    /\ PairIsFree(L, signal)

EntryAllowed(L, id, signal, expected) ==
    /\ signal \in DOMAIN L.signals
    /\ id \notin DOMAIN L.transitions
    /\ expected = L.revision
    /\ L.signals[signal].state = PendingEntry
    /\ EntryHasCapacity(L, L.signals[signal].mode)
    /\ PairIsFree(L, signal)

Entered(L, id, signal, evidence) ==
    [ revision     |-> L.revision + 1,
      signals      |-> Put(L.signals, signal,
                           [L.signals[signal] EXCEPT
                               !.state = EntryActive,
                               !.last_transition_id = id]),
      transitions  |-> Put(L.transitions, id,
                           EntryTransition(signal, evidence, L.revision + 1)),
      transactions |-> L.transactions ]

-----------------------------------------------------------------------------
(* transition_terminal *)

TerminalTransition(signal, from, to, evidence, revision) ==
    [ operation  |-> "TERMINAL",
      signal_id  |-> signal,
      from_state |-> from,
      to_state   |-> to,
      evidence   |-> evidence,
      revision   |-> revision ]

TerminalReplayed(L, id, signal, state, evidence) ==
    /\ id \in DOMAIN L.transitions
    /\ L.transitions[id].operation = "TERMINAL"
    /\ L.transitions[id].signal_id = signal
    /\ L.transitions[id].to_state = state
    /\ L.transitions[id].evidence = evidence

\* The signal already carries this outcome under another transition id: the
\* call succeeds and its own id is not recorded.
TerminalAlready(L, id, signal, state, evidence, expected) ==
    /\ id \notin DOMAIN L.transitions
    /\ expected = L.revision
    /\ signal \in DOMAIN L.signals
    /\ L.signals[signal].state = state
    /\ L.signals[signal].terminal = evidence

\* Fault: the expected revision is not compared.
TerminalAllowedWhenStale(L, id, signal, state, expected) ==
    /\ id \notin DOMAIN L.transitions
    /\ signal \in DOMAIN L.signals
    /\ \/ L.signals[signal].state = PendingEntry
       \/ L.signals[signal].state = EntryActive /\ state # "EXPIRED"

\* Fault: a transition id may be used again.
TerminalAllowedReusingId(L, id, signal, state, expected) ==
    /\ expected = L.revision
    /\ signal \in DOMAIN L.signals
    /\ \/ L.signals[signal].state = PendingEntry
       \/ L.signals[signal].state = EntryActive /\ state # "EXPIRED"

\* Fault: a signal that has ended may end again.
TerminalAllowedAgain(L, id, signal, state, expected) ==
    /\ id \notin DOMAIN L.transitions
    /\ expected = L.revision
    /\ signal \in DOMAIN L.signals

TerminalAllowed(L, id, signal, state, expected) ==
    /\ id \notin DOMAIN L.transitions
    /\ expected = L.revision
    /\ signal \in DOMAIN L.signals
    /\ \/ L.signals[signal].state = PendingEntry
       \/ L.signals[signal].state = EntryActive /\ state # "EXPIRED"

\* Fault: the signal keeps pointing at its previous transition.
TerminatedWithOldPointer(L, id, signal, state, evidence) ==
    [ revision     |-> L.revision + 1,
      signals      |-> Put(L.signals, signal,
                           [L.signals[signal] EXCEPT
                               !.state = state,
                               !.terminal = evidence]),
      transitions  |-> Put(L.transitions, id,
                           TerminalTransition(signal, L.signals[signal].state,
                                              state, evidence, L.revision + 1)),
      transactions |-> L.transactions ]

Terminated(L, id, signal, state, evidence) ==
    [ revision     |-> L.revision + 1,
      signals      |-> Put(L.signals, signal,
                           [L.signals[signal] EXCEPT
                               !.state = state,
                               !.terminal = evidence,
                               !.last_transition_id = id]),
      transitions  |-> Put(L.transitions, id,
                           TerminalTransition(signal, L.signals[signal].state,
                                              state, evidence, L.revision + 1)),
      transactions |-> L.transactions ]

-----------------------------------------------------------------------------
(* reconcile_publication_state *)

ReconcileSettled(L, id, expected) ==
    /\ expected = L.revision
    /\ id \in DOMAIN L.transactions
    /\ L.transactions[id].state \in {Committed, Aborted}

ReconcileOpen(L, id, expected) ==
    /\ expected = L.revision
    /\ id \in DOMAIN L.transactions
    /\ L.transactions[id].state = Prepared

ArtifactMatches(L, id, artifact) ==
    /\ artifact.signal_id   = L.transactions[id].signal_id
    /\ artifact.delivery_id = L.transactions[id].delivery_id
    /\ artifact.payload     = L.transactions[id].payload

Abandon(L, id) ==
    [ revision     |-> L.revision + 1,
      signals      |-> L.signals,
      transitions  |-> L.transitions,
      transactions |-> Put(L.transactions, id,
                           [L.transactions[id] EXCEPT !.state = Aborted]) ]
=============================================================================
