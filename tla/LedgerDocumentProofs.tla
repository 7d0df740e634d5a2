------------------------- MODULE LedgerDocumentProofs -------------------------
(***************************************************************************)
(* Facts about the ledger document and what the functions of               *)
(* active_signal_ledger_v1 make of it, for every document: the guards of   *)
(* an operation imply what validate_ledger asks of its result.  The proofs *)
(* about the state machines that own a ledger file rest on them.           *)
(***************************************************************************)
EXTENDS LedgerDocument, FiniteSetTheorems, TLAPS

-----------------------------------------------------------------------------
(* Records. *)

\* What a dict holds after an assignment.
LEMMA PutValues ==
    ASSUME NEW f, NEW k, NEW v
    PROVE  /\ DOMAIN Put(f, k, v) = DOMAIN f \cup {k}
           /\ Put(f, k, v)[k] = v
           /\ \A j \in DOMAIN f : j # k => Put(f, k, v)[j] = f[j]
  BY DEF Put

\* The fields of a signal.
SignalOf(d, mode, symbol, payload, state, terminal, last) ==
    [ delivery_id |-> d, mode |-> mode, symbol |-> symbol, payload |-> payload,
      state |-> state, terminal |-> terminal, last_transition_id |-> last ]

\* A signal whose state, and whose terminal evidence, are set is one still.
EnteredSignal(signal, id) ==
    [signal EXCEPT !.state = EntryActive, !.last_transition_id = id]

EndedSignal(signal, to, evidence, id) ==
    [signal EXCEPT !.state = to, !.terminal = evidence, !.last_transition_id = id]

LEMMA MovedSignal ==
    ASSUME NEW signal, IsSignal(signal), NEW to, NEW evidence, NEW id
    PROVE  /\ EnteredSignal(signal, id) =
                 SignalOf(signal.delivery_id, signal.mode, signal.symbol,
                          signal.payload, EntryActive, signal.terminal, id)
           /\ EndedSignal(signal, to, evidence, id) =
                 SignalOf(signal.delivery_id, signal.mode, signal.symbol,
                          signal.payload, to, evidence, id)
<1> DEFINE entered == SignalOf(signal.delivery_id, signal.mode, signal.symbol,
                               signal.payload, EntryActive, signal.terminal, id)
           ended == SignalOf(signal.delivery_id, signal.mode, signal.symbol,
                             signal.payload, to, evidence, id)
<1>1. signal = SignalOf(signal.delivery_id, signal.mode, signal.symbol, signal.payload,
                        signal.state, signal.terminal, signal.last_transition_id)
  BY DEF IsSignal, SignalOf
<1>2. EnteredSignal(signal, id) = entered /\ EndedSignal(signal, to, evidence, id) = ended
  <2> DEFINE Fields(state, terminal, last) ==
                SignalOf(signal.delivery_id, signal.mode, signal.symbol, signal.payload,
                         state, terminal, last)
  <2>1. ASSUME NEW next
        PROVE  [signal EXCEPT !.state = next] =
                  Fields(next, signal.terminal, signal.last_transition_id)
    BY <1>1 DEF SignalOf
  <2>2. [Fields(EntryActive, signal.terminal, signal.last_transition_id)
            EXCEPT !.last_transition_id = id] = entered
    BY DEF SignalOf
  <2>3. [Fields(to, signal.terminal, signal.last_transition_id)
            EXCEPT !.terminal = evidence] = Fields(to, evidence, signal.last_transition_id)
    BY DEF SignalOf
  <2>4. [Fields(to, evidence, signal.last_transition_id)
            EXCEPT !.last_transition_id = id] = ended
    BY DEF SignalOf
  <2>5. /\ [signal EXCEPT !.state = EntryActive] =
              Fields(EntryActive, signal.terminal, signal.last_transition_id)
        /\ [signal EXCEPT !.state = to] =
              Fields(to, signal.terminal, signal.last_transition_id)
    <3> HIDE DEF Fields
    <3> QED BY <2>1
  <2> HIDE DEF Fields, entered, ended
  <2>6. [signal EXCEPT !.state = EntryActive, !.last_transition_id = id] = entered
    BY <2>2, <2>5
  <2>7. [signal EXCEPT !.state = to, !.terminal = evidence] =
           Fields(to, evidence, signal.last_transition_id)
    BY <2>3, <2>5
  <2>8. [signal EXCEPT !.state = to, !.terminal = evidence, !.last_transition_id = id] = ended
    BY <2>4, <2>7
  <2> QED BY <2>6, <2>8 DEF EnteredSignal, EndedSignal
<1> QED BY <1>2

\* A signal that moves on is one still, of the same publication.
LEMMA MovedIsSignal ==
    ASSUME NEW signal, IsSignal(signal), NEW to, NEW evidence, NEW id
    PROVE  /\ IsSignal(EnteredSignal(signal, id))
           /\ Identity(EnteredSignal(signal, id)) = Identity(signal)
           /\ EnteredSignal(signal, id).delivery_id = signal.delivery_id
           /\ EnteredSignal(signal, id).mode = signal.mode
           /\ EnteredSignal(signal, id).symbol = signal.symbol
           /\ EnteredSignal(signal, id).payload = signal.payload
           /\ EnteredSignal(signal, id).state = EntryActive
           /\ IsSignal(EndedSignal(signal, to, evidence, id))
           /\ Identity(EndedSignal(signal, to, evidence, id)) = Identity(signal)
           /\ EndedSignal(signal, to, evidence, id).delivery_id = signal.delivery_id
           /\ EndedSignal(signal, to, evidence, id).payload = signal.payload
           /\ EndedSignal(signal, to, evidence, id).state = to
<1> DEFINE Fields(state, terminal) ==
              SignalOf(signal.delivery_id, signal.mode, signal.symbol, signal.payload,
                       state, terminal, id)
<1>1. ASSUME NEW state, NEW terminal
      PROVE  /\ IsSignal(Fields(state, terminal))
             /\ Identity(Fields(state, terminal)) = Identity(signal)
             /\ Fields(state, terminal).delivery_id = signal.delivery_id
             /\ Fields(state, terminal).mode = signal.mode
             /\ Fields(state, terminal).symbol = signal.symbol
             /\ Fields(state, terminal).payload = signal.payload
             /\ Fields(state, terminal).state = state
  BY DEF IsSignal, SignalOf, Identity
<1>2. /\ EnteredSignal(signal, id) = Fields(EntryActive, signal.terminal)
      /\ EndedSignal(signal, to, evidence, id) = Fields(to, evidence)
  BY MovedSignal
<1> HIDE DEF Fields
<1> QED BY <1>1, <1>2

\* A transaction has the fields of one.
IsTransaction(x) ==
    x = [ signal_id |-> x.signal_id, delivery_id |-> x.delivery_id, mode |-> x.mode,
          symbol |-> x.symbol, payload |-> x.payload,
          reservation_transition_id |-> x.reservation_transition_id, state |-> x.state ]

\* What a commit makes of the transaction, and the signal it writes.
LEMMA SettledTransaction ==
    ASSUME NEW x, IsTransaction(x)
    PROVE  /\ IsTransaction([x EXCEPT !.state = Committed])
           /\ [x EXCEPT !.state = Committed].signal_id = x.signal_id
           /\ [x EXCEPT !.state = Committed].delivery_id = x.delivery_id
           /\ [x EXCEPT !.state = Committed].payload = x.payload
           /\ [x EXCEPT !.state = Committed].state = Committed
           /\ Identity([x EXCEPT !.state = Committed]) = Identity(PublishedSignal(x))
           /\ IsSignal(PublishedSignal(x))
           /\ PublishedSignal(x).state = PendingEntry
           /\ PublishedSignal(x).delivery_id = x.delivery_id
           /\ PublishedSignal(x).payload = x.payload
<1> DEFINE settled ==
              [ signal_id |-> x.signal_id, delivery_id |-> x.delivery_id, mode |-> x.mode,
                symbol |-> x.symbol, payload |-> x.payload,
                reservation_transition_id |-> x.reservation_transition_id,
                state |-> Committed ]
<1>1. [x EXCEPT !.state = Committed] = settled
  BY DEF IsTransaction
<1>2. /\ IsTransaction(settled)
      /\ settled.signal_id = x.signal_id
      /\ settled.delivery_id = x.delivery_id
      /\ settled.payload = x.payload
      /\ settled.state = Committed
      /\ Identity(settled) = Identity(PublishedSignal(x))
  BY DEF IsTransaction, Identity, PublishedSignal
<1>3. /\ IsSignal(PublishedSignal(x))
      /\ PublishedSignal(x).state = PendingEntry
      /\ PublishedSignal(x).delivery_id = x.delivery_id
      /\ PublishedSignal(x).payload = x.payload
  BY DEF IsSignal, PublishedSignal
<1> HIDE DEF settled
<1> QED BY <1>1, <1>2, <1>3

\* What a caller asks for becomes a transaction with its identity.
LEMMA RequestedTransaction ==
    ASSUME NEW request, NEW state
    PROVE  /\ IsTransaction(TransactionOf(request, state))
           /\ TransactionOf(request, state).signal_id = request.signal_id
           /\ TransactionOf(request, state).delivery_id = request.delivery_id
           /\ TransactionOf(request, state).payload = request.payload
           /\ TransactionOf(request, state).state = state
           /\ TransactionOf(request, state).reservation_transition_id = request.transition_id
  BY DEF IsTransaction, TransactionOf

-----------------------------------------------------------------------------
(* Capacity. *)

\* A document with no more occupants is within capacity if the first one was.
LEMMA FewerOccupants ==
    ASSUME NEW L, NEW M, IsFiniteSet(DOMAIN L.signals),
           Occupants(M) \subseteq Occupants(L),
           \A s \in Occupants(M) : M.signals[s].mode = L.signals[s].mode,
           WithinCapacity(L)
    PROVE  WithinCapacity(M)
<1>1. IsFiniteSet(Occupants(L))
  BY FS_Subset DEF Occupants
<1>2. Cardinality(Occupants(M)) <= TotalCapacity
  <2>1. /\ IsFiniteSet(Occupants(M))
        /\ Cardinality(Occupants(M)) <= Cardinality(Occupants(L))
    BY <1>1, FS_Subset
  <2>2. /\ Cardinality(Occupants(M)) \in Nat
        /\ Cardinality(Occupants(L)) \in Nat
    BY <1>1, <2>1, FS_CardinalityType
  <2> QED BY <2>1, <2>2, CapacityAssumption DEF WithinCapacity
<1>3. ASSUME NEW m \in Modes
      PROVE  Cardinality(ActiveIn(M, m)) <= ModeCapacity[m]
  <2>1. ActiveIn(M, m) \subseteq ActiveIn(L, m)
    BY DEF ActiveIn
  <2>2. IsFiniteSet(ActiveIn(L, m))
    BY <1>1, FS_Subset DEF ActiveIn
  <2>3. /\ IsFiniteSet(ActiveIn(M, m))
        /\ Cardinality(ActiveIn(M, m)) <= Cardinality(ActiveIn(L, m))
    BY <2>1, <2>2, FS_Subset
  <2>4. /\ Cardinality(ActiveIn(M, m)) \in Nat
        /\ Cardinality(ActiveIn(L, m)) \in Nat
        /\ ModeCapacity[m] \in Nat
    BY <2>2, <2>3, FS_CardinalityType, CapacityAssumption
  <2> QED BY <2>3, <2>4 DEF WithinCapacity
<1> QED BY <1>2, <1>3 DEF WithinCapacity

\* One more occupant fits where the guard of mark_entry_active found room.
LEMMA OneMoreOccupant ==
    ASSUME NEW L, NEW M, NEW e, IsFiniteSet(DOMAIN L.signals),
           Occupants(M) = Occupants(L) \cup {e},
           \A s \in Occupants(L) : M.signals[s].mode = L.signals[s].mode,
           e \notin Occupants(L),
           EntryHasCapacity(L, M.signals[e].mode),
           WithinCapacity(L)
    PROVE  WithinCapacity(M)
<1>1. IsFiniteSet(Occupants(L))
  BY FS_Subset DEF Occupants
<1>2. Cardinality(Occupants(M)) <= TotalCapacity
  <2>1. Cardinality(Occupants(M)) = Cardinality(Occupants(L)) + 1
    BY <1>1, FS_AddElement
  <2>2. Cardinality(Occupants(L)) \in Nat
    BY <1>1, FS_CardinalityType
  <2> QED BY <2>1, <2>2, CapacityAssumption DEF EntryHasCapacity
<1>3. ASSUME NEW m \in Modes
      PROVE  Cardinality(ActiveIn(M, m)) <= ModeCapacity[m]
  <2>1. IsFiniteSet(ActiveIn(L, m))
    BY <1>1, FS_Subset DEF ActiveIn
  <2>2. Cardinality(ActiveIn(L, m)) \in Nat /\ ModeCapacity[m] \in Nat
    BY <2>1, FS_CardinalityType, CapacityAssumption
  <2>3. CASE m = M.signals[e].mode
    <3>1. ActiveIn(M, m) = ActiveIn(L, m) \cup {e} /\ e \notin ActiveIn(L, m)
      BY <2>3 DEF ActiveIn
    <3>2. Cardinality(ActiveIn(M, m)) = Cardinality(ActiveIn(L, m)) + 1
      BY <2>1, <3>1, FS_AddElement
    <3> QED BY <2>2, <2>3, <3>2 DEF EntryHasCapacity
  <2>4. CASE m # M.signals[e].mode
    <3>1. ActiveIn(M, m) = ActiveIn(L, m)
      BY <2>4 DEF ActiveIn
    <3> QED BY <3>1 DEF WithinCapacity
  <2> QED BY <2>3, <2>4
<1> QED BY <1>2, <1>3 DEF WithinCapacity

-----------------------------------------------------------------------------
(* Validity. *)

\* A document that differs in no occupant, transition or signal but opens
\* a PREPARED transaction is as valid as before.
LEMMA CandidateIsValid ==
    ASSUME NEW L, Valid(L), NEW request, request.transaction_id \notin DOMAIN L.transactions,
           NEW K, K.signals = L.signals, K.transitions = L.transitions,
           K.transactions = WithCandidate(L, request).transactions
    PROVE  Valid(K)
<1>1. DistinctDeliveries(K) /\ TransitionsRegistered(K)
  BY DEF Valid, DistinctDeliveries, TransitionsRegistered
<1>2. Occupants(K) = Occupants(L)
  BY DEF Occupants
<1>3. DistinctPairs(K)
  BY <1>2 DEF Valid, DistinctPairs
<1>4. \A m : ActiveIn(K, m) = ActiveIn(L, m)
  BY <1>2 DEF ActiveIn
<1>5. WithinCapacity(K)
  BY <1>2, <1>4 DEF Valid, WithinCapacity
<1>6. CommittedAgree(K)
  <2> SUFFICES ASSUME NEW x \in DOMAIN K.transactions,
                      K.transactions[x].state = Committed
               PROVE  /\ x \in DOMAIN L.transactions
                      /\ K.transactions[x] = L.transactions[x]
    BY DEF Valid, CommittedAgree
  <2>1. K.transactions = Put(L.transactions, request.transaction_id,
                             TransactionOf(request, Prepared))
    BY DEF WithCandidate
  <2>2. x # request.transaction_id
    BY <2>1 DEF Put, TransactionOf, Prepared, Committed
  <2> QED BY <2>1, <2>2 DEF Put
<1> QED BY <1>1, <1>3, <1>5, <1>6 DEF Valid

\* Committing a transaction whose signal and delivery are not in the document
\* yet keeps it valid: nothing is overwritten.
LEMMA CommitIsValid ==
    ASSUME NEW L, IsFiniteSet(DOMAIN L.signals), Valid(L),
           NEW id \in DOMAIN L.transactions, IsTransaction(L.transactions[id]),
           \A s \in DOMAIN L.signals :
              /\ s # L.transactions[id].signal_id
              /\ L.signals[s].delivery_id # L.transactions[id].delivery_id
    PROVE  Valid(CommitOccupancy(L, id))
<1> DEFINE x == L.transactions[id]
           settled == [x EXCEPT !.state = Committed]
           T == Put(L.transactions, id, settled)
           S == Put(L.signals, x.signal_id, PublishedSignal(x))
           C == CommitOccupancy(L, id)
<1>1. /\ settled.signal_id = x.signal_id
      /\ Identity(settled) = Identity(PublishedSignal(x))
      /\ PublishedSignal(x).state = PendingEntry
      /\ PublishedSignal(x).delivery_id = x.delivery_id
  BY SettledTransaction
<1>2. /\ DOMAIN T = DOMAIN L.transactions
      /\ T[id] = settled
      /\ \A y \in DOMAIN L.transactions : y # id => T[y] = L.transactions[y]
  BY DEF Put
<1>3. /\ DOMAIN S = DOMAIN L.signals \cup {x.signal_id}
      /\ S[x.signal_id] = PublishedSignal(x)
      /\ \A s \in DOMAIN L.signals : s # x.signal_id => S[s] = L.signals[s]
  BY DEF Put
<1>4. /\ C.transactions = T
      /\ C.signals = S
      /\ C.transitions = Put(L.transitions, x.reservation_transition_id,
                             ReserveTransition(x.signal_id, L.revision + 1))
  BY DEF CommitOccupancy
<1>5. \A s \in DOMAIN L.signals :
          s # x.signal_id /\ L.signals[s].delivery_id # x.delivery_id
  OBVIOUS
<1> HIDE DEF settled, T, S, C
<1>6. DistinctDeliveries(C)
  BY <1>1, <1>3, <1>4, <1>5 DEF Valid, DistinctDeliveries
<1>7. /\ Occupants(C) = Occupants(L)
      /\ \A s \in Occupants(C) : C.signals[s] = L.signals[s]
  BY <1>1, <1>3, <1>4, <1>5 DEF Occupants, PendingEntry, EntryActive
<1>8. DistinctPairs(C)
  BY <1>7 DEF Valid, DistinctPairs
<1>9. TransitionsRegistered(C)
  BY <1>3, <1>4 DEF Valid, TransitionsRegistered, Put, ReserveTransition
<1>10. CommittedAgree(C)
  BY <1>1, <1>2, <1>3, <1>4, <1>5 DEF Valid, CommittedAgree
<1>11. WithinCapacity(C)
  BY <1>7, FewerOccupants DEF Valid
<1> QED BY <1>6, <1>8, <1>9, <1>10, <1>11 DEF Valid, C

\* What the guard of a reservation accepts can be written: validate_ledger
\* finds nothing wrong with the document it makes.
LEMMA ReservationIsValid ==
    ASSUME NEW L, IsFiniteSet(DOMAIN L.signals), Valid(L), NEW request, NEW expected,
           ReservationAllowed(L, request, expected)
    PROVE  Valid(PrepareAndCommit(L, request))
<1> DEFINE K == WithCandidate(L, request)
           id == request.transaction_id
<1>1. K.signals = L.signals /\ K.transitions = L.transitions
  BY DEF WithCandidate
<1>2. Valid(K)
  BY <1>1, CandidateIsValid DEF ReservationAllowed
<1>3. id \in DOMAIN K.transactions /\ K.transactions[id] = TransactionOf(request, Prepared)
  BY DEF WithCandidate, Put
<1>4. /\ IsTransaction(K.transactions[id])
      /\ \A s \in DOMAIN K.signals :
            /\ s # K.transactions[id].signal_id
            /\ K.signals[s].delivery_id # K.transactions[id].delivery_id
  BY <1>1, <1>3, RequestedTransaction DEF ReservationAllowed
<1> HIDE DEF K, id
<1>5. Valid(CommitOccupancy(K, id))
  BY <1>1, <1>2, <1>3, <1>4, CommitIsValid
<1> QED BY <1>5 DEF PrepareAndCommit, K, id

\* Entering a signal on a free pair with room in its style keeps the document
\* valid.
LEMMA EnteredIsValid ==
    ASSUME NEW L, IsFiniteSet(DOMAIN L.signals), Valid(L),
           NEW id, NEW signal, NEW evidence, NEW expected,
           EntryAllowed(L, id, signal, expected), IsSignal(L.signals[signal])
    PROVE  Valid(Entered(L, id, signal, evidence))
<1> DEFINE old == L.signals[signal]
           held == EnteredSignal(old, id)
           S == Put(L.signals, signal, held)
           E == Entered(L, id, signal, evidence)
<1>1. signal \in DOMAIN L.signals
  BY DEF EntryAllowed
<1>2. /\ held.state = EntryActive
      /\ held.mode = old.mode
      /\ held.symbol = old.symbol
      /\ held.delivery_id = old.delivery_id
      /\ Identity(held) = Identity(old)
  BY MovedIsSignal
<1>3. /\ DOMAIN S = DOMAIN L.signals
      /\ S[signal] = held
      /\ \A s \in DOMAIN L.signals : s # signal => S[s] = L.signals[s]
  BY <1>1 DEF Put
<1>4. /\ E.signals = S
      /\ E.transactions = L.transactions
      /\ E.transitions = Put(L.transitions, id,
                             EntryTransition(signal, evidence, L.revision + 1))
  BY DEF Entered, EnteredSignal
<1>5. signal \notin Occupants(L)
  BY DEF EntryAllowed, Occupants, PendingEntry, EntryActive
<1> HIDE DEF held, S, E
<1>6. Occupants(E) = Occupants(L) \cup {signal}
  BY <1>1, <1>2, <1>3, <1>4 DEF Occupants
<1>7. DistinctDeliveries(E)
  BY <1>1, <1>2, <1>3, <1>4 DEF Valid, DistinctDeliveries
<1>8. DistinctPairs(E)
  <2>1. \A s \in Occupants(L) : E.signals[s] = L.signals[s]
    BY <1>3, <1>4, <1>5 DEF Occupants
  <2>2. PairOf(E.signals[signal]) = PairOf(old)
    BY <1>2, <1>3, <1>4 DEF PairOf
  <2>3. \A s \in Occupants(L) : PairOf(E.signals[s]) # PairOf(old)
    BY <1>5, <2>1 DEF EntryAllowed, PairIsFree
  <2> QED BY <1>6, <2>1, <2>2, <2>3 DEF Valid, DistinctPairs
<1>9. TransitionsRegistered(E)
  BY <1>1, <1>3, <1>4 DEF Valid, TransitionsRegistered, Put, EntryTransition
<1>10. CommittedAgree(E)
  BY <1>1, <1>2, <1>3, <1>4 DEF Valid, CommittedAgree
<1>11. WithinCapacity(E)
  <2>1. \A s \in Occupants(L) : E.signals[s].mode = L.signals[s].mode
    BY <1>3, <1>4, <1>5 DEF Occupants
  <2>2. EntryHasCapacity(L, E.signals[signal].mode)
    BY <1>2, <1>3, <1>4 DEF EntryAllowed
  <2> QED BY <1>5, <1>6, <2>1, <2>2, OneMoreOccupant DEF Valid
<1> QED BY <1>7, <1>8, <1>9, <1>10, <1>11 DEF Valid, E

\* Ending a signal keeps the document valid.
LEMMA TerminatedIsValid ==
    ASSUME NEW L, IsFiniteSet(DOMAIN L.signals), Valid(L),
           NEW id, NEW signal \in DOMAIN L.signals, IsSignal(L.signals[signal]),
           NEW state, state # EntryActive, NEW evidence
    PROVE  Valid(Terminated(L, id, signal, state, evidence))
<1> DEFINE old == L.signals[signal]
           ended == EndedSignal(old, state, evidence, id)
           S == Put(L.signals, signal, ended)
           E == Terminated(L, id, signal, state, evidence)
<1>1. /\ ended.state = state
      /\ ended.delivery_id = old.delivery_id
      /\ Identity(ended) = Identity(old)
  BY MovedIsSignal
<1>2. /\ DOMAIN S = DOMAIN L.signals
      /\ S[signal] = ended
      /\ \A s \in DOMAIN L.signals : s # signal => S[s] = L.signals[s]
  BY DEF Put
<1>3. /\ E.signals = S
      /\ E.transactions = L.transactions
      /\ E.transitions = Put(L.transitions, id,
                             TerminalTransition(signal, old.state, state,
                                                evidence, L.revision + 1))
  BY DEF Terminated, EndedSignal
<1> HIDE DEF ended, S, E
<1>4. /\ Occupants(E) \subseteq Occupants(L)
      /\ \A s \in Occupants(E) : E.signals[s] = L.signals[s]
  BY <1>1, <1>2, <1>3 DEF Occupants
<1>5. DistinctDeliveries(E)
  BY <1>1, <1>2, <1>3 DEF Valid, DistinctDeliveries
<1>6. DistinctPairs(E)
  BY <1>4 DEF Valid, DistinctPairs
<1>7. TransitionsRegistered(E)
  BY <1>2, <1>3 DEF Valid, TransitionsRegistered, Put, TerminalTransition
<1>8. CommittedAgree(E)
  BY <1>1, <1>2, <1>3 DEF Valid, CommittedAgree
<1>9. WithinCapacity(E)
  BY <1>4, FewerOccupants DEF Valid
<1> QED BY <1>5, <1>6, <1>7, <1>8, <1>9 DEF Valid, E

-----------------------------------------------------------------------------
(* The document that is on disk: of well-shaped signals, and valid.  Every *)
(* operation makes such a document of such a document.                     *)

SoundLedger(L) ==
    /\ IsFiniteSet(DOMAIN L.signals)
    /\ \A s \in DOMAIN L.signals : IsSignal(L.signals[s])
    /\ Valid(L)

LEMMA EmptyIsSound == SoundLedger(EmptyLedger)
<1>1. /\ DOMAIN EmptyLedger.signals = {}
      /\ DOMAIN EmptyLedger.transitions = {}
      /\ DOMAIN EmptyLedger.transactions = {}
  BY DEF EmptyLedger, NoEntries
<1>2. Occupants(EmptyLedger) = {} /\ \A m : ActiveIn(EmptyLedger, m) = {}
  BY <1>1 DEF Occupants, ActiveIn
<1>3. IsFiniteSet({}) /\ Cardinality({}) = 0
  BY FS_EmptySet
<1>4. WithinCapacity(EmptyLedger)
  BY <1>2, <1>3, CapacityAssumption DEF WithinCapacity
<1>5. /\ DistinctDeliveries(EmptyLedger)
      /\ DistinctPairs(EmptyLedger)
      /\ TransitionsRegistered(EmptyLedger)
      /\ CommittedAgree(EmptyLedger)
  BY <1>1, <1>2 DEF DistinctDeliveries, DistinctPairs, TransitionsRegistered, CommittedAgree
<1> QED BY <1>1, <1>3, <1>4, <1>5 DEF SoundLedger, Valid

\* One signal more, or another one in its place.
LEMMA PutKeepsShape ==
    ASSUME NEW f, NEW s, NEW signal, IsSignal(signal), IsFiniteSet(DOMAIN f),
           \A r \in DOMAIN f : IsSignal(f[r])
    PROVE  /\ IsFiniteSet(DOMAIN Put(f, s, signal))
           /\ \A r \in DOMAIN Put(f, s, signal) : IsSignal(Put(f, s, signal)[r])
<1>1. IsFiniteSet(DOMAIN f \cup {s})
  BY FS_AddElement
<1>2. /\ DOMAIN Put(f, s, signal) = DOMAIN f \cup {s}
      /\ Put(f, s, signal)[s] = signal
      /\ \A r \in DOMAIN f : r # s => Put(f, s, signal)[r] = f[r]
  BY DEF Put
<1>3. ASSUME NEW r \in DOMAIN f \cup {s} PROVE IsSignal(Put(f, s, signal)[r])
  <2>1. CASE r = s
    BY <1>2, <2>1
  <2>2. CASE r # s
    <3>1. r \in DOMAIN f /\ Put(f, s, signal)[r] = f[r]
      BY <1>2, <2>2
    <3> QED BY <3>1
  <2> QED BY <2>1, <2>2
<1> QED BY <1>1, <1>2, <1>3

LEMMA CommittedStaysSound ==
    ASSUME NEW L, IsFiniteSet(DOMAIN L.signals), \A s \in DOMAIN L.signals : IsSignal(L.signals[s]),
           NEW id, Valid(CommitOccupancy(L, id))
    PROVE  SoundLedger(CommitOccupancy(L, id))
<1>1. CommitOccupancy(L, id).signals =
         Put(L.signals, L.transactions[id].signal_id, PublishedSignal(L.transactions[id]))
  BY DEF CommitOccupancy
<1>2. IsSignal(PublishedSignal(L.transactions[id]))
  BY DEF IsSignal, PublishedSignal
<1> QED BY <1>1, <1>2, PutKeepsShape DEF SoundLedger

LEMMA ReservedStaysSound ==
    ASSUME NEW L, SoundLedger(L), NEW request, Valid(PrepareAndCommit(L, request))
    PROVE  SoundLedger(PrepareAndCommit(L, request))
<1>1. WithCandidate(L, request).signals = L.signals
  BY DEF WithCandidate
<1> QED BY <1>1, CommittedStaysSound DEF SoundLedger, PrepareAndCommit

LEMMA AllowedStaysSound ==
    ASSUME NEW L, SoundLedger(L), NEW request, NEW expected,
           ReservationAllowed(L, request, expected)
    PROVE  SoundLedger(PrepareAndCommit(L, request))
  BY ReservationIsValid, ReservedStaysSound DEF SoundLedger

LEMMA EnteredStaysSound ==
    ASSUME NEW L, SoundLedger(L), NEW id, NEW signal, NEW evidence, NEW expected,
           EntryAllowed(L, id, signal, expected)
    PROVE  SoundLedger(Entered(L, id, signal, evidence))
<1>1. signal \in DOMAIN L.signals /\ IsSignal(L.signals[signal])
  BY DEF EntryAllowed, SoundLedger
<1>2. Entered(L, id, signal, evidence).signals =
         Put(L.signals, signal, EnteredSignal(L.signals[signal], id))
  BY DEF Entered, EnteredSignal
<1>3. IsSignal(EnteredSignal(L.signals[signal], id))
  BY <1>1, MovedIsSignal
<1>4. Valid(Entered(L, id, signal, evidence))
  BY <1>1, EnteredIsValid DEF SoundLedger
<1> QED BY <1>2, <1>3, <1>4, PutKeepsShape DEF SoundLedger

LEMMA TerminatedStaysSound ==
    ASSUME NEW L, SoundLedger(L), NEW id, NEW signal \in DOMAIN L.signals,
           NEW state \in TerminalStates, NEW evidence
    PROVE  SoundLedger(Terminated(L, id, signal, state, evidence))
<1>1. IsSignal(L.signals[signal]) /\ state # EntryActive
  BY DEF SoundLedger, TerminalStates, EntryActive
<1>2. Terminated(L, id, signal, state, evidence).signals =
         Put(L.signals, signal, EndedSignal(L.signals[signal], state, evidence, id))
  BY DEF Terminated, EndedSignal
<1>3. IsSignal(EndedSignal(L.signals[signal], state, evidence, id))
  BY <1>1, MovedIsSignal
<1>4. Valid(Terminated(L, id, signal, state, evidence))
  BY <1>1, TerminatedIsValid DEF SoundLedger
<1> QED BY <1>2, <1>3, <1>4, PutKeepsShape DEF SoundLedger
=============================================================================
