---------------------- MODULE ActiveSignalLedgerProofs ----------------------
(***************************************************************************)
(* Theorems about ActiveSignalLedger, for every value of its constants:    *)
(* the document it keeps, its history, and the decisions its callers take. *)
(***************************************************************************)
EXTENDS ActiveSignalLedger, LedgerDocumentProofs

-----------------------------------------------------------------------------
(* Dicts. *)

\* Assigning a key of the right kind a value of the right kind keeps a dict.
LEMMA PutKeepsDict ==
    ASSUME NEW f, NEW K, NEW V, IsDict(f, K, V), NEW k \in K, NEW v \in V
    PROVE  IsDict(Put(f, k, v), K, V)
  BY DEF IsDict, Put

-----------------------------------------------------------------------------
(* Every operation makes a document of the schema from one. *)

\* Committing a recorded transaction keeps the schema.
LEMMA CommitTyped ==
    ASSUME NEW L, IsLedger(L), NEW id \in DOMAIN L.transactions
    PROVE  IsLedger(CommitOccupancy(L, id))
<1> DEFINE x == L.transactions[id]
           settled == [x EXCEPT !.state = Committed]
<1>1. /\ x \in TransactionRecords
      /\ id \in TransactionIds
      /\ L.revision \in Nat
  BY DEF IsLedger, IsDict
<1>2. IsDict(Put(L.signals, x.signal_id, PublishedSignal(x)),
             SignalIds, SignalRecords)
  <2>1. PublishedSignal(x) \in SignalRecords
    BY <1>1 DEF PublishedSignal, TransactionRecords, SignalRecords, TransitionIds
  <2>2. x.signal_id \in SignalIds
    BY <1>1 DEF TransactionRecords
  <2> QED BY <2>1, <2>2, PutKeepsDict DEF IsLedger
<1>3. IsDict(Put(L.transitions, x.reservation_transition_id,
                 ReserveTransition(x.signal_id, L.revision + 1)),
             TransitionIds, TransitionRecords)
  <2>1. ReserveTransition(x.signal_id, L.revision + 1) \in TransitionRecords
    BY <1>1 DEF ReserveTransition, TransactionRecords, TransitionRecords,
                LifecycleStates
  <2>2. x.reservation_transition_id \in TransitionIds
    BY <1>1 DEF TransactionRecords, TransitionIds
  <2> QED BY <2>1, <2>2, PutKeepsDict DEF IsLedger
<1>4. IsDict(Put(L.transactions, id, settled),
             TransactionIds, TransactionRecords)
  <2>1. settled \in TransactionRecords
    BY <1>1 DEF TransactionRecords
  <2> QED BY <1>1, <2>1, PutKeepsDict DEF IsLedger
<1> QED BY <1>1, <1>2, <1>3, <1>4 DEF CommitOccupancy, IsLedger

\* Recording a request as a PREPARED transaction keeps the schema.
LEMMA PrepareTyped ==
    ASSUME NEW L, IsLedger(L), NEW request \in Requests
    PROVE  /\ IsLedger(WithCandidate(L, request))
           /\ IsLedger(Prepare(L, request))
           /\ IsLedger(PrepareAndCommit(L, request))
<1> DEFINE id == request.transaction_id
           prepared == TransactionOf(request, Prepared)
<1>1. prepared \in TransactionRecords
  BY RequestAssumption
     DEF TransactionOf, TransactionRecords, SignalIds, ReservationIds
<1>2. id \in TransactionIds
  BY DEF TransactionIds
<1>3. IsDict(Put(L.transactions, id, prepared),
             TransactionIds, TransactionRecords)
  BY <1>1, <1>2, PutKeepsDict DEF IsLedger
<1>4. IsLedger(WithCandidate(L, request))
  BY <1>3 DEF WithCandidate, IsLedger
<1>5. IsLedger(Prepare(L, request))
  BY <1>3 DEF Prepare, WithCandidate, IsLedger
<1>6. id \in DOMAIN WithCandidate(L, request).transactions
  BY DEF WithCandidate, Put
<1>7. IsLedger(PrepareAndCommit(L, request))
  BY <1>4, <1>6, CommitTyped DEF PrepareAndCommit
<1> QED BY <1>4, <1>5, <1>7

\* Entering a registered signal keeps the schema.
LEMMA EnteredTyped ==
    ASSUME NEW L, IsLedger(L), NEW id \in LifecycleIds,
           NEW signal \in DOMAIN L.signals, NEW evidence \in Evidence
    PROVE  IsLedger(Entered(L, id, signal, evidence))
<1> DEFINE held == [L.signals[signal] EXCEPT !.state = EntryActive,
                                              !.last_transition_id = id]
           step == EntryTransition(signal, evidence, L.revision + 1)
<1>1. /\ L.signals[signal] \in SignalRecords
      /\ signal \in SignalIds
      /\ L.revision \in Nat
  BY DEF IsLedger, IsDict
<1>2. IsDict(Put(L.signals, signal, held), SignalIds, SignalRecords)
  <2>1. held \in SignalRecords
    BY <1>1 DEF SignalRecords, TransitionIds
  <2> QED BY <1>1, <2>1, PutKeepsDict DEF IsLedger
<1>3. IsDict(Put(L.transitions, id, step), TransitionIds, TransitionRecords)
  <2>1. step \in TransitionRecords
    BY <1>1 DEF EntryTransition, TransitionRecords, LifecycleStates
  <2>2. id \in TransitionIds
    BY DEF TransitionIds
  <2> QED BY <2>1, <2>2, PutKeepsDict DEF IsLedger
<1>4. Entered(L, id, signal, evidence) =
        [ revision |-> L.revision + 1, signals |-> Put(L.signals, signal, held),
          transitions |-> Put(L.transitions, id, step),
          transactions |-> L.transactions ]
  BY DEF Entered
<1> QED BY <1>1, <1>2, <1>3, <1>4 DEF IsLedger

\* Ending a registered signal keeps the schema.
LEMMA TerminatedTyped ==
    ASSUME NEW L, IsLedger(L), NEW id \in LifecycleIds,
           NEW signal \in DOMAIN L.signals, NEW state \in Outcomes,
           NEW evidence \in Evidence
    PROVE  IsLedger(Terminated(L, id, signal, state, evidence))
<1> DEFINE ended == [L.signals[signal] EXCEPT !.state = state,
                                               !.terminal = evidence,
                                               !.last_transition_id = id]
           step == TerminalTransition(signal, L.signals[signal].state, state,
                                      evidence, L.revision + 1)
<1>1. /\ L.signals[signal] \in SignalRecords
      /\ signal \in SignalIds
      /\ L.revision \in Nat
      /\ Outcomes \subseteq LifecycleStates
  BY RequestAssumption DEF IsLedger, IsDict, LifecycleStates
<1>2. IsDict(Put(L.signals, signal, ended), SignalIds, SignalRecords)
  <2>1. ended \in SignalRecords
    BY <1>1 DEF SignalRecords, TransitionIds
  <2> QED BY <1>1, <2>1, PutKeepsDict DEF IsLedger
<1>3. IsDict(Put(L.transitions, id, step), TransitionIds, TransitionRecords)
  <2>1. L.signals[signal].state \in LifecycleStates
    BY <1>1 DEF SignalRecords, LifecycleStates
  <2>2. step \in TransitionRecords
    BY <1>1, <2>1 DEF TerminalTransition, TransitionRecords
  <2>3. id \in TransitionIds
    BY DEF TransitionIds
  <2> QED BY <2>2, <2>3, PutKeepsDict DEF IsLedger
<1>4. Terminated(L, id, signal, state, evidence) =
        [ revision |-> L.revision + 1, signals |-> Put(L.signals, signal, ended),
          transitions |-> Put(L.transitions, id, step),
          transactions |-> L.transactions ]
  BY DEF Terminated
<1> QED BY <1>1, <1>2, <1>3, <1>4 DEF IsLedger

\* Aborting a recorded transaction keeps the schema.
LEMMA AbandonTyped ==
    ASSUME NEW L, IsLedger(L), NEW id \in DOMAIN L.transactions
    PROVE  IsLedger(Abandon(L, id))
<1> DEFINE settled == [L.transactions[id] EXCEPT !.state = Aborted]
<1>1. /\ settled \in TransactionRecords
      /\ id \in TransactionIds
  BY DEF IsLedger, IsDict, TransactionRecords
<1>2. IsDict(Put(L.transactions, id, settled),
             TransactionIds, TransactionRecords)
  BY <1>1, PutKeepsDict DEF IsLedger
<1>3. Abandon(L, id) =
        [ revision |-> L.revision + 1, signals |-> L.signals,
          transitions |-> L.transitions,
          transactions |-> Put(L.transactions, id, settled) ]
  BY DEF Abandon
<1> QED BY <1>2, <1>3 DEF IsLedger
-----------------------------------------------------------------------------
(* Types. *)

\* Replacing the document by one of a higher revision keeps the types, and so
\* does returning the present one.
LEMMA PersistTyped ==
    ASSUME TypeOK, NEW c \in Callers, NEW L, IsLedger(L),
           L.revision = ledger.revision + 1, Persist(c, L)
    PROVE  TypeOK'
<1>1. /\ ledger.revision \in Nat
      /\ \A d \in Callers : observed[d] \in 0 .. L.revision
      /\ L.revision \in 0 .. L.revision
  BY DEF TypeOK, IsLedger
<1>2. observed' \in [Callers -> 0 .. L.revision]
  BY <1>1 DEF Persist, Returned, TypeOK
<1>3. IsLedger(ledger)'
  BY DEF Persist
<1> QED BY <1>2, <1>3, RequestAssumption DEF Persist, TypeOK

LEMMA RereadTyped ==
    ASSUME TypeOK, NEW c \in Callers, Reread(c)
    PROVE  TypeOK'
<1>1. ledger.revision \in 0 .. ledger.revision
  BY DEF TypeOK, IsLedger
<1>2. observed' \in [Callers -> 0 .. ledger.revision]
  BY <1>1 DEF Reread, Returned, TypeOK
<1> QED BY <1>2 DEF Reread, TypeOK

\* The ledger file always holds a document of the schema and no caller is
\* ahead of it.
THEOREM TypeCorrect == Spec => []TypeOK
<1>1. Init => TypeOK
  BY RequestAssumption
     DEF Init, TypeOK, IsLedger, IsDict, EmptyLedger, NoEntries
<1>2. TypeOK /\ [Next]_vars => TypeOK'
  <2> SUFFICES ASSUME TypeOK, [Next]_vars PROVE TypeOK'
    OBVIOUS
  <2>1. CASE UNCHANGED vars
    BY <2>1 DEF TypeOK, vars, IsLedger
  <2>2. ASSUME NEW c \in Callers, LoadLedger(c) PROVE TypeOK'
    BY <2>2, RereadTyped DEF LoadLedger
  <2>3. ASSUME NEW c \in Callers, NEW r \in Requests, NEW durable \in BOOLEAN,
               ReservePublishedSignal(c, r, durable)
        PROVE  TypeOK'
    <3> DEFINE K == CommitOccupancy(ledger, r.transaction_id)
    <3>1. CASE ResumeAllowed(ledger, r) /\ durable /\ Persist(c, K)
      <4>1. IsLedger(K) /\ K.revision = ledger.revision + 1
        BY <3>1, CommitTyped
           DEF ResumeAllowed, ReservationKnown, CommitOccupancy, TypeOK
      <4> QED BY <3>1, <4>1, PersistTyped
    <3>2. CASE Reread(c)
      BY <3>2, RereadTyped
    <3>3. CASE Persist(c, PrepareAndCommit(ledger, r))
      <4>1. PrepareAndCommit(ledger, r).revision = ledger.revision + 1
        BY DEF PrepareAndCommit, CommitOccupancy, WithCandidate
      <4> QED BY <3>3, <4>1, PrepareTyped, PersistTyped DEF TypeOK
    <3>4. CASE Persist(c, Prepare(ledger, r))
      <4>1. Prepare(ledger, r).revision = ledger.revision + 1
        BY DEF Prepare, WithCandidate
      <4> QED BY <3>4, <4>1, PrepareTyped, PersistTyped DEF TypeOK
    <3> QED BY <2>3, <3>1, <3>2, <3>3, <3>4 DEF ReservePublishedSignal
  <2>4. ASSUME NEW c \in Callers, NEW id \in LifecycleIds, NEW s \in SignalIds,
               NEW e \in Evidence, NEW strict \in BOOLEAN,
               MarkEntryActive(c, id, s, e, strict)
        PROVE  TypeOK'
    <3>1. CASE Reread(c)
      BY <3>1, RereadTyped
    <3>2. CASE /\ EntryAllowed(ledger, id, s, observed[c])
               /\ Persist(c, Entered(ledger, id, s, e))
      <4>1. Entered(ledger, id, s, e).revision = ledger.revision + 1
        BY DEF Entered
      <4>2. IsLedger(Entered(ledger, id, s, e))
        BY <3>2, EnteredTyped DEF EntryAllowed, TypeOK
      <4> QED BY <3>2, <4>1, <4>2, PersistTyped
    <3> QED BY <2>4, <3>1, <3>2 DEF MarkEntryActive
  <2>5. ASSUME NEW c \in Callers, NEW id \in LifecycleIds, NEW s \in SignalIds,
               NEW e \in Evidence, NEW strict \in BOOLEAN,
               NEW state \in Outcomes,
               TransitionTerminal(c, id, s, state, e, strict)
        PROVE  TypeOK'
    <3>1. CASE Reread(c)
      BY <3>1, RereadTyped
    <3>2. CASE /\ TerminalAllowed(ledger, id, s, state, observed[c])
               /\ Persist(c, Terminated(ledger, id, s, state, e))
      <4>1. Terminated(ledger, id, s, state, e).revision = ledger.revision + 1
        BY DEF Terminated
      <4>2. IsLedger(Terminated(ledger, id, s, state, e))
        BY <3>2, TerminatedTyped DEF TerminalAllowed, TypeOK
      <4> QED BY <3>2, <4>1, <4>2, PersistTyped
    <3> QED BY <2>5, <3>1, <3>2 DEF TransitionTerminal
  <2>6. ASSUME NEW c \in Callers, NEW x \in TransactionIds,
               NEW artifact \in Requests \cup {None},
               ReconcilePublicationState(c, x, artifact)
        PROVE  TypeOK'
    <3>1. CASE Reread(c)
      BY <3>1, RereadTyped
    <3>2. CASE /\ ReconcileOpen(ledger, x, observed[c])
               /\ Persist(c, CommitOccupancy(ledger, x))
      <4>1. CommitOccupancy(ledger, x).revision = ledger.revision + 1
        BY DEF CommitOccupancy
      <4>2. IsLedger(CommitOccupancy(ledger, x))
        BY <3>2, CommitTyped DEF ReconcileOpen, TypeOK
      <4> QED BY <3>2, <4>1, <4>2, PersistTyped
    <3>3. CASE /\ ReconcileOpen(ledger, x, observed[c])
               /\ Persist(c, Abandon(ledger, x))
      <4>1. Abandon(ledger, x).revision = ledger.revision + 1
        BY DEF Abandon
      <4>2. IsLedger(Abandon(ledger, x))
        BY <3>3, AbandonTyped DEF ReconcileOpen, TypeOK
      <4> QED BY <3>3, <4>1, <4>2, PersistTyped
    <3> QED BY <2>6, <3>1, <3>2, <3>3 DEF ReconcilePublicationState
  <2> QED BY <2>1, <2>2, <2>3, <2>4, <2>5, <2>6 DEF Next
<1>3. QED BY <1>1, <1>2, PTL DEF Spec
-----------------------------------------------------------------------------
(* Lineage: every signal stems from one committed transaction.             *)

\* The inductive invariant behind PublicationLineage, OnePreparedAtMost and
\* GuardsKeepDocumentValid.  Validity alone is not inductive without them: a
\* second claim on a signal would let a commit overwrite it.
LedgerInvariant(L) ==
    /\ IsLedger(L)
    /\ IsFiniteSet(DOMAIN L.signals)
    /\ OnePrepared(L)
    /\ SignalsAreCommitted(L)
    /\ ClaimsAreUnique(L)
    /\ Valid(L)

\* Committing a PREPARED transaction keeps one claim per signal.
LEMMA CommitKeepsLineage ==
    ASSUME NEW L, IsLedger(L), OnePrepared(L), SignalsAreCommitted(L),
           ClaimsAreUnique(L), NEW id \in DOMAIN L.transactions,
           L.transactions[id].state = Prepared
    PROVE  /\ OnePrepared(CommitOccupancy(L, id))
           /\ SignalsAreCommitted(CommitOccupancy(L, id))
           /\ ClaimsAreUnique(CommitOccupancy(L, id))
<1> DEFINE x == L.transactions[id]
           settled == [x EXCEPT !.state = Committed]
           T == Put(L.transactions, id, settled)
           S == Put(L.signals, x.signal_id, PublishedSignal(x))
<1>1. /\ settled.state = Committed
      /\ settled.signal_id = x.signal_id
      /\ settled.delivery_id = x.delivery_id
      /\ Identity(settled) = Identity(PublishedSignal(x))
  <2>1. x \in TransactionRecords
    BY DEF IsLedger, IsDict
  <2> QED BY <2>1 DEF TransactionRecords, Identity, PublishedSignal
<1>2. /\ DOMAIN T = DOMAIN L.transactions
      /\ T[id] = settled
      /\ \A y \in DOMAIN L.transactions : y # id => T[y] = L.transactions[y]
  BY DEF Put
<1>3. /\ DOMAIN S = DOMAIN L.signals \cup {x.signal_id}
      /\ S[x.signal_id] = PublishedSignal(x)
      /\ \A s \in DOMAIN L.signals : s # x.signal_id => S[s] = L.signals[s]
  BY DEF Put
<1>4. /\ CommitOccupancy(L, id).transactions = T
      /\ CommitOccupancy(L, id).signals = S
  BY DEF CommitOccupancy
<1> HIDE DEF settled, T, S, x
<1>5. OnePrepared(CommitOccupancy(L, id))
  BY <1>1, <1>2, <1>4 DEF OnePrepared, Prepared, Committed
<1>6. ClaimsAreUnique(CommitOccupancy(L, id))
  BY <1>1, <1>2, <1>4 DEF ClaimsAreUnique, x
<1>7. SignalsAreCommitted(CommitOccupancy(L, id))
  <2> SUFFICES ASSUME NEW s \in DOMAIN S
               PROVE  \E y \in DOMAIN T :
                          /\ T[y].state = Committed
                          /\ T[y].signal_id = s
                          /\ Identity(T[y]) = Identity(S[s])
    BY <1>4 DEF SignalsAreCommitted
  <2>1. CASE s = x.signal_id
    BY <1>1, <1>2, <1>3, <2>1
  <2>2. CASE s # x.signal_id
    <3>1. PICK y \in DOMAIN L.transactions :
              /\ L.transactions[y].state = Committed
              /\ L.transactions[y].signal_id = s
              /\ Identity(L.transactions[y]) = Identity(L.signals[s])
      BY <1>3, <2>2 DEF SignalsAreCommitted
    <3>2. y # id
      BY <3>1, <2>2 DEF x
    <3> QED BY <1>2, <1>3, <2>2, <3>1, <3>2
  <2> QED BY <2>1, <2>2
<1> QED BY <1>5, <1>6, <1>7

\* Opening a transaction that the guards of a reservation accept keeps one
\* claim per signal, and leaves it the only PREPARED one.
LEMMA CandidateKeepsLineage ==
    ASSUME NEW L, OnePrepared(L), SignalsAreCommitted(L), ClaimsAreUnique(L),
           NEW request \in Requests,
           ReservationAllowed(L, request, L.revision)
    PROVE  LET K == WithCandidate(L, request) IN
           /\ OnePrepared(K)
           /\ SignalsAreCommitted(K)
           /\ ClaimsAreUnique(K)
           /\ request.transaction_id \in DOMAIN K.transactions
           /\ K.transactions[request.transaction_id].state = Prepared
<1> DEFINE id == request.transaction_id
           candidate == TransactionOf(request, Prepared)
           T == Put(L.transactions, id, candidate)
<1>1. /\ candidate.state = Prepared
      /\ candidate.signal_id = request.signal_id
      /\ candidate.delivery_id = request.delivery_id
  BY DEF TransactionOf
<1>2. /\ DOMAIN T = DOMAIN L.transactions \cup {id}
      /\ T[id] = candidate
      /\ \A y \in DOMAIN L.transactions : T[y] = L.transactions[y]
  BY DEF Put, ReservationAllowed
<1>3. /\ WithCandidate(L, request).transactions = T
      /\ WithCandidate(L, request).signals = L.signals
  BY DEF WithCandidate
<1>4. \A y \in DOMAIN L.transactions :
          /\ L.transactions[y].state # Prepared
          /\ L.transactions[y].signal_id # request.signal_id
          /\ L.transactions[y].delivery_id # request.delivery_id
  BY DEF ReservationAllowed, PendingConflict
<1> HIDE DEF T, candidate, id
<1>5. OnePrepared(WithCandidate(L, request))
  BY <1>1, <1>2, <1>3, <1>4 DEF OnePrepared
<1>6. ClaimsAreUnique(WithCandidate(L, request))
  BY <1>1, <1>2, <1>3, <1>4 DEF ClaimsAreUnique
<1>7. SignalsAreCommitted(WithCandidate(L, request))
  BY <1>2, <1>3 DEF SignalsAreCommitted
<1> QED BY <1>1, <1>2, <1>3, <1>5, <1>6, <1>7 DEF id
-----------------------------------------------------------------------------
(* Validity: the guards of an operation imply what validate_ledger asks.   *)

\* What the schema says of records.
LEMMA SchemaRecords ==
    ASSUME NEW L, IsLedger(L)
    PROVE  /\ \A s \in DOMAIN L.signals : IsSignal(L.signals[s])
           /\ \A x \in DOMAIN L.transactions : IsTransaction(L.transactions[x])
<1>1. ASSUME NEW s \in DOMAIN L.signals PROVE IsSignal(L.signals[s])
  <2>1. L.signals[s] \in SignalRecords
    BY DEF IsLedger, IsDict
  <2> QED BY <2>1 DEF SignalRecords, IsSignal
<1>2. ASSUME NEW x \in DOMAIN L.transactions PROVE IsTransaction(L.transactions[x])
  <2>1. L.transactions[x] \in TransactionRecords
    BY DEF IsLedger, IsDict
  <2> QED BY <2>1 DEF TransactionRecords, IsTransaction
<1> QED BY <1>1, <1>2

\* Committing the PREPARED transaction of a lineage-respecting document keeps
\* it valid: the signal it writes is new, so nothing is overwritten.
LEMMA CommitValid ==
    ASSUME NEW L, IsLedger(L), IsFiniteSet(DOMAIN L.signals),
           SignalsAreCommitted(L), ClaimsAreUnique(L), Valid(L),
           NEW id \in DOMAIN L.transactions,
           L.transactions[id].state = Prepared
    PROVE  Valid(CommitOccupancy(L, id))
<1>1. \A s \in DOMAIN L.signals :
          /\ s # L.transactions[id].signal_id
          /\ L.signals[s].delivery_id # L.transactions[id].delivery_id
  <2> SUFFICES ASSUME NEW s \in DOMAIN L.signals
               PROVE  /\ s # L.transactions[id].signal_id
                      /\ L.signals[s].delivery_id # L.transactions[id].delivery_id
    OBVIOUS
  <2>1. PICK y \in DOMAIN L.transactions :
            /\ L.transactions[y].state = Committed
            /\ L.transactions[y].signal_id = s
            /\ Identity(L.transactions[y]) = Identity(L.signals[s])
    BY DEF SignalsAreCommitted
  <2>2. L.transactions[y].delivery_id = L.signals[s].delivery_id
    BY <2>1 DEF Identity
  <2>3. y # id
    BY <2>1 DEF Prepared, Committed
  <2> QED BY <2>1, <2>2, <2>3 DEF ClaimsAreUnique
<1> QED BY <1>1, SchemaRecords, CommitIsValid
-----------------------------------------------------------------------------
(* Each operation preserves the ledger invariant. *)

\* Both ways of committing a transaction that is PREPARED.
LEMMA CommitPreserves ==
    ASSUME NEW L, LedgerInvariant(L), NEW id \in DOMAIN L.transactions,
           L.transactions[id].state = Prepared
    PROVE  LedgerInvariant(CommitOccupancy(L, id))
<1>1. IsFiniteSet(DOMAIN CommitOccupancy(L, id).signals)
  <2>1. DOMAIN CommitOccupancy(L, id).signals =
            DOMAIN L.signals \cup {L.transactions[id].signal_id}
    BY DEF CommitOccupancy, Put
  <2> QED BY <2>1, FS_AddElement DEF LedgerInvariant
<1> QED BY <1>1, CommitTyped, CommitKeepsLineage, CommitValid
        DEF LedgerInvariant

\* A document with a candidate not yet written keeps the invariant.
LEMMA CandidatePreserves ==
    ASSUME NEW L, LedgerInvariant(L), NEW request \in Requests,
           ReservationAllowed(L, request, L.revision)
    PROVE  LedgerInvariant(WithCandidate(L, request))
<1> DEFINE K == WithCandidate(L, request)
<1>1. K.signals = L.signals /\ K.transitions = L.transitions
  BY DEF WithCandidate
<1>2. Valid(K)
  BY <1>1, CandidateIsValid DEF LedgerInvariant, ReservationAllowed
<1>3. OnePrepared(K) /\ SignalsAreCommitted(K) /\ ClaimsAreUnique(K)
  BY CandidateKeepsLineage DEF LedgerInvariant
<1> QED BY <1>1, <1>2, <1>3, PrepareTyped DEF LedgerInvariant

\* Opening a transaction, and opening and committing it in one write.
LEMMA ReservationPreserves ==
    ASSUME NEW L, LedgerInvariant(L), NEW request \in Requests,
           ReservationAllowed(L, request, L.revision)
    PROVE  /\ LedgerInvariant(Prepare(L, request))
           /\ LedgerInvariant(PrepareAndCommit(L, request))
<1> DEFINE K == WithCandidate(L, request)
           P == Prepare(L, request)
<1>1. LedgerInvariant(K)
  BY CandidatePreserves
<1>2. LedgerInvariant(PrepareAndCommit(L, request))
  <2>1. /\ request.transaction_id \in DOMAIN K.transactions
        /\ K.transactions[request.transaction_id].state = Prepared
    BY CandidateKeepsLineage DEF LedgerInvariant
  <2> QED BY <1>1, <2>1, CommitPreserves DEF PrepareAndCommit
<1>3. LedgerInvariant(P)
  <2>1. /\ P.signals = L.signals /\ P.transitions = L.transitions
        /\ P.transactions = K.transactions /\ P.signals = K.signals
    BY DEF Prepare, WithCandidate
  <2>2. Valid(P)
    BY <2>1, CandidateIsValid DEF LedgerInvariant, ReservationAllowed
  <2>3. OnePrepared(P) /\ SignalsAreCommitted(P) /\ ClaimsAreUnique(P)
    BY <1>1, <2>1
       DEF LedgerInvariant, OnePrepared, SignalsAreCommitted, ClaimsAreUnique
  <2> QED BY <2>1, <2>2, <2>3, PrepareTyped DEF LedgerInvariant
<1> QED BY <1>2, <1>3

\* A change of one signal's state keeps the identity its transaction gave it.
LEMMA SameIdentityPreserves ==
    ASSUME NEW L, LedgerInvariant(L), NEW M, IsLedger(M), Valid(M),
           M.transactions = L.transactions,
           DOMAIN M.signals = DOMAIN L.signals,
           \A s \in DOMAIN L.signals :
               Identity(M.signals[s]) = Identity(L.signals[s])
    PROVE  LedgerInvariant(M)
  BY DEF LedgerInvariant, OnePrepared, SignalsAreCommitted, ClaimsAreUnique

\* Owner entry.
LEMMA EntryPreserves ==
    ASSUME NEW L, LedgerInvariant(L), NEW id \in LifecycleIds, NEW signal,
           NEW evidence \in Evidence, EntryAllowed(L, id, signal, L.revision)
    PROVE  LedgerInvariant(Entered(L, id, signal, evidence))
<1> DEFINE E == Entered(L, id, signal, evidence)
           held == [L.signals[signal] EXCEPT !.state = EntryActive,
                                             !.last_transition_id = id]
<1>1. signal \in DOMAIN L.signals
  BY DEF EntryAllowed
<1>2. IsLedger(E) /\ Valid(E)
  BY <1>1, EnteredTyped, SchemaRecords, EnteredIsValid DEF LedgerInvariant
<1>3. Identity(held) = Identity(L.signals[signal])
  <2>1. L.signals[signal] \in SignalRecords
    BY <1>1 DEF LedgerInvariant, IsLedger, IsDict
  <2> QED BY <2>1 DEF Identity, SignalRecords
<1>4. E.signals = Put(L.signals, signal, held) /\ E.transactions = L.transactions
  BY DEF Entered
<1>5. /\ DOMAIN E.signals = DOMAIN L.signals
      /\ \A s \in DOMAIN L.signals :
             Identity(E.signals[s]) = Identity(L.signals[s])
  BY <1>1, <1>3, <1>4 DEF Put
<1> HIDE DEF E
<1>6. LedgerInvariant(E)
  BY <1>2, <1>4, <1>5, SameIdentityPreserves
<1> QED BY <1>6 DEF E

\* Any terminal outcome.
LEMMA TerminalPreserves ==
    ASSUME NEW L, LedgerInvariant(L), NEW id \in LifecycleIds, NEW signal,
           NEW state \in Outcomes, NEW evidence \in Evidence,
           TerminalAllowed(L, id, signal, state, L.revision)
    PROVE  LedgerInvariant(Terminated(L, id, signal, state, evidence))
<1> DEFINE E == Terminated(L, id, signal, state, evidence)
           ended == [L.signals[signal] EXCEPT !.state = state,
                                              !.terminal = evidence,
                                              !.last_transition_id = id]
<1>1. signal \in DOMAIN L.signals
  BY DEF TerminalAllowed
<1>2. IsLedger(E) /\ Valid(E)
  <2>1. state # EntryActive
    BY RequestAssumption DEF TerminalStates, EntryActive
  <2> QED BY <1>1, <2>1, TerminatedTyped, SchemaRecords, TerminatedIsValid
          DEF LedgerInvariant
<1>3. Identity(ended) = Identity(L.signals[signal])
  <2>1. L.signals[signal] \in SignalRecords
    BY <1>1 DEF LedgerInvariant, IsLedger, IsDict
  <2> QED BY <2>1 DEF Identity, SignalRecords
<1>4. E.signals = Put(L.signals, signal, ended) /\ E.transactions = L.transactions
  BY DEF Terminated
<1>5. /\ DOMAIN E.signals = DOMAIN L.signals
      /\ \A s \in DOMAIN L.signals :
             Identity(E.signals[s]) = Identity(L.signals[s])
  BY <1>1, <1>3, <1>4 DEF Put
<1> HIDE DEF E
<1>6. LedgerInvariant(E)
  BY <1>2, <1>4, <1>5, SameIdentityPreserves
<1> QED BY <1>6 DEF E

\* Aborting the PREPARED transaction.
LEMMA AbandonPreserves ==
    ASSUME NEW L, LedgerInvariant(L), NEW id \in DOMAIN L.transactions,
           L.transactions[id].state = Prepared
    PROVE  LedgerInvariant(Abandon(L, id))
<1> DEFINE x == L.transactions[id]
           settled == [x EXCEPT !.state = Aborted]
           A == Abandon(L, id)
<1>1. /\ settled.state = Aborted
      /\ settled.signal_id = x.signal_id
      /\ settled.delivery_id = x.delivery_id
  <2>1. x \in TransactionRecords
    BY DEF LedgerInvariant, IsLedger, IsDict
  <2> QED BY <2>1 DEF TransactionRecords
<1>2. /\ A.signals = L.signals
      /\ A.transitions = L.transitions
      /\ DOMAIN A.transactions = DOMAIN L.transactions
      /\ A.transactions[id] = settled
      /\ \A y \in DOMAIN L.transactions :
             y # id => A.transactions[y] = L.transactions[y]
  BY DEF Abandon, Put
<1>3. IsLedger(A)
  BY AbandonTyped DEF LedgerInvariant
<1> HIDE DEF A, settled
<1>4. OnePrepared(A) /\ ClaimsAreUnique(A)
  BY <1>1, <1>2
     DEF LedgerInvariant, OnePrepared, ClaimsAreUnique, Prepared, Aborted, x
<1>5. SignalsAreCommitted(A)
  BY <1>2 DEF LedgerInvariant, SignalsAreCommitted, Prepared, Committed, x
<1>6. Valid(A)
  <2>1. Valid(L)
    BY DEF LedgerInvariant
  <2>2. Occupants(A) = Occupants(L) /\ \A m : ActiveIn(A, m) = ActiveIn(L, m)
    BY <1>2 DEF Occupants, ActiveIn
  <2>3. DistinctDeliveries(A) /\ TransitionsRegistered(A) /\ DistinctPairs(A)
    BY <1>2, <2>1, <2>2
       DEF Valid, DistinctDeliveries, TransitionsRegistered, DistinctPairs
  <2>4. WithinCapacity(A)
    BY <2>1, <2>2 DEF Valid, WithinCapacity
  <2>5. CommittedAgree(A)
    BY <1>1, <1>2, <2>1 DEF Valid, CommittedAgree, Committed, Aborted
  <2> QED BY <2>3, <2>4, <2>5 DEF Valid
<1>7. LedgerInvariant(A)
  BY <1>2, <1>3, <1>4, <1>5, <1>6 DEF LedgerInvariant
<1> QED BY <1>7 DEF A
-----------------------------------------------------------------------------
(* The specification's steps, seen from the document.                      *)

\* The document either stays or becomes the result of one accepted operation.
DocumentStep ==
    \/ ledger' = ledger
    \/ \E x \in DOMAIN ledger.transactions :
          /\ ledger.transactions[x].state = Prepared
          /\ ledger' \in {CommitOccupancy(ledger, x), Abandon(ledger, x)}
    \/ \E r \in Requests :
          /\ ReservationAllowed(ledger, r, ledger.revision)
          /\ ledger' \in {Prepare(ledger, r), PrepareAndCommit(ledger, r)}
    \/ \E id \in LifecycleIds, s \in SignalIds, e \in Evidence :
          \/ /\ EntryAllowed(ledger, id, s, ledger.revision)
             /\ ledger' = Entered(ledger, id, s, e)
          \/ \E state \in Outcomes :
                /\ TerminalAllowed(ledger, id, s, state, ledger.revision)
                /\ ledger' = Terminated(ledger, id, s, state, e)

LEMMA NextIsDocumentStep == [Next]_vars => DocumentStep
<1> SUFFICES ASSUME [Next]_vars PROVE DocumentStep
  OBVIOUS
<1>1. CASE UNCHANGED vars
  BY <1>1 DEF vars, DocumentStep
<1>2. ASSUME NEW c \in Callers, LoadLedger(c) PROVE DocumentStep
  BY <1>2 DEF LoadLedger, Reread, DocumentStep
<1>3. ASSUME NEW c \in Callers, NEW r \in Requests, NEW durable \in BOOLEAN,
             ReservePublishedSignal(c, r, durable)
      PROVE  DocumentStep
  <2>1. CASE Reread(c)
    BY <2>1 DEF Reread, DocumentStep
  <2>2. CASE /\ ResumeAllowed(ledger, r)
             /\ Persist(c, CommitOccupancy(ledger, r.transaction_id))
    BY <2>2 DEF Persist, ResumeAllowed, ReservationKnown, DocumentStep
  <2>3. CASE /\ ReservationAllowed(ledger, r, observed[c])
             /\ Persist(c, IF durable THEN PrepareAndCommit(ledger, r)
                                      ELSE Prepare(ledger, r))
    <3>1. ReservationAllowed(ledger, r, ledger.revision)
      BY <2>3 DEF ReservationAllowed
    <3>2. ledger' \in {Prepare(ledger, r), PrepareAndCommit(ledger, r)}
      BY <2>3 DEF Persist
    <3> QED BY <3>1, <3>2 DEF DocumentStep
  <2> QED BY <1>3, <2>1, <2>2, <2>3 DEF ReservePublishedSignal
<1>4. ASSUME NEW c \in Callers, NEW id \in LifecycleIds, NEW s \in SignalIds,
             NEW e \in Evidence, NEW strict \in BOOLEAN,
             MarkEntryActive(c, id, s, e, strict)
      PROVE  DocumentStep
  <2>1. CASE Reread(c)
    BY <2>1 DEF Reread, DocumentStep
  <2>2. CASE /\ EntryAllowed(ledger, id, s, observed[c])
             /\ Persist(c, Entered(ledger, id, s, e))
    <3>1. EntryAllowed(ledger, id, s, ledger.revision)
      BY <2>2 DEF EntryAllowed
    <3> QED BY <2>2, <3>1 DEF Persist, DocumentStep
  <2> QED BY <1>4, <2>1, <2>2 DEF MarkEntryActive
<1>5. ASSUME NEW c \in Callers, NEW id \in LifecycleIds, NEW s \in SignalIds,
             NEW e \in Evidence, NEW strict \in BOOLEAN, NEW state \in Outcomes,
             TransitionTerminal(c, id, s, state, e, strict)
      PROVE  DocumentStep
  <2>1. CASE Reread(c)
    BY <2>1 DEF Reread, DocumentStep
  <2>2. CASE /\ TerminalAllowed(ledger, id, s, state, observed[c])
             /\ Persist(c, Terminated(ledger, id, s, state, e))
    <3>1. TerminalAllowed(ledger, id, s, state, ledger.revision)
      BY <2>2 DEF TerminalAllowed
    <3> QED BY <2>2, <3>1 DEF Persist, DocumentStep
  <2> QED BY <1>5, <2>1, <2>2 DEF TransitionTerminal
<1>6. ASSUME NEW c \in Callers, NEW x \in TransactionIds,
             NEW artifact \in Requests \cup {None},
             ReconcilePublicationState(c, x, artifact)
      PROVE  DocumentStep
  <2>1. CASE Reread(c)
    BY <2>1 DEF Reread, DocumentStep
  <2>2. CASE /\ ReconcileOpen(ledger, x, observed[c])
             /\ \/ Persist(c, CommitOccupancy(ledger, x))
                \/ Persist(c, Abandon(ledger, x))
    BY <2>2 DEF Persist, ReconcileOpen, DocumentStep
  <2> QED BY <1>6, <2>1, <2>2 DEF ReconcilePublicationState
<1> QED BY <1>1, <1>2, <1>3, <1>4, <1>5, <1>6 DEF Next

\* The ledger invariant is inductive.
THEOREM LedgerInvariantHolds == Spec => []LedgerInvariant(ledger)
<1>1. Init => LedgerInvariant(ledger)
  <2> SUFFICES ASSUME Init PROVE LedgerInvariant(ledger)
    OBVIOUS
  <2>1. /\ ledger = EmptyLedger
        /\ IsLedger(ledger)
        /\ ledger.signals = NoEntries /\ ledger.transitions = NoEntries
        /\ ledger.transactions = NoEntries
    BY DEF Init, IsLedger, IsDict, EmptyLedger, NoEntries
  <2>2. DOMAIN NoEntries = {}
    BY DEF NoEntries
  <2>3. IsFiniteSet(DOMAIN ledger.signals)
    BY <2>1, <2>2, FS_EmptySet
  <2>4. /\ OnePrepared(ledger) /\ SignalsAreCommitted(ledger)
        /\ ClaimsAreUnique(ledger)
    BY <2>1, <2>2 DEF OnePrepared, SignalsAreCommitted, ClaimsAreUnique
  <2>5. WithinCapacity(ledger)
    <3>1. Occupants(ledger) = {} /\ \A m : ActiveIn(ledger, m) = {}
      BY <2>1, <2>2 DEF Occupants, ActiveIn
    <3> QED BY <3>1, FS_EmptySet, CapacityAssumption DEF WithinCapacity
  <2>6. Valid(ledger)
    BY <2>1, <2>2, <2>5
       DEF Valid, DistinctDeliveries, DistinctPairs, TransitionsRegistered,
           CommittedAgree, Occupants
  <2> QED BY <2>1, <2>3, <2>4, <2>6 DEF LedgerInvariant
<1>2. LedgerInvariant(ledger) /\ [Next]_vars => LedgerInvariant(ledger)'
  <2> SUFFICES ASSUME LedgerInvariant(ledger), DocumentStep
               PROVE  LedgerInvariant(ledger')
    BY NextIsDocumentStep DEF LedgerInvariant, IsLedger, OnePrepared,
       SignalsAreCommitted, ClaimsAreUnique
  <2>1. CASE ledger' = ledger
    BY <2>1
  <2>2. ASSUME NEW x \in DOMAIN ledger.transactions,
               ledger.transactions[x].state = Prepared,
               ledger' \in {CommitOccupancy(ledger, x), Abandon(ledger, x)}
        PROVE  LedgerInvariant(ledger')
    BY <2>2, CommitPreserves, AbandonPreserves
  <2>3. ASSUME NEW r \in Requests,
               ReservationAllowed(ledger, r, ledger.revision),
               ledger' \in {Prepare(ledger, r), PrepareAndCommit(ledger, r)}
        PROVE  LedgerInvariant(ledger')
    BY <2>3, ReservationPreserves
  <2>4. ASSUME NEW id \in LifecycleIds, NEW s \in SignalIds, NEW e \in Evidence,
               EntryAllowed(ledger, id, s, ledger.revision),
               ledger' = Entered(ledger, id, s, e)
        PROVE  LedgerInvariant(ledger')
    BY <2>4, EntryPreserves
  <2>5. ASSUME NEW id \in LifecycleIds, NEW s \in SignalIds, NEW e \in Evidence,
               NEW state \in Outcomes,
               TerminalAllowed(ledger, id, s, state, ledger.revision),
               ledger' = Terminated(ledger, id, s, state, e)
        PROVE  LedgerInvariant(ledger')
    BY <2>5, TerminalPreserves
  <2> QED BY <2>1, <2>2, <2>3, <2>4, <2>5 DEF DocumentStep
<1>3. QED BY <1>1, <1>2, PTL DEF Spec

\* Signals and publications stay paired one to one, one PREPARED at a time.
THEOREM LineageHolds == Spec => [](PublicationLineage /\ OnePreparedAtMost)
<1>1. LedgerInvariant(ledger) => PublicationLineage /\ OnePreparedAtMost
  BY DEF LedgerInvariant, PublicationLineage, OnePreparedAtMost
<1>2. QED BY <1>1, LedgerInvariantHolds, PTL

\* No style, and not the whole book, is ever over capacity, and no two entered
\* signals share a pair.
THEOREM CapacityHolds == Spec => [](CapacityRespected /\ ExclusivePairs)
<1>1. LedgerInvariant(ledger) => CapacityRespected
  <2> SUFFICES ASSUME WithinCapacity(ledger) PROVE CapacityRespected
    BY DEF LedgerInvariant, Valid
  <2>1. Occupants(ledger) = {s \in DOMAIN ledger.signals :
                                ledger.signals[s].state = EntryActive}
    BY DEF Occupants
  <2>2. ASSUME NEW m \in Modes
        PROVE  ActiveIn(ledger, m) = {s \in DOMAIN ledger.signals :
                                        /\ ledger.signals[s].state = EntryActive
                                        /\ ledger.signals[s].mode = m}
    BY DEF Occupants, ActiveIn
  <2> QED BY <2>1, <2>2 DEF WithinCapacity, CapacityRespected
<1>2. LedgerInvariant(ledger) => ExclusivePairs
  BY DEF LedgerInvariant, Valid, DistinctPairs, Occupants, PairOf, ExclusivePairs
<1>3. QED BY <1>1, <1>2, LedgerInvariantHolds, PTL

\* The guards of every operation imply the validity of its result.
THEOREM GuardsSuffice == Spec => []GuardsKeepDocumentValid
<1>1. LedgerInvariant(ledger) => GuardsKeepDocumentValid
  <2> SUFFICES ASSUME LedgerInvariant(ledger) PROVE GuardsKeepDocumentValid
    OBVIOUS
  <2>1. Valid(ledger)
    BY DEF LedgerInvariant
  <2>2. ASSUME NEW r \in Requests, ResumeAllowed(ledger, r)
        PROVE  Valid(CommitOccupancy(ledger, r.transaction_id))
    BY <2>2, CommitPreserves DEF ResumeAllowed, ReservationKnown, LedgerInvariant
  <2>3. ASSUME NEW r \in Requests,
               ReservationAllowed(ledger, r, ledger.revision)
        PROVE  Valid(Prepare(ledger, r)) /\ Valid(PrepareAndCommit(ledger, r))
    BY <2>3, ReservationPreserves DEF LedgerInvariant
  <2>4. ASSUME NEW s \in SignalIds, NEW id \in LifecycleIds, NEW e \in Evidence,
               EntryAllowed(ledger, id, s, ledger.revision)
        PROVE  Valid(Entered(ledger, id, s, e))
    BY <2>4, EntryPreserves DEF LedgerInvariant
  <2>5. ASSUME NEW s \in SignalIds, NEW id \in LifecycleIds, NEW e \in Evidence,
               NEW state \in Outcomes,
               TerminalAllowed(ledger, id, s, state, ledger.revision)
        PROVE  Valid(Terminated(ledger, id, s, state, e))
    BY <2>5, TerminalPreserves DEF LedgerInvariant
  <2> QED BY <2>1, <2>2, <2>3, <2>4, <2>5 DEF GuardsKeepDocumentValid
<1>2. QED BY <1>1, LedgerInvariantHolds, PTL
-----------------------------------------------------------------------------
(* Action properties. *)

\* A PREPARED transaction claims no registered signal.
LEMMA PreparedIsUnregistered ==
    ASSUME NEW L, LedgerInvariant(L), NEW id \in DOMAIN L.transactions,
           L.transactions[id].state = Prepared
    PROVE  L.transactions[id].signal_id \notin DOMAIN L.signals
<1> SUFFICES ASSUME L.transactions[id].signal_id \in DOMAIN L.signals PROVE FALSE
  OBVIOUS
<1>1. PICK y \in DOMAIN L.transactions :
          /\ L.transactions[y].state = Committed
          /\ L.transactions[y].signal_id = L.transactions[id].signal_id
  BY DEF LedgerInvariant, SignalsAreCommitted
<1> QED BY <1>1 DEF LedgerInvariant, ClaimsAreUnique, Prepared, Committed

\* An operation changes no signal that has ended and no settled transaction.
LEMMA OperationKeepsSettled ==
    ASSUME LedgerInvariant(ledger), DocumentStep
    PROVE  /\ \A s \in DOMAIN ledger.signals :
                 ledger.signals[s].state \in TerminalStates =>
                     /\ s \in DOMAIN ledger'.signals
                     /\ ledger'.signals[s] = ledger.signals[s]
           /\ \A x \in DOMAIN ledger.transactions :
                 ledger.transactions[x].state # Prepared =>
                     /\ x \in DOMAIN ledger'.transactions
                     /\ ledger'.transactions[x] = ledger.transactions[x]
<1> DEFINE SignalsKept ==
               \A s \in DOMAIN ledger.signals :
                   ledger.signals[s].state \in TerminalStates =>
                       /\ s \in DOMAIN ledger'.signals
                       /\ ledger'.signals[s] = ledger.signals[s]
           TransactionsKept ==
               \A x \in DOMAIN ledger.transactions :
                   ledger.transactions[x].state # Prepared =>
                       /\ x \in DOMAIN ledger'.transactions
                       /\ ledger'.transactions[x] = ledger.transactions[x]
<1>1. CASE ledger' = ledger
  BY <1>1
<1>2. ASSUME NEW x \in DOMAIN ledger.transactions,
             ledger.transactions[x].state = Prepared,
             ledger' \in {CommitOccupancy(ledger, x), Abandon(ledger, x)}
      PROVE  SignalsKept /\ TransactionsKept
  <2>1. ledger.transactions[x].signal_id \notin DOMAIN ledger.signals
    BY <1>2, PreparedIsUnregistered
  <2>2. CASE ledger' = CommitOccupancy(ledger, x)
    BY <1>2, <2>1, <2>2 DEF CommitOccupancy, Put
  <2>3. CASE ledger' = Abandon(ledger, x)
    BY <1>2, <2>3 DEF Abandon, Put
  <2> QED BY <1>2, <2>2, <2>3
<1>3. ASSUME NEW r \in Requests,
             ReservationAllowed(ledger, r, ledger.revision),
             ledger' \in {Prepare(ledger, r), PrepareAndCommit(ledger, r)}
      PROVE  SignalsKept /\ TransactionsKept
  <2>1. /\ r.transaction_id \notin DOMAIN ledger.transactions
        /\ r.signal_id \notin DOMAIN ledger.signals
    BY <1>3 DEF ReservationAllowed
  <2>2. CASE ledger' = Prepare(ledger, r)
    BY <2>1, <2>2 DEF Prepare, WithCandidate, Put
  <2>3. CASE ledger' = PrepareAndCommit(ledger, r)
    BY <2>1, <2>3
       DEF PrepareAndCommit, WithCandidate, CommitOccupancy, TransactionOf, Put
  <2> QED BY <1>3, <2>2, <2>3
<1>4. ASSUME NEW id \in LifecycleIds, NEW s \in SignalIds, NEW e \in Evidence,
             EntryAllowed(ledger, id, s, ledger.revision),
             ledger' = Entered(ledger, id, s, e)
      PROVE  SignalsKept /\ TransactionsKept
  BY <1>4 DEF EntryAllowed, Entered, Put, TerminalStates, PendingEntry
<1>5. ASSUME NEW id \in LifecycleIds, NEW s \in SignalIds, NEW e \in Evidence,
             NEW state \in Outcomes,
             TerminalAllowed(ledger, id, s, state, ledger.revision),
             ledger' = Terminated(ledger, id, s, state, e)
      PROVE  SignalsKept /\ TransactionsKept
  BY <1>5 DEF TerminalAllowed, Terminated, Put, TerminalStates, PendingEntry,
              EntryActive
<1> QED BY <1>1, <1>2, <1>3, <1>4, <1>5 DEF DocumentStep

\* A terminal outcome and a settled publication are final.
THEOREM TerminalHolds == Spec => TerminalIsFinal
<1>1. LedgerInvariant(ledger) /\ [Next]_vars =>
          [ /\ \A s \in DOMAIN ledger.signals :
                  ledger.signals[s].state \in TerminalStates =>
                      /\ s \in DOMAIN ledger'.signals
                      /\ ledger'.signals[s] = ledger.signals[s]
            /\ \A x \in DOMAIN ledger.transactions :
                  ledger.transactions[x].state # Prepared =>
                      /\ x \in DOMAIN ledger'.transactions
                      /\ ledger'.transactions[x] = ledger.transactions[x] ]_vars
  BY NextIsDocumentStep, OperationKeepsSettled
<1>2. QED BY <1>1, LedgerInvariantHolds, PTL DEF Spec, TerminalIsFinal

-----------------------------------------------------------------------------
(* History. *)

\* Where the ids of recorded transitions come from: a transaction has that of
\* the request that opened it, and a recorded id is that of a committed
\* transaction or was made up for an entry or an ending.
IdsHaveOrigins(L) ==
    /\ \A x \in DOMAIN L.transactions :
          \E r \in Requests :
              /\ r.transaction_id = x
              /\ r.transition_id = L.transactions[x].reservation_transition_id
    /\ \A t \in DOMAIN L.transitions :
          \/ t \in LifecycleIds
          \/ \E x \in DOMAIN L.transactions :
                /\ L.transactions[x].state = Committed
                /\ L.transactions[x].reservation_transition_id = t

\* M has every transition of L, as it was.
KeepsHistory(L, M) ==
    \A t \in DOMAIN L.transitions :
        /\ t \in DOMAIN M.transitions
        /\ M.transitions[t] = L.transitions[t]

\* Under fresh reservation ids a PREPARED transaction's is not recorded yet.
LEMMA PreparedIdIsNew ==
    ASSUME ReservationIdsFresh, NEW L, IdsHaveOrigins(L),
           NEW x \in DOMAIN L.transactions, L.transactions[x].state = Prepared
    PROVE  L.transactions[x].reservation_transition_id \notin DOMAIN L.transitions
<1> DEFINE id == L.transactions[x].reservation_transition_id
<1> SUFFICES ASSUME id \in DOMAIN L.transitions PROVE FALSE
  OBVIOUS
<1>1. PICK r \in Requests : r.transaction_id = x /\ r.transition_id = id
  BY DEF IdsHaveOrigins
<1>2. id \notin LifecycleIds
  BY <1>1 DEF ReservationIdsFresh, ReservationIds
<1>3. PICK y \in DOMAIN L.transactions :
          /\ L.transactions[y].state = Committed
          /\ L.transactions[y].reservation_transition_id = id
  BY <1>2 DEF IdsHaveOrigins
<1>4. PICK q \in Requests : q.transaction_id = y /\ q.transition_id = id
  BY <1>3 DEF IdsHaveOrigins
<1>5. x = y
  BY <1>1, <1>4 DEF ReservationIdsFresh
<1> QED BY <1>3, <1>5 DEF Prepared, Committed

\* A commit records the transaction's own id, which is new.
LEMMA CommitKeepsHistory ==
    ASSUME ReservationIdsFresh, NEW L, IsLedger(L), IdsHaveOrigins(L),
           NEW x \in DOMAIN L.transactions, L.transactions[x].state = Prepared
    PROVE  /\ IdsHaveOrigins(CommitOccupancy(L, x))
           /\ KeepsHistory(L, CommitOccupancy(L, x))
<1> DEFINE C == CommitOccupancy(L, x)
           id == L.transactions[x].reservation_transition_id
           settled == [L.transactions[x] EXCEPT !.state = Committed]
<1>1. settled.state = Committed /\ settled.reservation_transition_id = id
  <2>1. L.transactions[x] \in TransactionRecords
    BY DEF IsLedger, IsDict
  <2> QED BY <2>1 DEF TransactionRecords
<1>2. /\ DOMAIN C.transactions = DOMAIN L.transactions
      /\ C.transactions[x] = settled
      /\ \A y \in DOMAIN L.transactions :
             y # x => C.transactions[y] = L.transactions[y]
      /\ DOMAIN C.transitions = DOMAIN L.transitions \cup {id}
      /\ \A t \in DOMAIN L.transitions :
             t # id => C.transitions[t] = L.transitions[t]
  BY DEF CommitOccupancy, Put
<1>3. id \notin DOMAIN L.transitions
  BY PreparedIdIsNew
<1> HIDE DEF C, settled
<1>4. KeepsHistory(L, C)
  BY <1>2, <1>3 DEF KeepsHistory
<1>5. IdsHaveOrigins(C)
  <2>1. ASSUME NEW y \in DOMAIN C.transactions
        PROVE  C.transactions[y].reservation_transition_id =
                   L.transactions[y].reservation_transition_id
    BY <1>1, <1>2
  <2>2. ASSUME NEW y \in DOMAIN C.transactions
        PROVE  \E r \in Requests :
                   /\ r.transaction_id = y
                   /\ r.transition_id = C.transactions[y].reservation_transition_id
    BY <1>2, <2>1 DEF IdsHaveOrigins
  <2>3. ASSUME NEW t \in DOMAIN C.transitions, t \notin LifecycleIds
        PROVE  \E y \in DOMAIN C.transactions :
                   /\ C.transactions[y].state = Committed
                   /\ C.transactions[y].reservation_transition_id = t
    <3>1. CASE t = id
      BY <1>1, <1>2, <3>1
    <3>2. CASE t # id
      <4>1. PICK y \in DOMAIN L.transactions :
                /\ L.transactions[y].state = Committed
                /\ L.transactions[y].reservation_transition_id = t
        BY <1>2, <2>3, <3>2 DEF IdsHaveOrigins
      <4>2. C.transactions[y] = L.transactions[y]
        BY <1>2, <4>1 DEF Prepared, Committed
      <4> QED BY <1>2, <4>1, <4>2
    <3> QED BY <3>1, <3>2
  <2> QED BY <2>2, <2>3 DEF IdsHaveOrigins
<1> QED BY <1>4, <1>5 DEF C

\* A new PREPARED transaction bears its request's id and records no transition.
LEMMA CandidateKeepsHistory ==
    ASSUME NEW L, IsLedger(L), IdsHaveOrigins(L), NEW r \in Requests,
           r.transaction_id \notin DOMAIN L.transactions,
           NEW M, M.transitions = L.transitions,
           M.transactions = WithCandidate(L, r).transactions
    PROVE  IdsHaveOrigins(M) /\ KeepsHistory(L, M)
<1>1. /\ DOMAIN M.transactions = DOMAIN L.transactions \cup {r.transaction_id}
      /\ M.transactions[r.transaction_id].reservation_transition_id =
             r.transition_id
      /\ \A y \in DOMAIN L.transactions : M.transactions[y] = L.transactions[y]
  BY DEF WithCandidate, TransactionOf, Put
<1>2. ASSUME NEW y \in DOMAIN M.transactions
      PROVE  \E q \in Requests :
                 /\ q.transaction_id = y
                 /\ q.transition_id = M.transactions[y].reservation_transition_id
  <2>1. CASE y = r.transaction_id
    BY <1>1, <2>1
  <2>2. CASE y # r.transaction_id
    BY <1>1, <2>2 DEF IdsHaveOrigins
  <2> QED BY <2>1, <2>2
<1>3. ASSUME NEW t \in DOMAIN M.transitions, t \notin LifecycleIds
      PROVE  \E y \in DOMAIN M.transactions :
                 /\ M.transactions[y].state = Committed
                 /\ M.transactions[y].reservation_transition_id = t
  BY <1>1, <1>3 DEF IdsHaveOrigins
<1> QED BY <1>2, <1>3 DEF IdsHaveOrigins, KeepsHistory

\* Abandoning a transaction and recording an entry or an ending keep both.
LEMMA OtherwiseKeepsHistory ==
    ASSUME NEW L, IsLedger(L), IdsHaveOrigins(L), NEW M,
           DOMAIN M.transactions = DOMAIN L.transactions,
           \A x \in DOMAIN L.transactions :
               /\ M.transactions[x].reservation_transition_id =
                      L.transactions[x].reservation_transition_id
               /\ L.transactions[x].state = Committed =>
                      M.transactions[x].state = Committed,
           KeepsHistory(L, M),
           DOMAIN M.transitions \subseteq DOMAIN L.transitions \cup LifecycleIds
    PROVE  IdsHaveOrigins(M)
  BY DEF IdsHaveOrigins

\* Under fresh reservation ids every operation keeps the origins of ids, and
\* none rewrites a transition.
LEMMA OperationKeepsHistory ==
    ASSUME ReservationIdsFresh, LedgerInvariant(ledger), IdsHaveOrigins(ledger),
           DocumentStep
    PROVE  IdsHaveOrigins(ledger') /\ KeepsHistory(ledger, ledger')
<1> DEFINE Kept == IdsHaveOrigins(ledger') /\ KeepsHistory(ledger, ledger')
<1>1. IsLedger(ledger)
  BY DEF LedgerInvariant
<1>2. CASE ledger' = ledger
  BY <1>2 DEF KeepsHistory
<1>3. ASSUME NEW x \in DOMAIN ledger.transactions,
             ledger.transactions[x].state = Prepared,
             ledger' = CommitOccupancy(ledger, x)
      PROVE  Kept
  BY <1>1, <1>3, CommitKeepsHistory
<1>4. ASSUME NEW x \in DOMAIN ledger.transactions,
             ledger.transactions[x].state = Prepared,
             ledger' = Abandon(ledger, x)
      PROVE  Kept
  <2>1. ledger.transactions[x] \in TransactionRecords
    BY <1>1 DEF IsLedger, IsDict
  <2>2. /\ ledger'.transitions = ledger.transitions
        /\ DOMAIN ledger'.transactions = DOMAIN ledger.transactions
        /\ \A y \in DOMAIN ledger.transactions :
               /\ ledger'.transactions[y].reservation_transition_id =
                      ledger.transactions[y].reservation_transition_id
               /\ ledger.transactions[y].state = Committed =>
                      ledger'.transactions[y].state = Committed
    BY <1>4, <2>1 DEF Abandon, Put, TransactionRecords, Prepared, Committed
  <2>3. KeepsHistory(ledger, ledger')
    BY <2>2 DEF KeepsHistory
  <2> QED BY <1>1, <2>2, <2>3, OtherwiseKeepsHistory
<1>5. ASSUME NEW r \in Requests,
             ReservationAllowed(ledger, r, ledger.revision),
             ledger' = Prepare(ledger, r)
      PROVE  Kept
  <2>1. /\ r.transaction_id \notin DOMAIN ledger.transactions
        /\ ledger'.transitions = ledger.transitions
        /\ ledger'.transactions = WithCandidate(ledger, r).transactions
    BY <1>5 DEF ReservationAllowed, Prepare, WithCandidate
  <2> QED BY <1>1, <2>1, CandidateKeepsHistory
<1>6. ASSUME NEW r \in Requests,
             ReservationAllowed(ledger, r, ledger.revision),
             ledger' = PrepareAndCommit(ledger, r)
      PROVE  Kept
  <2> DEFINE K == WithCandidate(ledger, r)
  <2>1. /\ r.transaction_id \notin DOMAIN ledger.transactions
        /\ K.transitions = ledger.transitions
    BY <1>6 DEF ReservationAllowed, WithCandidate
  <2>2. /\ r.transaction_id \in DOMAIN K.transactions
        /\ K.transactions[r.transaction_id].state = Prepared
    BY DEF WithCandidate, TransactionOf, Put
  <2>3. IsLedger(K)
    BY <1>1, PrepareTyped
  <2>4. ledger' = CommitOccupancy(K, r.transaction_id)
    BY <1>6 DEF PrepareAndCommit
  <2>5. IdsHaveOrigins(K) /\ KeepsHistory(ledger, K)
    BY <1>1, <2>1, CandidateKeepsHistory
  <2> HIDE DEF K
  <2>6. IdsHaveOrigins(ledger') /\ KeepsHistory(K, ledger')
    BY <2>2, <2>3, <2>4, <2>5, CommitKeepsHistory
  <2> QED BY <2>1, <2>6 DEF KeepsHistory
<1>7. ASSUME NEW id \in LifecycleIds, NEW s \in SignalIds, NEW e \in Evidence,
             EntryAllowed(ledger, id, s, ledger.revision),
             ledger' = Entered(ledger, id, s, e)
      PROVE  Kept
  <2>1. KeepsHistory(ledger, ledger')
    BY <1>7 DEF EntryAllowed, Entered, Put, KeepsHistory
  <2>2. /\ ledger'.transactions = ledger.transactions
        /\ DOMAIN ledger'.transitions = DOMAIN ledger.transitions \cup {id}
    BY <1>7 DEF Entered, Put
  <2> QED BY <1>1, <2>1, <2>2, OtherwiseKeepsHistory
<1>8. ASSUME NEW id \in LifecycleIds, NEW s \in SignalIds, NEW e \in Evidence,
             NEW state \in Outcomes,
             TerminalAllowed(ledger, id, s, state, ledger.revision),
             ledger' = Terminated(ledger, id, s, state, e)
      PROVE  Kept
  <2>1. KeepsHistory(ledger, ledger')
    BY <1>8 DEF TerminalAllowed, Terminated, Put, KeepsHistory
  <2>2. /\ ledger'.transactions = ledger.transactions
        /\ DOMAIN ledger'.transitions = DOMAIN ledger.transitions \cup {id}
    BY <1>8 DEF Terminated, Put
  <2> QED BY <1>1, <2>1, <2>2, OtherwiseKeepsHistory
<1> QED BY <1>2, <1>3, <1>4, <1>5, <1>6, <1>7, <1>8 DEF DocumentStep

\* Callers that keep reservation ids apart never overwrite a transition.
THEOREM HistoryHolds ==
    ASSUME ReservationIdsFresh
    PROVE  Spec => HistoryIsAppendOnly
<1>1. Init => IdsHaveOrigins(ledger)
  BY DEF Init, EmptyLedger, NoEntries, IdsHaveOrigins
<1>2. LedgerInvariant(ledger) /\ IdsHaveOrigins(ledger) /\ [Next]_vars =>
          IdsHaveOrigins(ledger)'
  BY NextIsDocumentStep, OperationKeepsHistory DEF IdsHaveOrigins
<1>3. LedgerInvariant(ledger) /\ IdsHaveOrigins(ledger) /\ [Next]_vars =>
          [ \A t \in DOMAIN ledger.transitions :
                /\ t \in DOMAIN ledger'.transitions
                /\ ledger'.transitions[t] = ledger.transitions[t] ]_vars
  BY NextIsDocumentStep, OperationKeepsHistory DEF KeepsHistory
<1>4. QED
  BY <1>1, <1>2, <1>3, LedgerInvariantHolds, PTL DEF Spec, HistoryIsAppendOnly

-----------------------------------------------------------------------------
(* The shape of the history. *)

\* How far along its life a signal is.
Stage(state) ==
    CASE state = None -> 0
      [] state = PendingEntry -> 1
      [] state = EntryActive -> 2
      [] OTHER -> 3

\* HistoryIsAPath of any document, in its three parts.
LastTransitionExplains(L) ==
    \A s \in DOMAIN L.signals :
        LET last == L.signals[s].last_transition_id IN
        /\ last \in DOMAIN L.transitions
        /\ L.transitions[last].signal_id = s
        /\ L.transitions[last].to_state = L.signals[s].state

StepsConnect(L) ==
    \A t \in DOMAIN L.transitions : L.transitions[t].operation # "RESERVE" =>
        \E u \in DOMAIN L.transitions :
            /\ L.transitions[u].signal_id = L.transitions[t].signal_id
            /\ L.transitions[u].to_state = L.transitions[t].from_state
            /\ L.transitions[u].revision < L.transitions[t].revision

StepsDiffer(L) ==
    \A t, u \in DOMAIN L.transitions :
        \/ L.transitions[t].revision = L.transitions[u].revision
        \/ /\ L.transitions[t].signal_id = L.transitions[u].signal_id
           /\ L.transitions[t].from_state = L.transitions[u].from_state
        => t = u

\* No transition is younger than the document, and none starts where its
\* signal is now or later.
StepsArePast(L) ==
    \A t \in DOMAIN L.transitions :
        /\ L.transitions[t].revision <= L.revision
        /\ L.transitions[t].signal_id \in DOMAIN L.signals
        /\ Stage(L.transitions[t].from_state) <
               Stage(L.signals[L.transitions[t].signal_id].state)

PathInvariant(L) ==
    LastTransitionExplains(L) /\ StepsConnect(L) /\ StepsDiffer(L) /\ StepsArePast(L)

\* Recording a transition `id` that takes signal s from where it is to a later
\* state keeps the path; a reservation takes it from nowhere.
LEMMA RecordKeepsPath ==
    ASSUME NEW L, IsLedger(L), PathInvariant(L), NEW M, IsLedger(M), NEW s, NEW id,
           id \notin DOMAIN L.transitions,
           DOMAIN M.transitions = DOMAIN L.transitions \cup {id},
           \A t \in DOMAIN L.transitions : M.transitions[t] = L.transitions[t],
           DOMAIN M.signals = DOMAIN L.signals \cup {s},
           \A r \in DOMAIN L.signals : r # s => M.signals[r] = L.signals[r],
           M.revision = L.revision + 1,
           M.transitions[id].revision = M.revision,
           M.transitions[id].signal_id = s,
           M.transitions[id].to_state = M.signals[s].state,
           M.signals[s].last_transition_id = id,
           Stage(M.transitions[id].from_state) < Stage(M.signals[s].state),
           \/ /\ s \notin DOMAIN L.signals
              /\ M.transitions[id].operation = "RESERVE"
           \/ /\ s \in DOMAIN L.signals
              /\ M.transitions[id].from_state = L.signals[s].state
    PROVE  PathInvariant(M)
<1>1. /\ L.revision \in Nat
      /\ \A t \in DOMAIN L.transitions : L.transitions[t].revision \in Nat
      /\ \A state : Stage(state) \in Nat
  BY DEF IsLedger, IsDict, TransitionRecords, Stage
<1>2. LastTransitionExplains(M)
  <2> SUFFICES ASSUME NEW r \in DOMAIN M.signals
               PROVE  LET last == M.signals[r].last_transition_id IN
                      /\ last \in DOMAIN M.transitions
                      /\ M.transitions[last].signal_id = r
                      /\ M.transitions[last].to_state = M.signals[r].state
    BY DEF LastTransitionExplains
  <2>1. CASE r = s
    BY <2>1
  <2>2. CASE r # s
    BY <2>2 DEF PathInvariant, LastTransitionExplains
  <2> QED BY <2>1, <2>2
<1>3. StepsConnect(M)
  <2> SUFFICES ASSUME NEW t \in DOMAIN M.transitions,
                      M.transitions[t].operation # "RESERVE"
               PROVE  \E u \in DOMAIN M.transitions :
                          /\ M.transitions[u].signal_id = M.transitions[t].signal_id
                          /\ M.transitions[u].to_state = M.transitions[t].from_state
                          /\ M.transitions[u].revision < M.transitions[t].revision
    BY DEF StepsConnect
  <2>1. CASE t = id
    <3> DEFINE last == L.signals[s].last_transition_id
    <3>1. /\ s \in DOMAIN L.signals
          /\ M.transitions[t].from_state = L.signals[s].state
      BY <2>1
    <3>2. /\ last \in DOMAIN L.transitions
          /\ L.transitions[last].signal_id = s
          /\ L.transitions[last].to_state = L.signals[s].state
      BY <3>1 DEF PathInvariant, LastTransitionExplains
    <3>3. L.transitions[last].revision < M.transitions[t].revision
      BY <1>1, <2>1, <3>2 DEF PathInvariant, StepsArePast
    <3> QED BY <2>1, <3>1, <3>2, <3>3
  <2>2. CASE t # id
    BY <2>2 DEF PathInvariant, StepsConnect
  <2> QED BY <2>1, <2>2
<1>4. StepsDiffer(M)
  <2>1. ASSUME NEW t \in DOMAIN L.transitions
        PROVE  /\ M.transitions[t].revision # M.transitions[id].revision
               /\ M.transitions[t].signal_id = s =>
                      M.transitions[t].from_state # M.transitions[id].from_state
    <3>1. M.transitions[t].revision <= L.revision
      BY DEF PathInvariant, StepsArePast
    <3>2. ASSUME M.transitions[t].signal_id = s
          PROVE  M.transitions[t].from_state # M.transitions[id].from_state
      <4>1. /\ s \in DOMAIN L.signals
            /\ Stage(L.transitions[t].from_state) < Stage(L.signals[s].state)
        BY <3>2 DEF PathInvariant, StepsArePast
      <4>2. M.transitions[id].from_state = L.signals[s].state
        BY <4>1
      <4> QED BY <1>1, <4>1, <4>2
    <3> QED BY <1>1, <3>1, <3>2
  <2>2. ASSUME NEW t \in DOMAIN L.transitions, NEW u \in DOMAIN L.transitions,
               \/ M.transitions[t].revision = M.transitions[u].revision
               \/ /\ M.transitions[t].signal_id = M.transitions[u].signal_id
                  /\ M.transitions[t].from_state = M.transitions[u].from_state
        PROVE  t = u
    BY <2>2 DEF PathInvariant, StepsDiffer
  <2> QED BY <2>1, <2>2 DEF StepsDiffer
<1>5. StepsArePast(M)
  <2> SUFFICES ASSUME NEW t \in DOMAIN M.transitions
               PROVE  /\ M.transitions[t].revision <= M.revision
                      /\ M.transitions[t].signal_id \in DOMAIN M.signals
                      /\ Stage(M.transitions[t].from_state) <
                             Stage(M.signals[M.transitions[t].signal_id].state)
    BY DEF StepsArePast
  <2>1. CASE t = id
    BY <1>1, <2>1
  <2>2. CASE t # id
    <3>1. /\ L.transitions[t].revision <= L.revision
          /\ L.transitions[t].signal_id \in DOMAIN L.signals
          /\ Stage(L.transitions[t].from_state) <
                 Stage(L.signals[L.transitions[t].signal_id].state)
      BY <2>2 DEF PathInvariant, StepsArePast
    <3>2. CASE L.transitions[t].signal_id # s
      BY <1>1, <2>2, <3>1, <3>2
    <3>3. CASE L.transitions[t].signal_id = s
      <4>1. Stage(L.signals[s].state) < Stage(M.signals[s].state)
        BY <3>1, <3>3
      <4>2. Stage(L.transitions[t].from_state) < Stage(M.signals[s].state)
        BY <1>1, <3>1, <3>3, <4>1
      <4> QED BY <1>1, <2>2, <3>1, <3>3, <4>2
    <3> QED BY <3>2, <3>3
  <2> QED BY <2>1, <2>2
<1> QED BY <1>2, <1>3, <1>4, <1>5 DEF PathInvariant

\* A document that only opens or settles a transaction keeps the path.
LEMMA OtherwiseKeepsPath ==
    ASSUME NEW L, IsLedger(L), PathInvariant(L), NEW M,
           M.signals = L.signals, M.transitions = L.transitions,
           M.revision \in {L.revision, L.revision + 1}
    PROVE  PathInvariant(M)
<1>1. /\ L.revision \in Nat
      /\ \A t \in DOMAIN L.transitions : L.transitions[t].revision \in Nat
  BY DEF IsLedger, IsDict, TransitionRecords
<1>2. StepsArePast(M)
  BY <1>1 DEF PathInvariant, StepsArePast
<1> QED BY <1>2 DEF PathInvariant, LastTransitionExplains, StepsConnect, StepsDiffer

\* A commit registers a new signal under a new id.
LEMMA CommitKeepsPath ==
    ASSUME ReservationIdsFresh, NEW L, LedgerInvariant(L), IdsHaveOrigins(L),
           PathInvariant(L), NEW x \in DOMAIN L.transactions,
           L.transactions[x].state = Prepared
    PROVE  PathInvariant(CommitOccupancy(L, x))
<1> DEFINE C == CommitOccupancy(L, x)
           id == L.transactions[x].reservation_transition_id
           s == L.transactions[x].signal_id
<1>1. IsLedger(L) /\ IsLedger(C)
  BY CommitTyped DEF LedgerInvariant
<1>2. id \notin DOMAIN L.transitions /\ s \notin DOMAIN L.signals
  BY PreparedIdIsNew, PreparedIsUnregistered
<1>3. /\ DOMAIN C.transitions = DOMAIN L.transitions \cup {id}
      /\ C.transitions[id] = ReserveTransition(s, L.revision + 1)
      /\ \A t \in DOMAIN L.transitions : C.transitions[t] = L.transitions[t]
      /\ DOMAIN C.signals = DOMAIN L.signals \cup {s}
      /\ C.signals[s] = PublishedSignal(L.transactions[x])
      /\ \A r \in DOMAIN L.signals : r # s => C.signals[r] = L.signals[r]
      /\ C.revision = L.revision + 1
  BY <1>2 DEF CommitOccupancy, Put
<1>4. /\ C.transitions[id].revision = C.revision
      /\ C.transitions[id].signal_id = s
      /\ C.transitions[id].operation = "RESERVE"
      /\ C.transitions[id].from_state = None
      /\ C.transitions[id].to_state = PendingEntry
      /\ C.signals[s].state = PendingEntry
      /\ C.signals[s].last_transition_id = id
  BY <1>3 DEF ReserveTransition, PublishedSignal
<1>5. Stage(None) < Stage(PendingEntry)
  BY RequestAssumption DEF Stage, LifecycleStates, PendingEntry
<1> HIDE DEF C, id, s
<1>6. PathInvariant(C)
  BY <1>1, <1>2, <1>3, <1>4, <1>5, RecordKeepsPath
<1> QED BY <1>6 DEF C

\* Under fresh reservation ids every operation keeps the path.
LEMMA OperationKeepsPath ==
    ASSUME ReservationIdsFresh, LedgerInvariant(ledger), LedgerInvariant(ledger'),
           IdsHaveOrigins(ledger), PathInvariant(ledger), DocumentStep
    PROVE  PathInvariant(ledger')
<1>1. IsLedger(ledger) /\ IsLedger(ledger')
  BY DEF LedgerInvariant
<1>2. CASE ledger' = ledger
  BY <1>2
<1>3. ASSUME NEW x \in DOMAIN ledger.transactions,
             ledger.transactions[x].state = Prepared,
             ledger' = CommitOccupancy(ledger, x)
      PROVE  PathInvariant(ledger')
  BY <1>3, CommitKeepsPath
<1>4. ASSUME NEW x \in DOMAIN ledger.transactions, ledger' = Abandon(ledger, x)
      PROVE  PathInvariant(ledger')
  BY <1>1, <1>4, OtherwiseKeepsPath DEF Abandon
<1>5. ASSUME NEW r \in Requests, ledger' = Prepare(ledger, r)
      PROVE  PathInvariant(ledger')
  BY <1>1, <1>5, OtherwiseKeepsPath DEF Prepare, WithCandidate
<1>6. ASSUME NEW r \in Requests,
             ReservationAllowed(ledger, r, ledger.revision),
             ledger' = PrepareAndCommit(ledger, r)
      PROVE  PathInvariant(ledger')
  <2> DEFINE K == WithCandidate(ledger, r)
  <2>1. /\ r.transaction_id \in DOMAIN K.transactions
        /\ K.transactions[r.transaction_id].state = Prepared
    BY DEF WithCandidate, TransactionOf, Put
  <2>2. PathInvariant(K)
    BY <1>1, OtherwiseKeepsPath DEF WithCandidate
  <2>3. IdsHaveOrigins(K)
    <3>1. /\ r.transaction_id \notin DOMAIN ledger.transactions
          /\ K.transitions = ledger.transitions
      BY <1>6 DEF ReservationAllowed, WithCandidate
    <3> QED BY <1>1, <3>1, CandidateKeepsHistory
  <2>4. LedgerInvariant(K)
    BY <1>6, CandidatePreserves
  <2>5. ledger' = CommitOccupancy(K, r.transaction_id)
    BY <1>6 DEF PrepareAndCommit
  <2> HIDE DEF K
  <2> QED BY <2>1, <2>2, <2>3, <2>4, <2>5, CommitKeepsPath
<1>7. ASSUME NEW id \in LifecycleIds, NEW s \in SignalIds, NEW e \in Evidence,
             EntryAllowed(ledger, id, s, ledger.revision),
             ledger' = Entered(ledger, id, s, e)
      PROVE  PathInvariant(ledger')
  <2>1. /\ s \in DOMAIN ledger.signals
        /\ id \notin DOMAIN ledger.transitions
        /\ ledger.signals[s].state = PendingEntry
        /\ ledger.signals[s] \in SignalRecords
    BY <1>1, <1>7 DEF EntryAllowed, IsLedger, IsDict
  <2>2. /\ DOMAIN ledger'.transitions = DOMAIN ledger.transitions \cup {id}
        /\ ledger'.transitions[id] = EntryTransition(s, e, ledger.revision + 1)
        /\ \A t \in DOMAIN ledger.transitions :
               ledger'.transitions[t] = ledger.transitions[t]
        /\ DOMAIN ledger'.signals = DOMAIN ledger.signals \cup {s}
        /\ ledger'.signals[s].state = EntryActive
        /\ ledger'.signals[s].last_transition_id = id
        /\ \A r \in DOMAIN ledger.signals :
               r # s => ledger'.signals[r] = ledger.signals[r]
        /\ ledger'.revision = ledger.revision + 1
    BY <1>7, <2>1 DEF Entered, Put, SignalRecords
  <2>3. /\ ledger'.transitions[id].revision = ledger'.revision
        /\ ledger'.transitions[id].signal_id = s
        /\ ledger'.transitions[id].from_state = PendingEntry
        /\ ledger'.transitions[id].to_state = EntryActive
    BY <2>2 DEF EntryTransition
  <2>4. Stage(PendingEntry) < Stage(EntryActive)
    BY RequestAssumption DEF Stage, LifecycleStates, PendingEntry, EntryActive
  <2> QED BY <1>1, <2>1, <2>2, <2>3, <2>4, RecordKeepsPath
<1>8. ASSUME NEW id \in LifecycleIds, NEW s \in SignalIds, NEW e \in Evidence,
             NEW state \in Outcomes,
             TerminalAllowed(ledger, id, s, state, ledger.revision),
             ledger' = Terminated(ledger, id, s, state, e)
      PROVE  PathInvariant(ledger')
  <2>1. /\ s \in DOMAIN ledger.signals
        /\ id \notin DOMAIN ledger.transitions
        /\ ledger.signals[s].state \in {PendingEntry, EntryActive}
        /\ ledger.signals[s] \in SignalRecords
    BY <1>1, <1>8 DEF TerminalAllowed, IsLedger, IsDict
  <2>2. /\ DOMAIN ledger'.transitions = DOMAIN ledger.transitions \cup {id}
        /\ ledger'.transitions[id] =
               TerminalTransition(s, ledger.signals[s].state, state, e,
                                  ledger.revision + 1)
        /\ \A t \in DOMAIN ledger.transitions :
               ledger'.transitions[t] = ledger.transitions[t]
        /\ DOMAIN ledger'.signals = DOMAIN ledger.signals \cup {s}
        /\ ledger'.signals[s].state = state
        /\ ledger'.signals[s].last_transition_id = id
        /\ \A r \in DOMAIN ledger.signals :
               r # s => ledger'.signals[r] = ledger.signals[r]
        /\ ledger'.revision = ledger.revision + 1
    BY <1>8, <2>1 DEF Terminated, Put, SignalRecords
  <2>3. /\ ledger'.transitions[id].revision = ledger'.revision
        /\ ledger'.transitions[id].signal_id = s
        /\ ledger'.transitions[id].from_state = ledger.signals[s].state
        /\ ledger'.transitions[id].to_state = state
    BY <2>2 DEF TerminalTransition
  <2>4. Stage(ledger.signals[s].state) < Stage(state)
    BY <2>1, RequestAssumption
       DEF Stage, LifecycleStates, TerminalStates, PendingEntry, EntryActive
  <2> QED BY <1>1, <2>1, <2>2, <2>3, <2>4, RecordKeepsPath
<1> QED BY <1>2, <1>3, <1>4, <1>5, <1>6, <1>7, <1>8 DEF DocumentStep

\* The recorded transitions of a signal are a path from its reservation to its
\* state, for callers that keep reservation ids apart.
THEOREM HistoryIsAPathHolds ==
    ASSUME ReservationIdsFresh
    PROVE  Spec => []HistoryIsAPath
<1>1. Init => IdsHaveOrigins(ledger) /\ PathInvariant(ledger)
  BY DEF Init, EmptyLedger, NoEntries, IdsHaveOrigins, PathInvariant,
         LastTransitionExplains, StepsConnect, StepsDiffer, StepsArePast
<1>2. /\ LedgerInvariant(ledger) /\ LedgerInvariant(ledger)'
      /\ IdsHaveOrigins(ledger) /\ PathInvariant(ledger) /\ [Next]_vars
      => IdsHaveOrigins(ledger)' /\ PathInvariant(ledger)'
  <2> SUFFICES ASSUME LedgerInvariant(ledger), LedgerInvariant(ledger'),
                      IdsHaveOrigins(ledger), PathInvariant(ledger), [Next]_vars
               PROVE  IdsHaveOrigins(ledger') /\ PathInvariant(ledger')
    BY DEF IdsHaveOrigins, PathInvariant, LastTransitionExplains, StepsConnect,
           StepsDiffer, StepsArePast, LedgerInvariant
  <2> QED BY NextIsDocumentStep, OperationKeepsHistory, OperationKeepsPath
<1>3. PathInvariant(ledger) => HistoryIsAPath
  BY DEF PathInvariant, LastTransitionExplains, StepsConnect, StepsDiffer,
         HistoryIsAPath
<1> QED BY <1>1, <1>2, <1>3, LedgerInvariantHolds, PTL DEF Spec

-----------------------------------------------------------------------------
(* Decisions. *)

\* Committing a PREPARED transaction changes no registered signal.
LEMMA CommitChangesNoSignal ==
    ASSUME NEW L, LedgerInvariant(L), NEW x \in DOMAIN L.transactions,
           L.transactions[x].state = Prepared
    PROVE  \A s \in DOMAIN L.signals :
               CommitOccupancy(L, x).signals[s] = L.signals[s]
  BY PreparedIsUnregistered DEF CommitOccupancy, Put

\* A caller that stores a document has seen it.
LEMMA PersistIsSeen ==
    ASSUME TypeOK, NEW c \in Callers, NEW L, Persist(c, L)
    PROVE  observed'[c] = ledger'.revision
  BY DEF TypeOK, Persist, Returned

\* Whoever changes a signal had seen the document it replaces.
LEMMA StepIsNotStale ==
    ASSUME TypeOK, LedgerInvariant(ledger), [Next]_vars
    PROVE  \A s \in DOMAIN ledger.signals :
               ledger'.signals[s] # ledger.signals[s] =>
                   \E c \in Callers :
                       /\ observed[c] = ledger.revision
                       /\ observed'[c] = ledger'.revision
<1> DEFINE Unchanged ==
               \A s \in DOMAIN ledger.signals : ledger'.signals[s] = ledger.signals[s]
           Seen == \E c \in Callers : /\ observed[c] = ledger.revision
                                      /\ observed'[c] = ledger'.revision
<1>1. ASSUME NEW c \in Callers, Reread(c) PROVE Unchanged
  BY <1>1 DEF Reread
<1>2. ASSUME NEW c \in Callers, NEW L, Persist(c, L), observed[c] = ledger.revision
      PROVE  Seen
  BY <1>2, PersistIsSeen
<1>3. CASE UNCHANGED vars
  BY <1>3 DEF vars
<1>4. ASSUME NEW c \in Callers, NEW r \in Requests, NEW durable \in BOOLEAN,
             ReservePublishedSignal(c, r, durable)
      PROVE  Unchanged \/ Seen
  <2>1. CASE /\ ResumeAllowed(ledger, r)
             /\ Persist(c, CommitOccupancy(ledger, r.transaction_id))
    BY <2>1, CommitChangesNoSignal
       DEF ResumeAllowed, ReservationKnown, Persist
  <2>2. CASE /\ ReservationAllowed(ledger, r, observed[c])
             /\ Persist(c, IF durable THEN PrepareAndCommit(ledger, r)
                                      ELSE Prepare(ledger, r))
    BY <1>2, <2>2 DEF ReservationAllowed
  <2> QED BY <1>1, <1>4, <2>1, <2>2 DEF ReservePublishedSignal
<1>5. ASSUME NEW c \in Callers, NEW id \in LifecycleIds, NEW s \in SignalIds,
             NEW e \in Evidence, NEW strict \in BOOLEAN,
             MarkEntryActive(c, id, s, e, strict)
      PROVE  Unchanged \/ Seen
  <2>1. CASE /\ EntryAllowed(ledger, id, s, observed[c])
             /\ Persist(c, Entered(ledger, id, s, e))
    BY <1>2, <2>1 DEF EntryAllowed
  <2> QED BY <1>1, <1>5, <2>1 DEF MarkEntryActive
<1>6. ASSUME NEW c \in Callers, NEW id \in LifecycleIds, NEW s \in SignalIds,
             NEW e \in Evidence, NEW strict \in BOOLEAN, NEW state \in Outcomes,
             TransitionTerminal(c, id, s, state, e, strict)
      PROVE  Unchanged \/ Seen
  <2>1. CASE /\ TerminalAllowed(ledger, id, s, state, observed[c])
             /\ Persist(c, Terminated(ledger, id, s, state, e))
    BY <1>2, <2>1 DEF TerminalAllowed
  <2> QED BY <1>1, <1>6, <2>1 DEF TransitionTerminal
<1>7. ASSUME NEW c \in Callers, NEW x \in TransactionIds,
             NEW artifact \in Requests \cup {None},
             ReconcilePublicationState(c, x, artifact)
      PROVE  Unchanged \/ Seen
  <2>1. CASE /\ ReconcileOpen(ledger, x, observed[c])
             /\ \/ Persist(c, CommitOccupancy(ledger, x))
                \/ Persist(c, Abandon(ledger, x))
    BY <1>2, <2>1 DEF ReconcileOpen
  <2> QED BY <1>1, <1>7, <2>1 DEF ReconcilePublicationState
<1>8. ASSUME NEW c \in Callers, LoadLedger(c) PROVE Unchanged
  BY <1>1, <1>8 DEF LoadLedger
<1>9. Unchanged \/ Seen
  BY <1>3, <1>4, <1>5, <1>6, <1>7, <1>8 DEF Next
<1> QED BY <1>9

\* No signal changes on a decision taken on an outdated document.
THEOREM DecisionsAreNotStale == Spec => NoStaleDecision
<1>1. TypeOK /\ LedgerInvariant(ledger) /\ [Next]_vars =>
          [ \A s \in DOMAIN ledger.signals :
                ledger'.signals[s] # ledger.signals[s] =>
                    \E c \in Callers :
                        /\ observed[c] = ledger.revision
                        /\ observed'[c] = ledger'.revision ]_vars
  BY StepIsNotStale
<1>2. QED BY <1>1, TypeCorrect, LedgerInvariantHolds, PTL DEF Spec, NoStaleDecision

=============================================================================
