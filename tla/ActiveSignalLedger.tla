-------------------------- MODULE ActiveSignalLedger --------------------------
(***************************************************************************)
(* The durable active-signal ledger (active_signal_ledger_v1.py) and the   *)
(* callers that share it.  A caller loads the document, decides on what it *)
(* saw, and later calls an operation with the revision it saw; meanwhile   *)
(* other callers' operations may have been applied.  Each operation runs   *)
(* under the ledger's lock file and ends in one os.replace, so it is one   *)
(* atomic step here; LedgerFile justifies that.                            *)
(*                                                                         *)
(* A rejected call raises and changes nothing: it is a stuttering step and *)
(* has no action.  A crash between two operations leaves the document as   *)
(* it is; the restarted caller loads it again.                             *)
(***************************************************************************)
EXTENDS LedgerDocument

CONSTANTS
    Callers,        \* processes that use the ledger file
    Requests,       \* reservation requests the callers may submit
    LifecycleIds,   \* transition ids for entries and terminals
    Outcomes,       \* terminal states the callers may ask for
    Evidence,       \* occurrence times and reasons
    MaxRevision     \* bound on the revision counter

VARIABLES
    ledger,         \* the document in the ledger file
    observed        \* [Callers -> the revision each last saw]

vars == <<ledger, observed>>

SignalIds      == {r.signal_id : r \in Requests}
TransactionIds == {r.transaction_id : r \in Requests}
ReservationIds == {r.transition_id : r \in Requests}
TransitionIds  == ReservationIds \cup LifecycleIds

ASSUME RequestAssumption ==
    /\ \A r \in Requests :
          /\ DOMAIN r = {"transaction_id", "transition_id", "signal_id",
                         "delivery_id", "mode", "symbol", "payload"}
          /\ r.mode \in Modes
          /\ r.symbol \in Symbols
    /\ Outcomes \subseteq TerminalStates
    /\ None \notin Evidence \cup LifecycleStates
    /\ MaxRevision \in Nat

-----------------------------------------------------------------------------
Init ==
    /\ ledger = EmptyLedger
    /\ observed = [c \in Callers |-> 0]

\* The call returns the document, so the caller has seen its revision.
Returned(c, L) == observed' = [observed EXCEPT ![c] = L.revision]

\* Fault: a failed write is reported as done.
PersistSwallowingWriteFailure(c, L) ==
    /\ L.revision <= MaxRevision
    /\ Valid(L)
    /\ ledger' \in {ledger, L}
    /\ Returned(c, L)

\* _persist_mutation: the new document must validate before it replaces the
\* file.  MaxRevision bounds the counter.
Persist(c, L) ==
    /\ L.revision <= MaxRevision
    /\ Valid(L)
    /\ ledger' = L
    /\ Returned(c, L)

Reread(c) ==
    /\ UNCHANGED ledger
    /\ Returned(c, ledger)

LoadLedger(c) == Reread(c)

ReservePublishedSignal(c, request, durable) ==
    \/ /\ ResumeAllowed(ledger, request)
       /\ durable
       /\ Persist(c, CommitOccupancy(ledger, request.transaction_id))
    \/ /\ ReservationKnown(ledger, request)
       /\ ~(ResumeAllowed(ledger, request) /\ durable)
       /\ Reread(c)
    \/ /\ ReservationAllowed(ledger, request, observed[c])
       /\ Persist(c, IF durable THEN PrepareAndCommit(ledger, request)
                                ELSE Prepare(ledger, request))

\* `strict` is require_current_revision.
MarkEntryActive(c, id, signal, evidence, strict) ==
    \/ /\ EntryReplayed(ledger, id, signal, evidence)
       /\ strict => observed[c] = ledger.revision
       /\ Reread(c)
    \/ /\ EntryAllowed(ledger, id, signal, observed[c])
       /\ Persist(c, Entered(ledger, id, signal, evidence))

TransitionTerminal(c, id, signal, state, evidence, strict) ==
    \/ /\ TerminalReplayed(ledger, id, signal, state, evidence)
       /\ strict => observed[c] = ledger.revision
       /\ Reread(c)
    \/ /\ TerminalAlready(ledger, id, signal, state, evidence, observed[c])
       /\ Reread(c)
    \/ /\ TerminalAllowed(ledger, id, signal, state, observed[c])
       /\ Persist(c, Terminated(ledger, id, signal, state, evidence))

\* `artifact` is the publication the caller found, or None.
ReconcilePublicationState(c, id, artifact) ==
    \/ /\ ReconcileSettled(ledger, id, observed[c])
       /\ Reread(c)
    \/ /\ ReconcileOpen(ledger, id, observed[c])
       /\ artifact # None
       /\ ArtifactMatches(ledger, id, artifact)
       /\ Persist(c, CommitOccupancy(ledger, id))
    \/ /\ ReconcileOpen(ledger, id, observed[c])
       /\ artifact = None
       /\ Persist(c, Abandon(ledger, id))

Next ==
    \E c \in Callers :
        \/ LoadLedger(c)
        \/ \E r \in Requests, durable \in BOOLEAN :
              ReservePublishedSignal(c, r, durable)
        \/ \E id \in LifecycleIds, s \in SignalIds, e \in Evidence,
              strict \in BOOLEAN :
              \/ MarkEntryActive(c, id, s, e, strict)
              \/ \E state \in Outcomes :
                    TransitionTerminal(c, id, s, state, e, strict)
        \/ \E x \in TransactionIds, artifact \in Requests \cup {None} :
              ReconcilePublicationState(c, x, artifact)

Spec == Init /\ [][Next]_vars

-----------------------------------------------------------------------------
(* Types. *)

TransactionRecords ==
    [ signal_id : SignalIds, delivery_id : {r.delivery_id : r \in Requests},
      mode : Modes, symbol : Symbols, payload : {r.payload : r \in Requests},
      reservation_transition_id : ReservationIds,
      state : {Prepared, Committed, Aborted} ]

SignalRecords ==
    [ delivery_id : {r.delivery_id : r \in Requests},
      mode : Modes, symbol : Symbols, payload : {r.payload : r \in Requests},
      state : {PendingEntry, EntryActive} \cup Outcomes,
      terminal : Evidence \cup {None},
      last_transition_id : TransitionIds ]

TransitionRecords ==
    [ operation : {"RESERVE", "ENTRY", "TERMINAL"}, signal_id : SignalIds,
      from_state : LifecycleStates \cup {None}, to_state : LifecycleStates,
      evidence : Evidence \cup {None}, revision : Nat \ {0} ]

\* A dict from some of the keys to values.
IsDict(f, Keys, Values) ==
    /\ DOMAIN f \subseteq Keys
    /\ f = [k \in DOMAIN f |-> f[k]]
    /\ \A k \in DOMAIN f : f[k] \in Values

\* The schema of a ledger document.
IsLedger(L) ==
    /\ L = [ revision |-> L.revision, signals |-> L.signals,
             transitions |-> L.transitions, transactions |-> L.transactions ]
    /\ L.revision \in Nat
    /\ IsDict(L.signals, SignalIds, SignalRecords)
    /\ IsDict(L.transitions, TransitionIds, TransitionRecords)
    /\ IsDict(L.transactions, TransactionIds, TransactionRecords)

\* The ledger file always holds a document of the schema, and a caller has
\* never seen a revision the file has not reached: a returned document is one
\* that os.replace installed.
TypeOK ==
    /\ IsLedger(ledger)
    /\ ledger.revision <= MaxRevision
    /\ observed \in [Callers -> 0 .. ledger.revision]

-----------------------------------------------------------------------------
(* Safety. *)

\* Whatever the callers interleave, the signals the owner holds never exceed
\* the capacity of a style or of the whole book (mark_entry_active decides on
\* the document it re-reads under the lock, never on the caller's snapshot).
CapacityRespected ==
    /\ Cardinality({s \in DOMAIN ledger.signals :
                       ledger.signals[s].state = EntryActive}) <= TotalCapacity
    /\ \A m \in Modes :
          Cardinality({s \in DOMAIN ledger.signals :
                          /\ ledger.signals[s].state = EntryActive
                          /\ ledger.signals[s].mode = m}) <= ModeCapacity[m]

\* At most one entered signal per canonical pair, across styles and whatever
\* spelling of the pair each signal was published with.
ExclusivePairs ==
    \A s, r \in DOMAIN ledger.signals :
        /\ ledger.signals[s].state = EntryActive
        /\ ledger.signals[r].state = EntryActive
        /\ CanonicalPair[ledger.signals[s].symbol] =
           CanonicalPair[ledger.signals[r].symbol]
        => s = r

OnePrepared(L) ==
    \A x, y \in DOMAIN L.transactions :
        /\ L.transactions[x].state = Prepared
        /\ L.transactions[y].state = Prepared
        => x = y

\* Publications are confirmed one at a time: while a transaction is PREPARED
\* no other one is opened, however many callers reserve.
OnePreparedAtMost == OnePrepared(ledger)

SignalsAreCommitted(L) ==
    \A s \in DOMAIN L.signals :
        \E x \in DOMAIN L.transactions :
            /\ L.transactions[x].state = Committed
            /\ L.transactions[x].signal_id = s
            /\ Identity(L.transactions[x]) = Identity(L.signals[s])

ClaimsAreUnique(L) ==
    \A x, y \in DOMAIN L.transactions :
        \/ L.transactions[x].signal_id = L.transactions[y].signal_id
        \/ L.transactions[x].delivery_id = L.transactions[y].delivery_id
        => x = y

\* Every signal stems from exactly one committed transaction, which agrees
\* with it on every immutable field, and no other transaction, aborted ones
\* included, ever claims its signal id or its delivery id.
PublicationLineage ==
    SignalsAreCommitted(ledger) /\ ClaimsAreUnique(ledger)

\* validate_ledger never turns an operation that its guards accepted into a
\* corrupt-ledger rejection: the guards alone keep the document valid.
GuardsKeepDocumentValid ==
    /\ Valid(ledger)
    /\ \A r \in Requests :
          /\ ResumeAllowed(ledger, r) =>
                Valid(CommitOccupancy(ledger, r.transaction_id))
          /\ ReservationAllowed(ledger, r, ledger.revision) =>
                Valid(Prepare(ledger, r)) /\ Valid(PrepareAndCommit(ledger, r))
    /\ \A s \in SignalIds, id \in LifecycleIds, e \in Evidence :
          /\ EntryAllowed(ledger, id, s, ledger.revision) =>
                Valid(Entered(ledger, id, s, e))
          /\ \A state \in Outcomes :
                TerminalAllowed(ledger, id, s, state, ledger.revision) =>
                    Valid(Terminated(ledger, id, s, state, e))

\* The recorded transitions of a signal form one path from its reservation to
\* its present state: no two share a revision, each starts where an earlier one
\* of the same signal ended, and the last one explains the signal's state.
HistoryIsAPath ==
    LET T == ledger.transitions IN
    /\ \A s \in DOMAIN ledger.signals :
          LET last == ledger.signals[s].last_transition_id IN
          /\ last \in DOMAIN T
          /\ T[last].signal_id = s
          /\ T[last].to_state = ledger.signals[s].state
    /\ \A t \in DOMAIN T : T[t].operation # "RESERVE" =>
          \E u \in DOMAIN T :
              /\ T[u].signal_id = T[t].signal_id
              /\ T[u].to_state = T[t].from_state
              /\ T[u].revision < T[t].revision
    /\ \A t, u \in DOMAIN T :
          \/ T[t].revision = T[u].revision
          \/ T[t].signal_id = T[u].signal_id /\ T[t].from_state = T[u].from_state
          => t = u

-----------------------------------------------------------------------------
(* What a step may never do. *)

\* A terminal outcome is final: neither its state, its reason nor its identity
\* changes again, and a settled transaction never reopens.
TerminalIsFinal ==
    [][ /\ \A s \in DOMAIN ledger.signals :
              ledger.signals[s].state \in TerminalStates =>
                  /\ s \in DOMAIN ledger'.signals
                  /\ ledger'.signals[s] = ledger.signals[s]
        /\ \A x \in DOMAIN ledger.transactions :
              ledger.transactions[x].state # Prepared =>
                  /\ x \in DOMAIN ledger'.transactions
                  /\ ledger'.transactions[x] = ledger.transactions[x] ]_vars

\* A recorded transition is never overwritten or dropped.
HistoryIsAppendOnly ==
    [][ \A t \in DOMAIN ledger.transitions :
           /\ t \in DOMAIN ledger'.transitions
           /\ ledger'.transitions[t] = ledger.transitions[t] ]_vars

\* No signal changes on a decision taken on an outdated document: the caller
\* that changes a registered signal had seen the revision it replaces.
NoStaleDecision ==
    [][ \A s \in DOMAIN ledger.signals :
           ledger'.signals[s] # ledger.signals[s] =>
               \E c \in Callers :
                   /\ observed[c] = ledger.revision
                   /\ observed'[c] = ledger'.revision ]_vars

\* The discipline of registration and owner control: a reservation id names
\* one transaction and is never the id of an entry or a terminal.
ReservationIdsFresh ==
    /\ ReservationIds \cap LifecycleIds = {}
    /\ \A r, q \in Requests :
          r.transition_id = q.transition_id => r.transaction_id = q.transaction_id

=============================================================================
