------------------------ MODULE FilledPositionProofs ------------------------
(***************************************************************************)
(* Theorems about FilledPosition, for any number of runs of both tools and *)
(* whatever other users of the ledger do: an entry follows the             *)
(* registration it belongs to, and an operator may rely on the exits.      *)
(***************************************************************************)
EXTENDS FilledPosition, LedgerDocumentProofs

Registration(tool) == Publications[tool].transition_id

\* Nothing is PREPARED, a signal has its registration, and the tools' changes
\* are at the revisions they were reviewed for.
LedgerSound(L) ==
    /\ L.revision \in Nat
    /\ DOMAIN L.signals \subseteq ToolNames \cup {Earlier.signal_id}
    /\ \A x \in DOMAIN L.transactions : L.transactions[x].state = Committed
    /\ \A s \in DOMAIN L.signals :
          /\ "last_transition_id" \in DOMAIN L.signals[s]
          /\ L.signals[s].last_transition_id \in DOMAIN L.transitions
    /\ \A tool \in ToolNames :
          /\ tool \in DOMAIN L.signals => Registration(tool) \in DOMAIN L.transitions
          /\ Registration(tool) \in DOMAIN L.transitions =>
                L.transitions[Registration(tool)].revision = Base(tool) + 1
          /\ EntryId(tool) \in DOMAIN L.transitions =>
                /\ L.transitions[EntryId(tool)].revision = Base(tool) + 2
                /\ tool \in DOMAIN L.signals

\* M is the same ledger later.
Grown(L, M) ==
    /\ L.revision <= M.revision
    /\ DOMAIN L.signals \subseteq DOMAIN M.signals
    /\ DOMAIN L.transitions \subseteq DOMAIN M.transitions

RunFields == {"tool", "step", "raw", "document", "at", "told", "applied"}

BeforeChanges == {"raw", "load", "check", "look", "reserve"}
AfterRegistration == {"reload", "compare"}
AfterEntry == {"verify", "hash", "write"}
Steps == BeforeChanges \cup AfterRegistration \cup AfterEntry \cup {"enter", "failed"}

\* What a run has seen and done, at the ledger L.
RunIsSound(w, L) ==
    /\ DOMAIN w = RunFields
    /\ w.tool \in ToolNames
    /\ w.step \in Steps
    /\ w.applied \in Nat
    /\ w.step \notin {"raw", "load"} => LedgerSound(w.document) /\ Grown(w.document, L)
    /\ w.step \in BeforeChanges => w.applied = 0
    /\ w.step \in {"look", "reserve"} \cup AfterRegistration =>
          w.raw.revision = Base(w.tool)
    /\ w.step \in AfterRegistration =>
          w.applied <= 1 /\ (w.applied > 0 => L.revision > Base(w.tool))
    /\ w.step = "enter" => w.applied <= 1
    /\ w.step = "failed" => w.applied <= 1 \/ L.revision > Base(w.tool) + 1
    /\ w.step \in AfterEntry => EntryId(w.tool) \in DOMAIN L.transitions

ExitIsTrue(e, L) ==
    /\ e.tool \in ToolNames
    /\ e.code = "15" => e.applied = 0
    /\ e.code = "16" =>
          e.applied <= 1 /\ Registration(e.tool) \in DOMAIN L.transitions
    /\ e.code \in {"18", "19", "COMMITTED", "VERIFIED_EXACT_REPLAY"} =>
          /\ Registration(e.tool) \in DOMAIN L.transitions
          /\ EntryId(e.tool) \in DOMAIN L.transitions

FilledInv ==
    /\ LedgerSound(ledger)
    /\ work = [p \in Operators |-> work[p]]
    /\ exit = [p \in Operators |-> exit[p]]
    /\ \A p \in Operators : work[p] # None => RunIsSound(work[p], ledger)
    /\ \A p \in Operators : exit[p] # None => ExitIsTrue(exit[p], ledger)

-----------------------------------------------------------------------------
(* The ledger. *)

LEMMA Revisions ==
    ASSUME NEW L, NEW request, NEW id, NEW s, NEW state, NEW evidence
    PROVE  /\ PrepareAndCommit(L, request).revision = L.revision + 1
           /\ Entered(L, id, s, evidence).revision = L.revision + 1
           /\ Terminated(L, id, s, state, evidence).revision = L.revision + 1
  BY DEF PrepareAndCommit, CommitOccupancy, WithCandidate, Entered, Terminated

LEMMA BaseIsNumber ==
    ASSUME NEW tool \in ToolNames
    PROVE  Base(tool) \in Nat
<1>1. EmptyLedger.revision = 0
  BY DEF EmptyLedger
<1>2. ReviewedLedger.revision \in Nat
  BY <1>1, Revisions DEF ReviewedLedger
<1>3. Reconciled(ReviewedLedger, First, FirstEntryTime).revision \in Nat
  BY <1>2, Revisions DEF Reconciled
<1> QED BY <1>2, <1>3 DEF Base, SealedLedger

\* What a registration does to a ledger without it.
LEMMA Registered ==
    ASSUME NEW L, NEW request
    PROVE  LET M == PrepareAndCommit(L, request) IN
           /\ M.revision = L.revision + 1
           /\ DOMAIN M.signals = DOMAIN L.signals \cup {request.signal_id}
           /\ M.signals[request.signal_id].last_transition_id = request.transition_id
           /\ "last_transition_id" \in DOMAIN M.signals[request.signal_id]
           /\ \A s \in DOMAIN L.signals : s # request.signal_id => M.signals[s] = L.signals[s]
           /\ DOMAIN M.transitions = DOMAIN L.transitions \cup {request.transition_id}
           /\ M.transitions[request.transition_id].revision = L.revision + 1
           /\ \A t \in DOMAIN L.transitions :
                 t # request.transition_id => M.transitions[t] = L.transitions[t]
           /\ DOMAIN M.transactions = DOMAIN L.transactions \cup {request.transaction_id}
           /\ M.transactions[request.transaction_id].state = Committed
           /\ \A x \in DOMAIN L.transactions :
                 x # request.transaction_id => M.transactions[x] = L.transactions[x]
<1> DEFINE C == WithCandidate(L, request)
           x == C.transactions[request.transaction_id]
<1>1. /\ C.revision = L.revision /\ C.signals = L.signals /\ C.transitions = L.transitions
      /\ DOMAIN C.transactions = DOMAIN L.transactions \cup {request.transaction_id}
      /\ x = TransactionOf(request, Prepared)
      /\ \A y \in DOMAIN L.transactions :
            y # request.transaction_id => C.transactions[y] = L.transactions[y]
  BY DEF WithCandidate, Put
<1>2. /\ x.signal_id = request.signal_id
      /\ x.reservation_transition_id = request.transition_id
      /\ [x EXCEPT !.state = Committed].state = Committed
  BY <1>1 DEF TransactionOf
<1> HIDE DEF x, C
<1>3. PrepareAndCommit(L, request) = CommitOccupancy(C, request.transaction_id)
  BY DEF PrepareAndCommit, C
<1>4. C.transactions[request.transaction_id] = x
  BY DEF x
<1> DEFINE M == PrepareAndCommit(L, request)
           signal == PublishedSignal(x)
           registered == ReserveTransition(x.signal_id, C.revision + 1)
<1>5. /\ M.revision = L.revision + 1
      /\ M.signals = Put(L.signals, request.signal_id, signal)
      /\ M.transitions = Put(L.transitions, request.transition_id, registered)
      /\ M.transactions = Put(C.transactions, request.transaction_id,
                             [x EXCEPT !.state = Committed])
  BY <1>1, <1>2, <1>3, <1>4 DEF CommitOccupancy
<1>6. /\ signal.last_transition_id = request.transition_id
      /\ "last_transition_id" \in DOMAIN signal
      /\ registered.revision = L.revision + 1
  BY <1>1, <1>2 DEF PublishedSignal, ReserveTransition
<1> HIDE DEF M, signal, registered
<1>7. /\ DOMAIN M.signals = DOMAIN L.signals \cup {request.signal_id}
      /\ M.signals[request.signal_id] = signal
      /\ \A s \in DOMAIN L.signals : s # request.signal_id => M.signals[s] = L.signals[s]
  BY <1>5 DEF Put
<1>8. /\ DOMAIN M.transitions = DOMAIN L.transitions \cup {request.transition_id}
      /\ M.transitions[request.transition_id] = registered
      /\ \A t \in DOMAIN L.transitions :
            t # request.transition_id => M.transitions[t] = L.transitions[t]
  BY <1>5 DEF Put
<1>9. /\ DOMAIN M.transactions = DOMAIN L.transactions \cup {request.transaction_id}
      /\ M.transactions[request.transaction_id].state = Committed
      /\ \A y \in DOMAIN L.transactions :
            y # request.transaction_id => M.transactions[y] = L.transactions[y]
  BY <1>1, <1>2, <1>5 DEF Put
<1> QED BY <1>5, <1>6, <1>7, <1>8, <1>9 DEF M

\* M is L with one step of the signal s more, recorded as id.
MovedTo(L, M, s, id) ==
    /\ M.revision = L.revision + 1
    /\ DOMAIN M.signals = DOMAIN L.signals
    /\ M.signals[s].last_transition_id = id
    /\ "last_transition_id" \in DOMAIN M.signals[s]
    /\ \A r \in DOMAIN L.signals : r # s => M.signals[r] = L.signals[r]
    /\ DOMAIN M.transitions = DOMAIN L.transitions \cup {id}
    /\ M.transitions[id].revision = L.revision + 1
    /\ \A t \in DOMAIN L.transitions : t # id => M.transitions[t] = L.transitions[t]
    /\ M.transactions = L.transactions

LEMMA Moved ==
    ASSUME NEW L, NEW id, NEW s \in DOMAIN L.signals, NEW state, NEW evidence,
           NEW M, M = Entered(L, id, s, evidence) \/ M = Terminated(L, id, s, state, evidence),
           "last_transition_id" \in DOMAIN L.signals[s]
    PROVE  MovedTo(L, M, s, id)
<1>1. PICK signal, step :
          /\ signal.last_transition_id = id
          /\ "last_transition_id" \in DOMAIN signal
          /\ step.revision = L.revision + 1
          /\ M.revision = L.revision + 1
          /\ M.signals = Put(L.signals, s, signal)
          /\ M.transitions = Put(L.transitions, id, step)
          /\ M.transactions = L.transactions
  <2>1. CASE M = Entered(L, id, s, evidence)
    <3> DEFINE signal == [L.signals[s] EXCEPT !.state = EntryActive, !.last_transition_id = id]
               step == EntryTransition(s, evidence, L.revision + 1)
    <3>1. /\ signal.last_transition_id = id /\ "last_transition_id" \in DOMAIN signal
          /\ step.revision = L.revision + 1
      BY DEF EntryTransition
    <3>2. /\ M.revision = L.revision + 1
          /\ M.signals = Put(L.signals, s, signal)
          /\ M.transitions = Put(L.transitions, id, step)
          /\ M.transactions = L.transactions
      BY <2>1 DEF Entered
    <3> HIDE DEF signal, step
    <3> QED BY <3>1, <3>2
  <2>2. CASE M = Terminated(L, id, s, state, evidence)
    <3> DEFINE signal == [L.signals[s] EXCEPT !.state = state, !.terminal = evidence,
                                              !.last_transition_id = id]
               step == TerminalTransition(s, L.signals[s].state, state, evidence, L.revision + 1)
    <3>1. /\ signal.last_transition_id = id /\ "last_transition_id" \in DOMAIN signal
          /\ step.revision = L.revision + 1
      BY DEF TerminalTransition
    <3>2. /\ M.revision = L.revision + 1
          /\ M.signals = Put(L.signals, s, signal)
          /\ M.transitions = Put(L.transitions, id, step)
          /\ M.transactions = L.transactions
      BY <2>2 DEF Terminated
    <3> HIDE DEF signal, step
    <3> QED BY <3>1, <3>2
  <2> QED BY <2>1, <2>2
<1>2. /\ DOMAIN M.signals = DOMAIN L.signals
      /\ M.signals[s] = signal
      /\ \A r \in DOMAIN L.signals : r # s => M.signals[r] = L.signals[r]
  BY <1>1 DEF Put
<1>3. /\ DOMAIN M.transitions = DOMAIN L.transitions \cup {id}
      /\ M.transitions[id] = step
      /\ \A t \in DOMAIN L.transitions : t # id => M.transitions[t] = L.transitions[t]
  BY <1>1 DEF Put
<1> QED BY <1>1, <1>2, <1>3 DEF MovedTo

LEMMA Enters ==
    ASSUME NEW L, NEW id, NEW s \in DOMAIN L.signals, NEW evidence,
           "last_transition_id" \in DOMAIN L.signals[s]
    PROVE  MovedTo(L, Entered(L, id, s, evidence), s, id)
<1>1. PICK M, state : M = Entered(L, id, s, evidence)
  OBVIOUS
<1> QED BY <1>1, Moved

LEMMA Ends ==
    ASSUME NEW L, NEW id, NEW s \in DOMAIN L.signals, NEW state, NEW evidence,
           "last_transition_id" \in DOMAIN L.signals[s]
    PROVE  MovedTo(L, Terminated(L, id, s, state, evidence), s, id)
<1>1. PICK M : M = Terminated(L, id, s, state, evidence)
  OBVIOUS
<1> QED BY <1>1, Moved

LEMMA GrowsOn ==
    ASSUME NEW L, NEW M, NEW N, LedgerSound(L), LedgerSound(M), LedgerSound(N),
           Grown(L, M), Grown(M, N)
    PROVE  Grown(L, N)
  BY DEF Grown, LedgerSound

LEMMA RegistrationIsSound ==
    ASSUME NEW L, LedgerSound(L), NEW tool \in ToolNames,
           NEW M, M = Reserved(L, Publications[tool], Base(tool)), M # None
    PROVE  /\ LedgerSound(M) /\ Grown(L, M)
           /\ \/ M = L
              \/ L.revision = Base(tool) /\ M.revision = Base(tool) + 1
<1> DEFINE request == Publications[tool]
<1>1. ~ResumeAllowed(L, request)
  BY DEF ResumeAllowed, ReservationKnown, LedgerSound, Prepared, Committed
<1>2. CASE M = L
  BY <1>2 DEF Grown, LedgerSound
<1>3. CASE M # L
  <2>1. /\ ReservationAllowed(L, request, Base(tool))
        /\ M = PrepareAndCommit(L, request)
    BY <1>1, <1>3 DEF Reserved
  <2>2. L.revision = Base(tool) /\ Base(tool) \in Nat
    BY <2>1, BaseIsNumber DEF ReservationAllowed
  <2>3. /\ request.signal_id = tool /\ request.transition_id = Registration(tool)
        /\ \A other \in ToolNames :
              /\ Registration(tool) # EntryId(other)
              /\ Registration(tool) = Registration(other) => tool = other
    BY IdentityAssumption DEF Registration, EntryId
  <2> HIDE DEF request
  <2>4. /\ M.revision = L.revision + 1
        /\ DOMAIN M.signals = DOMAIN L.signals \cup {tool}
        /\ M.signals[tool].last_transition_id = Registration(tool)
        /\ "last_transition_id" \in DOMAIN M.signals[tool]
        /\ \A s \in DOMAIN L.signals : s # tool => M.signals[s] = L.signals[s]
        /\ DOMAIN M.transitions = DOMAIN L.transitions \cup {Registration(tool)}
        /\ M.transitions[Registration(tool)].revision = L.revision + 1
        /\ \A t \in DOMAIN L.transitions :
              t # Registration(tool) => M.transitions[t] = L.transitions[t]
        /\ \A x \in DOMAIN M.transactions : M.transactions[x].state = Committed
    BY <2>1, <2>3, Registered DEF LedgerSound
  <2>5. \A other \in ToolNames :
           /\ other \in DOMAIN M.signals => Registration(other) \in DOMAIN M.transitions
           /\ Registration(other) \in DOMAIN M.transitions =>
                 M.transitions[Registration(other)].revision = Base(other) + 1
           /\ EntryId(other) \in DOMAIN M.transitions =>
                 /\ M.transitions[EntryId(other)].revision = Base(other) + 2
                 /\ other \in DOMAIN M.signals
    BY <2>2, <2>3, <2>4 DEF LedgerSound
  <2>6. LedgerSound(M)
    BY <2>4, <2>5 DEF LedgerSound
  <2> QED BY <1>3, <2>2, <2>4, <2>6 DEF Grown, LedgerSound
<1> QED BY <1>2, <1>3

LEMMA MoveIsSound ==
    ASSUME NEW L, LedgerSound(L), NEW s \in DOMAIN L.signals,
           NEW id, id \notin DOMAIN L.transitions, NEW state, NEW evidence,
           NEW M, M = Entered(L, id, s, evidence) \/ M = Terminated(L, id, s, state, evidence),
           \/ id \in {<<"owner", s>>, <<"end", s>>}
           \/ s \in ToolNames /\ id = EntryId(s) /\ L.revision = Base(s) + 1
    PROVE  LedgerSound(M) /\ Grown(L, M) /\ M.revision = L.revision + 1
<1>1. MovedTo(L, M, s, id)
  BY Enters, Ends DEF LedgerSound
<1>2. s \in ToolNames \cup {Earlier.signal_id}
  BY DEF LedgerSound
<1>3. \A tool \in ToolNames :
         /\ Registration(tool) # id
         /\ EntryId(tool) = id => tool = s /\ L.revision = Base(tool) + 1
  BY <1>2, IdentityAssumption DEF Registration, EntryId
<1>4. \A tool \in ToolNames : Base(tool) \in Nat
  BY BaseIsNumber
<1>5. \A tool \in ToolNames :
         /\ tool \in DOMAIN M.signals => Registration(tool) \in DOMAIN M.transitions
         /\ Registration(tool) \in DOMAIN M.transitions =>
               M.transitions[Registration(tool)].revision = Base(tool) + 1
         /\ EntryId(tool) \in DOMAIN M.transitions =>
               /\ M.transitions[EntryId(tool)].revision = Base(tool) + 2
               /\ tool \in DOMAIN M.signals
  BY <1>1, <1>3, <1>4 DEF LedgerSound, MovedTo
<1>6. LedgerSound(M)
  BY <1>1, <1>5 DEF LedgerSound, MovedTo
<1> QED BY <1>1, <1>6 DEF Grown, LedgerSound, MovedTo

LEMMA ReviewedIsSound == LedgerSound(ReviewedLedger)
<1> DEFINE L == PrepareAndCommit(EmptyLedger, Earlier)
           id == <<"end", "earlier">>
<1>1. /\ EmptyLedger.revision = 0
      /\ DOMAIN EmptyLedger.signals = {}
      /\ DOMAIN EmptyLedger.transitions = {}
      /\ DOMAIN EmptyLedger.transactions = {}
  BY DEF EmptyLedger, NoEntries
<1>2. /\ L.revision = 1
      /\ DOMAIN L.signals = {Earlier.signal_id}
      /\ "last_transition_id" \in DOMAIN L.signals[Earlier.signal_id]
      /\ DOMAIN L.transitions = {Earlier.transition_id}
      /\ \A x \in DOMAIN L.transactions : L.transactions[x].state = Committed
  BY <1>1, Registered
<1>3. ReviewedLedger = Terminated(L, id, Earlier.signal_id, "CANCELLED", None)
  BY DEF ReviewedLedger
<1> HIDE DEF L, id
<1>4. /\ ReviewedLedger.revision = 2
      /\ DOMAIN ReviewedLedger.signals = {Earlier.signal_id}
      /\ ReviewedLedger.signals[Earlier.signal_id].last_transition_id = id
      /\ "last_transition_id" \in DOMAIN ReviewedLedger.signals[Earlier.signal_id]
      /\ DOMAIN ReviewedLedger.transitions = {Earlier.transition_id, id}
      /\ ReviewedLedger.transactions = L.transactions
  <2>1. MovedTo(L, ReviewedLedger, Earlier.signal_id, id)
    BY <1>2, <1>3, Ends
  <2> QED BY <1>2, <2>1 DEF MovedTo
<1>5. \A tool \in ToolNames :
         /\ tool # Earlier.signal_id
         /\ Registration(tool) \notin {Earlier.transition_id, id}
         /\ EntryId(tool) \notin {Earlier.transition_id, id}
  BY IdentityAssumption DEF Registration, EntryId, id
<1> QED BY <1>2, <1>4, <1>5 DEF LedgerSound

-----------------------------------------------------------------------------
(* The runs. *)

\* What other steps do to the ledger changes nothing of what a run knows.
LEMMA RunStaysSound ==
    ASSUME NEW w, NEW L, NEW M, LedgerSound(L), LedgerSound(M), Grown(L, M),
           RunIsSound(w, L)
    PROVE  RunIsSound(w, M)
<1>1. w.step \notin {"raw", "load"} => Grown(w.document, M)
  BY GrowsOn DEF RunIsSound
<1>2. Base(w.tool) \in Nat
  BY BaseIsNumber DEF RunIsSound
<1> QED BY <1>1, <1>2 DEF RunIsSound, Grown, LedgerSound

LEMMA ExitStaysTrue ==
    ASSUME NEW e, NEW L, NEW M, Grown(L, M), ExitIsTrue(e, L)
    PROVE  ExitIsTrue(e, M)
  BY DEF ExitIsTrue, Grown

\* A step of one run on a ledger that grows.
LEMMA RunnerKeepsInv ==
    ASSUME FilledInv, NEW p \in Operators, NEW w, NEW e,
           work' = [work EXCEPT ![p] = w], exit' = [exit EXCEPT ![p] = e],
           LedgerSound(ledger'), Grown(ledger, ledger'),
           w # None => RunIsSound(w, ledger'),
           e # None => ExitIsTrue(e, ledger')
    PROVE  FilledInv'
<1>1. /\ work' = [q \in Operators |-> work'[q]]
      /\ exit' = [q \in Operators |-> exit'[q]]
      /\ \A q \in Operators : work'[q] = IF q = p THEN w ELSE work[q]
      /\ \A q \in Operators : exit'[q] = IF q = p THEN e ELSE exit[q]
  BY DEF FilledInv
<1>2. \A q \in Operators : work'[q] # None => RunIsSound(work'[q], ledger')
  BY <1>1, RunStaysSound DEF FilledInv
<1>3. \A q \in Operators : exit'[q] # None => ExitIsTrue(exit'[q], ledger')
  BY <1>1, ExitStaysTrue DEF FilledInv
<1> QED BY <1>1, <1>2, <1>3 DEF FilledInv

\* The step of a run that goes on from w to v with no exit, on the ledger M.
LEMMA GoesOn ==
    ASSUME FilledInv, NEW p \in Operators, NEW v,
           work' = [work EXCEPT ![p] = v], exit' = exit,
           LedgerSound(ledger'), Grown(ledger, ledger'), RunIsSound(v, ledger')
    PROVE  FilledInv'
<1>1. exit' = [exit EXCEPT ![p] = exit[p]]
  BY DEF FilledInv
<1>2. exit[p] # None => ExitIsTrue(exit[p], ledger')
  BY ExitStaysTrue DEF FilledInv
<1> QED BY <1>1, <1>2, RunnerKeepsInv

LEMMA SameLedger ==
    ASSUME FilledInv, ledger' = ledger
    PROVE  LedgerSound(ledger') /\ Grown(ledger, ledger')
  BY DEF FilledInv, Grown, LedgerSound

\* The record a run exits with.
LEMMA Exits ==
    ASSUME FilledInv, NEW p \in Operators, work[p] # None, NEW code, Exit(p, code),
           ledger' = ledger,
           code = "15" => work[p].applied = 0,
           code = "16" => /\ work[p].applied <= 1
                          /\ Registration(work[p].tool) \in DOMAIN ledger.transitions,
           code \in {"18", "19", "COMMITTED", "VERIFIED_EXACT_REPLAY"} =>
              EntryId(work[p].tool) \in DOMAIN ledger.transitions
    PROVE  FilledInv'
<1> DEFINE e == [code |-> code, tool |-> work[p].tool, applied |-> work[p].applied]
<1>1. work' = [work EXCEPT ![p] = None] /\ exit' = [exit EXCEPT ![p] = e]
  BY DEF Exit
<1>2. e.code = code /\ e.tool = work[p].tool /\ e.applied = work[p].applied
  OBVIOUS
<1> HIDE DEF e
<1>3. work[p].tool \in ToolNames
  BY DEF FilledInv, RunIsSound
<1>4. ExitIsTrue(e, ledger)
  BY <1>2, <1>3 DEF ExitIsTrue, FilledInv, LedgerSound
<1>5. ExitIsTrue(e, ledger')
  BY <1>4
<1> QED BY <1>1, <1>5, SameLedger, RunnerKeepsInv

LEMMA BeginRunKeepsInv ==
    ASSUME FilledInv, NEW p \in Operators, NEW tool \in ToolNames, BeginRun(p, tool)
    PROVE  FilledInv'
<1> DEFINE v == [tool |-> tool, step |-> "raw", raw |-> None, document |-> None,
                 at |-> FirstEntryTime, told |-> None, applied |-> 0]
<1>1. /\ work' = [work EXCEPT ![p] = v] /\ exit' = [exit EXCEPT ![p] = None]
      /\ ledger' = ledger
  BY DEF BeginRun
<1>2. RunIsSound(v, ledger')
  BY DEF RunIsSound, RunFields, Steps, BeforeChanges, AfterRegistration, AfterEntry
<1> HIDE DEF v
<1> QED BY <1>1, <1>2, SameLedger, RunnerKeepsInv

\* The fields of a run that goes on.
LEMMA Stepped ==
    ASSUME NEW w, DOMAIN w = RunFields, NEW step
    PROVE  LET v == [w EXCEPT !.step = step] IN
           /\ DOMAIN v = RunFields /\ v.step = step
           /\ v.tool = w.tool /\ v.raw = w.raw /\ v.document = w.document
           /\ v.applied = w.applied
  BY DEF RunFields

LEMMA Goes ==
    ASSUME FilledInv, NEW p \in Operators, work[p] # None, NEW step, Go(p, step),
           LedgerSound(ledger'), Grown(ledger, ledger'),
           RunIsSound([work[p] EXCEPT !.step = step], ledger')
    PROVE  FilledInv'
<1>1. work' = [work EXCEPT ![p] = [work[p] EXCEPT !.step = step]] /\ exit' = exit
  BY DEF Go, FilledInv
<1> QED BY <1>1, GoesOn

LEMMA ReadRawKeepsInv ==
    ASSUME FilledInv, NEW p \in Operators, ReadRaw(p)
    PROVE  FilledInv'
<1>1. work[p] # None /\ work[p].step = "raw" /\ ledger' = ledger
      /\ RunIsSound(work[p], ledger)
  BY DEF ReadRaw, AtStep, FilledInv
<1>2. CASE sealed
  <2> DEFINE v == [work[p] EXCEPT !.step = "load", !.raw = ledger]
  <2>1. work' = [work EXCEPT ![p] = v] /\ exit' = exit
    BY <1>2 DEF ReadRaw, FilledInv
  <2>2. /\ DOMAIN v = RunFields /\ v.step = "load"
        /\ v.tool = work[p].tool /\ v.applied = work[p].applied
    BY <1>1 DEF RunIsSound, RunFields
  <2> HIDE DEF v
  <2>3. RunIsSound(v, ledger')
    BY <1>1, <2>2 DEF RunIsSound, Steps, BeforeChanges, AfterRegistration, AfterEntry
  <2> QED BY <1>1, <2>1, <2>3, SameLedger, GoesOn
<1>3. CASE ~sealed
  <2>1. Exit(p, "13")
    BY <1>3 DEF ReadRaw
  <2> QED BY <1>1, <2>1, Exits
<1> QED BY <1>2, <1>3

LEMMA LoadKeepsInv ==
    ASSUME FilledInv, NEW p \in Operators, Load(p)
    PROVE  FilledInv'
<1>1. work[p] # None /\ work[p].step = "load" /\ ledger' = ledger
      /\ RunIsSound(work[p], ledger)
  BY DEF Load, AtStep, FilledInv
<1> DEFINE v == [work[p] EXCEPT !.step = "check", !.document = ledger]
<1>2. work' = [work EXCEPT ![p] = v] /\ exit' = exit
  BY DEF Load, FilledInv
<1>3. /\ DOMAIN v = RunFields /\ v.step = "check" /\ v.document = ledger
      /\ v.tool = work[p].tool /\ v.applied = work[p].applied
  BY <1>1 DEF RunIsSound, RunFields
<1> HIDE DEF v
<1>4. LedgerSound(ledger') /\ Grown(ledger, ledger') /\ Grown(v.document, ledger')
      /\ LedgerSound(v.document)
  BY <1>1, <1>3, SameLedger DEF FilledInv
<1>5. RunIsSound(v, ledger')
  BY <1>1, <1>3, <1>4
     DEF RunIsSound, Steps, BeforeChanges, AfterRegistration, AfterEntry
<1> QED BY <1>2, <1>4, <1>5, GoesOn

\* Of a replay, the ledger that was read has the tool's entry.
LEMMA ReplayKeepsInv ==
    ASSUME FilledInv, NEW p \in Operators, Replay(p)
    PROVE  FilledInv'
<1>1. work[p] # None /\ work[p].step = "check" /\ ledger' = ledger
      /\ RunIsSound(work[p], ledger)
  BY DEF Replay, AtStep, FilledInv
<1>2. /\ LedgerSound(work[p].document) /\ Grown(work[p].document, ledger)
      /\ work[p].applied = 0 /\ work[p].tool \in ToolNames
  BY <1>1 DEF RunIsSound, BeforeChanges
<1>3. CASE Completed(work[p].document, work[p].tool, result[work[p].tool].at)
           /\ Exit(p, "VERIFIED_EXACT_REPLAY")
  <2>1. EntryId(work[p].tool) \in DOMAIN work[p].document.transitions
    BY <1>2, <1>3 DEF Completed, LedgerSound
  <2>2. EntryId(work[p].tool) \in DOMAIN ledger.transitions
    BY <1>2, <2>1 DEF Grown
  <2> QED BY <1>1, <1>3, <2>2, Exits
<1>4. CASE Exit(p, "13")
  BY <1>1, <1>4, Exits
<1>5. CASE Exit(p, "10")
  BY <1>1, <1>5, Exits
<1> QED BY <1>3, <1>4, <1>5 DEF Replay

LEMMA CheckKeepsInv ==
    ASSUME FilledInv, NEW p \in Operators, Check(p)
    PROVE  FilledInv'
<1>1. work[p] # None /\ work[p].step = "check" /\ ledger' = ledger
      /\ RunIsSound(work[p], ledger) /\ work[p].raw = SealedLedger(work[p].tool)
  BY DEF Check, AtStep, FilledInv
<1>2. CASE Exit(p, "13")
  BY <1>1, <1>2, Exits
<1>3. CASE Exit(p, "10")
  BY <1>1, <1>3, Exits
<1>4. ASSUME NEW at, work' = [work EXCEPT ![p].step = "look", ![p].at = at], exit' = exit
      PROVE  FilledInv'
  <2> DEFINE v == [work[p] EXCEPT !.step = "look", !.at = at]
  <2>1. work' = [work EXCEPT ![p] = v]
    BY <1>4 DEF FilledInv
  <2>2. /\ DOMAIN v = RunFields /\ v.step = "look" /\ v.document = work[p].document
        /\ v.tool = work[p].tool /\ v.applied = work[p].applied /\ v.raw = work[p].raw
    BY <1>1 DEF RunIsSound, RunFields
  <2> HIDE DEF v
  <2>3. v.raw.revision = Base(v.tool)
    BY <1>1, <2>2 DEF Base
  <2>4. RunIsSound(v, ledger')
    BY <1>1, <2>2, <2>3
       DEF RunIsSound, Steps, BeforeChanges, AfterRegistration, AfterEntry
  <2> QED BY <1>1, <1>4, <2>1, <2>4, SameLedger, GoesOn
<1> QED BY <1>2, <1>3, <1>4 DEF Check

LEMMA LookKeepsInv ==
    ASSUME FilledInv, NEW p \in Operators, LookForRegistration(p)
    PROVE  FilledInv'
<1>1. work[p] # None /\ work[p].step = "look" /\ ledger' = ledger
      /\ RunIsSound(work[p], ledger)
  BY DEF LookForRegistration, AtStep, FilledInv
<1>2. ASSUME NEW step \in {"reserve", "reload"}, Go(p, step)
      PROVE  FilledInv'
  <2> DEFINE v == [work[p] EXCEPT !.step = step]
  <2>1. /\ DOMAIN v = RunFields /\ v.step = step /\ v.document = work[p].document
        /\ v.tool = work[p].tool /\ v.applied = work[p].applied /\ v.raw = work[p].raw
    BY <1>1, Stepped DEF RunIsSound
  <2> HIDE DEF v
  <2>2. RunIsSound(v, ledger')
    BY <1>1, <2>1 DEF RunIsSound, Steps, BeforeChanges, AfterRegistration, AfterEntry
  <2> QED BY <1>1, <1>2, <2>2, SameLedger, Goes DEF v
<1> QED BY <1>2 DEF LookForRegistration

\* The ledger after a registration, as RegisterFilled and its failure leave it.
LEMMA RegistrationGrows ==
    ASSUME FilledInv, NEW p \in Operators, work[p] # None,
           RegistrationOf(p) # None, ledger' = RegistrationOf(p)
    PROVE  /\ LedgerSound(ledger') /\ Grown(ledger, ledger')
           /\ ledger' # ledger => ledger'.revision > Base(work[p].tool)
<1>1. work[p].tool \in ToolNames /\ LedgerSound(ledger)
  BY DEF FilledInv, RunIsSound
<1>2. ledger' = Reserved(ledger, Publications[work[p].tool], Base(work[p].tool))
  BY DEF RegistrationOf
<1>3. /\ LedgerSound(ledger') /\ Grown(ledger, ledger')
      /\ \/ ledger' = ledger
         \/ /\ ledger.revision = Base(work[p].tool)
            /\ ledger'.revision = Base(work[p].tool) + 1
  BY <1>1, <1>2, RegistrationIsSound
<1>4. Base(work[p].tool) \in Nat
  BY <1>1, BaseIsNumber
<1> QED BY <1>3, <1>4

\* A run after its registration, whatever that did.
LEMMA RegisteredKeepsInv ==
    ASSUME FilledInv, NEW p \in Operators, work[p] # None, work[p].step = "reserve",
           LedgerSound(ledger'), Grown(ledger, ledger'),
           NEW v, work' = [work EXCEPT ![p] = v], exit' = exit,
           DOMAIN v = RunFields, v.step = "reload", v.tool = work[p].tool,
           v.raw = work[p].raw, v.document = work[p].document,
           v.applied \in {0, 1},
           v.applied = 1 => ledger'.revision > Base(work[p].tool)
    PROVE  FilledInv'
<1>1. RunIsSound(work[p], ledger')
  BY RunStaysSound DEF FilledInv
<1>2. RunIsSound(v, ledger')
  BY <1>1 DEF RunIsSound, Steps, BeforeChanges, AfterRegistration, AfterEntry
<1> QED BY <1>2, GoesOn

LEMMA RegisterKeepsInv ==
    ASSUME FilledInv, NEW p \in Operators, RegisterFilled(p)
    PROVE  FilledInv'
<1>1. work[p] # None /\ work[p].step = "reserve" /\ RunIsSound(work[p], ledger)
      /\ DOMAIN work[p] = RunFields /\ work[p].applied = 0
      /\ RegistrationOf(p) # None /\ ledger' = RegistrationOf(p) /\ exit' = exit
  BY DEF RegisterFilled, AtStep, FilledInv, RunIsSound, BeforeChanges
<1> DEFINE applied == IF ledger' = ledger THEN work[p].applied ELSE work[p].applied + 1
           told == Classification(Base(work[p].tool), ledger', Publications[work[p].tool], TRUE)
           v == [work[p] EXCEPT !.step = "reload", !.applied = applied, !.told = told]
<1>2. work' = [work EXCEPT ![p].step = "reload", ![p].applied = applied, ![p].told = told]
  BY DEF RegisterFilled
<1> HIDE DEF applied, told
<1>3. work' = [work EXCEPT ![p] = v]
  BY <1>2 DEF FilledInv
<1>4. /\ DOMAIN v = RunFields /\ v.step = "reload" /\ v.tool = work[p].tool
      /\ v.raw = work[p].raw /\ v.document = work[p].document /\ v.applied = applied
  BY <1>1 DEF RunFields
<1> HIDE DEF v
<1>5. /\ LedgerSound(ledger') /\ Grown(ledger, ledger')
      /\ ledger' # ledger => ledger'.revision > Base(work[p].tool)
  BY <1>1, RegistrationGrows
<1>6. v.applied \in {0, 1} /\ (v.applied = 1 => ledger'.revision > Base(work[p].tool))
  BY <1>1, <1>4, <1>5 DEF applied
<1> QED BY <1>1, <1>3, <1>4, <1>5, <1>6, RegisteredKeepsInv

LEMMA RegisterFailsKeepsInv ==
    ASSUME FilledInv, NEW p \in Operators, RegisterFilledFails(p)
    PROVE  FilledInv'
<1>1. work[p] # None /\ work[p].step = "reserve" /\ RunIsSound(work[p], ledger)
      /\ DOMAIN work[p] = RunFields /\ work[p].applied = 0
  BY DEF RegisterFilledFails, AtStep, FilledInv, RunIsSound, BeforeChanges
<1>2. CASE UNCHANGED ledger /\ Go(p, "reload")
  <2> DEFINE v == [work[p] EXCEPT !.step = "reload"]
  <2>1. work' = [work EXCEPT ![p] = v] /\ exit' = exit
    BY <1>2 DEF Go, FilledInv
  <2>2. /\ DOMAIN v = RunFields /\ v.step = "reload" /\ v.document = work[p].document
        /\ v.tool = work[p].tool /\ v.applied = work[p].applied /\ v.raw = work[p].raw
    BY <1>1, Stepped
  <2> HIDE DEF v
  <2>3. v.applied \in {0, 1} /\ v.applied # 1
    BY <1>1, <2>2
  <2> QED BY <1>1, <1>2, <2>1, <2>2, <2>3, SameLedger, RegisteredKeepsInv
<1>3. CASE /\ RegistrationOf(p) \notin {None, ledger}
           /\ ledger' = RegistrationOf(p)
           /\ work' = [work EXCEPT ![p].step = "reload", ![p].applied = @ + 1]
           /\ UNCHANGED exit
  <2> DEFINE v == [work[p] EXCEPT !.step = "reload", !.applied = work[p].applied + 1]
  <2>1. work' = [work EXCEPT ![p] = v] /\ exit' = exit
    BY <1>3 DEF FilledInv
  <2>2. /\ DOMAIN v = RunFields /\ v.step = "reload" /\ v.document = work[p].document
        /\ v.tool = work[p].tool /\ v.applied = 1 /\ v.raw = work[p].raw
    BY <1>1 DEF RunFields
  <2> HIDE DEF v
  <2>3. /\ LedgerSound(ledger') /\ Grown(ledger, ledger')
        /\ ledger' # ledger => ledger'.revision > Base(work[p].tool)
    BY <1>1, <1>3, RegistrationGrows
  <2> QED BY <1>1, <1>3, <2>1, <2>2, <2>3, RegisteredKeepsInv
<1> QED BY <1>2, <1>3 DEF RegisterFilledFails

LEMMA ReloadKeepsInv ==
    ASSUME FilledInv, NEW p \in Operators, Reload(p)
    PROVE  FilledInv'
<1>1. work[p] # None /\ work[p].step = "reload" /\ ledger' = ledger
      /\ RunIsSound(work[p], ledger) /\ exit' = exit
  BY DEF Reload, AtStep, FilledInv
<1>2. PICK step \in {"enter", "compare"} :
         work' = [work EXCEPT ![p].document = ledger, ![p].step = step]
  BY DEF Reload
<1> DEFINE v == [work[p] EXCEPT !.document = ledger, !.step = step]
<1>3. work' = [work EXCEPT ![p] = v]
  BY <1>2 DEF FilledInv
<1>4. /\ DOMAIN v = RunFields /\ v.step = step /\ v.document = ledger
      /\ v.tool = work[p].tool /\ v.applied = work[p].applied /\ v.raw = work[p].raw
  BY <1>1 DEF RunIsSound, RunFields
<1> HIDE DEF v
<1>5. LedgerSound(ledger') /\ Grown(ledger, ledger') /\ Grown(v.document, ledger')
      /\ LedgerSound(v.document)
  BY <1>1, <1>4, SameLedger DEF FilledInv
<1>6. RunIsSound(v, ledger')
  BY <1>1, <1>4, <1>5
     DEF RunIsSound, Steps, BeforeChanges, AfterRegistration, AfterEntry
<1> QED BY <1>1, <1>3, <1>5, <1>6, GoesOn

\* A ledger that is still the sealed one has not been changed by this run; one
\* with the registration only had it when the run looked.
LEMMA CompareKeepsInv ==
    ASSUME FilledInv, NEW p \in Operators, Compare(p)
    PROVE  FilledInv'
<1>1. work[p] # None /\ work[p].step = "compare" /\ ledger' = ledger
      /\ RunIsSound(work[p], ledger) /\ Exit(p, AfterFailedRegistration(p))
  BY DEF Compare, AtStep, FilledInv
<1>2. /\ LedgerSound(work[p].document) /\ Grown(work[p].document, ledger)
      /\ work[p].tool \in ToolNames /\ work[p].applied \in Nat
      /\ work[p].raw.revision = Base(work[p].tool)
      /\ work[p].applied <= 1
      /\ work[p].applied > 0 => ledger.revision > Base(work[p].tool)
  BY <1>1 DEF RunIsSound, AfterRegistration
<1>3. Base(work[p].tool) \in Nat /\ LedgerSound(ledger)
  BY <1>2, BaseIsNumber DEF FilledInv
<1>4. ledger = work[p].raw => work[p].applied = 0
  BY <1>2, <1>3
<1>5. CASE Exit(p, "15") /\ ledger = work[p].raw
  BY <1>1, <1>4, <1>5, Exits
<1>6. CASE Exit(p, "16") /\ RegistrationOnly(work[p].document, work[p].tool)
  <2>1. Registration(work[p].tool) \in DOMAIN ledger.transitions
    BY <1>2, <1>3, <1>6 DEF RegistrationOnly, Grown, LedgerSound
  <2> QED BY <1>1, <1>2, <1>6, <2>1, Exits
<1>7. CASE Exit(p, "17")
  BY <1>1, <1>7, Exits
<1> QED BY <1>1, <1>5, <1>6, <1>7 DEF AfterFailedRegistration

\* The entry of a tool, when the ledger allows it.
LEMMA EntryGrows ==
    ASSUME FilledInv, NEW tool \in ToolNames, NEW at,
           EntryAllowed(ledger, EntryId(tool), tool, EntryRevision(tool)),
           ledger' = Entered(ledger, EntryId(tool), tool, at)
    PROVE  /\ LedgerSound(ledger') /\ Grown(ledger, ledger')
           /\ ledger'.revision = Base(tool) + 2
           /\ EntryId(tool) \in DOMAIN ledger'.transitions
<1>1. /\ tool \in DOMAIN ledger.signals
      /\ EntryId(tool) \notin DOMAIN ledger.transitions
      /\ ledger.revision = Base(tool) + 1
      /\ LedgerSound(ledger)
  BY DEF EntryAllowed, EntryRevision, FilledInv
<1>2. /\ LedgerSound(ledger') /\ Grown(ledger, ledger')
      /\ ledger'.revision = ledger.revision + 1
  BY <1>1, MoveIsSound
<1>3. MovedTo(ledger, ledger', tool, EntryId(tool))
  BY <1>1, Enters DEF LedgerSound
<1>4. Base(tool) \in Nat
  BY BaseIsNumber
<1> QED BY <1>1, <1>2, <1>3, <1>4 DEF MovedTo

\* A run after its entry, whether it is told so or not.
LEMMA EnteredKeepsInv ==
    ASSUME FilledInv, NEW p \in Operators, work[p] # None, work[p].step = "enter",
           LedgerSound(ledger'), Grown(ledger, ledger'),
           NEW step \in {"verify", "failed"},
           NEW v, work' = [work EXCEPT ![p] = v], exit' = exit,
           DOMAIN v = RunFields, v.step = step, v.tool = work[p].tool,
           v.document = work[p].document,
           v.applied \in Nat,
           v.applied <= 1 \/ ledger'.revision > Base(work[p].tool) + 1,
           step = "verify" => EntryId(work[p].tool) \in DOMAIN ledger'.transitions
    PROVE  FilledInv'
<1>1. RunIsSound(work[p], ledger')
  BY RunStaysSound DEF FilledInv
<1>2. RunIsSound(v, ledger')
  BY <1>1 DEF RunIsSound, Steps, BeforeChanges, AfterRegistration, AfterEntry
<1> QED BY <1>2, GoesOn

\* A run that goes on from its entry without a change of the ledger.
LEMMA UnenteredKeepsInv ==
    ASSUME FilledInv, NEW p \in Operators, work[p] # None, work[p].step = "enter",
           ledger' = ledger, NEW step \in {"verify", "failed"}, Go(p, step),
           step = "verify" => EntryId(work[p].tool) \in DOMAIN ledger.transitions
    PROVE  FilledInv'
<1>1. RunIsSound(work[p], ledger)
  BY DEF FilledInv
<1> DEFINE v == [work[p] EXCEPT !.step = step]
<1>2. work' = [work EXCEPT ![p] = v] /\ exit' = exit
  BY DEF Go, FilledInv
<1>3. /\ DOMAIN v = RunFields /\ v.step = step /\ v.document = work[p].document
      /\ v.tool = work[p].tool /\ v.applied = work[p].applied
  BY <1>1, Stepped DEF RunIsSound
<1> HIDE DEF v
<1>4. v.applied \in Nat /\ v.applied <= 1
  BY <1>1, <1>3 DEF RunIsSound
<1>5. step = "verify" => EntryId(work[p].tool) \in DOMAIN ledger'.transitions
  OBVIOUS
<1> QED BY <1>2, <1>3, <1>4, <1>5, SameLedger, EnteredKeepsInv

\* A run that goes on from an entry it made.
LEMMA NewlyEnteredKeepsInv ==
    ASSUME FilledInv, NEW p \in Operators, AtStep(p, "enter"),
           EntryAllowed(ledger, EntryId(work[p].tool), work[p].tool,
                        EntryRevision(work[p].tool)),
           ledger' = Entered(ledger, EntryId(work[p].tool), work[p].tool, work[p].at),
           NEW step \in {"verify", "failed"},
           work' = [work EXCEPT ![p].step = step, ![p].applied = @ + 1], exit' = exit
    PROVE  FilledInv'
<1>1. work[p] # None /\ work[p].step = "enter" /\ RunIsSound(work[p], ledger)
      /\ DOMAIN work[p] = RunFields /\ work[p].tool \in ToolNames /\ work[p].applied \in Nat
  BY DEF AtStep, FilledInv, RunIsSound
<1> DEFINE v == [work[p] EXCEPT !.step = step, !.applied = work[p].applied + 1]
<1>2. work' = [work EXCEPT ![p] = v]
  BY DEF FilledInv
<1>3. /\ DOMAIN v = RunFields /\ v.step = step /\ v.document = work[p].document
      /\ v.tool = work[p].tool /\ v.applied = work[p].applied + 1
  BY <1>1 DEF RunFields
<1> HIDE DEF v
<1>4. /\ LedgerSound(ledger') /\ Grown(ledger, ledger')
      /\ ledger'.revision = Base(work[p].tool) + 2
      /\ EntryId(work[p].tool) \in DOMAIN ledger'.transitions
  BY <1>1, EntryGrows
<1>5. v.applied \in Nat /\ ledger'.revision > Base(work[p].tool) + 1
  BY <1>1, <1>3, <1>4, BaseIsNumber
<1> QED BY <1>1, <1>2, <1>3, <1>4, <1>5, EnteredKeepsInv

LEMMA EnterKeepsInv ==
    ASSUME FilledInv, NEW p \in Operators,
           EnterFilled(p) \/ EnterFilledFails(p)
    PROVE  FilledInv'
<1> DEFINE tool == work[p].tool
           allowed == EntryAllowed(ledger, EntryId(tool), tool, EntryRevision(tool))
           made == ledger' = Entered(ledger, EntryId(tool), tool, work[p].at)
           counted(step) == /\ work' = [work EXCEPT ![p].step = step, ![p].applied = @ + 1]
                            /\ exit' = exit
<1>1. AtStep(p, "enter") /\ work[p] # None /\ work[p].step = "enter"
  BY DEF EnterFilled, EnterFilledFails, AtStep
<1>2. CASE EntryReplayed(ledger, EntryId(tool), tool, work[p].at)
           /\ Go(p, "verify") /\ UNCHANGED ledger
  <2>1. EntryId(work[p].tool) \in DOMAIN ledger.transitions
    BY <1>2 DEF EntryReplayed
  <2> QED BY <1>1, <1>2, <2>1, UnenteredKeepsInv
<1>3. CASE Go(p, "failed") /\ UNCHANGED ledger
  BY <1>1, <1>3, UnenteredKeepsInv
<1>4. CASE allowed /\ made /\ counted("verify")
  BY <1>1, <1>4, NewlyEnteredKeepsInv
<1>5. CASE allowed /\ made /\ counted("failed")
  BY <1>1, <1>5, NewlyEnteredKeepsInv
<1>6. CASE EnterFilled(p)
  BY <1>2, <1>3, <1>4, <1>6 DEF EnterFilled
<1>7. CASE EnterFilledFails(p)
  BY <1>3, <1>5, <1>7 DEF EnterFilledFails
<1> QED BY <1>6, <1>7

\* A ledger with the registration only is one this run has not entered.
LEMMA AfterFailedEntryKeepsInv ==
    ASSUME FilledInv, NEW p \in Operators, AfterFailedEntry(p)
    PROVE  FilledInv'
<1>1. work[p] # None /\ work[p].step = "failed" /\ ledger' = ledger
      /\ RunIsSound(work[p], ledger) /\ LedgerSound(ledger)
  BY DEF AfterFailedEntry, AtStep, FilledInv
<1>2. CASE Exit(p, "16") /\ RegistrationOnly(ledger, work[p].tool)
  <2>1. work[p].tool \in ToolNames /\ Base(work[p].tool) \in Nat
    BY <1>1, BaseIsNumber DEF RunIsSound
  <2>2. work[p].applied <= 1
    BY <1>1, <1>2, <2>1 DEF RunIsSound, RegistrationOnly
  <2>3. Registration(work[p].tool) \in DOMAIN ledger.transitions
    BY <1>1, <1>2, <2>1 DEF RegistrationOnly, LedgerSound
  <2> QED BY <1>1, <1>2, <2>2, <2>3, Exits
<1>3. CASE Exit(p, "17")
  BY <1>1, <1>3, Exits
<1> QED BY <1>2, <1>3 DEF AfterFailedEntry

LEMMA VerifyKeepsInv ==
    ASSUME FilledInv, NEW p \in Operators, Verify(p)
    PROVE  FilledInv'
<1>1. work[p] # None /\ work[p].step = "verify" /\ ledger' = ledger
      /\ RunIsSound(work[p], ledger)
  BY DEF Verify, AtStep, FilledInv
<1>2. EntryId(work[p].tool) \in DOMAIN ledger.transitions
  BY <1>1 DEF RunIsSound, AfterEntry
<1>3. CASE Exit(p, "18")
  BY <1>1, <1>2, <1>3, Exits
<1>4. CASE Go(p, "hash")
  <2> DEFINE v == [work[p] EXCEPT !.step = "hash"]
  <2>1. /\ DOMAIN v = RunFields /\ v.step = "hash" /\ v.document = work[p].document
        /\ v.tool = work[p].tool /\ v.applied = work[p].applied
    BY <1>1, Stepped DEF RunIsSound
  <2> HIDE DEF v
  <2>2. RunIsSound(v, ledger')
    BY <1>1, <2>1 DEF RunIsSound, Steps, BeforeChanges, AfterRegistration, AfterEntry
  <2> QED BY <1>1, <1>4, <2>2, SameLedger, Goes DEF v
<1> QED BY <1>3, <1>4 DEF Verify

LEMMA HashKeepsInv ==
    ASSUME FilledInv, NEW p \in Operators, Hash(p)
    PROVE  FilledInv'
<1>1. work[p] # None /\ work[p].step = "hash" /\ ledger' = ledger
      /\ RunIsSound(work[p], ledger)
  BY DEF Hash, AtStep, FilledInv
<1>2. CASE Exit(p, "10")
  BY <1>1, <1>2, Exits
<1>3. CASE work' = [work EXCEPT ![p].step = "write", ![p].raw = ledger] /\ UNCHANGED exit
  <2> DEFINE v == [work[p] EXCEPT !.step = "write", !.raw = ledger]
  <2>1. work' = [work EXCEPT ![p] = v] /\ exit' = exit
    BY <1>3 DEF FilledInv
  <2>2. /\ DOMAIN v = RunFields /\ v.step = "write" /\ v.document = work[p].document
        /\ v.tool = work[p].tool /\ v.applied = work[p].applied
    BY <1>1 DEF RunIsSound, RunFields
  <2> HIDE DEF v
  <2>3. RunIsSound(v, ledger')
    BY <1>1, <2>2 DEF RunIsSound, Steps, BeforeChanges, AfterRegistration, AfterEntry
  <2> QED BY <1>1, <2>1, <2>3, SameLedger, GoesOn
<1> QED BY <1>2, <1>3 DEF Hash

LEMMA WriteKeepsInv ==
    ASSUME FilledInv, NEW p \in Operators, Write(p)
    PROVE  FilledInv'
<1>1. work[p] # None /\ work[p].step = "write" /\ ledger' = ledger
      /\ RunIsSound(work[p], ledger)
  BY DEF Write, AtStep, FilledInv
<1>2. EntryId(work[p].tool) \in DOMAIN ledger.transitions
  BY <1>1 DEF RunIsSound, AfterEntry
<1>3. CASE Exit(p, "COMMITTED")
  BY <1>1, <1>2, <1>3, Exits
<1>4. CASE Exit(p, "19")
  BY <1>1, <1>2, <1>4, Exits
<1> QED BY <1>3, <1>4 DEF Write

LEMMA DieKeepsInv ==
    ASSUME FilledInv, NEW p \in Operators, DieAtWork(p)
    PROVE  FilledInv'
<1>1. /\ work' = [work EXCEPT ![p] = None] /\ exit' = [exit EXCEPT ![p] = exit[p]]
      /\ ledger' = ledger
  BY DEF DieAtWork, FilledInv
<1>2. exit[p] # None => ExitIsTrue(exit[p], ledger')
  BY <1>1 DEF FilledInv
<1> QED BY <1>1, <1>2, SameLedger, RunnerKeepsInv

\* Whatever else happens to the ledger, the runs stand still.
LEMMA OthersKeepInv ==
    ASSUME FilledInv, UNCHANGED <<work, exit>>,
           LedgerSound(ledger'), Grown(ledger, ledger')
    PROVE  FilledInv'
<1>1. \A q \in Operators : work[q] # None => RunIsSound(work[q], ledger')
  BY RunStaysSound DEF FilledInv
<1>2. \A q \in Operators : exit[q] # None => ExitIsTrue(exit[q], ledger')
  BY ExitStaysTrue DEF FilledInv
<1> QED BY <1>1, <1>2 DEF FilledInv

LEMMA OtherUsersKeepInv ==
    ASSUME FilledInv, OtherUsers
    PROVE  FilledInv'
<1>1. UNCHANGED <<work, exit>>
  BY DEF OtherUsers
<1>2. CASE UNCHANGED ledger
  BY <1>1, <1>2, SameLedger, OthersKeepInv
<1>3. ASSUME NEW s \in DOMAIN ledger.signals,
             EntryAllowed(ledger, <<"owner", s>>, s, ledger.revision),
             ledger' = Entered(ledger, <<"owner", s>>, s, None)
      PROVE  FilledInv'
  <2>1. <<"owner", s>> \notin DOMAIN ledger.transitions
    BY <1>3 DEF EntryAllowed
  <2>2. LedgerSound(ledger') /\ Grown(ledger, ledger')
    BY <1>3, <2>1, MoveIsSound DEF FilledInv
  <2> QED BY <1>1, <2>2, OthersKeepInv
<1>4. ASSUME NEW s \in DOMAIN ledger.signals,
             TerminalAllowed(ledger, <<"end", s>>, s, "CLOSED_MANUAL", ledger.revision),
             ledger' = Terminated(ledger, <<"end", s>>, s, "CLOSED_MANUAL", None)
      PROVE  FilledInv'
  <2>1. <<"end", s>> \notin DOMAIN ledger.transitions
    BY <1>4 DEF TerminalAllowed
  <2>2. LedgerSound(ledger') /\ Grown(ledger, ledger')
    BY <1>4, <2>1, MoveIsSound DEF FilledInv
  <2> QED BY <1>1, <2>2, OthersKeepInv
<1> QED BY <1>2, <1>3, <1>4 DEF OtherUsers

-----------------------------------------------------------------------------
(* The theorems. *)

LEMMA InitialFilledInv ==
    ASSUME FilledInit
    PROVE  FilledInv
  BY ReviewedIsSound DEF FilledInit, FilledInv

LEMMA FilledStep ==
    ASSUME FilledInv, [FilledNext]_filledVars
    PROVE  FilledInv'
<1>1. ASSUME NEW p \in Operators, NEW tool \in ToolNames, BeginRun(p, tool)
      PROVE  FilledInv'
  BY <1>1, BeginRunKeepsInv
<1>2. ASSUME NEW p \in Operators,
             ReadRaw(p) \/ Load(p) \/ Replay(p) \/ Check(p) \/ LookForRegistration(p)
      PROVE  FilledInv'
  BY <1>2, ReadRawKeepsInv, LoadKeepsInv, ReplayKeepsInv, CheckKeepsInv, LookKeepsInv
<1>3. ASSUME NEW p \in Operators,
             RegisterFilled(p) \/ RegisterFilledFails(p) \/ Reload(p) \/ Compare(p)
      PROVE  FilledInv'
  BY <1>3, RegisterKeepsInv, RegisterFailsKeepsInv, ReloadKeepsInv, CompareKeepsInv
<1>4. ASSUME NEW p \in Operators,
             \/ EnterFilled(p) \/ EnterFilledFails(p) \/ AfterFailedEntry(p)
             \/ Verify(p) \/ Hash(p) \/ Write(p) \/ DieAtWork(p)
      PROVE  FilledInv'
  BY <1>4, EnterKeepsInv, AfterFailedEntryKeepsInv, VerifyKeepsInv, HashKeepsInv,
     WriteKeepsInv, DieKeepsInv
<1>5. CASE OtherUsers
  BY <1>5, OtherUsersKeepInv
<1>6. CASE UNCHANGED filledVars
  BY <1>6, SameLedger, OthersKeepInv DEF filledVars
<1> QED BY <1>1, <1>2, <1>3, <1>4, <1>5, <1>6 DEF FilledNext

THEOREM FilledInvHolds == FilledSpec => []FilledInv
<1>1. FilledInit => FilledInv
  BY InitialFilledInv
<1>2. FilledInv /\ [FilledNext]_filledVars => FilledInv'
  BY FilledStep
<1> QED BY <1>1, <1>2, PTL DEF FilledSpec

\* A position is entered only as the change right after its registration, in
\* the ledger the tool was reviewed for, although nothing locks the ledger
\* over both and runs may die in between.
THEOREM EntryFollowsRegistrationTheorem == FilledSpec => []EntryFollowsRegistration
<1>1. FilledInv => EntryFollowsRegistration
  BY DEF FilledInv, LedgerSound, EntryFollowsRegistration, Registration
<1> QED BY <1>1, FilledInvHolds, PTL

\* What a run exits with is true of the ledger and of what the run itself did,
\* then and later.
THEOREM ExitsAreTrueTheorem == FilledSpec => []ExitsAreTrue
<1>1. FilledInv => ExitsAreTrue
  BY DEF FilledInv, ExitIsTrue, ExitsAreTrue, Registration
<1> QED BY <1>1, FilledInvHolds, PTL
-----------------------------------------------------------------------------
(* What is written is a ledger that validate_ledger accepts. *)

\* What a registration writes is as sound as what it found.
LEMMA RegistrationStaysSound ==
    ASSUME NEW L, SoundLedger(L), NEW request, NEW expected,
           Reserved(L, request, expected) # None
    PROVE  SoundLedger(Reserved(L, request, expected))
<1> DEFINE resumed == CommitOccupancy(L, request.transaction_id)
           written == PrepareAndCommit(L, request)
           R == Reserved(L, request, expected)
<1>1. /\ R \in {resumed, L, written}
      /\ Valid(R)
  BY DEF Reserved
<1>2. CASE R = resumed
  BY <1>1, <1>2, CommittedStaysSound DEF SoundLedger
<1>3. CASE R = L
  BY <1>3
<1>4. CASE R = written
  BY <1>1, <1>4, ReservedStaysSound
<1> HIDE DEF R, resumed, written
<1> QED BY <1>1, <1>2, <1>3, <1>4 DEF R

LEMMA ReviewedIsWritable == SoundLedger(ReviewedLedger)
<1> DEFINE K == WithCandidate(EmptyLedger, Earlier)
           P == PrepareAndCommit(EmptyLedger, Earlier)
<1>1. SoundLedger(P)
  <2>1. ReservationAllowed(EmptyLedger, Earlier, 0)
    BY DEF ReservationAllowed, PendingConflict, EmptyLedger, NoEntries
  <2> QED BY <2>1, EmptyIsSound, AllowedStaysSound
<1>2. Earlier.signal_id \in DOMAIN P.signals
  <2>1. K.transactions[Earlier.transaction_id] = TransactionOf(Earlier, Prepared)
    BY DEF WithCandidate, Put
  <2>2. K.transactions[Earlier.transaction_id].signal_id = Earlier.signal_id
    BY <2>1, RequestedTransaction
  <2>3. P.signals = Put(K.signals, Earlier.signal_id,
                        PublishedSignal(K.transactions[Earlier.transaction_id]))
    BY <2>2 DEF PrepareAndCommit, CommitOccupancy
  <2> HIDE DEF K, P
  <2> QED BY <2>3 DEF Put
<1>3. "CANCELLED" \in TerminalStates
  BY DEF TerminalStates
<1> HIDE DEF P
<1>4. SoundLedger(Terminated(P, <<"end", "earlier">>, Earlier.signal_id, "CANCELLED", None))
  BY <1>1, <1>2, <1>3, TerminatedStaysSound
<1> QED BY <1>4 DEF ReviewedLedger, P

LEMMA FilledStepStaysSound ==
    ASSUME SoundLedger(ledger), [FilledNext]_filledVars
    PROVE  SoundLedger(ledger')
<1>1. CASE \E p \in Operators : RegisterFilled(p) \/ RegisterFilledFails(p)
  <2>1. PICK p \in Operators : RegisterFilled(p) \/ RegisterFilledFails(p)
    BY <1>1
  <2>2. CASE ledger' = ledger
    BY <2>2
  <2>3. CASE ledger' = RegistrationOf(p) /\ RegistrationOf(p) # None
    BY <2>3, RegistrationStaysSound DEF RegistrationOf
  <2> QED BY <2>1, <2>2, <2>3 DEF RegisterFilled, RegisterFilledFails
<1>2. CASE \E p \in Operators : EnterFilled(p) \/ EnterFilledFails(p)
  <2>1. PICK p \in Operators : EnterFilled(p) \/ EnterFilledFails(p)
    BY <1>2
  <2> DEFINE w == work[p]
  <2>2. CASE ledger' = ledger
    BY <2>2
  <2>3. CASE /\ EntryAllowed(ledger, EntryId(w.tool), w.tool, EntryRevision(w.tool))
             /\ ledger' = Entered(ledger, EntryId(w.tool), w.tool, w.at)
    BY <2>3, EnteredStaysSound
  <2> QED BY <2>1, <2>2, <2>3 DEF EnterFilled, EnterFilledFails
<1>3. CASE OtherUsers
  <2>1. CASE ledger' = ledger
    BY <2>1
  <2>2. CASE \E s \in DOMAIN ledger.signals :
                /\ EntryAllowed(ledger, <<"owner", s>>, s, ledger.revision)
                /\ ledger' = Entered(ledger, <<"owner", s>>, s, None)
    BY <2>2, EnteredStaysSound
  <2>3. CASE \E s \in DOMAIN ledger.signals :
                ledger' = Terminated(ledger, <<"end", s>>, s, "CLOSED_MANUAL", None)
    <3>1. "CLOSED_MANUAL" \in TerminalStates
      BY DEF TerminalStates
    <3> QED BY <2>3, <3>1, TerminatedStaysSound
  <2> QED BY <1>3, <2>1, <2>2, <2>3 DEF OtherUsers
<1>4. CASE \E p \in Operators :
              \/ \E tool \in ToolNames : BeginRun(p, tool)
              \/ ReadRaw(p) \/ Load(p) \/ Replay(p) \/ Check(p) \/ LookForRegistration(p)
              \/ Reload(p) \/ Compare(p) \/ AfterFailedEntry(p)
              \/ Verify(p) \/ Hash(p) \/ Write(p) \/ DieAtWork(p)
  <2>1. ledger' = ledger
    BY <1>4 DEF BeginRun, ReadRaw, Load, Replay, Check, LookForRegistration, Reload,
               Compare, AfterFailedEntry, Verify, Hash, Write, DieAtWork
  <2> QED BY <2>1
<1>5. CASE UNCHANGED filledVars
  BY <1>5 DEF filledVars
<1> QED BY <1>1, <1>2, <1>3, <1>4, <1>5 DEF FilledNext

\* Two tools that enter positions, and whoever else uses the ledger, never
\* exceed its capacity nor enter a pair twice: validate_ledger accepts
\* whatever they leave.
THEOREM FilledLedgerIsValidTheorem == FilledSpec => []Valid(ledger)
<1>1. FilledInit => SoundLedger(ledger)
  BY ReviewedIsWritable DEF FilledInit
<1>2. SoundLedger(ledger) /\ [FilledNext]_filledVars => SoundLedger(ledger)'
  BY FilledStepStaysSound
<1>3. SoundLedger(ledger) => Valid(ledger)
  BY DEF SoundLedger
<1> QED BY <1>1, <1>2, <1>3, PTL DEF FilledSpec
=============================================================================
