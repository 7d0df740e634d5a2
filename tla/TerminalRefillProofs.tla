------------------------ MODULE TerminalRefillProofs ------------------------
(***************************************************************************)
(* Theorems about TerminalRefill, for any callers, calls and endings: the  *)
(* two ledgers agree, a slot is refilled once, a missed refill can be      *)
(* repaired, and callers are told what happened.                           *)
(***************************************************************************)
EXTENDS TerminalRefill, LedgerDocumentProofs

CallFields ==
    {"at", "id", "ending", "expected", "current", "refillExpected", "existed",
     "repair", "wrote", "release", "reconciledBefore"}

\* The requests of the refill ledger are those of its sources, filed by the
\* transition that each names.
RequestsHaveSources ==
    /\ DOMAIN refill = {"revision", "requests", "sources"}
    /\ \A id \in DOMAIN refill.sources : refill.sources[id].transition = id
    /\ DOMAIN refill.requests =
          {Refill!RequestId(refill.sources[id]) : id \in DOMAIN refill.sources}

\* Past the transition a call carries what the active ledger recorded.
CallIsTrue(c) ==
    work[c] # None =>
        /\ DOMAIN work[c] = CallFields
        /\ work[c].at \in {"transition", "refill", "reconcile"}
        /\ work[c].at = "transition" => /\ ~work[c].wrote /\ ~work[c].repair
                                        /\ work[c].ending \in Endings
                                        /\ work[c].ending.id = work[c].id
        /\ work[c].at # "transition" => /\ IsTerminal(active, work[c].id)
                                        /\ work[c].release = Context(active, work[c].id)
        /\ work[c].repair => ~work[c].wrote
        /\ work[c].at = "reconcile" /\ work[c].reconciledBefore =>
              work[c].id \in DOMAIN refill.sources

ReportIsTrue(c) ==
    report[c] # None =>
        CASE report[c].result \in { "TRANSITION_AND_REFILL_RECONCILED",
                                    "TRANSITION_REPLAY_REFILL_RECONCILED",
                                    "REFILL_ALREADY_RECONCILED" } ->
                IsTerminal(active, report[c].id) /\ report[c].id \in DOMAIN refill.sources
          [] report[c].result = "TRANSITION_APPLIED_REFILL_PENDING" ->
                IsTerminal(active, report[c].id) /\ ~report[c].refilled
          [] OTHER -> ~report[c].ended /\ ~report[c].refilled

RefillInv ==
    /\ DOMAIN work = Clients
    /\ DOMAIN report = Clients
    /\ EndingsAgree(active)
    /\ RefillMatchesHistory
    /\ RequestsHaveSources
    /\ \A c \in Clients : CallIsTrue(c) /\ ReportIsTrue(c)

-----------------------------------------------------------------------------
(* Operations on the active ledger. *)

\* M has the endings of L, and says the same of them.
KeepsEndings(L, M) ==
    \A id : IsTerminal(L, id) => IsTerminal(M, id) /\ Context(M, id) = Context(L, id)

LEMMA EntryKeepsEndings ==
    ASSUME NEW L, EndingsAgree(L), NEW id, NEW signal, NEW evidence, NEW expected,
           EntryAllowed(L, id, signal, expected)
    PROVE  LET M == Entered(L, id, signal, evidence)
           IN EndingsAgree(M) /\ KeepsEndings(L, M)
<1> DEFINE M == Entered(L, id, signal, evidence)
<1>1. /\ signal \in DOMAIN L.signals
      /\ L.signals[signal].state = PendingEntry
      /\ id \notin DOMAIN L.transitions
  BY DEF EntryAllowed
<1>2. /\ DOMAIN M.signals = DOMAIN L.signals
      /\ DOMAIN M.transitions = DOMAIN L.transitions \cup {id}
      /\ M.transitions[id].operation = "ENTRY"
      /\ \A t \in DOMAIN L.transitions : M.transitions[t] = L.transitions[t]
      /\ \A s \in DOMAIN L.signals \ {signal} : M.signals[s] = L.signals[s]
  BY <1>1 DEF Entered, Put, EntryTransition
<1>3. /\ DOMAIN M.signals[signal] = DOMAIN L.signals[signal]
      /\ M.signals[signal].mode = L.signals[signal].mode
  BY <1>1 DEF Entered, Put, EndingsAgree
<1>4. PendingEntry \notin TerminalStates
  BY DEF PendingEntry, TerminalStates
<1>5. \A t \in DOMAIN L.transitions :
         L.transitions[t].operation = "TERMINAL" => L.transitions[t].signal_id # signal
  BY <1>1, <1>4 DEF EndingsAgree
<1> HIDE DEF M
<1>6. EndingsAgree(M)
  BY <1>1, <1>2, <1>3, <1>5 DEF EndingsAgree
<1>7. KeepsEndings(L, M)
  BY <1>2, <1>5 DEF KeepsEndings, IsTerminal, Context, EndingsAgree
<1> QED BY <1>6, <1>7 DEF M

LEMMA EndingKeepsEndings ==
    ASSUME NEW L, EndingsAgree(L), NEW id, NEW signal, NEW state \in TerminalStates,
           NEW evidence, NEW expected, TerminalAllowed(L, id, signal, state, expected)
    PROVE  LET M == Terminated(L, id, signal, state, evidence)
           IN EndingsAgree(M) /\ KeepsEndings(L, M) /\ IsTerminal(M, id)
<1> DEFINE M == Terminated(L, id, signal, state, evidence)
<1>1. /\ signal \in DOMAIN L.signals
      /\ L.signals[signal].state \in {PendingEntry, EntryActive}
      /\ id \notin DOMAIN L.transitions
  BY DEF TerminalAllowed
<1>2. /\ DOMAIN M.signals = DOMAIN L.signals
      /\ DOMAIN M.transitions = DOMAIN L.transitions \cup {id}
      /\ M.transitions[id].operation = "TERMINAL"
      /\ M.transitions[id].to_state = state
      /\ M.transitions[id].signal_id = signal
      /\ \A t \in DOMAIN L.transitions : M.transitions[t] = L.transitions[t]
      /\ \A s \in DOMAIN L.signals \ {signal} : M.signals[s] = L.signals[s]
  BY <1>1 DEF Terminated, Put, TerminalTransition
<1>3. /\ DOMAIN M.signals[signal] = DOMAIN L.signals[signal]
      /\ M.signals[signal].mode = L.signals[signal].mode
      /\ M.signals[signal].state = state
  BY <1>1 DEF Terminated, Put, EndingsAgree
<1>4. PendingEntry \notin TerminalStates /\ EntryActive \notin TerminalStates
  BY DEF PendingEntry, EntryActive, TerminalStates
<1>5. \A t \in DOMAIN L.transitions :
         L.transitions[t].operation = "TERMINAL" => L.transitions[t].signal_id # signal
  BY <1>1, <1>4 DEF EndingsAgree
<1> HIDE DEF M
<1>6. EndingsAgree(M)
  BY <1>1, <1>2, <1>3, <1>5 DEF EndingsAgree
<1>7. KeepsEndings(L, M)
  BY <1>2, <1>5 DEF KeepsEndings, IsTerminal, Context, EndingsAgree
<1>8. IsTerminal(M, id)
  BY <1>2, <1>3 DEF IsTerminal
<1> QED BY <1>6, <1>7, <1>8 DEF M

-----------------------------------------------------------------------------
(* What a step leaves of the calls and reports it does not touch. *)

LEMMA HistoryInContexts ==
    RefillMatchesHistory <=>
        \A id \in DOMAIN refill.sources :
            /\ IsTerminal(active, id)
            /\ refill.sources[id] = Context(active, id)
            /\ refill.sources[id].state \notin {"CLOSED_MANUAL", "REJECTED_BY_OWNER"}
  BY DEF RefillMatchesHistory, Context

LEMMA OthersStayTrue ==
    ASSUME RefillInv, KeepsEndings(active, active'),
           DOMAIN refill.sources \subseteq DOMAIN refill'.sources
    PROVE  \A c \in Clients : /\ work'[c] = work[c] => CallIsTrue(c)'
                              /\ report'[c] = report[c] => ReportIsTrue(c)'
<1> SUFFICES ASSUME NEW c \in Clients
             PROVE  /\ work'[c] = work[c] => CallIsTrue(c)'
                    /\ report'[c] = report[c] => ReportIsTrue(c)'
  OBVIOUS
<1>1. \A id : IsTerminal(active, id) =>
                 IsTerminal(active', id) /\ Context(active', id) = Context(active, id)
  BY DEF KeepsEndings
<1>2. ASSUME work'[c] = work[c] PROVE CallIsTrue(c)'
  BY <1>1, <1>2, Zenon DEF RefillInv, CallIsTrue
<1>3. ASSUME report'[c] = report[c] PROVE ReportIsTrue(c)'
  BY <1>1, <1>3 DEF RefillInv, ReportIsTrue
<1> QED BY <1>2, <1>3

\* An operation on the active ledger alone leaves what was recorded of it.
LEMMA ActiveStepKeepsHistory ==
    ASSUME RefillInv, KeepsEndings(active, active'), UNCHANGED refill
    PROVE  RefillMatchesHistory' /\ RequestsHaveSources'
<1>1. \A id \in DOMAIN refill.sources :
          /\ IsTerminal(active', id)
          /\ refill.sources[id] = Context(active', id)
          /\ refill.sources[id].state \notin {"CLOSED_MANUAL", "REJECTED_BY_OWNER"}
  BY HistoryInContexts DEF RefillInv, KeepsEndings
<1>2. RefillMatchesHistory'
  BY <1>1 DEF RefillMatchesHistory, Context
<1>3. RequestsHaveSources'
  BY DEF RefillInv, RequestsHaveSources
<1> QED BY <1>2, <1>3

\* The step is one of caller c.
StepOf(c) ==
    /\ DOMAIN work' = Clients
    /\ DOMAIN report' = Clients
    /\ \A d \in Clients \ {c} : work'[d] = work[d] /\ report'[d] = report[d]

LEMMA StepKeepsInv ==
    ASSUME RefillInv, NEW c \in Clients, StepOf(c),
           EndingsAgree(active'), KeepsEndings(active, active'),
           DOMAIN refill.sources \subseteq DOMAIN refill'.sources,
           RefillMatchesHistory', RequestsHaveSources',
           CallIsTrue(c)', ReportIsTrue(c)'
    PROVE  RefillInv'
<1>1. ASSUME NEW d \in Clients PROVE CallIsTrue(d)' /\ ReportIsTrue(d)'
  <2>1. CASE d = c
    BY <2>1
  <2>2. CASE d # c
    BY <2>2, OthersStayTrue DEF StepOf
  <2> QED BY <2>1, <2>2
<1>2. EndingsAgree(active)'
  BY DEF EndingsAgree
<1> QED BY <1>1, <1>2 DEF RefillInv, StepOf

\* A step of a caller that changes no ledger, or the active one only.
LEMMA ActiveStepKeepsInv ==
    ASSUME RefillInv, NEW c \in Clients, StepOf(c),
           EndingsAgree(active'), KeepsEndings(active, active'), UNCHANGED refill,
           CallIsTrue(c)', ReportIsTrue(c)'
    PROVE  RefillInv'
  BY ActiveStepKeepsHistory, StepKeepsInv

LEMMA CallerStepKeepsInv ==
    ASSUME RefillInv, NEW c \in Clients, StepOf(c), UNCHANGED <<active, refill>>,
           CallIsTrue(c)', ReportIsTrue(c)'
    PROVE  RefillInv'
<1>1. KeepsEndings(active, active') /\ EndingsAgree(active')
  BY DEF KeepsEndings, RefillInv
<1> QED BY <1>1, ActiveStepKeepsInv

-----------------------------------------------------------------------------
(* The steps. *)

LEMMA InitialRefillInv == TerminalInit => RefillInv
<1> SUFFICES ASSUME TerminalInit PROVE RefillInv
  OBVIOUS
<1>1. EndingsAgree(active)
  BY StartAssumption DEF TerminalInit
<1>2. refill = [revision |-> 0, requests |-> Refill!Empty, sources |-> Refill!Empty]
  BY DEF TerminalInit, Refill!EmptyRefillLedger
<1>3. DOMAIN refill.sources = {} /\ DOMAIN refill.requests = {}
  BY <1>2 DEF Refill!Empty
<1>4. RefillMatchesHistory /\ RequestsHaveSources
  BY <1>2, <1>3 DEF RefillMatchesHistory, RequestsHaveSources
<1>5. \A c \in Clients : CallIsTrue(c) /\ ReportIsTrue(c)
  BY DEF TerminalInit, CallIsTrue, ReportIsTrue
<1>6. DOMAIN work = Clients /\ DOMAIN report = Clients
  BY DEF TerminalInit
<1> QED BY <1>1, <1>4, <1>5, <1>6 DEF RefillInv

LEMMA BeginKeepsInv ==
    ASSUME RefillInv, NEW c \in Clients,
           \/ \E e \in Endings, current \in BOOLEAN : \E r : BeginCall(c, e, current, r)
           \/ \E id, expected, r : Repair(c, id, expected, r)
           \/ ClientDies(c)
    PROVE  RefillInv'
<1> USE DEF BeginCall, Repair, ClientDies, Proceed
<1>1. UNCHANGED <<active, refill>>
  OBVIOUS
<1>2. StepOf(c)
  BY DEF StepOf, RefillInv
<1>3. report'[c] = None
  BY DEF RefillInv
<1>4. CallIsTrue(c)'
  <2>1. CASE \E e \in Endings, current \in BOOLEAN : \E r : BeginCall(c, e, current, r)
    BY <2>1 DEF RefillInv, CallIsTrue, CallFields
  <2>2. CASE \E id, expected, r : Repair(c, id, expected, r)
    BY <1>1, <2>2 DEF RefillInv, CallIsTrue, CallFields
  <2>3. CASE ClientDies(c)
    BY <2>3 DEF RefillInv, CallIsTrue
  <2> QED BY <2>1, <2>2, <2>3
<1>5. ReportIsTrue(c)'
  BY <1>3 DEF ReportIsTrue
<1> QED BY <1>1, <1>2, <1>4, <1>5, CallerStepKeepsInv

\* A call that gives up or is told of a failure before it changed anything.
LEMMA TransitionFailsKeepsInv ==
    ASSUME RefillInv, NEW c \in Clients, TransitionFails(c) \/ ReconcileFails(c)
    PROVE  RefillInv'
<1> USE DEF TransitionFails, ReconcileFails, Report
<1>1. UNCHANGED <<active, refill>>
  OBVIOUS
<1>2. StepOf(c)
  BY DEF StepOf, RefillInv
<1>3. CallIsTrue(c)'
  BY DEF RefillInv, CallIsTrue
<1>4. CallIsTrue(c)
  BY DEF RefillInv
<1>5. ReportIsTrue(c)'
  <2>1. CASE TransitionFails(c)
    <3>1. /\ report'[c].result = "ACTIVE_LEDGER_FAILURE"
          /\ ~report'[c].ended /\ ~report'[c].refilled
      BY <1>4, <2>1 DEF RefillInv, CallIsTrue
    <3> QED BY <3>1 DEF ReportIsTrue
  <2>2. CASE ReconcileFails(c)
    <3>1. /\ report'[c].result = Failure(c)
          /\ report'[c].id = work[c].id
          /\ report'[c].ended = work[c].wrote
          /\ ~report'[c].refilled
      BY <2>2 DEF RefillInv
    <3>2. IsTerminal(active', work[c].id)
      BY <1>1, <1>4, <2>2 DEF CallIsTrue
    <3>3. work[c].repair => ~work[c].wrote
      BY <1>4, <2>2 DEF CallIsTrue
    <3> QED BY <3>1, <3>2, <3>3 DEF ReportIsTrue, Failure
  <2> QED BY <2>1, <2>2
<1> QED BY <1>1, <1>2, <1>3, <1>5, CallerStepKeepsInv

LEMMA LookKeepsInv ==
    ASSUME RefillInv, NEW c \in Clients, LookAtRefill(c)
    PROVE  RefillInv'
<1>1. UNCHANGED <<active, refill>> /\ StepOf(c)
  BY DEF StepOf, RefillInv, LookAtRefill, Proceed
<1> DEFINE before == work[c].id \in DOMAIN refill.sources
<1>2. work'[c] = [work[c] EXCEPT !.at = "reconcile", !.reconciledBefore = before]
  BY DEF RefillInv, LookAtRefill, Proceed
<1>3. /\ CallIsTrue(c) /\ work[c] # None /\ work[c].at = "refill"
      /\ DOMAIN work[c] = CallFields
  BY DEF RefillInv, CallIsTrue, LookAtRefill
<1>4. /\ DOMAIN work'[c] = CallFields
      /\ work'[c].at = "reconcile"
      /\ work'[c].id = work[c].id
      /\ work'[c].release = work[c].release
      /\ work'[c].repair = work[c].repair
      /\ work'[c].wrote = work[c].wrote
      /\ work'[c].reconciledBefore = before
  <2>1. ASSUME NEW b \in BOOLEAN, b = before
        PROVE  /\ DOMAIN work'[c] = CallFields
               /\ work'[c].at = "reconcile"
               /\ work'[c].id = work[c].id
               /\ work'[c].release = work[c].release
               /\ work'[c].repair = work[c].repair
               /\ work'[c].wrote = work[c].wrote
               /\ work'[c].reconciledBefore = b
    <3>1. work'[c] = [work[c] EXCEPT !.at = "reconcile", !.reconciledBefore = b]
      BY <1>2, <2>1, Zenon
    <3> HIDE DEF before
    <3> QED BY <3>1, <1>3 DEF CallFields
  <2>2. (before = TRUE) \/ (before = FALSE)
    OBVIOUS
  <2> HIDE DEF before
  <2> QED BY <2>1, <2>2, Zenon
<1>5. CallIsTrue(c)'
  BY <1>1, <1>3, <1>4 DEF CallIsTrue
<1>6. report'[c] = report[c] /\ KeepsEndings(active, active')
  BY DEF KeepsEndings, LookAtRefill
<1>7. ReportIsTrue(c)'
  BY <1>1, <1>6, OthersStayTrue
<1> QED BY <1>1, <1>5, <1>7, CallerStepKeepsInv

\* What a call goes on with, or is told, after the active ledger's operation.
LEMMA AfterTransitionIsTrue ==
    ASSUME RefillInv, NEW c \in Clients, work[c] # None, work[c].at = "transition",
           KeepsEndings(active, active'), UNCHANGED refill,
           NEW wrote \in BOOLEAN, AfterTransition(c, active', wrote)
    PROVE  StepOf(c) /\ CallIsTrue(c)' /\ ReportIsTrue(c)'
<1>1. CallIsTrue(c) /\ DOMAIN work[c] = CallFields
  BY DEF RefillInv, CallIsTrue
<1>2. CASE IsTerminal(active', work[c].id)
  <2>1. /\ work' = [work EXCEPT ![c] = [work[c] EXCEPT !.at = "refill",
                                          !.release = Context(active', work[c].id),
                                          !.wrote = wrote]]
        /\ report' = report
    BY <1>2 DEF AfterTransition, Proceed
  <2>2. /\ DOMAIN work'[c] = CallFields
        /\ work'[c].at = "refill"
        /\ work'[c].id = work[c].id
        /\ work'[c].release = Context(active', work[c].id)
        /\ ~work'[c].repair
    BY <1>1, <2>1 DEF CallFields, CallIsTrue, RefillInv
  <2>3. CallIsTrue(c)'
    BY <1>2, <2>2 DEF CallIsTrue
  <2>4. ReportIsTrue(c)'
    BY <2>1, OthersStayTrue
  <2>5. StepOf(c)
    BY <2>1 DEF StepOf, RefillInv
  <2> QED BY <2>3, <2>4, <2>5
<1>3. CASE ~IsTerminal(active', work[c].id)
  <2>1. /\ work' = [work EXCEPT ![c] = None]
        /\ report' = [report EXCEPT ![c] =
                        [result |-> "FAIL_CLOSED", id |-> work[c].id, repair |-> work[c].repair,
                         ended |-> work[c].wrote, refilled |-> FALSE]]
    BY <1>3 DEF AfterTransition, Report
  <2>2. /\ report'[c].result = "FAIL_CLOSED"
        /\ ~report'[c].ended /\ ~report'[c].refilled
    BY <1>1, <2>1 DEF RefillInv, CallIsTrue
  <2>3. ReportIsTrue(c)'
    BY <2>2 DEF ReportIsTrue
  <2>4. CallIsTrue(c)' /\ StepOf(c)
    BY <2>1 DEF StepOf, RefillInv, CallIsTrue
  <2> QED BY <2>3, <2>4
<1> QED BY <1>2, <1>3

LEMMA TransitionKeepsInv ==
    ASSUME RefillInv, NEW c \in Clients, Transition(c)
    PROVE  RefillInv'
<1> DEFINE e == work[c].ending
           expected == work[c].expected
<1>1. /\ work[c] # None /\ work[c].at = "transition" /\ UNCHANGED refill
      /\ e \in Endings /\ e.state \in TerminalStates /\ EndingsAgree(active)
      /\ ~work[c].wrote
  BY EndingAssumption DEF Transition, RefillInv, CallIsTrue
<1>2. CASE UNCHANGED active /\ AfterTransition(c, active, FALSE)
  <2>1. KeepsEndings(active, active') /\ EndingsAgree(active')
    BY <1>1, <1>2 DEF KeepsEndings
  <2>2. AfterTransition(c, active', FALSE)
    BY <1>2
  <2> QED BY <1>1, <2>1, <2>2, AfterTransitionIsTrue, ActiveStepKeepsInv
<1>3. CASE /\ TerminalAllowed(active, e.id, e.signal, e.state, expected)
           /\ active' = Terminated(active, e.id, e.signal, e.state, e.evidence)
           /\ AfterTransition(c, Terminated(active, e.id, e.signal, e.state, e.evidence), TRUE)
  <2>1. KeepsEndings(active, active') /\ EndingsAgree(active')
    BY <1>1, <1>3, EndingKeepsEndings
  <2>2. AfterTransition(c, active', TRUE)
    BY <1>3
  <2> QED BY <1>1, <2>1, <2>2, AfterTransitionIsTrue, ActiveStepKeepsInv
<1>4. CASE UNCHANGED active /\ Report(c, "ACTIVE_REJECTED", FALSE)
  <2>1. StepOf(c) /\ CallIsTrue(c)'
    BY <1>4 DEF Report, StepOf, RefillInv, CallIsTrue
  <2>2. /\ report'[c].result = "ACTIVE_REJECTED"
        /\ ~report'[c].ended /\ ~report'[c].refilled
    BY <1>1, <1>4 DEF Report, RefillInv
  <2>3. ReportIsTrue(c)'
    BY <2>2 DEF ReportIsTrue
  <2> QED BY <1>1, <1>4, <2>1, <2>3, CallerStepKeepsInv
<1> QED BY <1>2, <1>3, <1>4 DEF Transition

\* A release names the transition it stems from.
LEMMA ContextNames ==
    ASSUME NEW L, NEW id
    PROVE  Context(L, id).transition = id
  BY DEF Context, Refill!Release

LEMMA ReconcileKeepsInv ==
    ASSUME RefillInv, NEW c \in Clients, Reconcile(c)
    PROVE  RefillInv'
<1> DEFINE id == work[c].id
           release == work[c].release
<1>1. /\ work[c] # None /\ work[c].at = "reconcile" /\ UNCHANGED active
      /\ IsTerminal(active, id)
      /\ release = Context(active, id)
      /\ release.transition = id
      /\ work[c].repair => ~work[c].wrote
      /\ work[c].reconciledBefore => id \in DOMAIN refill.sources
  <2>1. work[c] # None /\ work[c].at = "reconcile" /\ UNCHANGED active
    BY DEF Reconcile
  <2>2. CallIsTrue(c)
    BY DEF RefillInv
  <2>3. /\ IsTerminal(active, id)
        /\ release = Context(active, id)
        /\ work[c].repair => ~work[c].wrote
        /\ work[c].reconciledBefore => id \in DOMAIN refill.sources
    BY <2>1, <2>2 DEF CallIsTrue
  <2> QED BY <2>1, <2>3, ContextNames
<1>2. /\ KeepsEndings(active, active') /\ EndingsAgree(active')
      /\ IsTerminal(active', id)
  BY <1>1 DEF KeepsEndings, RefillInv
<1>3. CASE Refill!ReleaseKnown(refill, release) /\ Report(c, Success(c), FALSE) /\ UNCHANGED refill
  <2>1. StepOf(c) /\ CallIsTrue(c)'
    BY <1>3 DEF Report, StepOf, RefillInv, CallIsTrue
  <2>2. report'[c].result = Success(c) /\ report'[c].id = id
    BY <1>3 DEF Report, RefillInv
  <2>3. id \in DOMAIN refill'.sources
    BY <1>1, <1>3 DEF Refill!ReleaseKnown
  <2>4. ReportIsTrue(c)'
    BY <1>2, <2>2, <2>3 DEF ReportIsTrue, Success
  <2> QED BY <1>1, <1>3, <2>1, <2>4, CallerStepKeepsInv
<1>4. CASE /\ Refill!ReleaseAccepted(refill, release)
           /\ refill' = Refill!RecordRelease(refill, release, Stamp)
           /\ Report(c, Success(c), TRUE)
  <2>1. StepOf(c) /\ CallIsTrue(c)'
    BY <1>4 DEF Report, StepOf, RefillInv, CallIsTrue
  <2>2. report'[c].result = Success(c) /\ report'[c].id = id
    BY <1>4 DEF Report, RefillInv
  <2>3. /\ DOMAIN refill' = {"revision", "requests", "sources"}
        /\ DOMAIN refill'.sources = DOMAIN refill.sources \cup {id}
        /\ refill'.sources[id] = release
        /\ \A t \in DOMAIN refill.sources : t # id => refill'.sources[t] = refill.sources[t]
        /\ DOMAIN refill'.requests = DOMAIN refill.requests \cup {Refill!RequestId(release)}
    BY <1>1, <1>4 DEF Refill!RecordRelease, Refill!Assign
  <2>4. id \notin DOMAIN refill.sources /\ release.state \in Refill!RefillableStates
    BY <1>1, <1>4 DEF Refill!ReleaseAccepted
  <2>5. ReportIsTrue(c)'
    BY <1>2, <2>2, <2>3 DEF ReportIsTrue, Success
  <2>6. RefillMatchesHistory'
    <3>1. release.state \notin {"CLOSED_MANUAL", "REJECTED_BY_OWNER"}
      BY <2>4 DEF Refill!RefillableStates
    <3>2. \A t \in DOMAIN refill'.sources :
             /\ IsTerminal(active', t)
             /\ refill'.sources[t] = Context(active', t)
             /\ refill'.sources[t].state \notin {"CLOSED_MANUAL", "REJECTED_BY_OWNER"}
      BY <1>1, <2>3, <3>1, HistoryInContexts DEF RefillInv
    <3> QED BY <3>2 DEF RefillMatchesHistory, Context
  <2>7. RequestsHaveSources'
    <3>1. {Refill!RequestId(refill'.sources[t]) : t \in DOMAIN refill'.sources} =
             {Refill!RequestId(refill.sources[t]) : t \in DOMAIN refill.sources}
                \cup {Refill!RequestId(release)}
      BY <2>3, <2>4
    <3> QED BY <1>1, <2>3, <3>1 DEF RefillInv, RequestsHaveSources
  <2> QED BY <1>2, <2>1, <2>3, <2>5, <2>6, <2>7, StepKeepsInv
<1>5. CASE Report(c, Failure(c), FALSE) /\ UNCHANGED refill
  <2>1. StepOf(c) /\ CallIsTrue(c)'
    BY <1>5 DEF Report, StepOf, RefillInv, CallIsTrue
  <2>2. /\ report'[c].result = Failure(c)
        /\ report'[c].id = id
        /\ report'[c].ended = work[c].wrote
        /\ ~report'[c].refilled
    BY <1>5 DEF Report, RefillInv
  <2>3. ReportIsTrue(c)'
    BY <1>1, <1>2, <2>2 DEF ReportIsTrue, Failure
  <2> QED BY <1>1, <1>5, <2>1, <2>3, CallerStepKeepsInv
<1> QED BY <1>3, <1>4, <1>5 DEF Reconcile

\* Others enter and end signals, and work on the requests.
LEMMA RestKeepsInv ==
    ASSUME RefillInv, UNCHANGED <<work, report>>,
           EndingsAgree(active'), KeepsEndings(active, active'),
           refill'.sources = refill.sources,
           RefillMatchesHistory', RequestsHaveSources'
    PROVE  RefillInv'
<1>1. \A c \in Clients : CallIsTrue(c)' /\ ReportIsTrue(c)'
  BY OthersStayTrue
<1>2. EndingsAgree(active)'
  BY DEF EndingsAgree
<1> QED BY <1>1, <1>2 DEF RefillInv

LEMMA OthersEndKeepsInv ==
    ASSUME RefillInv, ActivateEntry \/ \E ending \in Endings : OwnerTerminal(ending)
    PROVE  RefillInv'
<1>1. EndingsAgree(active)
  BY DEF RefillInv
<1>2. EndingsAgree(active') /\ KeepsEndings(active, active')
  <2>1. CASE ActivateEntry
    BY <1>1, <2>1, EntryKeepsEndings DEF ActivateEntry
  <2>2. CASE \E ending \in Endings : OwnerTerminal(ending)
    <3>1. PICK ending \in Endings : OwnerTerminal(ending)
      BY <2>2
    <3> QED BY <1>1, <3>1, EndingKeepsEndings, EndingAssumption DEF OwnerTerminal
  <2> QED BY <2>1, <2>2
<1>3. UNCHANGED <<refill, work, report>>
  BY DEF ActivateEntry, OwnerTerminal
<1> QED BY <1>2, <1>3, ActiveStepKeepsHistory, RestKeepsInv

LEMMA WorkerKeepsInv ==
    ASSUME RefillInv,
           NEW id \in DOMAIN refill.requests,
           (\E remaining \in 0 .. ModeCapacity[id[3]] : ClaimEligible(id, remaining))
              \/ Complete(id)
    PROVE  RefillInv'
<1>1. UNCHANGED <<active, work, report>>
  BY DEF ClaimEligible, Complete
<1>2. DOMAIN refill = {"revision", "requests", "sources"}
  BY DEF RefillInv, RequestsHaveSources
<1>3. /\ DOMAIN refill' = DOMAIN refill
      /\ refill'.sources = refill.sources
      /\ DOMAIN refill'.requests = DOMAIN refill.requests
  <2>1. CASE \E remaining \in 0 .. ModeCapacity[id[3]] : ClaimEligible(id, remaining)
    BY <1>2, <2>1 DEF ClaimEligible, Refill!ClaimedBy
  <2>2. CASE Complete(id)
    BY <1>2, <2>2 DEF Complete, Refill!CompletedWith
  <2> QED BY <2>1, <2>2
<1>4. EndingsAgree(active') /\ KeepsEndings(active, active')
  BY <1>1 DEF RefillInv, KeepsEndings
<1>5. RefillMatchesHistory'
  <2>1. \A t \in DOMAIN refill'.sources :
           /\ IsTerminal(active', t)
           /\ refill'.sources[t] = Context(active', t)
           /\ refill'.sources[t].state \notin {"CLOSED_MANUAL", "REJECTED_BY_OWNER"}
    BY <1>1, <1>3, HistoryInContexts DEF RefillInv
  <2> QED BY <2>1 DEF RefillMatchesHistory, Context
<1>6. RequestsHaveSources'
  BY <1>3 DEF RefillInv, RequestsHaveSources
<1> QED BY <1>1, <1>3, <1>4, <1>5, <1>6, RestKeepsInv

-----------------------------------------------------------------------------
(* The theorems. *)

LEMMA RefillStep == RefillInv /\ [TerminalNext]_terminalVars => RefillInv'
<1> SUFFICES ASSUME RefillInv, [TerminalNext]_terminalVars PROVE RefillInv'
  OBVIOUS
<1>1. ASSUME NEW c \in Clients,
             \/ \E e \in Endings, current \in BOOLEAN, r \in {None, refill.revision} :
                   BeginCall(c, e, current, r)
             \/ \E id \in DOMAIN active.transitions, r \in {None, refill.revision} :
                   Repair(c, id, active.revision, r)
             \/ ClientDies(c)
      PROVE  RefillInv'
  BY <1>1, BeginKeepsInv
<1>2. ASSUME NEW c \in Clients, Transition(c) PROVE RefillInv'
  BY <1>2, TransitionKeepsInv
<1>3. ASSUME NEW c \in Clients, TransitionFails(c) \/ ReconcileFails(c) PROVE RefillInv'
  BY <1>3, TransitionFailsKeepsInv
<1>4. ASSUME NEW c \in Clients, LookAtRefill(c) PROVE RefillInv'
  BY <1>4, LookKeepsInv
<1>5. ASSUME NEW c \in Clients, Reconcile(c) PROVE RefillInv'
  BY <1>5, ReconcileKeepsInv
<1>6. CASE ActivateEntry \/ \E e \in Endings : OwnerTerminal(e)
  BY <1>6, OthersEndKeepsInv
<1>7. ASSUME NEW id \in DOMAIN refill.requests,
             (\E remaining \in 0 .. ModeCapacity[id[3]] : ClaimEligible(id, remaining))
                \/ Complete(id)
      PROVE  RefillInv'
  BY <1>7, WorkerKeepsInv
<1>8. CASE UNCHANGED terminalVars
  <2>1. KeepsEndings(active, active') /\ EndingsAgree(active')
    BY <1>8 DEF terminalVars, KeepsEndings, RefillInv
  <2> QED BY <1>8, <2>1, ActiveStepKeepsHistory, RestKeepsInv DEF terminalVars
<1> QED BY <1>1, <1>2, <1>3, <1>4, <1>5, <1>6, <1>7, <1>8 DEF TerminalNext

THEOREM RefillInvHolds == TerminalSpec => []RefillInv
  BY InitialRefillInv, RefillStep, PTL DEF TerminalSpec

\* Every request in the refill ledger stems from a transition that the active
\* ledger recorded as the end of that signal, and not by hand, whatever
\* crashed between the two ledgers.
THEOREM RefillMatchesHistoryTheorem == TerminalSpec => []RefillMatchesHistory
<1>1. RefillInv => RefillMatchesHistory
  BY DEF RefillInv
<1> QED BY <1>1, RefillInvHolds, PTL

\* A signal releases its slot once: no two requests of the refill ledger are
\* about one signal.
THEOREM SignalRefilledOnceTheorem == TerminalSpec => []SignalRefilledOnce
<1>1. RefillInv => SignalRefilledOnce
  <2> SUFFICES ASSUME RefillInv, NEW r \in DOMAIN refill.requests,
                      NEW q \in DOMAIN refill.requests, r[2] = q[2]
               PROVE  r = q
    BY DEF SignalRefilledOnce
  <2>1. PICK t \in DOMAIN refill.sources : r = Refill!RequestId(refill.sources[t])
    BY DEF RefillInv, RequestsHaveSources
  <2>2. PICK u \in DOMAIN refill.sources : q = Refill!RequestId(refill.sources[u])
    BY DEF RefillInv, RequestsHaveSources
  <2>3. refill.sources[t].signal = refill.sources[u].signal
    BY <2>1, <2>2 DEF Refill!RequestId
  <2>4. /\ IsTerminal(active, t) /\ refill.sources[t] = Context(active, t)
        /\ IsTerminal(active, u) /\ refill.sources[u] = Context(active, u)
    BY HistoryInContexts DEF RefillInv
  <2>5. active.transitions[t].signal_id = active.transitions[u].signal_id
    BY <2>3, <2>4 DEF Context, Refill!Release
  <2>6. t = u
    BY <2>4, <2>5 DEF IsTerminal, RefillInv, EndingsAgree
  <2> QED BY <2>1, <2>2, <2>6
<1> QED BY <1>1, RefillInvHolds, PTL

\* In no state is a refill lost: if the end of a signal asks for one, a repair
\* would find it recorded or record it.
THEOREM RepairStaysPossibleTheorem == TerminalSpec => []RepairStaysPossible
<1>1. RefillInv => RepairStaysPossible
  <2> SUFFICES ASSUME RefillInv, NEW id \in DOMAIN active.transitions,
                      active.transitions[id].operation = "TERMINAL",
                      active.transitions[id].to_state \in Refill!RefillableStates
               PROVE  /\ IsTerminal(active, id)
                      /\ \/ Refill!ReleaseKnown(refill, Context(active, id))
                         \/ Refill!ReleaseAccepted(refill, Context(active, id))
    BY DEF RepairStaysPossible
  <2>1. IsTerminal(active, id)
    BY DEF IsTerminal, RefillInv, EndingsAgree
  <2>2. /\ Context(active, id).transition = id
        /\ Context(active, id).state \in Refill!RefillableStates
    BY DEF Context, Refill!Release
  <2>3. CASE id \in DOMAIN refill.sources
    <3>1. refill.sources[id] = Context(active, id)
      BY <2>3, HistoryInContexts DEF RefillInv
    <3> QED BY <2>1, <2>2, <2>3, <3>1 DEF Refill!ReleaseKnown
  <2>4. CASE id \notin DOMAIN refill.sources
    <3>1. ASSUME Refill!RequestId(Context(active, id)) \in DOMAIN refill.requests
          PROVE  FALSE
      <4>1. PICK t \in DOMAIN refill.sources :
               Refill!RequestId(Context(active, id)) = Refill!RequestId(refill.sources[t])
        BY <3>1 DEF RefillInv, RequestsHaveSources
      <4>2. refill.sources[t].transition = id
        BY <2>2, <4>1 DEF Refill!RequestId
      <4>3. t = id
        BY <4>2 DEF RefillInv, RequestsHaveSources
      <4> QED BY <2>4, <4>3
    <3> QED BY <2>1, <2>2, <2>4, <3>1 DEF Refill!ReleaseAccepted
  <2> QED BY <2>3, <2>4
<1> QED BY <1>1, RefillInvHolds, PTL

\* A caller of the integration is told what happened, in whichever order its
\* steps and those of others came.
THEOREM ReportsAreTrueTheorem == TerminalSpec => []ReportsAreTrue
<1>1. RefillInv => ReportsAreTrue
  BY DEF RefillInv, ReportIsTrue, ReportsAreTrue
<1> QED BY <1>1, RefillInvHolds, PTL
-----------------------------------------------------------------------------
(* What is written is a ledger that validate_ledger accepts. *)

LEMMA RefillStepStaysSound ==
    ASSUME SoundLedger(active), RefillInv, [TerminalNext]_terminalVars
    PROVE  SoundLedger(active')
<1>1. CASE \E c \in Clients : Transition(c)
  <2>1. PICK c \in Clients : Transition(c)
    BY <1>1
  <2> DEFINE e == work[c].ending
  <2>2. CASE active' = active
    BY <2>2
  <2>3. CASE /\ TerminalAllowed(active, e.id, e.signal, e.state, work[c].expected)
             /\ active' = Terminated(active, e.id, e.signal, e.state, e.evidence)
    <3>1. e \in Endings
      BY <2>1 DEF RefillInv, CallIsTrue, Transition
    <3>2. e.state \in TerminalStates /\ e.signal \in DOMAIN active.signals
      BY <2>3, <3>1, EndingAssumption DEF TerminalAllowed
    <3> HIDE DEF e
    <3> QED BY <2>3, <3>2, TerminatedStaysSound
  <2> QED BY <2>1, <2>2, <2>3 DEF Transition
<1>2. CASE ActivateEntry
  BY <1>2, EnteredStaysSound DEF ActivateEntry
<1>3. CASE \E e \in Endings : OwnerTerminal(e)
  <2>1. PICK e \in Endings : OwnerTerminal(e)
    BY <1>3
  <2>2. e.state \in TerminalStates /\ e.signal \in DOMAIN active.signals
    BY <2>1, EndingAssumption DEF OwnerTerminal, TerminalAllowed
  <2> QED BY <2>1, <2>2, TerminatedStaysSound DEF OwnerTerminal
<1>4. CASE \/ \E c \in Clients :
                 \/ \E e \in Endings, current \in BOOLEAN : \E r : BeginCall(c, e, current, r)
                 \/ \E id, expected, r : Repair(c, id, expected, r)
                 \/ TransitionFails(c) \/ LookAtRefill(c)
                 \/ Reconcile(c) \/ ReconcileFails(c) \/ ClientDies(c)
           \/ \E id, remaining : ClaimEligible(id, remaining)
           \/ \E id : Complete(id)
  <2>1. active' = active
    BY <1>4 DEF BeginCall, Repair, TransitionFails, LookAtRefill, Reconcile, ReconcileFails,
               ClientDies, ClaimEligible, Complete
  <2> QED BY <2>1
<1>5. CASE UNCHANGED terminalVars
  BY <1>5 DEF terminalVars
<1> QED BY <1>1, <1>2, <1>3, <1>4, <1>5 DEF TerminalNext

\* Whatever endings race with each other, with the owner's and with entries,
\* the active ledger never exceeds its capacity nor has a pair entered twice:
\* validate_ledger accepts whatever they leave.
THEOREM ActiveLedgerIsValidTheorem == TerminalSpec => []Valid(active)
<1>1. TerminalInit => SoundLedger(active)
  BY StartAssumption DEF TerminalInit, SoundLedger
<1>2. SoundLedger(active) /\ RefillInv /\ [TerminalNext]_terminalVars => SoundLedger(active)'
  BY RefillStepStaysSound
<1>3. SoundLedger(active) => Valid(active)
  BY DEF SoundLedger
<1> QED BY <1>1, <1>2, <1>3, RefillInvHolds, PTL DEF TerminalSpec
=============================================================================
