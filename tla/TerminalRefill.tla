--------------------------- MODULE TerminalRefill ---------------------------
(***************************************************************************)
(* Ending a signal in the active ledger and recording, in the refill       *)
(* ledger, the slot it released (passive_terminal_refill_integration_v1,   *)
(* with the coordinator and the lifecycle service around it).  Each ledger *)
(* has its own lock and nothing spans the two: a caller reads, writes the  *)
(* active ledger, reads the refill ledger and writes it in four separate   *)
(* steps, and may crash, fail or meet another caller's work in between.    *)
(*                                                                         *)
(* One operation on one ledger is one step (see LedgerFile).  A lock that  *)
(* cannot be had and a write that fails both leave the ledger alone and    *)
(* are one failure here.                                                   *)
(***************************************************************************)
EXTENDS LedgerDocument

CONSTANTS
    Clients,
    MaxCalls,       \* bound on the calls to the integration
    Endings,        \* what callers ask for: [id, signal, state, evidence]
    Entry,          \* an entry activation: [id, signal, evidence]
    Published,      \* the active ledger at the start
    Token,          \* claim token of the refill worker
    Stamp           \* the only reading of its clock

Refill == INSTANCE RefillDocument

\* The endings that a document records are those its signals have, one each.
EndingsAgree(L) ==
    /\ \A s \in DOMAIN L.signals :
          {"mode", "state", "terminal", "last_transition_id"} \subseteq DOMAIN L.signals[s]
    /\ \A id \in DOMAIN L.transitions : L.transitions[id].operation = "TERMINAL" =>
          /\ L.transitions[id].to_state \in TerminalStates
          /\ L.transitions[id].signal_id \in DOMAIN L.signals
          /\ L.signals[L.transitions[id].signal_id].state = L.transitions[id].to_state
          /\ \A other \in DOMAIN L.transitions :
                /\ L.transitions[other].operation = "TERMINAL"
                /\ L.transitions[other].signal_id = L.transitions[id].signal_id
                => other = id

ASSUME StartAssumption ==
    /\ IsFiniteSet(DOMAIN Published.signals)
    /\ \A s \in DOMAIN Published.signals : IsSignal(Published.signals[s])
    /\ Valid(Published)
    /\ EndingsAgree(Published)
    /\ MaxCalls \in Nat

ASSUME EndingAssumption == \A ending \in Endings : ending.state \in TerminalStates

VARIABLES
    active,         \* the document in the active ledger file
    refill,         \* the document in the refill ledger file
    work,           \* [Clients -> the call each is executing, or None]
    report,         \* [Clients -> what the latest call returned, or None]
    calls           \* number of calls begun

terminalVars == <<active, refill, work, report, calls>>

TerminalInit ==
    /\ active = Published
    /\ refill = Refill!EmptyRefillLedger
    /\ work = [c \in Clients |-> None]
    /\ report = [c \in Clients |-> None]
    /\ calls = 0

-----------------------------------------------------------------------------
(* Parts of a call. *)

IsTerminal(L, id) ==
    /\ id \in DOMAIN L.transitions
    /\ L.transitions[id].operation = "TERMINAL"
    /\ L.signals[L.transitions[id].signal_id].state = L.transitions[id].to_state

\* Fault: the release carries the revision of the document it is read from.
ContextOfDocument(L, id) ==
    LET t == L.transitions[id]
    IN  Refill!Release(id, t.signal_id, L.signals[t.signal_id].mode,
                       t.to_state, L.revision)

\* _terminal_context: the evidence the refill ledger is given.
Context(L, id) ==
    LET t == L.transitions[id]
    IN  Refill!Release(id, t.signal_id, L.signals[t.signal_id].mode,
                       t.to_state, t.revision)

Proceed(c, next) == work' = [work EXCEPT ![c] = next]

\* `ended` and `refilled` are history: what this very call wrote.
Report(c, result, refilled) ==
    /\ work' = [work EXCEPT ![c] = None]
    /\ report' = [report EXCEPT ![c] =
                     [ result   |-> result,
                       id       |-> work[c].id,
                       repair   |-> work[c].repair,
                       ended    |-> work[c].wrote,
                       refilled |-> refilled ]]

-----------------------------------------------------------------------------
(* transition_and_reconcile_refill *)

\* load_ledger: whether the transition existed before, and the revisions the
\* caller expects, which are those of the moment or any check left out.
BeginCall(c, ending, current, refillExpected) ==
    /\ work[c] = None
    /\ calls < MaxCalls
    /\ calls' = calls + 1
    /\ Proceed(c, [ at       |-> "transition",
                    id       |-> ending.id,
                    ending   |-> ending,
                    expected |-> active.revision,
                    current  |-> current,
                    refillExpected |-> refillExpected,
                    existed  |-> ending.id \in DOMAIN active.transitions,
                    repair   |-> FALSE,
                    wrote    |-> FALSE,
                    release  |-> None,
                    reconciledBefore |-> FALSE ])
    /\ report' = [report EXCEPT ![c] = None]
    /\ UNCHANGED <<active, refill>>

\* On to the refill ledger with what the active ledger recorded under the id;
\* a call that recorded nothing under it has no evidence to go on with.
AfterTransition(c, L, wrote) ==
    IF IsTerminal(L, work[c].id)
    THEN /\ Proceed(c, [work[c] EXCEPT !.at = "refill",
                                       !.release = Context(L, work[c].id),
                                       !.wrote = wrote])
         /\ UNCHANGED report
    ELSE Report(c, "FAIL_CLOSED", FALSE)

Transition(c) ==
    /\ work[c] # None
    /\ work[c].at = "transition"
    /\ LET e        == work[c].ending
           expected == work[c].expected
           replayed == /\ TerminalReplayed(active, e.id, e.signal, e.state, e.evidence)
                       /\ work[c].current => expected = active.revision
           already  == TerminalAlready(active, e.id, e.signal, e.state, e.evidence,
                                       expected)
           allowed  == TerminalAllowed(active, e.id, e.signal, e.state, expected)
           ended    == Terminated(active, e.id, e.signal, e.state, e.evidence)
       IN  \/ /\ replayed \/ already
              /\ AfterTransition(c, active, FALSE)
              /\ UNCHANGED active
           \/ /\ allowed
              /\ active' = ended
              /\ AfterTransition(c, ended, TRUE)
           \/ /\ ~replayed /\ ~already /\ ~allowed
              /\ Report(c, "ACTIVE_REJECTED", FALSE)
              /\ UNCHANGED active
    /\ UNCHANGED <<refill, calls>>

TransitionFails(c) ==
    /\ work[c] # None
    /\ work[c].at = "transition"
    /\ Report(c, "ACTIVE_LEDGER_FAILURE", FALSE)
    /\ UNCHANGED <<active, refill, calls>>

-----------------------------------------------------------------------------
(* reconcile_existing_terminal_refill *)

\* It proceeds only at the revision its caller expects, which is any revision
\* the caller may have read.
Repair(c, id, expected, refillExpected) ==
    /\ work[c] = None
    /\ calls < MaxCalls
    /\ calls' = calls + 1
    /\ expected = active.revision
    /\ IsTerminal(active, id)
    /\ Proceed(c, [ at       |-> "refill",
                    id       |-> id,
                    ending   |-> None,
                    expected |-> expected,
                    current  |-> TRUE,
                    refillExpected |-> refillExpected,
                    existed  |-> FALSE,
                    repair   |-> TRUE,
                    wrote    |-> FALSE,
                    release  |-> Context(active, id),
                    reconciledBefore |-> FALSE ])
    /\ report' = [report EXCEPT ![c] = None]
    /\ UNCHANGED <<active, refill>>

-----------------------------------------------------------------------------
(* coordinator.reconcile_terminal_refill *)

LookAtRefill(c) ==
    /\ work[c] # None
    /\ work[c].at = "refill"
    /\ Proceed(c, [work[c] EXCEPT
                      !.at = "reconcile",
                      !.reconciledBefore = work[c].id \in DOMAIN refill.sources])
    /\ UNCHANGED <<active, refill, report, calls>>

\* What _reconcile_result makes of a success and of a failure.
Success(c) ==
    CASE work[c].reconciledBefore -> "REFILL_ALREADY_RECONCILED"
      [] work[c].existed          -> "TRANSITION_REPLAY_REFILL_RECONCILED"
      [] OTHER                    -> "TRANSITION_AND_REFILL_RECONCILED"

\* Fault: a refill that fails after the transition is reported as if nothing
\* had happened.
FailureAsInRepair(c) == "REFILL_LEDGER_FAILURE"

Failure(c) ==
    IF work[c].repair THEN "REFILL_LEDGER_FAILURE"
                      ELSE "TRANSITION_APPLIED_REFILL_PENDING"

Reconcile(c) ==
    /\ work[c] # None
    /\ work[c].at = "reconcile"
    /\ LET release == work[c].release
           current == work[c].refillExpected \in {None, refill.revision}
       IN  \/ /\ current /\ Refill!ReleaseKnown(refill, release)
              /\ Report(c, Success(c), FALSE)
              /\ UNCHANGED refill
           \/ /\ current /\ Refill!ReleaseAccepted(refill, release)
              /\ refill' = Refill!RecordRelease(refill, release, Stamp)
              /\ Report(c, Success(c), TRUE)
           \/ /\ ~current \/ /\ ~Refill!ReleaseKnown(refill, release)
                             /\ ~Refill!ReleaseAccepted(refill, release)
              /\ Report(c, Failure(c), FALSE)
              /\ UNCHANGED refill
    /\ UNCHANGED <<active, calls>>

ReconcileFails(c) ==
    /\ work[c] # None
    /\ work[c].at = "reconcile"
    /\ Report(c, Failure(c), FALSE)
    /\ UNCHANGED <<active, refill, calls>>

-----------------------------------------------------------------------------
(* The rest of the system. *)

\* The process dies and answers nobody.
ClientDies(c) ==
    /\ work[c] # None
    /\ work' = [work EXCEPT ![c] = None]
    /\ report' = [report EXCEPT ![c] = None]
    /\ UNCHANGED <<active, refill, calls>>

\* activate_entry of another caller.
ActivateEntry ==
    /\ EntryAllowed(active, Entry.id, Entry.signal, active.revision)
    /\ active' = Entered(active, Entry.id, Entry.signal, Entry.evidence)
    /\ UNCHANGED <<refill, work, report, calls>>

\* commit_owner_terminal: the owner ends a signal, nothing is refilled.
OwnerTerminal(ending) ==
    /\ ending.state \in {"CLOSED_MANUAL", "REJECTED_BY_OWNER"}
    /\ TerminalAllowed(active, ending.id, ending.signal, ending.state, active.revision)
    /\ active' = Terminated(active, ending.id, ending.signal, ending.state,
                            ending.evidence)
    /\ UNCHANGED <<refill, work, report, calls>>

\* claim_eligible_refill: the worker hands in a capacity snapshot and two
\* revisions, and is checked on whether these agree with each other, not with
\* the file; so a slot the snapshot shows may be taken by now.
ClaimEligible(id, remaining) ==
    /\ Refill!ClaimAllowed(refill, id, refill.revision)
    /\ remaining > 0
    /\ refill' = Refill!ClaimedBy(refill, id, Token, Stamp)
    /\ UNCHANGED <<active, work, report, calls>>

Complete(id) ==
    /\ Refill!CompletionAllowed(refill, id, Token, refill.revision)
    /\ refill' = Refill!CompletedWith(refill, id, Refill!Dispatched)
    /\ UNCHANGED <<active, work, report, calls>>

TerminalNext ==
    \/ \E c \in Clients :
          \/ \E e \in Endings, current \in BOOLEAN, r \in {None, refill.revision} :
                BeginCall(c, e, current, r)
          \/ \E id \in DOMAIN active.transitions, r \in {None, refill.revision} :
                Repair(c, id, active.revision, r)
          \/ Transition(c) \/ TransitionFails(c)
          \/ LookAtRefill(c)
          \/ Reconcile(c) \/ ReconcileFails(c)
          \/ ClientDies(c)
    \/ ActivateEntry
    \/ \E e \in Endings : OwnerTerminal(e)
    \/ \E id \in DOMAIN refill.requests :
          \/ \E remaining \in 0 .. ModeCapacity[id[3]] : ClaimEligible(id, remaining)
          \/ Complete(id)

TerminalSpec == TerminalInit /\ [][TerminalNext]_terminalVars

-----------------------------------------------------------------------------
(* Safety. *)

\* What the refill ledger holds is what the active ledger recorded: every
\* request stems from a transition that ended the signal it names, in its
\* style, at its revision, and was not made by hand.
RefillMatchesHistory ==
    \A id \in DOMAIN refill.sources :
        /\ IsTerminal(active, id)
        /\ LET t == active.transitions[id]
           IN  refill.sources[id] =
                  Refill!Release(id, t.signal_id, active.signals[t.signal_id].mode,
                                 t.to_state, t.revision)
        /\ refill.sources[id].state \notin {"CLOSED_MANUAL", "REJECTED_BY_OWNER"}

\* A signal releases its slot once: whatever ids its endings are reported
\* under, there is one request for it.
SignalRefilledOnce ==
    \A r, q \in DOMAIN refill.requests : r[2] = q[2] => r = q

\* A refill that was missed is never lost: whatever crashed or was applied in
\* between, a repair of it that nobody disturbs succeeds.
RepairStaysPossible ==
    \A id \in DOMAIN active.transitions :
        /\ active.transitions[id].operation = "TERMINAL"
        /\ active.transitions[id].to_state \in Refill!RefillableStates
        => /\ IsTerminal(active, id)
           /\ \/ Refill!ReleaseKnown(refill, Context(active, id))
              \/ Refill!ReleaseAccepted(refill, Context(active, id))

\* A caller is told what happened: reconciled means both ledgers hold the
\* ending, pending means the active one does, and any other answer means that
\* the call changed neither.
ReportsAreTrue ==
    \A c \in Clients : report[c] # None =>
        LET r == report[c]
        IN  CASE r.result \in { "TRANSITION_AND_REFILL_RECONCILED",
                                "TRANSITION_REPLAY_REFILL_RECONCILED",
                                "REFILL_ALREADY_RECONCILED" } ->
                    IsTerminal(active, r.id) /\ r.id \in DOMAIN refill.sources
              [] r.result = "TRANSITION_APPLIED_REFILL_PENDING" ->
                    IsTerminal(active, r.id) /\ ~r.refilled
              [] OTHER -> ~r.ended /\ ~r.refilled
=============================================================================
