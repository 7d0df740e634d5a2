------------------------------ MODULE ShadowRun ------------------------------
(***************************************************************************)
(* Provider calls under a budget: a caller that keeps the latest           *)
(* BudgetLedger and runs plans on it, the orchestrator that executes a     *)
(* plan call by call (phase_11_shadow_run_orchestrator_v1) and the runtime *)
(* that makes the attempts of one call (phase_11_shadow_provider_runtime_  *)
(* v1).  The provider answers as it likes, late or not at all.             *)
(*                                                                         *)
(* A ledger is a value: a run works on its own and hands back the last one *)
(* with its result; when it raises, the caller is left with the ledger it  *)
(* gave.  Nobody in the repository releases reservations; the caller here  *)
(* does what the design document says of a no-call path, and releases only *)
(* what no run has attempted.                                              *)
(***************************************************************************)
EXTENDS BudgetLedger

CONSTANTS
    NoValue,
    Requests,       \* sequences of reservations asked for together
    Escalations,    \* reservations asked for by reserve_escalation
    Plans,          \* the plans that may be executed
    Usages,         \* what the provider may report of a call
    MaxRuns         \* bound on the plans executed

VARIABLES
    ledger,         \* the caller's budget ledger
    run,            \* the plan in execution, or NoValue
    report,         \* the result of the latest plan executed, or NoValue
    attempts,       \* history: [reservation id -> calls of the transport]
    runs            \* number of plans executed

shadowVars == <<ledger, run, report, attempts, runs>>

-----------------------------------------------------------------------------
(* Plans. *)

CallPlan(reservations, circuit, sameEvent) ==
    [ attempts |-> reservations, circuit |-> circuit, sameEvent |-> sameEvent ]

\* `ready`: the adapters are there and match, and the plan starts within the
\* policy's window and before its reservations expire.
Plan(runId, calls, ready) == [run |-> runId, calls |-> calls, ready |-> ready]

RouteGraphs ==
    { <<"DEEPSEEK_PRIMARY">>,
      <<"DEEPSEEK_PRIMARY", "CLAUDE_SONNET_L1">>,
      <<"DEEPSEEK_PRIMARY", "CLAUDE_OPUS_L2">>,
      <<"DEEPSEEK_PRIMARY", "CLAUDE_SONNET_L1", "CLAUDE_OPUS_L2">> }

IsCall(call, runId) ==
    /\ call.attempts \in Seq(Range(call.attempts))
    /\ Len(call.attempts) \in 1 .. 2
    /\ call.circuit \in {"CLOSED", "OPEN", "HALF_OPEN"}
    /\ call.circuit = "HALF_OPEN" => Len(call.attempts) = 1
    /\ \A i \in DOMAIN call.attempts :
          /\ call.attempts[i].run = runId
          /\ call.attempts[i].model = call.attempts[1].model

ReservationsOf(plan) == UNION {Range(plan.calls[i].attempts) : i \in DOMAIN plan.calls}

IsPlan(plan) ==
    /\ plan.calls \in Seq(Range(plan.calls))
    /\ [i \in DOMAIN plan.calls |-> plan.calls[i].attempts[1].model] \in RouteGraphs
    /\ \A i \in DOMAIN plan.calls : IsCall(plan.calls[i], plan.run)
    /\ Cardinality(ReservationsOf(plan)) =
          MapThenSumSet(LAMBDA i : Len(plan.calls[i].attempts), DOMAIN plan.calls)

ASSUME PlanAssumption == \A plan \in Plans : IsPlan(plan)

AskedFor == (UNION {Range(request) : request \in Requests}) \cup Escalations

CallIds == {r.id : r \in AskedFor}

\* Amounts are no less than zero, and the vocabulary of models is closed.
IsAmounts(amounts) == \A measure \in Measures : amounts[measure] \in Nat

ASSUME RequestAssumption ==
    /\ \A request \in Requests : request \in Seq(Range(request)) /\ Len(request) \in 1 .. 2
    /\ \A r \in AskedFor :
          /\ r = Reservation(r.id, r.run, r.call, r.model, r.amounts)
          /\ r.model \in DOMAIN ModelProvider
          /\ IsAmounts(r.amounts)
    /\ \A amounts \in Usages : IsAmounts(amounts)

ShadowInit ==
    /\ ledger = EmptyBudget
    /\ run = NoValue
    /\ report = NoValue
    /\ attempts = [id \in CallIds |-> 0]
    /\ runs = 0

-----------------------------------------------------------------------------
(* The caller, between runs. *)

\* reserve_call, or reserve_route, which reserves both calls or none.
Reserve(request) ==
    /\ run = NoValue
    /\ CanReserve(ledger, request[1])
    /\ LET first == AfterReserve(ledger, request[1])
       IN  IF Len(request) = 1 THEN ledger' = first
           ELSE /\ CanReserve(first, request[2])
                /\ ledger' = AfterReserve(first, request[2])
    /\ UNCHANGED <<run, report, attempts, runs>>

ReserveEscalation(r) ==
    /\ run = NoValue
    /\ CanEscalate(ledger)
    /\ CanReserve(ledger, Escalation(ledger, r))
    /\ ledger' = AfterReserve(ledger, Escalation(ledger, r))
    /\ UNCHANGED <<run, report, attempts, runs>>

ReleaseCall(r) ==
    /\ run = NoValue
    /\ attempts[r.id] = 0
    /\ CanRelease(ledger, r)
    /\ ledger' = AfterRelease(ledger, r)
    /\ UNCHANGED <<run, report, attempts, runs>>

ActivateHardStop ==
    /\ run = NoValue
    /\ ledger' = AfterHardStop(ledger)
    /\ UNCHANGED <<run, report, attempts, runs>>

-----------------------------------------------------------------------------
(* execute. *)

\* Fault: the reservations are looked up, whatever became of them.
PreflightOfKnown(L, plan) ==
    /\ plan.ready
    /\ L.stop = Open
    /\ \A r \in ReservationsOf(plan) : r \in Reserved(L)

Preflight(L, plan) ==
    /\ plan.ready
    /\ L.stop = Open
    /\ \A r \in ReservationsOf(plan) : IsAuthorized(L, r)

\* Of a denied plan, and of a run that raises, there is nothing to report.
Report(status, failure, completed) ==
    [ status |-> status, failure |-> failure, plan |-> run.plan,
      completed |-> completed ]

Deny(plan) ==
    /\ run = NoValue
    /\ runs < MaxRuns
    /\ ~Preflight(ledger, plan)
    /\ report' = NoValue
    /\ runs' = runs + 1
    /\ UNCHANGED <<ledger, run, attempts>>

BeginPlan(plan) ==
    /\ run = NoValue
    /\ runs < MaxRuns
    /\ Preflight(ledger, plan)
    /\ run' = [plan |-> plan, index |-> 1, attempt |-> 0, after |-> ledger]
    /\ report' = NoValue
    /\ runs' = runs + 1
    /\ UNCHANGED <<ledger, attempts>>

\* The run returns its result, the ledger with it.
End(status, failure, L, completed) ==
    /\ ledger' = L
    /\ report' = Report(status, failure, completed)
    /\ run' = NoValue

\* What the run has spent so far is not returned.
Raise ==
    /\ run' = NoValue
    /\ report' = NoValue
    /\ UNCHANGED ledger

CurrentCall == run.plan.calls[run.index]

CurrentAttempt == CurrentCall.attempts[run.attempt]

\* An invocation takes its reservations from the ledger as it is by now.
IsBudgeted(L, call) ==
    \A r \in Range(call.attempts) : IsAuthorized(L, r) /\ r.id \notin DOMAIN L.usages

\* The invocation raises when its payload is of another event than the
\* input's, which neither the plan nor the preflight looks at.
CanInvoke == CurrentCall.sameEvent /\ IsBudgeted(run.after, CurrentCall)

\* Nothing catches it.
InvocationRaises ==
    /\ run # NoValue
    /\ run.attempt = 0
    /\ ~CanInvoke
    /\ Raise
    /\ UNCHANGED <<attempts, runs>>

CircuitIsOpen ==
    /\ run # NoValue
    /\ run.attempt = 0
    /\ CanInvoke
    /\ CurrentCall.circuit = "OPEN"
    /\ End("PARTIAL_EVIDENCE", "BUDGET_DENIED", run.after, run.index - 1)
    /\ UNCHANGED <<attempts, runs>>

Invoke ==
    /\ run # NoValue
    /\ run.attempt = 0
    /\ CanInvoke
    /\ CurrentCall.circuit # "OPEN"
    /\ run' = [run EXCEPT !.attempt = 1]
    /\ UNCHANGED <<ledger, report, attempts, runs>>

\* The transport is called.  The authorization asked for before each attempt
\* is of the ledger the invocation was made from and cannot have changed.
Attempt ==
    /\ run # NoValue
    /\ run.attempt # 0
    /\ attempts' = [attempts EXCEPT ![CurrentAttempt.id] = @ + 1]
    /\ UNCHANGED runs

MayRetry ==
    run.attempt < Len(CurrentCall.attempts) /\ CurrentCall.circuit = "CLOSED"

\* A timeout or a transport failure; the next attempt has its own reservation.
Retry ==
    /\ Attempt
    /\ MayRetry
    /\ run' = [run EXCEPT !.attempt = @ + 1]
    /\ UNCHANGED <<ledger, report>>

\* Any other failure, a malformed or excessive response among them, or one
\* that cannot be retried.  There is no usage, and no entry in the ledger.
CallFails ==
    /\ Attempt
    /\ End("PARTIAL_EVIDENCE", "CALL_FAILED", run.after, run.index - 1)

CallSucceeds(amounts) ==
    /\ Attempt
    /\ CanCommit(run.after, CurrentAttempt, amounts, TRUE)
    /\ LET after == AfterCommit(run.after, CurrentAttempt, amounts)
       IN  IF run.index = Len(run.plan.calls)
           THEN End("COMPLETED", "NONE", after, run.index)
           ELSE /\ run' = [run EXCEPT !.after = after, !.index = @ + 1, !.attempt = 0]
                /\ UNCHANGED <<ledger, report>>

\* The ledger refuses the usage of a good response that came late.
IsLate == ~CanCommit(run.after, CurrentAttempt, CurrentAttempt.amounts, FALSE)

\* Fault: a usage the ledger refuses does not end the run.
UsageIsIgnored ==
    /\ Attempt
    /\ IsLate
    /\ IF run.index = Len(run.plan.calls)
       THEN End("COMPLETED", "NONE", run.after, run.index)
       ELSE /\ run' = [run EXCEPT !.index = @ + 1, !.attempt = 0]
            /\ UNCHANGED <<ledger, report>>

UsageIsRefused ==
    /\ Attempt
    /\ IsLate
    /\ End("PARTIAL_EVIDENCE", "USAGE_EXCEEDS_RESERVATION", run.after, run.index - 1)

\* Neither the runtime nor the orchestrator catches what the record of a usage
\* or of the run's result raises: a reason code the budget does not accept, a
\* response completed before the run started.
ResponseRaises ==
    /\ Attempt
    /\ Raise

OutcomeIsUncertain ==
    /\ Attempt
    /\ CanReconcileUncertain(run.after, CurrentAttempt)
    /\ End("RECONCILIATION_REQUIRED", "UNCERTAIN_TRANSPORT_OUTCOME",
           AfterUncertain(run.after, CurrentAttempt), run.index - 1)

-----------------------------------------------------------------------------

ShadowNext ==
    \/ \E request \in Requests : Reserve(request)
    \/ \E r \in Escalations : ReserveEscalation(r)
    \/ \E r \in Reserved(ledger) : ReleaseCall(r)
    \/ ActivateHardStop
    \/ \E plan \in Plans : Deny(plan) \/ BeginPlan(plan)
    \/ InvocationRaises
    \/ CircuitIsOpen
    \/ Invoke
    \/ Retry
    \/ CallFails
    \/ \E amounts \in Usages : CallSucceeds(amounts)
    \/ UsageIsRefused
    \/ ResponseRaises
    \/ OutcomeIsUncertain

ShadowSpec == ShadowInit /\ [][ShadowNext]_shadowVars

-----------------------------------------------------------------------------
(* Safety. *)

Ledgers == {ledger} \cup (IF run = NoValue THEN {} ELSE {run.after})

\* No cap is ever exceeded by what is committed and what is reserved, however
\* reservations are used, released, left open or found uncertain.
WithinLimits ==
    \A L \in Ledgers :
        /\ \A r \in Reserved(L) : \A m \in Measures : \A s \in ScopesOf(m, r) :
              Charge(L, m, s, r) <= Cap[<<m, s>>]
        /\ Len(L.reservations) <= MaxCallCount
        /\ \A r \in Reserved(L) :
              Cardinality({q \in Reserved(L) : q.run = r.run}) <= MaxRunCalls

\* What a provider may have been paid for is charged: a reservation that was
\* attempted stays reserved until the cost of the call is committed, in the
\* ledger of the run and in the caller's, also when the run raises.
EveryAttemptIsCharged ==
    \A L \in Ledgers : \A id \in CallIds :
        attempts[id] > 0 =>
            \E r \in Reserved(L) : r.id = id /\ (r \in Active(L) \/ IsResolved(L, r))

IsPaid(call, L) == \E r \in Range(call.attempts) : IsResolved(L, r)

\* A run has paid, in its ledger, exactly the calls it counts as completed; a
\* call is made only when those before it are paid, and a run is completed
\* only when all of them are.
ReportsMatchLedger ==
    /\ run # NoValue =>
          \A i \in DOMAIN run.plan.calls :
              IsPaid(run.plan.calls[i], run.after) = (i < run.index)
    /\ report # NoValue =>
          /\ \A i \in DOMAIN report.plan.calls :
                IsPaid(report.plan.calls[i], ledger) = (i <= report.completed)
          /\ (report.status = "COMPLETED") = (report.completed = Len(report.plan.calls))

\* The preflight of the whole plan is enough for each of its calls: no run
\* stops half-way because of a reservation.
PreflightSuffices ==
    run # NoValue /\ run.attempt = 0 => IsBudgeted(run.after, CurrentCall)

-----------------------------------------------------------------------------
(* What a step may never do. *)

IsStopped(L) ==
    L.stop # Open \/ \E id \in DOMAIN L.usages : ~L.usages[id].resolved

\* After a hard stop, and after a call whose cost nobody knows, nothing is
\* reserved and no provider is called, and the ledger never opens again.
NothingAfterStop ==
    [][ IsStopped(ledger) =>
          /\ ledger'.reservations = ledger.reservations
          /\ attempts' = attempts
          /\ IsStopped(ledger') ]_shadowVars
=============================================================================
