---------------------------- MODULE BudgetLedger ----------------------------
(***************************************************************************)
(* BudgetLedgerV1 of phase_11_budget_control_v1: what may still be spent   *)
(* on provider calls.  A ledger is an immutable value; an operation that   *)
(* is allowed returns the next one and one that is not raises.  Here each  *)
(* operation is a guard, Can..., and a value, After....                    *)
(*                                                                         *)
(* The policy is active and approved: under any other no call is           *)
(* authorized.  Its window and the times of a reservation are left to the  *)
(* caller, who says whether a response came in time.                       *)
(***************************************************************************)
EXTENDS Naturals, Sequences, FiniteSets, FiniteSetsExt, SequencesExt

CONSTANTS
    Cap,            \* [<<measure, scope>> -> the policy's cap]
    MaxCallCount,       \* maximum_call_count
    MaxRunCalls,    \* maximum_calls_per_run
    MaxCallTokens   \* maximum_tokens_per_call

Open      == "OPEN"
HardStop  == "HARD_STOP"
Reconcile == "RECONCILIATION_REQUIRED"

Sonnet == "CLAUDE_SONNET_L1"

ModelProvider ==
    [ DEEPSEEK_PRIMARY |-> "DEEPSEEK",
      CLAUDE_SONNET_L1 |-> "ANTHROPIC",
      CLAUDE_OPUS_L2   |-> "ANTHROPIC" ]

Measures == {"cost", "input", "output"}

\* What a measure may be capped by: only money is, by model, provider and run.
Scopes(measure) ==
    IF measure = "cost"
    THEN {"total", "run"} \cup DOMAIN ModelProvider \cup Range(ModelProvider)
    ELSE {"total"}

\* The caps of a policy cover the vocabulary and are no less than zero; money
\* is counted in units of the smallest decimal place in use.
ASSUME CapAssumption ==
    \A measure \in Measures : \A scope \in Scopes(measure) : Cap[<<measure, scope>>] \in Nat

ASSUME CountAssumption == MaxCallCount \in Nat /\ MaxRunCalls \in Nat

\* A reservation has the amounts of a call at its worst; its status is
\* RESERVED, and what became of it is for the ledger to say.
Reservation(id, run, callId, model, amounts) ==
    [ id |-> id, run |-> run, call |-> callId, model |-> model,
      amounts |-> amounts ]

EmptyBudget ==
    [ reservations |-> <<>>,    \* in the order they were made
      usages       |-> <<>>,    \* [reservation id -> its usage]
      released     |-> {},
      stop         |-> Open ]

\* A provider's usage record; its actual cost is known, or nothing is.
Usage(amounts) == [resolved |-> TRUE, amounts |-> amounts]

Uncertain == [resolved |-> FALSE]

-----------------------------------------------------------------------------
(* What the ledger derives. *)

Reserved(L) == Range(L.reservations)

IsResolved(L, r) == r.id \in DOMAIN L.usages /\ L.usages[r.id].resolved

\* Fault: a usage of unknown cost settles its reservation.
ActiveUnlessUsed(L) ==
    {r \in Reserved(L) : r.id \notin L.released /\ r.id \notin DOMAIN L.usages}

\* A usage of unknown cost leaves its reservation charged in full.
Active(L) ==
    {r \in Reserved(L) : r.id \notin L.released /\ ~IsResolved(L, r)}

\* The scopes a cap on this measure may have for this reservation; only
\* money is capped by provider, model and run.
ScopesOf(measure, r) ==
    IF measure = "cost"
    THEN {"total", "run", r.model, ModelProvider[r.model]}
    ELSE {"total"}

SameScope(scope, r, q) ==
    \/ scope = "total"
    \/ scope = "run" /\ r.run = q.run
    \/ scope = r.model /\ q.model = r.model
    \/ scope = ModelProvider[r.model] /\ ModelProvider[q.model] = scope

\* Fault: what is reserved is not yet spent.
ChargeOfUsages(L, measure, scope, r) ==
    MapThenSumSet(LAMBDA q : L.usages[q.id].amounts[measure],
                  {q \in Reserved(L) : IsResolved(L, q) /\ SameScope(scope, r, q)})

\* Committed and reserved cost or tokens, in the scope of reservation r.
Charge(L, measure, scope, r) ==
    MapThenSumSet(LAMBDA q : IF IsResolved(L, q) THEN L.usages[q.id].amounts[measure]
                                                 ELSE q.amounts[measure],
                  {q \in Reserved(L) : /\ q \in Active(L) \/ IsResolved(L, q)
                                       /\ SameScope(scope, r, q)})

-----------------------------------------------------------------------------
(* Operations. *)

IsSameCall(r, q) == r.id = q.id \/ (r.run = q.run /\ r.call = q.call)

\* reserve_call: an equal reservation is returned as it is.
IsRepeated(L, r) == r \in Reserved(L)

\* Fault: a stop is for those who ask for authorization.
CanReserveAfterStop(L, r) ==
    \/ IsRepeated(L, r)
    \/ /\ \A q \in Reserved(L) : ~IsSameCall(r, q)
       /\ \A m \in Measures : \A s \in ScopesOf(m, r) :
             Charge(L, m, s, r) + r.amounts[m] <= Cap[<<m, s>>]
       /\ Len(L.reservations) < MaxCallCount
       /\ Cardinality({q \in Reserved(L) : q.run = r.run}) < MaxRunCalls
       /\ r.amounts["input"] + r.amounts["output"] <= MaxCallTokens

CanReserve(L, r) ==
    \/ IsRepeated(L, r)
    \/ /\ \A q \in Reserved(L) : ~IsSameCall(r, q)
       /\ L.stop = Open
       /\ \A m \in Measures : \A s \in ScopesOf(m, r) :
             Charge(L, m, s, r) + r.amounts[m] <= Cap[<<m, s>>]
       /\ Len(L.reservations) < MaxCallCount
       /\ Cardinality({q \in Reserved(L) : q.run = r.run}) < MaxRunCalls
       /\ r.amounts["input"] + r.amounts["output"] <= MaxCallTokens

AfterReserve(L, r) ==
    IF IsRepeated(L, r) THEN L
    ELSE [L EXCEPT !.reservations = Append(@, r)]

\* reserve_escalation: the new reservation joins the run of the first active
\* Sonnet reservation there is.
CanEscalate(L) == \E r \in Active(L) : r.model = Sonnet

Escalation(L, r) ==
    LET first == CHOOSE i \in DOMAIN L.reservations :
                    /\ L.reservations[i] \in Active(L)
                    /\ L.reservations[i].model = Sonnet
                    /\ \A j \in 1 .. i - 1 :
                          ~(/\ L.reservations[j] \in Active(L)
                            /\ L.reservations[j].model = Sonnet)
    IN  [r EXCEPT !.run = L.reservations[first].run]

\* evaluate_call_authorization.
IsAuthorized(L, r) == L.stop = Open /\ r \in Active(L)

\* commit_usage: the usage of a successful call.
CanCommit(L, r, amounts, inTime) ==
    /\ r \in Reserved(L)
    /\ r.id \notin L.released
    /\ r.id \notin DOMAIN L.usages
    /\ \A m \in Measures : amounts[m] <= r.amounts[m]
    /\ inTime

WithUsage(L, r, usage) ==
    [id \in DOMAIN L.usages \cup {r.id} |->
        IF id = r.id THEN usage ELSE L.usages[id]]

AfterCommit(L, r, amounts) ==
    [L EXCEPT !.usages = WithUsage(L, r, Usage(amounts))]

\* release_reservation, for a reservation that is not released already.
CanRelease(L, r) == r \in Reserved(L) /\ r.id \notin DOMAIN L.usages

AfterRelease(L, r) == [L EXCEPT !.released = @ \cup {r.id}]

\* reconcile_uncertain_usage: nobody knows what the call cost.
CanReconcileUncertain(L, r) ==
    r \in Reserved(L) /\ r.id \notin L.released /\ r.id \notin DOMAIN L.usages

AfterUncertain(L, r) ==
    [L EXCEPT !.usages = WithUsage(L, r, Uncertain), !.stop = Reconcile]

\* activate_hard_stop; clear_hard_stop always raises.
AfterHardStop(L) == [L EXCEPT !.stop = HardStop]
=============================================================================
