# A formal model of ai-crypto-signal-agent

The repository finds trading signals, publishes them to a Telegram channel,
keeps a durable ledger of the ones that are open, and lets the project owner
steer them by replying to messages. This directory models the parts of it that
keep state and share it: ledgers in files and databases, the processes that
read and write them, the budget of paid provider calls, and the verdicts that
are drawn from market data as it comes in. TLC checks the models on small
instances, and TLAPS proves the properties of section 6 for every instance.

Paths below are relative to `src/`; `engine/` holds the program.

## 1. The system

### Parts that are modelled

| Part | State | Operations | What is hard | What makes it correct |
| --- | --- | --- | --- | --- |
| Active signal ledger, `engine/active_signal_ledger_v1.py` | one JSON document: signals, lifecycle transitions, publication transactions, a revision | prepare, commit or abort a publication; enter; end; reconcile | callers decide on a document read without the lock; replays; ids that collide; a transaction left PREPARED | capacity per style and in all, one entered signal per pair, each signal from one committed transaction, endings final, history kept |
| The file protocol under it (and under the refill ledger) | document, lock file, temporary file | lock with bounded tries, load, decide, write, replace, unlock | crashes between any two system calls; an orphaned lock; failing unlink | each call takes effect at one instant or not at all; answers are true |
| Style refill request ledger, `engine/style_refill_request_ledger_v1.py` | requests, their sources and claims | create, claim, complete, take back | slow workers whose claim was taken back; repeated reports of one release | a request is finished once, by its latest claimant |
| Terminal/refill integration, coordinator and lifecycle service, `engine/passive_*` | two ledgers with a lock each | end a signal and record the slot; repair | crash or failure between the two ledgers; overlapping callers | the ledgers agree, a missed refill can be repaired, reports are true |
| Publication service, `engine/production_signal_service_v1.py` and `..._artifact_v1.py` | one artifact per identity, its lock file | read, intent, deliver, complete, read back | overlapping runs; a crash after delivery; an adapter that raises after sending | no retry of an unfinished delivery; artifact written once |
| Registration, controlled cycle, gate and program, `engine/passive_published_signal_registration_v1.py`, `..controlled_production_*`, `..owner_blueprint_scanner_gate_v1.py`, `..run_production_signal_v1.py` | the ledger, the artifact | gate, publish, register, bind, repair | the revision is taken before a delivery that others may overtake; a message without a signal | what is registered was delivered; what is reported is there; a missed registration can be repaired |
| Filled position reconciliations, `engine/pharos_*`, `engine/run_pharos_*` and the closed evidence they carry | the ledger, a result file | check, register, enter, look again, exit | two ledger operations with no lock over both | the entry follows the registration; the exit tells what is in the ledger |
| Telegram owner control, `engine/telegram_owner_control_*`, `engine/run_telegram_owner_control_v1.py` | control state (decisions, cursor, bindings) with a flock, and the ledger | poll, decide, apply, record, answer | two files per command; crash in between; redelivered updates; the runner uses the same file | an accepted command was applied once, to the right signal, and answered once; no update is passed in silence |
| Provider budget and shadow run, `engine/phase_11_budget_control_v1.py`, `..._shadow_run_orchestrator_v1.py`, `..._shadow_provider_runtime_v1.py` | an immutable budget ledger handed from call to call | reserve, authorize, call, retry, commit, release, reconcile, stop | timeouts, late and uncertain answers, exceptions in the middle of a run | caps hold, every attempt stays charged, nothing after a stop |
| Durable reservation store, `engine/phase_12_sqlite_*`, `..._durable_reservation_persistence_contract_v1.py` | three SQLite tables | create, consume, release, expire | a commit that may have happened; a repeated command; competing chains | each command is appended once or not at all; a recovery read is current |
| Owner approval replay guard, `engine/phase_12_owner_approval_durable_replay_guard_v1.py` | a database file, its path and descriptors | open, recheck, insert, commit | rechecks that drop the transaction's lock; a file swapped between the checks; an uncertain commit | no file grants an approval twice or without a record, which holds until two transactions overlap on it (finding 7) |
| Quota slots and scan dispatch, `engine/quota_slot_*_v4.py`, `engine/stateful_worker_v4.py`, `engine/telegram_application_v4.py` | quota file, worker file | admit, charge, run, release, answer | a slot held across a run that fails or dies | every run was charged; a success was completed and its slot given back |
| Paper signal, `engine/paper_signal_observer_v1.py`, `..._service_v1.py` | observation artifact | observe, acknowledge | the window grows while it is observed; late events | a decided observation stays decided, by the earliest event |
| Outcome tracking, `engine/forward_outcome_resolver_v4.py` | resolution file under a temporary name shared by runs | load, fetch, merge, write, replace, validate | overlapping and failing runs; the second at which a candle closes | verdicts drawn at any time agree, and with the closed candles |

### How they interact

A controlled run passes the gate, publishes through the publication service and
then registers the delivered publication in the active ledger
(`reserve_published_signal`); the production program binds the published message
to the signal in the control state. The owner's replies reach the poller, which
finds the signal by the binding or by its pair, calls `mark_entry_active` or
`transition_terminal` and records its decision. An ended signal goes, by the
lifecycle service or the integration, into the refill ledger, where a worker
claims the request for a new signal of that style. Two one-off programs register
a position that was filled by hand and enter it. Everything is shared through
files; there are no threads. Processes are a long-lived poller under systemd, a
one-shot program, and operators' commands.

The provider review of a candidate is separate from these: a plan of calls is
executed against a budget ledger, which is a value and never a file. The SQLite
reservation store and the replay guard are built to stand under it and under
the owner's approvals; no program opens them yet. A scan asked for by Telegram
takes a quota slot and runs the worker. Paper observations and forward tests
read candles and keep a file of their own each.

### Not modelled

`PROJECT.json` lists every part with its reason. By kind:

* *Validators of records* are most of the repository: the activation,
  authorization and readiness contracts of phase 12, the pilot, comparison and
  exit-gate evidence of phase 11, and the boundary descriptions beside them. Each takes one
  immutable record and answers yes or no by a conjunction of field checks; it
  has no state, takes no step and is tested field by field. A model of it would
  be the same conjunction again. Because of their bulk the modelled code is
  under a tenth of the implementation although it is nearly all of what keeps
  state.
* *Library code that no program calls*: the ledger migration to version 2 (also
  without the ledger's lock), the shadow release, the artifact store and the
  progress report of paper signals, the adapters for host signals. The
  repository does not say who would run them beside what.
* *A decision handed back*: whether a refill request may be dispatched is
  evaluated by the coordinator on a capacity snapshot that its caller brings;
  there is no such caller. The claim that follows is in `StyleRefillLedger`,
  of any request.
* *Tables whose interesting rows are out of reach*: routing and adjudication
  distinguish disagreements of providers, but the constructors of both
  providers' results accept only a clean review and make everything else an
  invalid response, so that the escalating rows never apply.
* *Pure computation, wording and I/O*: indicators and scoring over
  floating-point series, news normalisation and its gate, Pine and watchlist
  texts, message formatting, the network, the replay framework (one
  deterministic process that writes one artifact), shell deployment. The
  scheduling that the deployment files fix is used in section 3.
* *Left out of modelled parts*: the NO_TRADE record of the publication service
  (one idempotent write), argument validation and credential loading of the
  programs, the creation of the entry artifact of a forward test, and two
  processes on one quota file, which the code does not lock at all. Of paths
  through modelled code: the program without `ACTIVE_SIGNAL_LEDGER_PATH`, which
  publishes and exits with 0 unregistered
  (`engine/run_production_signal_v1.py:161`; the deployed unit sets it); the
  cycle without an `owner_blueprint_ledger`, which skips the gate
  (`engine/controlled_production_signal_cycle_v1.py:373`); a cancellation of a
  paper signal stamped with an earlier time than that of the call
  (`engine/paper_signal_observer_v1.py:441`); a ledger that cannot be read again
  after a filled position's entry (`engine/pharos_filled_position_reconciliation_v1.py:784`,
  `engine/kmno_filled_position_reconciliation_v1.py:564`); and whatever
  overlapping SQLite transactions do to a file beyond losing rows.

## 2. Modules

```
LedgerDocument ─┬─> LedgerDocumentProofs
                ├─> ActiveSignalLedger ──> ActiveSignalLedgerProofs
                ├─> SignalRegistration ─┬─> ControlledCycle ──> ControlledCycleProofs
                │                       │        └ INSTANCE PublicationService
                │                       ├─> FilledPosition ──> FilledPositionProofs
                │                       └─> OwnerControl ──> OwnerControlProofs
                └─> TerminalRefill ──> TerminalRefillProofs
                         └ INSTANCE RefillDocument ──> StyleRefillLedger ──> StoreProofs
AtomicDocument <┄┄ LedgerFile
ReservationCommand ─┬─> AppendOnce
                    └─> ReservationStore ──> StoreProofs
AppendOnce <┄┄ ReservationStore
BudgetLedger ──> ShadowRun
QuotaSlots, ReplayGuard ──> StoreProofs
LedgerFile, ShadowRun, PaperSignal, ForwardOutcome ──> StandaloneProofs

A ──> B   B extends A          A <┄┄ B   B implements A
ActiveSignalLedgerProofs, ControlledCycleProofs, FilledPositionProofs,
OwnerControlProofs and TerminalRefillProofs extend LedgerDocumentProofs
```

**LedgerDocument** reads the ledger as a value. `Valid` is `validate_ledger`;
each public function is a guard (`ReservationAllowed`, `EntryAllowed`,
`TerminalAllowed`, ...) in the order of the code's checks and a value (`Prepare`,
`CommitOccupancy`, `Entered`, `Terminated`, ...). Hashes and `published_at`, only ever
compared together, are one `payload`; the time and reason of a transition are
one `evidence`; times that no guard reads are left out.

**ActiveSignalLedger** is the ledger shared by `Callers`. `observed[c]` is the
revision the caller loaded, which it passes as `expected_revision` or not at
all (`strict`). A reservation asks for the durable confirmation or not
(`durable`), which makes it one write or two. A call that raises changes
nothing and has no action.

**LedgerFile** is the file protocol, a system call a step, for any ledger:
`Call`, the steps of `Progress` (create the lock, load, write, unlink),
`Failure` (a crash, a failing write or replace, a failing unlink) and the
operator who removes an orphaned lock. It implements **AtomicDocument**, which
has one step per call. This is why all other modules take an operation on a
ledger as one step.

**RefillDocument** and **StyleRefillLedger** are the refill ledger and its
workers. Timestamps are a second and a fraction. Histories `claims` and
`finishes` record who claimed and finished.

**TerminalRefill** composes both ledgers: a caller's transition, its look at
the refill ledger and its reconciliation are separate steps with crashes and
failures in between; `Repair` is the coordinator's second chance; entries,
owner endings, claims and completions of others happen at any moment.

**PublicationService** is one identity and the runs that want it. A run is
numbered; the receipt of a delivery is the number of its run.

**SignalRegistration** is what `passive_published_signal_registration_v1` asks of the
ledger and answers. **ControlledCycle** composes it with the publication: a
process goes through gate, publication and registration by one of three ways,
the cycle, the program (which binds the message, and may fail to) or the
repair, while `Others` does whatever other writers can. Which
candidate the scanner hands over is open. **FilledPosition** is the two
reconciliation programs over the same registration: each look at the ledger, each operation
and each exit code is a step or an outcome.

**OwnerControl** composes the poller, the runner, the control state and the
ledger. `poller.at` is the place in the loop of `run_telegram_owner_control_v1`
and in `process_owner_update`; the flock is `holder`. What others do to the
ledger is `OthersEnd` and `Publish`.

**BudgetLedger** has the operations of the budget as guards and values, and
**ShadowRun** the caller, the orchestrator and the runtime. `Reserve`,
`ReserveEscalation`, `ReleaseCall` and `ActivateHardStop` are the caller between
runs; `Deny` and `BeginPlan` the preflight; `InvocationRaises`, `CircuitIsOpen` and
`Invoke` the construction of an invocation; `Retry`, `CallFails`, `CallSucceeds`,
`UsageIsRefused`, `ResponseRaises` and `OutcomeIsUncertain` one call of the
transport with each way it may end. The provider is nondeterministic.

**ReservationCommand** has the commands of a reservation and what the adapter
demands of their chain; **ReservationStore** is the adapter over the three
tables, with a commit that may have happened although it raised, and the crash
of a caller. It implements **AppendOnce**, a history of commands to which each
is appended at one instant and at most once.

**ReplayGuard** is a step for each recheck of the path and each statement: the
descriptors, the connection, BEGIN, the look-up, the insert, COMMIT. A file has
rows (`consumed`) and a write lock (`owner`). A recheck opens and closes the
file at the path, and closing any descriptor of a file drops every POSIX lock
the process has on it: `RecheckBegun` therefore gives the lock of its own
transaction away, and another process may begin. A transaction writes what it
read and its own row (`view`, `WriteBack`); of rows that come or go meanwhile,
any may survive. `ReplaceStore` puts another file at the path at any moment and
`RestoreStore` an earlier one back: no recheck compares the file the connection
is on. `overlapped` is history: the files on which two transactions were open at
once.

**QuotaSlots** is the dispatch of scans, one at a time, from admission to
answer, with the two files, their failures and a process that dies.

**PaperSignal** observes one signal in a window that grows with the candles
that close. **ForwardOutcome** is several executions of the forward test on one
resolution file, with the temporary file as a name that all of them open; a
file is its text, cut short when another truncates it.

Operators marked `Fault` are plausible mistakes in the definition that follows
them. Nothing refers to them; each is put in place of its neighbour to see that
a property notices.

### Modules for model checking

`MC<module>` gives the constants of a module their values. Components that
share nothing are checked in one run as a disjoint union: a behaviour is one of
any of them, chosen at the start and kept in a variable, the others standing at their initial
states. **MCRegistration** unites ControlledCycle and FilledPosition (variable
`way`), **MCStores** the reservation store, the replay guard, the quota slots and
the two ledgers of an ending (`store`), **MCStandalone** the file protocol, the
shadow run, the paper signal, the forward test and the refill ledger
(`component`). Each property is stated of
its component and holds trivially in the behaviours of the others.

## 3. What TLC checks

| Run | States | Shows |
| --- | --- | --- |
| `ledger` | 132,000 | two callers with stale revisions and colliding requests: capacity, pairs, lineage, path-shaped history, no stale decision |
| `transition_id_reuse` | counterexample | finding 1 |
| `registration` | 1,375,000 | what is registered was delivered, what is reported is there, a missed registration can be repaired; the filled positions end in what their exits say |
| `delivered_once` | counterexample | finding 2 |
| `owner_control` | 717,000 | two commands, two signals of one pair, a failure, other callers; every update is settled |
| `rejected_untouched` | counterexample | finding 3 |
| `stores` | 1,374,000 | append-once, recovery reads, grants, charges and slots; the two ledgers of an ending agree, a slot is refilled once and every missed refill can be repaired |
| `reservations_independent` | counterexample | finding 4 |
| `approval_granted_once` | counterexample | finding 7 |
| `rejections_free` | counterexample | finding 5 |
| `standalone` | 703,000 | mutual exclusion, refinement of `AtomicDocument`, termination of every call; caps, charges, reports and stops; verdicts; claims |
| `expiry_is_final` | counterexample | finding 6 |

Deadlock is checked where a process always has something to do. It is off
where a bound on calls, revisions or failures ends every behaviour.

### Bounds, and why they are enough

* `ledger`: one slot per style and two in all, two spellings of one pair, five
  requests that collide in a transaction, a signal, a delivery id, a style and
  a pair. `MaxRevision = 6` allows two signals to be prepared, published and
  entered, or one to be ended and another to take its place. The proofs remove
  the bounds.
* `registration`: two processes with two runs in all, each by any of the ways,
  and ledger revisions up to 2 beyond theirs: an overlap, a crash with a later
  repair, and a change by others at any point. The reconciliations start from the
  revision 7 that the code demands, two of them beside another writer.
* `owner_control`: two updates, one failure, two publications of one pair in
  two styles. The second update may be the redelivery of the first or another
  command on the pair.
* `stores`: two callers, the commands of two reservations and seven rivals of
  them; for the guard two processes, two approvals, two files and room for one
  row, so that a full file, an overlap and a swap there and back occur; a limit
  of one scan in a window, two slots, three reservations, two windows. Endings:
  two overlapping callers, three calls, endings that collide in their id and in
  their signal, one of them by hand. `CLOSED_MANUAL` goes through the owner's
  path, as the refill ledger refuses it.
* `approval_granted_once`: one file with room for two rows.
* `standalone`: two processes with two calls each and two tries for the lock,
  the bounded loop in the code being the same for every number. Five
  reservations of three models and their caps, six valid shapes of a plan, two
  executions: each kind of cap (money in total, by provider, model, run; tokens;
  calls in total and by run) is reached. A paper signal valid until 1 and
  observed until 3. Two forward tests of one symbol, candles until 4, which is
  one more than the longest horizon; with two symbols the same properties hold
  over 2,760,000 states, too many for the run. For the refill ledger two
  workers, two attempts per request, which suffice for a claim that is taken
  back and claimed by another, revisions up to 5 and four timestamps, of which
  two compare the other way as text.

Symmetry is used in runs with safety properties over interchangeable callers,
workers or ids.

### Fairness

* `LedgerFile`: weak fairness of `Progress(c)`. Nothing in the code waits for
  another process: it tries the lock a bounded number of times and raises. No
  failure and no visit of the operator is assumed. It is part of the
  specification that `standalone` checks, and used by `EveryCallEnds` alone.
* `OwnerControl`: weak fairness of the poller and the runner. The unit
  `ai-crypto-signal-agent-telegram-control.service` has `Restart=on-failure`
  and `RestartSec=5s`, with at most three starts a minute; with one failure the
  model stays within that limit. A one-shot runner that has begun finishes or
  dies. Owners, publications and failures are not fair.

All other modules state safety only and have no fairness.

## 4. Properties and the hazards behind them

`PROJECT.json` lists each hazard at its line with the properties that would
notice it. The comment over each property in the modules says which behaviour
of the code it is about. Some deserve a word.

* `GuardsKeepDocumentValid`: `save` validates the document before it is
  written, so that a bad operation raises `corrupt ledger`. The property says
  that this never happens to an operation whose own guards accepted: validation
  is a second line, never the first.
* `NoStaleDecision`: a signal changes only by the hand of a caller who had
  seen the document it replaces. An optional `expected_revision` does not
  break this, since the state and the identity of the signal are compared too
  and the caller's load is the one under the lock.
* `RepairStaysPossible` and `RegistrationStaysPossible` are claims about any
  state, not only about the next step: whatever crashed, a repair that nobody
  disturbs succeeds.
* `EveryAttemptIsCharged` relates what the provider has seen to the ledger
  that the caller is left with, also when the run raised and returned nothing.
* `ExitsAreTrue` compares each exit code of the two reconciliations with what the
  ledger holds at that moment. Both look again after a failure, and the
  comparison allows for another writer in between only where the code does.
* `VerdictsAgree` is about all executions of the forward test together: each
  was right by the candles closed when it decided, however the file they share
  was cut, replaced or lost.
* `GrantedOnceUnlessOverlapping` and `GrantedOncePerStore` differ in one
  condition: whether two transactions were ever open on the file at once. With
  it, crashes, uncertain commits and swaps of the file are harmless, also the
  swap that every recheck passes because the file was put back in time: then the
  approval is recorded in, and granted by, a file that no recheck looked at, and
  the property is about that file. Without it the guarantee fails (finding 7).
* `RecoveryReadIsCurrent`: a recovery read asks for the record, the row and the
  number of events in three queries with commits in between. What it returns is
  still the latest record at its last query, because numbers of events only grow.
* What a property excuses. `NothingPassedInSilence` and `EveryUpdateIsSettled`
  count an update whose decision could not be recorded as `failed`: they show
  that nothing else is lost, not that this is not. `SlotsAreAccounted` counts
  the slot of a dead process as `abandoned` in the same way. `ReportsAreTrue`
  does not judge whether a report calls its call a replay, and `LatestClaimHolds`
  not whether a claim was old enough to be taken back.

### Behaviours that are no findings but worth knowing

* The report of a terminal says whether it was a replay; that is read before
  the lock, and of two equivalent calls that overlap the second reports an
  application that it did not make. No document promises otherwise.
* A registration answers REGISTERED when another process registered the same
  publication between its load and its reservation, and two reconciliations
  with one `entry_at` that overlap both report one effect.
* `run_pharos_filled_position_reconciliation_v1` requires its result path to be
  absent, so that its exact-replay outcome is reached by a race only. A ledger
  that cannot be read again after the commit makes it exit as if undecided
  although the entry was made.
* Forward tests that overlap can leave an empty or unreadable resolution file.
  What was resolved is computed again by the next run, identically as long as
  the candles are within the lookback of 300.
* A new observation of a paper signal forgets an acknowledgment; once a still
  open observation is published, its artifact is in the way of the final one.
  That the artifact exists and its replacement are not under one lock.
* A timed-out attempt leaves its reservation active: a caller who executes the
  same plan again calls the provider under it a second time, and both attempts
  share one reserved maximum.
* In `phase_12_isolated_host_global_signal_runtime_adapter_contract_v1`, a
  rollback leaves `handlers_restored` set; a registration from that state
  succeeds, and its restoration is answered as already done.

## 5. Findings

1. `transition_id_reuse`. `reserve_published_signal` does not look up its
   transition id, so a reservation that reuses the id of an entry or ending
   overwrites that record (`engine/active_signal_ledger_v1.py:536`). The
   registration service checks it; the ledger function and its collision test
   do not.
2. `delivered_once`. Two runs of one identity with one `published_at` that
   overlap both deliver (`engine/production_signal_artifact_v1.py:133`); the
   design document promises one delivery. The lock covers writes only.
3. `rejected_untouched`. A crash between the ledger and the control state
   (`engine/telegram_owner_control_service_v1.py:228`) makes the redelivered
   command be answered as ambiguous although it was applied. `EffectIsFinal`
   holds: it is not applied twice.
4. `reservations_independent`. The revision of a reservation is unique over all
   of them (`engine/phase_12_sqlite_connection_factory_schema_bootstrap_v1.py:16`):
   while one reservation is at revision 1 no second can be created.
5. `rejections_free`. A scan that ran and was charged is answered as a rejected
   admission when its release cannot read the quota file
   (`engine/telegram_application_v4.py:156`).
6. `expiry_is_final`. An expired paper signal observed again with a longer
   window is touched by a candle that closed after its validity
   (`engine/paper_signal_observer_v1.py:134`).
7. `approval_granted_once`. The recheck after BEGIN IMMEDIATE
   (`engine/phase_12_owner_approval_durable_replay_guard_v1.py:362`) opens and
   closes the database file in the process whose transaction is open, which by
   POSIX drops SQLite's lock: two processes can both find an approval unused,
   commit it and be granted it. The design document gives the atomicity across
   processes to that lock.

## 6. What is proved

For every value of the constants, under the named assumptions that the modules
declare and TLC evaluates in their runs:

| Theorem | Says | Assumes |
| --- | --- | --- |
| `TypeCorrect` | the ledger file always holds a document of the schema | `CapacityAssumption`, `PairAssumption`, `RequestAssumption` |
| `LineageHolds` | `PublicationLineage` and `OnePreparedAtMost` | the same |
| `CapacityHolds` | `CapacityRespected` and `ExclusivePairs` | the same |
| `GuardsSuffice` | `GuardsKeepDocumentValid` | the same |
| `TerminalHolds` | `TerminalIsFinal` | the same |
| `HistoryHolds` | `HistoryIsAppendOnly` | the same and `ReservationIdsFresh` |
| `HistoryIsAPathHolds` | `HistoryIsAPath` | the same and `ReservationIdsFresh` |
| `DecisionsAreNotStale` | `NoStaleDecision` | the same |
| `MutualExclusionTheorem` | `MutualExclusion` of the file protocol | `FileAssumption`, `AbsentAssumption` |
| `PromiseTheorem` | the protocol implements `AtomicDocument` | the same |
| `CallsAreBoundedTheorem` | a call has at most `LockAttempts` + 4 steps left (`StepsAreBounded`), its own steps take it nearer to its end and no one else's take it farther (`NearerToTheEnd`) | the same |
| `RegisteredIsDeliveredTheorem`, `NoRedeliveryTheorem` | `RegisteredIsDelivered`, `NoRedelivery` of the cycle | `CycleAssumption` and those of the ledger |
| `ReportedIsRegisteredTheorem`, `RegistrationStaysPossibleTheorem` | `ReportedIsRegistered`, `RegistrationStaysPossible` of the cycle | the same, `ResultAssumption`, `DigestAssumption` |
| `EntryFollowsRegistrationTheorem`, `ExitsAreTrueTheorem` | `EntryFollowsRegistration`, `ExitsAreTrue` of the filled positions | `IdentityAssumption` and those of the ledger |
| `AcceptedIsAppliedTheorem`, `AnsweredOnceTheorem`, `NothingPassedTheorem`, `EffectIsFinalTheorem` | `AcceptedIsApplied`, `AnsweredOnceAfterDeciding`, `NothingPassedInSilence`, `EffectIsFinal` of owner control | `BoundAssumption`, `NameAssumption` |
| `RefillMatchesHistoryTheorem`, `SignalRefilledOnceTheorem`, `RepairStaysPossibleTheorem`, `ReportsAreTrueTheorem` | `RefillMatchesHistory`, `SignalRefilledOnce`, `RepairStaysPossible`, `ReportsAreTrue` of the two ledgers together | `StartAssumption`, `EndingAssumption` |
| `CycleLedgerIsValidTheorem`, `FilledLedgerIsValidTheorem`, `OwnerLedgerIsValidTheorem`, `ActiveLedgerIsValidTheorem` | the ledger of the cycle, of the filled positions, of owner control and of the terminal integration is `Valid` | those of the component and of the ledger |
| `LatestClaimHoldsTheorem` | `LatestClaimHolds` of the refill ledger | none |
| `ScansPaidForTheorem`, `SlotsAccountedTheorem` | `ScansArePaidFor`, `SlotsAreAccounted` | `QuotaAssumption` |
| `GrantedOnceTheorem` | `GrantedOnceUnlessOverlapping` | `GuardAssumption` |
| `StorePromiseTheorem` | the reservation store implements `AppendOnce` | `CommandAssumption`, `CallerAssumption` |
| `ChainsAreLegalTheorem`, `RecoveryReadIsCurrentTheorem` | `ChainsAreLegal`, `RecoveryReadIsCurrent` of the reservation store | the same |
| `VerdictsAgreeTheorem` | `VerdictsAgree` of the forward test | none |
| `DecidedOnceTheorem` | `DecidedOnce` of the paper signal | `PaperSignalAssumption` |
| `EveryAttemptIsChargedTheorem`, `NothingAfterStopTheorem` | `EveryAttemptIsCharged`, `NothingAfterStop` of the shadow run | `PlanAssumption` |
| `WithinLimitsTheorem` | `WithinLimits` of the budget | `CapAssumption`, `CountAssumption`, `PlanAssumption`, `RequestAssumption` |
| `PreflightSufficesTheorem`, `ReportsMatchLedgerTheorem` | `PreflightSuffices`, `ReportsMatchLedger` | the same |

The arguments, by module:

* **ActiveSignalLedgerProofs**. `Valid` alone is not inductive: committing a
  transaction writes a signal, and that the signal does not displace another
  with the same delivery id follows only from the uniqueness of claims among
  *all* transactions, aborted ones included. `LedgerInvariant` is therefore the
  schema, finiteness of the signals, `Valid`, `OnePrepared`,
  `SignalsAreCommitted` and `ClaimsAreUnique`. Each operation has a lemma that
  it keeps the schema, one that it keeps `Valid` and one that it keeps the
  whole. `NextIsDocumentStep` reduces every action to one of five document
  operations or a stutter, so that the invariant (`LedgerInvariantHolds`) and
  the action properties are proved over operations and not over actions.
  The history, in the same module, needs `IdsHaveOrigins`: the id a
  transaction will record is that of a request it was opened by, and a recorded
  id is that of a committed transaction or was made up for an entry or an
  ending. Fresh ids then make the id of every PREPARED transaction new. Without
  freshness the theorem is false, which is finding 1. The registration service
  looks up the reservation id among the recorded transitions before it
  reserves, and owner control makes its ids of a prefix and the id of the
  update; the ledger itself enforces nothing. That the history is a path needs
  `PathInvariant` beside it: a recorded step starts at a stage below the present
  one of its signal and at a revision not beyond the document's, so that a new
  step cannot join two old ones.
* **LedgerDocumentProofs** is about the values: for any document and any
  operation, the guards imply that the result is `Valid`, slots and pairs
  counted. `SoundLedger` adds the shape of signals and their finiteness, which
  makes it inductive: each operation makes a sound document of a sound one. The
  modules about the ledger's processes rest on it. From it follows, in each of
  the four compositions, that the ledger stays `Valid`: there a caller decides
  on what it loaded, or on the revision it was reviewed for, and writes among
  others. Their entries and endings are modelled without `validate_ledger`,
  which the code runs on every document before it writes it; these theorems say
  that it would find nothing.
* **ControlledCycleProofs**. `CycleInv` ties the artifact to the deliveries made
  and each registered signal to a completed artifact; it carries the
  invariant of the publication service through the composition. `FreshInv` adds
  the document (`Fresh`: it is valid, what is in it is committed, and the
  signal's ids are in it for the signal only) and what calls report
  (`ReportsSound`: whoever is told that the publication is registered, or is
  about to bind its message, finds it committed). A repair is then accepted by
  every guard, and what it makes is valid by the lemmas of LedgerDocumentProofs.
* **FilledPositionProofs**. `FilledInv` says what each run knows of the ledger
  at the step it is at: what it loaded, the ledger has grown from, so that what
  it saw there is there still. A tool's own two changes sit at the revisions it
  was reviewed for, and nothing else can have its ids (`IdentityAssumption`).
  An exit is then true when it is reached and stays true as the ledger grows.
* **OwnerControlProofs**. `OwnerInv`: whoever holds the flock has the control
  state as it is, so that what it writes loses nothing; a message that the
  runner is about to bind is not bound; of the updates before one that is in
  the batch each is settled or in the batch; and an accepted decision that is
  about to be recorded, or is recorded, stands in the ledger. `PastKept` is
  what every step leaves: no recorded transition, text, binding or decision
  changes, and from it that what was applied stays applied.
* **TerminalRefillProofs**. `RefillInv` relates the two ledgers and whatever is
  between them. The endings on record are those the signals have, one each
  (`EndingsAgree`); the sources of the refill ledger are such endings, as the
  active ledger has them; its requests are those of its sources; and a call
  past the transition carries what the active ledger recorded under its id.
  `KeepsEndings` is all that the argument needs of the active ledger's
  operations: none withdraws an ending or rewrites the signal it is about.
  From there an ending is known to the refill ledger or acceptable to it,
  wherever a call crashed.
* **StoreProofs**. `QuotaInv`: a dispatch between admission and release holds an
  active slot and has a charge more than runs until its run starts. `GuardInv`:
  of a file on which no two transactions were open at once, at most one is open
  now and it has read what the file holds; so what it inserts nobody has
  committed, the look-up at the start of a call tells what was granted before,
  and what was granted is recorded. The rechecks play no part in it.
  `RefillInvariant`: the number of claims of a request is its attempts, and a
  finished request was finished by the last of them.
  `StoreInv`: who is in a transaction of the reservation store holds the write
  lock alone, so that a command found appendable is still so at its commit; the
  snapshot of an entry counts the entries of its reservation so far; a chain
  ends where the three tables say. The refinement maps the log to the history,
  the commit to the effect, also when it raises, and reads and the steps inside
  a transaction to stutters. A recovery read keeps what it found first: entries
  stay recorded (`FoundStaysRecorded`), and of a reservation's entries only the
  last has as many events as there are (`LastEntryHasAllEvents`), so that a count
  that matches at the last query says that nothing came in between.
* **StandaloneProofs**. `FileInv` says which process owns the lock file at
  which step and that what the owner loaded is the document still. The
  refinement maps the write of an owner to the effect of its call, and every
  other step to a call, an answer, a crash or a stutter. A variant,
  `StepsLeft`, says how far a call is from its end: the attempts it has left to
  create the lock file and the steps of its body. It is all of `EveryCallEnds`
  but the fairness of the caller and that a step of it is enabled.
  `ShadowInv`: what was attempted is reserved and not released, in the
  caller's ledger and in the run's, which have the same reservations, and an
  unresolved usage has stopped the ledger.
  `WithinInv` adds the budget's caps (`Limits`) and its bookings (`Booked`:
  reservations have prices and ids of their own, every usage names one and has
  amounts). A charge is a sum over a set, which the community modules define by
  a recursive function. Its existence and its independence of order are proved
  here without induction over data, as the absence of a smallest
  counterexample (`SumExists`, `SumTakesOut`, `SumIsMonotonic`, `SumOfSubset`).
  Then `reserve_call` adds at most what it has checked, to those scopes only
  that the new reservation shares, and usages, releases and stops add nothing.
  `PaidInv`: the calls before the current one are paid and no reservation of the
  others has a usage. That one call's usage leaves the next untouched needs
  that calls of a plan share no reservation, which the code says by a number,
  as many distinct reservations as attempts in all (`CallsAreApart`).
  `OutcomeInv`: whatever is in the shared files or in hand is
  a prefix of the true verdicts, or is not readable. `PaperInvariant`: the observation
  is the one its own window gives; it stands because a longer window still
  shows the event that decided, and the earliest exists by well-foundedness of
  the natural numbers.

The assumptions are what the code enforces before it comes to the modelled
functions: caps and amounts are no less than zero and the vocabulary of models
is closed (`_money`, `_cap_map`, `_positive_int`), plans are valid as
`ShadowProviderRunPlanV1` demands, ids are digests of what they are about
(`DigestAssumption`), and `None` is no record (`CycleAssumption`). A cost is
counted in units of the smallest decimal place, as a Decimal is.

Every invariant and every action property that a passing run checks is stated
by a theorem, and so are both refinements. Only model-checked are the liveness
properties `EveryCallEnds`, but for its variant, and `EveryUpdateIsSettled`,
which are out of the prover's reach, and the counterexamples of section 5, which
no theorem could state. No module declares a RECURSIVE operator.

## 7. Plan

Done: the parts of section 1. What is left, by what is at stake:

1. Two processes on one quota file, once the code says what they may expect.
2. The dispatch eligibility of the coordinator, when a caller exists that
   brings the snapshot; then its staleness is a property of the composition.
3. The artifact store and the progress report of paper signals, and the shadow
   release, when a program runs them.
