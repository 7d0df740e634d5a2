----------------------------- MODULE OwnerControl -----------------------------
(***************************************************************************)
(* The owner steers signals from Telegram: run_telegram_owner_control_v1   *)
(* polls for updates, telegram_owner_control_service_v1 decides each one,  *)
(* and telegram_owner_control_state_v1 keeps the decisions, the cursor and *)
(* the messages that signals were published in.  A command changes two     *)
(* files, first the ledger and then the control state.                     *)
(*                                                                         *)
(* The poller and the production runner, which binds a published signal to *)
(* its message, take the control state's flock without waiting; the kernel *)
(* frees it when its holder dies.  The ledger has its own lock, and other  *)
(* callers change it while the poller holds the first: one operation on    *)
(* the ledger is one step here (see LedgerFile).                           *)
(*                                                                         *)
(* The authenticity, parsing and pair spelling of a text are one `kind`.   *)
(* command_id hashes the update id along with the text, so that a command  *)
(* is named by its update and processed_commands, which is written and     *)
(* read together with processed_updates, never knows more.                 *)
(***************************************************************************)
EXTENDS SignalRegistration, Sequences, FiniteSetsExt

CONSTANTS
    MaxUpdates,     \* bound on the updates Telegram has for the bot
    MaxFailures,    \* bound on failing system calls, failing sends, crashes
    Texts,          \* what an update may say: [kind, symbol, reply]
    Publications,   \* what the runner publishes: [request, message]
    Endings         \* how other callers end signals: [id, signal, state]

ASSUME BoundAssumption == MaxUpdates \in Nat /\ MaxFailures \in Nat

\* Who holds a lock is somebody; a registration makes its ids of other prefixes
\* than a command.
ASSUME NameAssumption ==
    /\ None \notin {"poller", "runner"}
    /\ \A p \in Publications, u \in 1 .. MaxUpdates :
          p.request.transition_id \notin
              {<<"owner-entry", u>>, <<"owner-reject", u>>, <<"owner-close", u>>, <<"none", u>>}

ASSUME EndingAssumption == \A e \in Endings : e.state \in TerminalStates

VARIABLES
    control,        \* the document in the control state file
    holder,         \* who holds the flock of the control state, or None
    poller,         \* what the polling process is doing
    runner,         \* what the production runner is doing, or None
    texts,          \* the updates, in order; an update id is an index
    sent,           \* history: the responses that reached the owner
    failed,         \* history: updates whose decision could not be recorded
    failures        \* number of failures so far

vars == <<ledger, control, holder, poller, runner, texts, sent, failed, failures>>

Updates == 1 .. MaxUpdates

\* Update ids start at 1 here, so that a cursor of 0 has passed none.
EmptyState ==
    [ last_update_id    |-> 0,
      processed_updates |-> NoEntries,
      signal_message_bindings |-> NoEntries ]

Idle ==
    [ at |-> "fetch", batch |-> {}, state |-> None, signal |-> None,
      expected |-> None, outcome |-> None ]

Init ==
    /\ ledger = EmptyLedger
    /\ control = EmptyState
    /\ holder = None
    /\ poller = Idle
    /\ runner = None
    /\ texts = <<>>
    /\ sent = <<>>
    /\ failed = {}
    /\ failures = 0

Fail == failures < MaxFailures /\ failures' = failures + 1

\* Telegram hands out updates in the order of their ids.
Current == Min(poller.batch)

\* On to the next update of the batch, or back to fetching.
NextUpdate ==
    LET rest == poller.batch \ {Current}
    IN  poller' = IF rest = {} THEN Idle
                  ELSE [Idle EXCEPT !.at = "process", !.batch = rest]

\* process_owner_update raises nothing, but neither is anything recorded, nor
\* is the owner told.
Unrecorded ==
    /\ failed' = failed \cup {Current}
    /\ NextUpdate

-----------------------------------------------------------------------------
(* Telegram. *)

OwnerSends(text) ==
    /\ Len(texts) < MaxUpdates
    /\ texts' = Append(texts, text)
    /\ UNCHANGED <<ledger, control, holder, poller, runner, sent, failed, failures>>

\* Fault: off by one.
OffsetOneTooFar == control.last_update_id + 2

Offset == control.last_update_id + 1

\* get_updates: what there is from the offset on, and perhaps an update that
\* was delivered before.
Fetch(redelivered) ==
    /\ poller.at = "fetch"
    /\ redelivered \subseteq (1 .. Len(texts)) \cap (1 .. Offset - 1)
    /\ LET batch == redelivered \cup {u \in DOMAIN texts : u >= Offset}
       IN  /\ batch # {}
           /\ poller' = [Idle EXCEPT !.at = "process", !.batch = batch]
    /\ UNCHANGED <<ledger, control, holder, runner, texts, sent, failed, failures>>

-----------------------------------------------------------------------------
(* process_owner_update: under the flock, to a decision. *)

Expected(kind) == IF kind = "CLOSE" THEN EntryActive ELSE PendingEntry

\* _resolve: the signals a command may mean.
Candidates(state, L, text) ==
    {s \in DOMAIN L.signals :
        /\ L.signals[s].state = Expected(text.kind)
        /\ PairOf(L.signals[s]) = PairOf(text)
        /\ text.reply # None =>
              /\ text.reply \in DOMAIN state.signal_message_bindings
              /\ state.signal_message_bindings[text.reply] = s}

Commands == {"ENTRY", "REJECT", "CLOSE"}

\* The decision on a text that is not a command for exactly one signal.
OutcomeWithoutEffect(text) ==
    CASE text.kind = "INVALID"      -> "COMMAND_REJECTED_INVALID"
      [] text.kind = "UNAUTHORIZED" -> "COMMAND_REJECTED_UNAUTHORIZED"
      [] text.kind = "STATUS"       -> "STATUS_REPORT"
      [] OTHER                      -> "COMMAND_REJECTED_AMBIGUOUS"

\* The flock is held by the other process.
LockUnavailable ==
    /\ poller.at = "process"
    /\ holder # None
    /\ Unrecorded
    /\ UNCHANGED <<ledger, control, holder, runner, texts, sent, failures>>

\* Fault: the update ids are not looked up.
AlreadyProcessedUnless(u) == FALSE

AlreadyProcessed(u) == u \in DOMAIN control.processed_updates

\* COMMAND_ALREADY_PROCESSED: nothing is written and no response is due.
Suppress ==
    /\ poller.at = "process"
    /\ holder = None
    /\ AlreadyProcessed(Current)
    /\ NextUpdate
    /\ UNCHANGED <<ledger, control, holder, runner, texts, sent, failed, failures>>

Take(at, signal, outcome) ==
    /\ poller.at = "process"
    /\ holder = None
    /\ ~AlreadyProcessed(Current)
    /\ holder' = "poller"
    /\ poller' = [poller EXCEPT !.at = at, !.state = control, !.signal = signal,
                                !.expected = ledger.revision, !.outcome = outcome]
    /\ UNCHANGED <<ledger, control, runner, texts, sent, failed>>

\* The ledger is loaded and the command resolved; its effect is still to come.
Resolve ==
    /\ poller.at = "process"
    /\ texts[Current].kind \in Commands
    /\ \E s \in Candidates(control, ledger, texts[Current]) :
          /\ Candidates(control, ledger, texts[Current]) = {s}
          /\ Take("commit", s, None)
    /\ UNCHANGED failures

\* Fault: a command that means no signal, or several, is left undecided.
DecideUnlessAmbiguous ==
    /\ poller.at = "process"
    /\ texts[Current].kind \notin Commands
    /\ Take("record", None, OutcomeWithoutEffect(texts[Current]))
    /\ UNCHANGED failures

DecideWithoutEffect ==
    /\ poller.at = "process"
    /\ LET text == texts[Current]
       IN  /\ text.kind \in Commands =>
                 Cardinality(Candidates(control, ledger, text)) # 1
           /\ Take("record", None, OutcomeWithoutEffect(text))
    /\ UNCHANGED failures

\* The ledger cannot be loaded.
LoadFails ==
    /\ poller.at = "process"
    /\ texts[Current].kind \in Commands \cup {"STATUS"}
    /\ Take("record", None, "COMMAND_REJECTED_INVALID")
    /\ Fail

\* transition_id = f"owner-...-{command_id}"
CommandTransition(u) ==
    << CASE texts[u].kind = "ENTRY"  -> "owner-entry"
         [] texts[u].kind = "REJECT" -> "owner-reject"
         [] texts[u].kind = "CLOSE"  -> "owner-close"
         [] OTHER                    -> "none", u >>

TerminalState(kind) ==
    IF kind = "REJECT" THEN "REJECTED_BY_OWNER" ELSE "CLOSED_MANUAL"

Evidence == "OWNER"

Accepted(kind) ==
    CASE kind = "ENTRY"  -> "ENTRY_ACCEPTED"
      [] kind = "REJECT" -> "SIGNAL_REJECTED_BY_OWNER"
      [] kind = "CLOSE"  -> "POSITION_CLOSED"

Decided(outcome) == poller' = [poller EXCEPT !.at = "record", !.outcome = outcome]

\* Fault: an error of the ledger is not noticed.
RefusalUnnoticed(kind) == Accepted(kind)

\* Any exception becomes a decision.
Refusal(kind) == "COMMAND_REJECTED_INVALID"

\* commit_owner_confirmed_entry and commit_owner_terminal, at the revision
\* that was loaded: another caller may have changed the ledger since.  The
\* ledger's answers to a replay cannot come, since the signal is in a state
\* that no transition of this command can have left it in.
Commit ==
    /\ poller.at = "commit"
    /\ LET kind  == texts[Current].kind
           id    == CommandTransition(Current)
           s     == poller.signal
           state == TerminalState(kind)
       IN  \/ /\ kind = "ENTRY"
              /\ EntryAllowed(ledger, id, s, poller.expected)
              /\ ledger' = Entered(ledger, id, s, Evidence)
              /\ Decided(Accepted(kind))
           \/ /\ kind # "ENTRY"
              /\ TerminalAllowed(ledger, id, s, state, poller.expected)
              /\ ledger' = Terminated(ledger, id, s, state, Evidence)
              /\ Decided(Accepted(kind))
           \/ /\ IF kind = "ENTRY"
                 THEN ~EntryAllowed(ledger, id, s, poller.expected)
                 ELSE ~TerminalAllowed(ledger, id, s, state, poller.expected)
              /\ Decided(Refusal(kind))
              /\ UNCHANGED ledger
    /\ UNCHANGED <<control, holder, runner, texts, sent, failed, failures>>

\* The ledger's lock cannot be had, or its file not be written.
CommitFails ==
    /\ poller.at = "commit"
    /\ Decided(Refusal(texts[Current].kind))
    /\ Fail
    /\ UNCHANGED <<ledger, control, holder, runner, texts, sent, failed>>

-----------------------------------------------------------------------------
(* The decision is recorded, and only then answered. *)

CursorAfter(last, u) == IF u > last THEN u ELSE last

\* _record_decision, on the state that was loaded.
WithDecision(state, u, outcome) ==
    [ last_update_id    |-> CursorAfter(state.last_update_id, u),
      processed_updates |-> Put(state.processed_updates, u,
                                [outcome |-> outcome, answered |-> FALSE]),
      signal_message_bindings |-> state.signal_message_bindings ]

Record ==
    /\ poller.at = "record"
    /\ control' = WithDecision(poller.state, Current, poller.outcome)
    /\ holder' = None
    /\ poller' = [poller EXCEPT !.at = "respond", !.state = None]
    /\ UNCHANGED <<ledger, runner, texts, sent, failed, failures>>

\* The control state cannot be written: what the ledger was told stays.
RecordFails ==
    /\ poller.at = "record"
    /\ holder' = None
    /\ Fail
    /\ Unrecorded
    /\ UNCHANGED <<ledger, control, runner, texts, sent>>

\* await bot.send_message
Respond ==
    /\ poller.at = "respond"
    /\ sent' = Append(sent, [update |-> Current, outcome |-> poller.outcome])
    /\ poller' = [poller EXCEPT !.at = "receipt"]
    /\ UNCHANGED <<ledger, control, holder, runner, texts, failed, failures>>

\* record_response_success
RecordReceipt ==
    /\ poller.at = "receipt"
    /\ holder = None
    /\ control' = [control EXCEPT !.processed_updates[Current].answered = TRUE]
    /\ NextUpdate
    /\ UNCHANGED <<ledger, holder, runner, texts, sent, failed, failures>>

\* The flock is held: the error escapes from run_forever, systemd restarts it.
ReceiptUnavailable ==
    /\ poller.at = "receipt"
    /\ holder # None
    /\ poller' = Idle
    /\ UNCHANGED <<ledger, control, holder, runner, texts, sent, failed, failures>>

\* The poller dies, a send that raises included, and is started again.
Crash ==
    /\ poller.at # "fetch"
    /\ poller' = Idle
    /\ holder' = IF holder = "poller" THEN None ELSE holder
    /\ Fail
    /\ UNCHANGED <<ledger, control, runner, texts, sent, failed>>

-----------------------------------------------------------------------------
(* The production runner and other callers of the ledger. *)

\* register_completed_publication has succeeded, of a new publication or of one
\* that an earlier run registered and the signal of which still waits for its
\* entry.  ControlledCycle has the steps that lead here and the ways to fail.
\* Bound: no run once the message is bound, since it would write the same file.
Publish(p) ==
    /\ runner = None
    /\ p.message \notin DOMAIN control.signal_message_bindings
    /\ ~KnownConflict(ledger, p.request)
    /\ ledger' = Reserved(ledger, p.request, ledger.revision)
    /\ ledger' # None
    /\ MatchesPersisted(ledger', p.request)
    /\ runner' = [publication |-> p, state |-> None]
    /\ UNCHANGED <<control, holder, poller, texts, sent, failed, failures>>

\* bind_signal_message
RunnerLocks ==
    /\ runner # None
    /\ runner.state = None
    /\ holder = None
    /\ holder' = "runner"
    /\ runner' = [runner EXCEPT !.state = control]
    /\ UNCHANGED <<ledger, control, poller, texts, sent, failed, failures>>

\* The flock is held: the runner exits, and may be run again.
RunnerRefused ==
    /\ runner # None
    /\ runner.state = None
    /\ holder # None
    /\ runner' = None
    /\ UNCHANGED <<ledger, control, holder, poller, texts, sent, failed, failures>>

RunnerBinds ==
    /\ runner # None
    /\ runner.state # None
    /\ LET p == runner.publication
       IN  control' = [runner.state EXCEPT
                          !.signal_message_bindings =
                              Put(@, p.message, p.request.signal_id)]
    /\ holder' = IF holder = "runner" THEN None ELSE holder
    /\ runner' = None
    /\ UNCHANGED <<ledger, poller, texts, sent, failed, failures>>

\* The runner dies; the kernel frees the flock.
RunnerDies ==
    /\ runner # None
    /\ runner' = None
    /\ holder' = IF holder = "runner" THEN None ELSE holder
    /\ Fail
    /\ UNCHANGED <<ledger, control, poller, texts, sent, failed>>

OthersEnd(e) ==
    /\ TerminalAllowed(ledger, e.id, e.signal, e.state, ledger.revision)
    /\ ledger' = Terminated(ledger, e.id, e.signal, e.state, Evidence)
    /\ UNCHANGED <<control, holder, poller, runner, texts, sent, failed, failures>>

PollerStep ==
    \/ \E redelivered \in SUBSET (DOMAIN texts) :
          Cardinality(redelivered) <= 1 /\ Fetch(redelivered)
    \/ LockUnavailable \/ Suppress \/ Resolve \/ DecideWithoutEffect
    \/ Commit \/ Record \/ Respond \/ RecordReceipt \/ ReceiptUnavailable

RunnerStep == RunnerLocks \/ RunnerRefused \/ RunnerBinds

Next ==
    \/ \E text \in Texts : OwnerSends(text)
    \/ PollerStep
    \/ LoadFails \/ CommitFails \/ RecordFails \/ Crash
    \/ \E p \in Publications : Publish(p)
    \/ RunnerStep \/ RunnerDies
    \/ \E e \in Endings : OthersEnd(e)

\* The poller is a loop that systemd restarts, and what the runner has begun
\* it finishes.  Nobody has to write, publish or fail.
Spec == Init /\ [][Next]_vars /\ WF_vars(PollerStep) /\ WF_vars(RunnerStep)

-----------------------------------------------------------------------------
(* Safety. *)

Decision(u) == control.processed_updates[u].outcome

Applied(u) == CommandTransition(u) \in DOMAIN ledger.transitions

\* A command recorded as accepted did what the owner was told, to a signal of
\* the pair he named and, where he replied to a message, to the signal that
\* message announced.
AcceptedIsApplied ==
    \A u \in DOMAIN control.processed_updates :
        Decision(u) \in {"ENTRY_ACCEPTED", "SIGNAL_REJECTED_BY_OWNER", "POSITION_CLOSED"} =>
            /\ Decision(u) = Accepted(texts[u].kind)
            /\ Applied(u)
            /\ LET s == ledger.transitions[CommandTransition(u)].signal_id
               IN  /\ PairOf(ledger.signals[s]) = PairOf(texts[u])
                   /\ texts[u].reply # None =>
                         control.signal_message_bindings[texts[u].reply] = s

\* The owner is told the recorded decision, after it was recorded, and once,
\* across crashes and updates that are delivered again.
AnsweredOnceAfterDeciding ==
    /\ \A i \in DOMAIN sent :
          /\ sent[i].update \in DOMAIN control.processed_updates
          /\ sent[i].outcome = Decision(sent[i].update)
    /\ \A i, j \in DOMAIN sent : sent[i].update = sent[j].update => i = j

\* The cursor passes no update in silence: those it has passed were decided,
\* or recording the decision failed.
NothingPassedInSilence ==
    \A u \in 1 .. control.last_update_id :
        u \in DOMAIN control.processed_updates \cup failed

\* A command that was recorded as rejected changed nothing.
RejectedIsUntouched ==
    \A u \in DOMAIN control.processed_updates :
        Decision(u) = "COMMAND_REJECTED_AMBIGUOUS" => ~Applied(u)

-----------------------------------------------------------------------------
(* What a step may never do, and what must happen. *)

\* A command takes effect at most once: when it is processed again after a
\* crash, with another signal now answering to its pair, that signal is safe.
EffectIsFinal ==
    [][ \A u \in DOMAIN texts :
            Applied(u) =>
                /\ CommandTransition(u) \in DOMAIN ledger'.transitions
                /\ ledger'.transitions[CommandTransition(u)] =
                      ledger.transitions[CommandTransition(u)] ]_vars

\* Whatever the owner sends is decided in the end, or failed to be recorded.
EveryUpdateIsSettled ==
    \A u \in Updates :
        u \in DOMAIN texts ~> u \in DOMAIN control.processed_updates \cup failed
=============================================================================
