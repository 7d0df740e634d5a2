-------------------------- MODULE ControlledCycle --------------------------
(***************************************************************************)
(* From a candidate to a registered publication: the controlled cycle      *)
(* (controlled_production_signal_cycle_v1), the scheduled program          *)
(* (run_production_signal_v1) and the repair of a registration             *)
(* (passive_production_signal_flow_v1).  All three end in                  *)
(* SignalRegistration; the first two go through PublicationService before, *)
(* and that module's steps are steps of this one.                          *)
(*                                                                         *)
(* The publication and the ledger are separate files.  A caller evaluates  *)
(* the scanner gate on a ledger it read before the delivery, and registers *)
(* in the ledger it finds after it; the cycle insists on the revision it   *)
(* was given at the outset, the program loads the ledger again.  Processes *)
(* interleave in these steps and die between them, and meanwhile the       *)
(* ledger takes other signals in and moves all of them on.                 *)
(*                                                                         *)
(* One publication identity is followed.  That the program of a later tick *)
(* may publish the same identity again is more than its clock allows, and  *)
(* adds behaviours only.                                                   *)
(***************************************************************************)
EXTENDS SignalRegistration

CONSTANTS
    Runners, Times, MaxRuns,    \* as in PublicationService
    SignalMode, SignalSymbol,   \* of the signal that is published
    OtherRequests,              \* registrations of other signals
    MaxRevision                 \* bound on the ledger's revision

VARIABLES
    artifact, locked, run, answer, runs, delivered,     \* PublicationService
    call,       \* [Runners -> the call each is executing, or None]
    reported,   \* [Runners -> what its latest call returned]
    bound       \* is the message bound to the signal in the control state

Publication == INSTANCE PublicationService

Artifacts ==
    [state : {Publication!Intent, Publication!Succeeded, Publication!Failed},
     at : Times, receipt : (1 .. MaxRuns) \cup {None}]

RunRecords ==
    [number : 1 .. MaxRuns, at : Times,
     step : {"read", "persist", "reread", "deliver", "complete", "readback"},
     receipt : (1 .. MaxRuns) \cup {None}, late : BOOLEAN]

\* None is told from a record.
ASSUME CycleAssumption ==
    /\ MaxRuns \in Nat
    /\ None \notin Artifacts
    /\ None \notin RunRecords

\* None is told from a result.
ASSUME ResultAssumption == None \notin RegisteredResults \cup {"exit 0"}

\* One signal is published: delivery, transaction and transition ids are
\* digests of the signal they are about, and no other registration has them.
ASSUME DigestAssumption ==
    \A q \in OtherRequests :
        /\ q.signal_id # "signal"
        /\ q.delivery_id # "delivery"
        /\ \A at \in Times : q.transaction_id # <<"signal", at>>
        /\ q.transition_id \notin {<<"supplied", "signal">>, <<"derived", "signal">>}

publicationVars == <<artifact, locked, run, answer, runs, delivered>>

cycleVars == <<publicationVars, ledger, call, reported, bound>>

\* The program derives the transition's id; the cycle's caller supplies one.
TransitionOf(kind) == IF kind = "cycle" THEN "supplied" ELSE "derived"

\* What is registered of a publication; the transaction id is a digest of all
\* of it, published_at included.
Request(at, transition) ==
    [ transaction_id |-> <<"signal", at>>,
      transition_id  |-> <<transition, "signal">>,
      signal_id      |-> "signal",
      delivery_id    |-> "delivery",
      mode           |-> SignalMode,
      symbol         |-> SignalSymbol,
      payload        |-> at ]

CycleInit ==
    /\ Publication!Init
    /\ ledger = EmptyLedger
    /\ call = [r \in Runners |-> None]
    /\ reported = [r \in Runners |-> None]
    /\ bound = FALSE

-----------------------------------------------------------------------------
(* A call moves on, or ends and reports. *)

Calling(r, step) == call[r] # None /\ call[r].step = step

Report(r, what) ==
    /\ call' = [call EXCEPT ![r] = None]
    /\ reported' = [reported EXCEPT ![r] = what]

Opened(kind, at, transition, step) ==
    [ kind |-> kind, step |-> step, expected |-> ledger.revision,
      before |-> None, request |-> Request(at, transition) ]

-----------------------------------------------------------------------------
(* owner_blueprint_scanner_gate_v1.evaluate_candidate *)

Remaining(L, mode) == ModeCapacity[mode] - Cardinality(ActiveIn(L, mode))

\* A symbol counts as its canonical pair.
PairActive(L, symbol) ==
    \E s \in Occupants(L) : PairOf(L.signals[s]) = CanonicalPair[symbol]

Eligible(L, mode, symbol) == Remaining(L, mode) # 0 /\ ~PairActive(L, symbol)

-----------------------------------------------------------------------------
(* The beginning of a call: the ledger is read, the gate evaluated on it,   *)
(* and an eligible candidate is handed to the publication service.  A call  *)
(* turned away by that gate, by a closed authorization gate, for want of    *)
(* credentials, of an adapter or of a candidate changes nothing.           *)

Begin(r, kind, at) ==
    /\ call[r] = None
    /\ Eligible(ledger, SignalMode, SignalSymbol)
    /\ Publication!Begin(r, at)
    /\ call' = [call EXCEPT ![r] = Opened(kind, at, TransitionOf(kind), "publishing")]
    /\ reported' = [reported EXCEPT ![r] = None]
    /\ UNCHANGED <<ledger, bound>>

\* A repair is given a completed publication, the current revision and the id
\* of whoever was to register it.
BeginRepair(r, transition) ==
    /\ call[r] = None
    /\ artifact # None
    /\ artifact.state = Publication!Succeeded
    /\ call' = [call EXCEPT ![r] = Opened("repair", artifact.at, transition, "look")]
    /\ reported' = [reported EXCEPT ![r] = None]
    /\ UNCHANGED <<publicationVars, ledger, bound>>

Publishing(r) ==
    /\ Calling(r, "publishing")
    /\ \/ Publication!ReadExisting(r)
       \/ Publication!PersistIntent(r) \/ Publication!PersistIntentFails(r)
       \/ Publication!Reread(r)
       \/ Publication!Deliver(r)
       \/ \E sent \in BOOLEAN :
             Publication!DeliveryRaises(r, sent) \/ Publication!ReceiptRejected(r, sent)
       \/ Publication!Complete(r) \/ Publication!CompleteFails(r)
       \/ Publication!ReadBack(r)
    /\ UNCHANGED <<ledger, call, reported, bound>>

\* Fault: whatever the publication came to, it is registered.
ConfirmedAnyhow(result) == result \in {Publication!Succeeded, Publication!Failed}

\* The publication the service returned may be registered.
Confirmed(result) == result = Publication!Succeeded

\* The service has returned or raised.  The program now loads the ledger.
Published(r) ==
    /\ Calling(r, "publishing")
    /\ run[r] = None
    /\ IF Confirmed(answer[r])
       THEN /\ call' = [call EXCEPT ![r].step = "look",
                                    ![r].expected = IF call[r].kind = "program"
                                                    THEN ledger.revision ELSE @]
            /\ UNCHANGED reported
       ELSE Report(r, IF answer[r] = Publication!Failed
                      THEN "DELIVERY_FAILED" ELSE "PUBLICATION_FAILED")
    /\ UNCHANGED <<publicationVars, ledger, bound>>

-----------------------------------------------------------------------------
(* _reserve, and what the program does with its result. *)

\* Fault: a pending registration is as good as one.
SettlesWhenPending(result) ==
    result \in {"PUBLISHED_SIGNAL_REGISTERED", "PUBLISHED_SIGNAL_REGISTRATION_REPLAYED",
                "PUBLICATION_SUCCEEDED_REGISTRATION_PENDING"}

\* The results after which the program binds the message.
Settles(result) ==
    result \in {"PUBLISHED_SIGNAL_REGISTERED", "PUBLISHED_SIGNAL_REGISTRATION_REPLAYED"}

Registration(r, result) ==
    IF call[r].kind # "program" THEN Report(r, result)
    ELSE IF Settles(result)
    THEN call' = [call EXCEPT ![r].step = "bind"] /\ UNCHANGED reported
    ELSE Report(r, "exit 7")

Look(r) ==
    /\ Calling(r, "look")
    /\ IF ledger.revision # call[r].expected
       THEN Registration(r, "ACTIVE_REVISION_CONFLICT")
       ELSE IF KnownConflict(ledger, call[r].request)
       THEN Registration(r, "IDENTITY_CONFLICT")
       ELSE /\ call' = [call EXCEPT ![r].step = "reserve", ![r].before = ledger.revision]
            /\ UNCHANGED reported
    /\ UNCHANGED <<publicationVars, ledger, bound>>

Reserve(r) ==
    /\ Calling(r, "reserve")
    /\ LET document == Reserved(ledger, call[r].request, call[r].expected)
       IN  IF document = None
           THEN /\ Registration(r, Refused(ledger, call[r].request, call[r].expected))
                /\ UNCHANGED ledger
           ELSE /\ ledger' = document
                /\ Registration(r, Classification(call[r].before, document,
                                                  call[r].request,
                                                  call[r].kind = "repair"))
    /\ UNCHANGED <<publicationVars, bound>>

\* The ledger cannot be read, locked or written; or it was replaced and the
\* fsync of its directory failed.
RegistrationFails(r) ==
    /\ Calling(r, "look") \/ Calling(r, "reserve")
    /\ Registration(r, "PUBLICATION_SUCCEEDED_REGISTRATION_PENDING")
    /\ \/ UNCHANGED ledger
       \/ /\ Calling(r, "reserve")
          /\ Reserved(ledger, call[r].request, call[r].expected) # None
          /\ ledger' = Reserved(ledger, call[r].request, call[r].expected)
    /\ UNCHANGED <<publicationVars, bound>>

\* bind_signal_message; the write may fail, and may be in place all the same.
Bind(r) ==
    /\ Calling(r, "bind")
    /\ \/ bound' = TRUE /\ Report(r, "exit 0")
       \/ bound' \in {bound, TRUE} /\ Report(r, "exit 7")
    /\ UNCHANGED <<publicationVars, ledger>>

Die(r) ==
    /\ call[r] # None
    /\ call' = [call EXCEPT ![r] = None]
    /\ \/ Calling(r, "publishing") /\ Publication!Crash(r)
       \/ run[r] = None /\ UNCHANGED publicationVars
    /\ UNCHANGED <<ledger, reported, bound>>

-----------------------------------------------------------------------------
(* The other users of the ledger. *)

Others ==
    /\ \/ \E q \in OtherRequests :
             /\ q.transaction_id \notin DOMAIN ledger.transactions
             /\ Reserved(ledger, q, ledger.revision) # None
             /\ ledger' = Reserved(ledger, q, ledger.revision)
       \/ \E s \in DOMAIN ledger.signals :
             LET id == <<"entry", s>> IN
             /\ EntryAllowed(ledger, id, s, ledger.revision)
             /\ ledger' = Entered(ledger, id, s, None)
       \/ \E s \in DOMAIN ledger.signals :
             LET id == <<"end", s>> IN
             /\ TerminalAllowed(ledger, id, s, "CLOSED_PROFIT", ledger.revision)
             /\ ledger' = Terminated(ledger, id, s, "CLOSED_PROFIT", None)
    /\ ledger'.revision <= MaxRevision
    /\ UNCHANGED <<publicationVars, call, reported, bound>>

CycleNext ==
    \/ \E r \in Runners :
        \/ \E kind \in {"cycle", "program"}, at \in Times : Begin(r, kind, at)
        \/ \E kind \in {"cycle", "program"} : BeginRepair(r, TransitionOf(kind))
        \/ Publishing(r) \/ Published(r)
        \/ Look(r) \/ Reserve(r) \/ RegistrationFails(r)
        \/ Bind(r)
        \/ Die(r)
    \/ Others

CycleSpec == CycleInit /\ [][CycleNext]_cycleVars

-----------------------------------------------------------------------------
(* Safety. *)

\* A signal is in the ledger only if its message reached the channel and the
\* publication says so, and the ledger's record is of that publication: no
\* interleaving, failure or crash registers what was not delivered.
RegisteredIsDelivered ==
    "signal" \in DOMAIN ledger.signals =>
        /\ artifact # None
        /\ artifact.state = Publication!Succeeded
        /\ artifact.receipt \in delivered
        /\ ledger.signals["signal"].payload = artifact.at

\* Who is told that a publication is registered finds it committed in the
\* ledger ever after, and the program that exits with 0 has bound its message.
ReportedIsRegistered ==
    \A r \in Runners :
        /\ reported[r] \in RegisteredResults \cup {"exit 0"} =>
              \E x \in DOMAIN ledger.transactions :
                  /\ ledger.transactions[x].signal_id = "signal"
                  /\ ledger.transactions[x].state = Committed
                  /\ ledger.transactions[x].payload = artifact.at
        /\ reported[r] = "exit 0" => bound

\* As long as a delivered publication is not registered, a repair at the
\* current revision registers it, whatever happened to the call that
\* published it and whatever the ledger went through since.
RegistrationStaysPossible ==
    artifact # None /\ artifact.state = Publication!Succeeded
    /\ "signal" \notin DOMAIN ledger.signals =>
        LET request  == Request(artifact.at, "derived")
            document == PrepareAndCommit(ledger, request)
        IN  /\ ~KnownConflict(ledger, request)
            /\ Valid(document)
            /\ Reserved(ledger, request, ledger.revision) = document
            /\ MatchesPersisted(document, request)

\* PublicationService's promise holds for the calls that begin on a stale
\* ledger and race a repair as well.
NoRedelivery == Publication!NoRedelivery
=============================================================================
