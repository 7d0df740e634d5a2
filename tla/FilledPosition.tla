--------------------------- MODULE FilledPosition ---------------------------
(***************************************************************************)
(* The two one-off reconciliations of a position that the owner reported   *)
(* as filled (kmno_ and pharos_filled_position_reconciliation_v1).  Each   *)
(* is sealed to the exact bytes of the ledger and of the control state it  *)
(* was reviewed for, and makes two changes to that ledger, a registration  *)
(* and an entry, each under the ledger's lock but not under one; then it   *)
(* verifies what it finds and leaves a result file.  The second is sealed  *)
(* to the ledger the first one leaves.                                     *)
(*                                                                         *)
(* That nothing else runs is checked once, at the beginning.  The model    *)
(* lets runs of both tools, and other users of the two files, interleave   *)
(* in every read and write, and lets writes fail and runs die.             *)
(*                                                                         *)
(* A hash of a file is its content.  The checks of identities and of the   *)
(* incident's evidence, which no state changes, are taken as passed.       *)
(***************************************************************************)
EXTENDS SignalRegistration

CONSTANTS
    Tools,          \* the tools by the name of their signal, <<first, second>>
    Earlier,        \* registration of a signal that has come and gone
    Publications,   \* [tool -> the registration its publication calls for]
    Operators,      \* processes that run a tool
    EntryTimes,     \* what the clock may say; the first tool is given one
    FirstEntryTime,
    MaxFilledRevision   \* bound on the ledger's revision

VARIABLES
    sealed,         \* is the control state still the reviewed one
    result,         \* [tool -> its result file, or None]
    work,           \* [Operators -> the run each is executing, or None]
    exit            \* [Operators -> how its latest run ended, or None]

filledVars == <<ledger, sealed, result, work, exit>>

First  == Tools[1]
Second == Tools[2]
ToolNames == {First, Second}

EntryId(tool) == <<"entry", tool>>

ReviewedLedger ==
    Terminated(PrepareAndCommit(EmptyLedger, Earlier), <<"end", "earlier">>,
               Earlier.signal_id, "CANCELLED", None)

Reconciled(L, tool, at) ==
    Entered(PrepareAndCommit(L, Publications[tool]), EntryId(tool), tool, at)

\* LEDGER_SHA256 of each tool
SealedLedger(tool) ==
    IF tool = First THEN ReviewedLedger
    ELSE Reconciled(ReviewedLedger, First, FirstEntryTime)

Base(tool) == SealedLedger(tool).revision

\* What the evidence of the incident fixes names different things.
ASSUME IdentityAssumption ==
    LET Registered(tool) == Publications[tool].transition_id
        Signals == ToolNames \cup {Earlier.signal_id}
    IN  /\ Earlier.signal_id \notin ToolNames
        /\ \A tool \in ToolNames :
              /\ Publications[tool].signal_id = tool
              /\ Earlier.transition_id \notin {Registered(tool), EntryId(tool)}
              /\ Registered(tool) # <<"end", "earlier">>
              /\ \A s \in Signals :
                    Registered(tool) \notin {<<"entry", s>>, <<"owner", s>>, <<"end", s>>}
              /\ \A other \in ToolNames :
                    Registered(tool) = Registered(other) => tool = other

FilledInit ==
    /\ ledger = ReviewedLedger
    /\ sealed = TRUE
    /\ result = [t \in ToolNames |-> None]
    /\ work = [p \in Operators |-> None]
    /\ exit = [p \in Operators |-> None]

-----------------------------------------------------------------------------
(* What a tool demands of a ledger. *)

\* _capacity_and_pair
Relation(L, tool) ==
    LET request == Publications[tool] IN
    [ active |-> Cardinality(ActiveIn(L, request.mode)),
      total  |-> Cardinality(Occupants(L)),
      owners |-> Cardinality({s \in Occupants(L) :
                     PairOf(L.signals[s]) = CanonicalPair[request.symbol]}) ]

\* The number of entries its sealed ledger has, which the tool spells out.
EntriesBefore(tool) == IF tool = First THEN 0 ELSE 1

RelationBefore(tool) ==
    [active |-> EntriesBefore(tool), total |-> EntriesBefore(tool), owners |-> 0]

RelationAfter(tool) ==
    [active |-> EntriesBefore(tool) + 1, total |-> EntriesBefore(tool) + 1, owners |-> 1]

\* _existing_active_record, which only the second tool asks for
Preserved(L, tool) ==
    tool = Second =>
        /\ First \in DOMAIN L.signals
        /\ L.signals[First].state = EntryActive
        /\ L.signals[First].last_transition_id = EntryId(First)

\* _validate_pre_state
PreState(L, tool) ==
    /\ L.revision = Base(tool)
    /\ tool \notin DOMAIN L.signals
    /\ Preserved(L, tool)
    /\ Relation(L, tool) = RelationBefore(tool)

\* _registration_only
RegistrationOnly(L, tool) ==
    /\ L.revision = Base(tool) + 1
    /\ tool \in DOMAIN L.signals
    /\ L.signals[tool].state = PendingEntry
    /\ L.signals[tool].last_transition_id = Publications[tool].transition_id
    /\ Preserved(L, tool)
    /\ Relation(L, tool) = RelationBefore(tool)

\* _completed, _validate_completed_state
Completed(L, tool, at) ==
    /\ L.revision = Base(tool) + 2
    /\ tool \in DOMAIN L.signals
    /\ L.signals[tool].state = EntryActive
    /\ L.signals[tool].last_transition_id = EntryId(tool)
    /\ Publications[tool].transition_id \in DOMAIN L.transitions
    /\ L.transitions[EntryId(tool)].evidence = at
    /\ Preserved(L, tool)
    /\ Relation(L, tool) = RelationAfter(tool)

-----------------------------------------------------------------------------
(* A run moves on, or ends; `applied` counts the changes it made itself.   *)

AtStep(p, step) == work[p] # None /\ work[p].step = step

Go(p, step) == work' = [work EXCEPT ![p].step = step] /\ UNCHANGED exit

Exit(p, code) ==
    /\ exit' = [exit EXCEPT ![p] = [code    |-> code,
                                    tool    |-> work[p].tool,
                                    applied |-> work[p].applied]]
    /\ work' = [work EXCEPT ![p] = None]

\* The second tool's program wants no result there; its replay is for those
\* who call the function, or for a result that appears in time.
BeginRun(p, tool) ==
    /\ work[p] = None
    /\ tool = Second => result[tool] = None
    /\ work' = [work EXCEPT ![p] =
                  [tool |-> tool, step |-> "raw", raw |-> None, document |-> None,
                   at |-> FirstEntryTime, told |-> None, applied |-> 0]]
    /\ exit' = [exit EXCEPT ![p] = None]
    /\ UNCHANGED <<ledger, sealed, result>>

\* The bytes first, the document in another reading.
ReadRaw(p) ==
    /\ AtStep(p, "raw")
    /\ IF sealed
       THEN work' = [work EXCEPT ![p].step = "load", ![p].raw = ledger] /\ UNCHANGED exit
       ELSE Exit(p, "13")
    /\ UNCHANGED <<ledger, sealed, result>>

Load(p) ==
    /\ AtStep(p, "load")
    /\ work' = [work EXCEPT ![p].step = "check", ![p].document = ledger]
    /\ UNCHANGED <<ledger, sealed, result, exit>>

\* Other bytes than the sealed ones may be those of this tool's own result.
Replay(p) ==
    LET w == work[p] IN
    /\ AtStep(p, "check")
    /\ w.raw # SealedLedger(w.tool)
    /\ IF /\ result[w.tool] # None
          /\ Completed(w.document, w.tool, result[w.tool].at)
          /\ w.tool = Second => result[w.tool].output = w.raw
       THEN Exit(p, "VERIFIED_EXACT_REPLAY")
       ELSE Exit(p, IF w.tool = First /\ ~Completed(w.document, w.tool, w.at)
                    THEN "13" ELSE "10")
    /\ UNCHANGED <<ledger, sealed, result>>

Check(p) ==
    LET w == work[p] IN
    /\ AtStep(p, "check")
    /\ w.raw = SealedLedger(w.tool)
    /\ CASE ~PreState(w.document, w.tool) -> Exit(p, "13")
         [] PreState(w.document, w.tool) /\ result[w.tool] # None -> Exit(p, "10")
         [] OTHER ->
              /\ \E at \in IF w.tool = First THEN {FirstEntryTime} ELSE EntryTimes :
                    work' = [work EXCEPT ![p].step = "look", ![p].at = at]
              /\ UNCHANGED exit
    /\ UNCHANGED <<ledger, sealed, result>>

-----------------------------------------------------------------------------
(* repair_publication_registration, and what the ledger shows of it. *)

LookForRegistration(p) ==
    LET w == work[p] IN
    /\ AtStep(p, "look")
    /\ Go(p, IF ledger.revision = Base(w.tool)
                /\ ~KnownConflict(ledger, Publications[w.tool])
             THEN "reserve" ELSE "reload")
    /\ UNCHANGED <<ledger, sealed, result>>

RegistrationOf(p) ==
    Reserved(ledger, Publications[work[p].tool], Base(work[p].tool))

RegisterFilled(p) ==
    LET w == work[p] IN
    /\ AtStep(p, "reserve")
    /\ RegistrationOf(p) # None
    /\ ledger' = RegistrationOf(p)
    /\ work' = [work EXCEPT
                  ![p].step = "reload",
                  ![p].applied = IF ledger' = ledger THEN @ ELSE @ + 1,
                  ![p].told =
                      Classification(Base(w.tool), ledger', Publications[w.tool], TRUE)]
    /\ UNCHANGED <<sealed, result, exit>>

\* It is refused, or the ledger cannot be locked or written; the ledger may
\* have been replaced all the same.
RegisterFilledFails(p) ==
    /\ AtStep(p, "reserve")
    /\ \/ UNCHANGED ledger /\ Go(p, "reload")
       \/ /\ RegistrationOf(p) \notin {None, ledger}
          /\ ledger' = RegistrationOf(p)
          /\ work' = [work EXCEPT ![p].step = "reload", ![p].applied = @ + 1]
          /\ UNCHANGED exit
    /\ UNCHANGED <<sealed, result>>

Reload(p) ==
    LET w == work[p] IN
    /\ AtStep(p, "reload")
    /\ work' = [work EXCEPT
                  ![p].document = ledger,
                  ![p].step = IF /\ w.told = "PUBLISHED_SIGNAL_REGISTERED"
                                 /\ RegistrationOnly(ledger, w.tool)
                              THEN "enter" ELSE "compare"]
    /\ UNCHANGED <<ledger, sealed, result, exit>>

\* Fault: a registration that did not succeed has changed nothing.
AfterFailedRegistrationBlindly(p) == "15"

\* The bytes are read once more.
AfterFailedRegistration(p) ==
    IF ledger = work[p].raw THEN "15"
    ELSE IF RegistrationOnly(work[p].document, work[p].tool) THEN "16" ELSE "17"

Compare(p) ==
    /\ AtStep(p, "compare")
    /\ Exit(p, AfterFailedRegistration(p))
    /\ UNCHANGED <<ledger, sealed, result>>

-----------------------------------------------------------------------------
(* commit_owner_confirmed_entry, verification and result. *)

\* Fault: the entry is made in whatever ledger there is by then.
EntryRevisionAsFound(tool) == ledger.revision

EntryRevision(tool) == Base(tool) + 1

EnterFilled(p) ==
    LET w == work[p] IN
    /\ AtStep(p, "enter")
    /\ IF EntryReplayed(ledger, EntryId(w.tool), w.tool, w.at)
       THEN Go(p, "verify") /\ UNCHANGED ledger
       ELSE IF EntryAllowed(ledger, EntryId(w.tool), w.tool, EntryRevision(w.tool))
       THEN /\ ledger' = Entered(ledger, EntryId(w.tool), w.tool, w.at)
            /\ work' = [work EXCEPT ![p].step = "verify", ![p].applied = @ + 1]
            /\ UNCHANGED exit
       ELSE Go(p, "failed") /\ UNCHANGED ledger
    /\ UNCHANGED <<sealed, result>>

EnterFilledFails(p) ==
    LET w == work[p] IN
    /\ AtStep(p, "enter")
    /\ \/ UNCHANGED ledger /\ Go(p, "failed")
       \/ /\ EntryAllowed(ledger, EntryId(w.tool), w.tool, EntryRevision(w.tool))
          /\ ledger' = Entered(ledger, EntryId(w.tool), w.tool, w.at)
          /\ work' = [work EXCEPT ![p].step = "failed", ![p].applied = @ + 1]
          /\ UNCHANGED exit
    /\ UNCHANGED <<sealed, result>>

AfterFailedEntry(p) ==
    /\ AtStep(p, "failed")
    /\ Exit(p, IF RegistrationOnly(ledger, work[p].tool) THEN "16" ELSE "17")
    /\ UNCHANGED <<ledger, sealed, result>>

Verify(p) ==
    /\ AtStep(p, "verify")
    /\ IF Completed(ledger, work[p].tool, work[p].at) /\ sealed
       THEN Go(p, "hash") ELSE Exit(p, "18")
    /\ UNCHANGED <<ledger, sealed, result>>

\* The bytes for output_ledger_sha256, and that there is no result yet.
Hash(p) ==
    /\ AtStep(p, "hash")
    /\ IF result[work[p].tool] # None THEN Exit(p, "10")
       ELSE work' = [work EXCEPT ![p].step = "write", ![p].raw = ledger] /\ UNCHANGED exit
    /\ UNCHANGED <<ledger, sealed, result>>

\* _write_result; a failure may leave the result in place.
Write(p) ==
    LET w == work[p]
        written == [result EXCEPT ![w.tool] = [at |-> w.at, output |-> w.raw]]
    IN  /\ AtStep(p, "write")
        /\ \/ result' = written /\ Exit(p, "COMMITTED")
           \/ result' \in {result, written} /\ Exit(p, "19")
        /\ UNCHANGED <<ledger, sealed>>

DieAtWork(p) ==
    /\ work[p] # None
    /\ work' = [work EXCEPT ![p] = None]
    /\ UNCHANGED <<ledger, sealed, result, exit>>

-----------------------------------------------------------------------------
(* The other users of the ledger and of the control state. *)

OtherUsers ==
    /\ \/ /\ sealed' = FALSE
          /\ UNCHANGED ledger
       \/ \E s \in DOMAIN ledger.signals :
             /\ EntryAllowed(ledger, <<"owner", s>>, s, ledger.revision)
             /\ ledger' = Entered(ledger, <<"owner", s>>, s, None)
             /\ UNCHANGED sealed
       \/ \E s \in DOMAIN ledger.signals :
             /\ TerminalAllowed(ledger, <<"end", s>>, s, "CLOSED_MANUAL", ledger.revision)
             /\ ledger' = Terminated(ledger, <<"end", s>>, s, "CLOSED_MANUAL", None)
             /\ UNCHANGED sealed
    /\ ledger'.revision <= MaxFilledRevision
    /\ UNCHANGED <<result, work, exit>>

FilledNext ==
    \/ \E p \in Operators :
        \/ \E tool \in ToolNames : BeginRun(p, tool)
        \/ ReadRaw(p) \/ Load(p) \/ Replay(p) \/ Check(p)
        \/ LookForRegistration(p) \/ RegisterFilled(p) \/ RegisterFilledFails(p)
        \/ Reload(p) \/ Compare(p)
        \/ EnterFilled(p) \/ EnterFilledFails(p) \/ AfterFailedEntry(p)
        \/ Verify(p) \/ Hash(p) \/ Write(p)
        \/ DieAtWork(p)
    \/ OtherUsers

FilledSpec == FilledInit /\ [][FilledNext]_filledVars

-----------------------------------------------------------------------------
(* Safety. *)

\* A tool's entry is in the ledger only as the change right after its own
\* registration, and both in the ledger the tool was reviewed for: nothing
\* another user does between its two operations gets in between them.
EntryFollowsRegistration ==
    \A tool \in ToolNames :
        EntryId(tool) \in DOMAIN ledger.transitions =>
            LET registration == Publications[tool].transition_id IN
            /\ ledger.transitions[EntryId(tool)].revision = Base(tool) + 2
            /\ registration \in DOMAIN ledger.transitions
            /\ ledger.transitions[registration].revision = Base(tool) + 1

\* An operator may rely on the exit: 15 says the run changed nothing, 16 that
\* the registration is there and this run entered nothing, and 18, 19 and the
\* two successes that both changes are in the ledger.
ExitsAreTrue ==
    \A p \in Operators :
        exit[p] # None =>
            LET tool == exit[p].tool IN
            /\ exit[p].code = "15" => exit[p].applied = 0
            /\ exit[p].code = "16" =>
                  exit[p].applied <= 1 /\ Publications[tool].transition_id
                                              \in DOMAIN ledger.transitions
            /\ exit[p].code \in {"18", "19", "COMMITTED", "VERIFIED_EXACT_REPLAY"} =>
                  /\ Publications[tool].transition_id \in DOMAIN ledger.transitions
                  /\ EntryId(tool) \in DOMAIN ledger.transitions
=============================================================================
