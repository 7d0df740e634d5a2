------------------------- MODULE PublicationService -------------------------
(***************************************************************************)
(* Publishing one signal to one destination: production_signal_service_v1  *)
(* over production_signal_artifact_v1.  A run reads the publication        *)
(* artifact, persists an intent, calls the delivery adapter, persists the  *)
(* completion and reads it back; each access is a step, and processes that *)
(* run the same signal interleave in them, fail in them and crash between  *)
(* them.                                                                   *)
(*                                                                         *)
(* The artifact of other identities is never touched, so one identity is   *)
(* enough.  Of its content the model keeps what two runs of one identity   *)
(* may disagree on: published_at and the receipt.  A receipt is named by   *)
(* the message it is for, since a transport gives every message an id of   *)
(* its own.                                                                *)
(***************************************************************************)
EXTENDS Naturals, FiniteSets

CONSTANTS
    Runners,        \* processes that may run the service
    Times,          \* published_at a run may be given
    MaxRuns,        \* bound on the runs of all of them
    None

Intent    == "DELIVERY_INTENT_PERSISTED"
Succeeded == "DELIVERY_SUCCEEDED"
Failed    == "DELIVERY_FAILED"

VARIABLES
    artifact,       \* the publication file, or None
    locked,         \* is its lock file left behind by a crashed process
    run,            \* [Runners -> the run each is executing, or None]
    answer,         \* [Runners -> what its latest run returned or raised]
    runs,           \* number of runs begun, which also names the latest
    delivered       \* history: runs whose message reached the channel

vars == <<artifact, locked, run, answer, runs, delivered>>

Artifact(state, at, receipt) == [state |-> state, at |-> at, receipt |-> receipt]

Init ==
    /\ artifact = None
    /\ locked = FALSE
    /\ run = [r \in Runners |-> None]
    /\ answer = [r \in Runners |-> None]
    /\ runs = 0
    /\ delivered = {}

At(r, step) == run[r] # None /\ run[r].step = step

Goto(r, step) == run' = [run EXCEPT ![r].step = step] /\ UNCHANGED answer

\* The run ends with the publication's state, or raising an error.
Answer(r, what) ==
    /\ run' = [run EXCEPT ![r] = None]
    /\ answer' = [answer EXCEPT ![r] = what]

-----------------------------------------------------------------------------
(* Reading an artifact that is there already. *)

\* Fault: an unfinished publication is taken up again.
ExistingResultResuming(r) ==
    IF artifact.at # run[r].at THEN Answer(r, "collision")
    ELSE IF artifact.state = Intent THEN Goto(r, "deliver")
    ELSE Answer(r, artifact.state)

ExistingResult(r) ==
    IF artifact.at # run[r].at THEN Answer(r, "collision")
    ELSE IF artifact.state = Intent THEN Answer(r, "unfinished")
    ELSE Answer(r, artifact.state)

Begin(r, at) ==
    /\ run[r] = None
    /\ runs < MaxRuns
    /\ runs' = runs + 1
    /\ run' = [run EXCEPT ![r] = [ number  |-> runs + 1,
                                   at      |-> at,
                                   step    |-> "read",
                                   receipt |-> None,
                                   late    |-> artifact # None ]]
    /\ answer' = [answer EXCEPT ![r] = None]
    /\ UNCHANGED <<artifact, locked, delivered>>

ReadExisting(r) ==
    /\ At(r, "read")
    /\ IF artifact = None THEN Goto(r, "persist") ELSE ExistingResult(r)
    /\ UNCHANGED <<artifact, locked, runs, delivered>>

-----------------------------------------------------------------------------
(* publish_publication_intent, under the lock of the identity. *)

\* It is written, or the very same bytes are there already.
PersistIntent(r) ==
    /\ At(r, "persist")
    /\ ~locked
    /\ artifact \in {None, Artifact(Intent, run[r].at, None)}
    /\ artifact' = Artifact(Intent, run[r].at, None)
    /\ Goto(r, "deliver")
    /\ UNCHANGED <<locked, runs, delivered>>

\* Other bytes are there; the lock cannot be had; a system call fails, be it
\* the fsync of the directory, when the intent is in place.
PersistIntentFails(r) ==
    /\ At(r, "persist")
    /\ \/ UNCHANGED artifact
       \/ artifact = None /\ ~locked /\ artifact' = Artifact(Intent, run[r].at, None)
    /\ Goto(r, "reread")
    /\ UNCHANGED <<locked, runs, delivered>>

Reread(r) ==
    /\ At(r, "reread")
    /\ IF artifact = None THEN Answer(r, "not persisted") ELSE ExistingResult(r)
    /\ UNCHANGED <<artifact, locked, runs, delivered>>

-----------------------------------------------------------------------------
(* The delivery adapter, which is injected: it sends or it does not, and    *)
(* returns a receipt, returns something else, or raises.                   *)

Send(r, sent) ==
    delivered' = IF sent THEN delivered \cup {run[r].number} ELSE delivered

Deliver(r) ==
    /\ At(r, "deliver")
    /\ Send(r, TRUE)
    /\ run' = [run EXCEPT ![r].step = "complete", ![r].receipt = run[r].number]
    /\ UNCHANGED <<artifact, locked, answer, runs>>

\* The adapter raises, a timeout after the message is out included.
DeliveryRaises(r, sent) ==
    /\ At(r, "deliver")
    /\ Send(r, sent)
    /\ Goto(r, "complete")
    /\ UNCHANGED <<artifact, locked, runs>>

\* The receipt is not one for this delivery: the intent is left as it is.
ReceiptRejected(r, sent) ==
    /\ At(r, "deliver")
    /\ Send(r, sent)
    /\ Answer(r, "not completed")
    /\ UNCHANGED <<artifact, locked, runs>>

-----------------------------------------------------------------------------
(* publish_completed_publication, and the final reading. *)

Completion(r) ==
    Artifact(IF run[r].receipt = None THEN Failed ELSE Succeeded,
             run[r].at, run[r].receipt)

\* An intent of the same content is replaced; the same completion may be there.
MayComplete(r) == artifact \in {Artifact(Intent, run[r].at, None), Completion(r)}

Complete(r) ==
    /\ At(r, "complete")
    /\ ~locked
    /\ MayComplete(r)
    /\ artifact' = Completion(r)
    /\ Goto(r, "readback")
    /\ UNCHANGED <<locked, runs, delivered>>

\* Another completion is there; the lock cannot be had; a system call fails,
\* be it the fsync of the directory, when the completion is in place.
CompleteFails(r) ==
    /\ At(r, "complete")
    /\ \/ UNCHANGED artifact
       \/ MayComplete(r) /\ ~locked /\ artifact' = Completion(r)
    /\ Answer(r, "not completed")
    /\ UNCHANGED <<locked, runs, delivered>>

ReadBack(r) ==
    /\ At(r, "readback")
    /\ Answer(r, artifact.state)
    /\ UNCHANGED <<artifact, locked, runs, delivered>>

-----------------------------------------------------------------------------

\* The process dies; inside publish it leaves the lock file, which nothing
\* removes, before or after the artifact is in place.
Crash(r) ==
    /\ run[r] # None
    /\ run' = [run EXCEPT ![r] = None]
    /\ answer' = [answer EXCEPT ![r] = None]
    /\ \/ UNCHANGED <<artifact, locked>>
       \/ /\ At(r, "persist") /\ ~locked
          /\ locked' = TRUE
          /\ \/ UNCHANGED artifact
             \/ artifact = None /\ artifact' = Artifact(Intent, run[r].at, None)
       \/ /\ At(r, "complete") /\ ~locked
          /\ locked' = TRUE
          /\ \/ UNCHANGED artifact
             \/ MayComplete(r) /\ artifact' = Completion(r)
    /\ UNCHANGED <<runs, delivered>>

Next ==
    \E r \in Runners :
        \/ \E at \in Times : Begin(r, at)
        \/ ReadExisting(r)
        \/ PersistIntent(r) \/ PersistIntentFails(r) \/ Reread(r)
        \/ Deliver(r)
        \/ \E sent \in BOOLEAN : DeliveryRaises(r, sent) \/ ReceiptRejected(r, sent)
        \/ Complete(r) \/ CompleteFails(r) \/ ReadBack(r)
        \/ Crash(r)

Spec == Init /\ [][Next]_vars

-----------------------------------------------------------------------------
(* Safety. *)

\* A run that began once an intent was persisted, by a process that crashed, a
\* run that failed or one still at work, delivers nothing: there is no retry.
NoRedelivery ==
    \A r \in Runners :
        run[r] # None /\ run[r].late =>
            run[r].step \in {"read", "persist", "reread"} /\ run[r].number \notin delivered

\* The message is delivered once.
DeliveredOnce == Cardinality(delivered) <= 1
=============================================================================
