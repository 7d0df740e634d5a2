------------------------ MODULE ControlledCycleProofs ------------------------
(***************************************************************************)
(* Theorems about ControlledCycle, for any number of processes, runs and   *)
(* other signals: what the ledger holds was delivered, and no run that     *)
(* finds a publication begun delivers it again.                            *)
(***************************************************************************)
EXTENDS ControlledCycle, LedgerDocumentProofs

CallsMade ==
    [kind : {"cycle", "program", "repair"},
     step : {"publishing", "look", "reserve", "bind"},
     expected : Nat, before : Nat \cup {None},
     request : {Request(at, t) : at \in Times, t \in {"supplied", "derived"}}]

Types ==
    /\ artifact \in Artifacts \cup {None}
    /\ run \in [Runners -> RunRecords \cup {None}]
    /\ DOMAIN answer = Runners
    /\ runs \in 0 .. MaxRuns
    /\ delivered \subseteq 1 .. runs
    /\ call \in [Runners -> CallsMade \cup {None}]

\* The message of the publication at `at` reached the channel, as the artifact
\* says.
Out(at) ==
    /\ artifact # None
    /\ artifact.state = Publication!Succeeded
    /\ artifact.at = at
    /\ artifact.receipt \in delivered

\* What a run has done so far shows in the artifact and in the channel.
RunsSound ==
    \A r \in Runners : run[r] # None =>
        /\ run[r].number <= runs
        /\ \A q \in Runners : run[q] # None /\ run[q].number = run[r].number => q = r
        /\ run[r].receipt # None => run[r].receipt \in delivered
        /\ run[r].step \in {"deliver", "complete", "readback"} =>
              artifact # None /\ artifact.at = run[r].at
        /\ run[r].late =>
              artifact # None /\ run[r].step = "read" /\ run[r].number \notin delivered

\* A success is recorded only of a message with a receipt.
SuccessIsReceived ==
    artifact # None /\ artifact.state = Publication!Succeeded => artifact.receipt \in delivered

\* A call is about the publication of its run, and out when it comes to the ledger.
CallsSound ==
    \A r \in Runners : call[r] # None =>
        IF call[r].step # "publishing" THEN Out(call[r].request.payload)
        ELSE /\ run[r] # None => run[r].at = call[r].request.payload
             /\ run[r] = None /\ answer[r] = Publication!Succeeded =>
                   Out(call[r].request.payload)

\* A document has the signal only as it was published.
Sound(L) ==
    /\ L.revision \in Nat
    /\ \A s \in DOMAIN L.signals :
          /\ IsSignal(L.signals[s])
          /\ s = "signal" => Out(L.signals[s].payload)
    /\ \A x \in DOMAIN L.transactions :
          L.transactions[x].signal_id = "signal" => Out(L.transactions[x].payload)

LedgerSound == Sound(ledger)

CycleInv ==
    /\ Types
    /\ SuccessIsReceived
    /\ RunsSound
    /\ CallsSound
    /\ LedgerSound

USE DEF Artifacts, RunRecords

-----------------------------------------------------------------------------
(* A run advances: what all steps of the publication service have in       *)
(* common.                                                                 *)

\* The artifact is never lost, never of another publication, and final once it
\* says that the delivery succeeded.
ArtifactGrows ==
    artifact # None =>
        /\ artifact' # None
        /\ artifact'.at = artifact.at
        /\ artifact.state = Publication!Succeeded => artifact' = artifact

\* The run of r becomes `new`, or ends when that is None, having sent at most
\* its own message.
Advances(r, new) ==
    /\ run' = [run EXCEPT ![r] = new]
    /\ runs' = runs
    /\ artifact' \in Artifacts \cup {None}
    /\ ArtifactGrows
    /\ delivered \subseteq delivered'
    /\ delivered' \subseteq delivered \cup {run[r].number}
    /\ DOMAIN answer' = Runners
    /\ \A q \in Runners : q # r => answer'[q] = answer[q]

\* A run that goes on has its receipt and its artifact when it needs them.
GoesOn(r, new) ==
    /\ new \in RunRecords
    /\ new.number = run[r].number
    /\ new.at = run[r].at
    /\ ~new.late
    /\ new.receipt # None => new.receipt \in delivered'
    /\ new.step \in {"deliver", "complete", "readback"} =>
          artifact' # None /\ artifact'.at = new.at

\* A run that ends as a success leaves the publication out.
EndsTruly(r) ==
    answer'[r] = Publication!Succeeded => \A at \in Times : at = run[r].at => Out(at)'

LEMMA OutStays ==
    ASSUME ArtifactGrows, delivered \subseteq delivered', NEW at, Out(at)
    PROVE  Out(at)'
  BY DEF ArtifactGrows, Out

\* The receipt of a success that was there before is still received.
LEMMA ReceivedStays ==
    ASSUME SuccessIsReceived, delivered \subseteq delivered', artifact' = artifact
    PROVE  SuccessIsReceived'
  BY DEF SuccessIsReceived

LEMMA AdvanceKeepsInv ==
    ASSUME CycleInv, NEW r \in Runners, run[r] # None, NEW new \in RunRecords \cup {None},
           Advances(r, new), SuccessIsReceived',
           new # None => GoesOn(r, new),
           new = None => EndsTruly(r),
           Calling(r, "publishing"),
           UNCHANGED <<ledger, call>>
    PROVE  CycleInv'
<1> USE DEF Advances
<1>1. \A at : Out(at) => Out(at)'
  BY OutStays
<1>2. run[r] \in RunRecords /\ run[r].number \in 1 .. runs /\ runs \in 0 .. MaxRuns
  BY DEF CycleInv, Types, RunsSound
<1>3. delivered' \subseteq 1 .. runs'
  BY <1>2 DEF CycleInv, Types
<1>4. Types'
  BY <1>3 DEF CycleInv, Types
<1>5. RunsSound'
  <2> SUFFICES ASSUME NEW q \in Runners, run'[q] # None
               PROVE  /\ run'[q].number <= runs'
                      /\ \A p \in Runners :
                            run'[p] # None /\ run'[p].number = run'[q].number => p = q
                      /\ run'[q].receipt # None => run'[q].receipt \in delivered'
                      /\ run'[q].step \in {"deliver", "complete", "readback"} =>
                            artifact' # None /\ artifact'.at = run'[q].at
                      /\ run'[q].late => /\ artifact' # None
                                         /\ run'[q].step = "read"
                                         /\ run'[q].number \notin delivered'
    BY DEF RunsSound
  <2>1. \A p \in Runners : run'[p] = IF p = r THEN new ELSE run[p]
    BY DEF CycleInv, Types
  <2>2. new # None => new.number = run[r].number
    BY DEF GoesOn
  <2>3. CASE q = r
    BY <1>2, <2>1, <2>2, <2>3 DEF CycleInv, RunsSound, GoesOn
  <2>4. CASE q # r
    BY <1>2, <2>1, <2>2, <2>4 DEF CycleInv, RunsSound, ArtifactGrows
  <2> QED BY <2>3, <2>4
<1>6. CallsSound'
  <2> SUFFICES ASSUME NEW q \in Runners, call[q] # None
               PROVE  IF call[q].step # "publishing" THEN Out(call[q].request.payload)'
                      ELSE /\ run'[q] # None => run'[q].at = call[q].request.payload
                           /\ run'[q] = None /\ answer'[q] = Publication!Succeeded =>
                                 Out(call[q].request.payload)'
    BY DEF CallsSound
  <2>1. CASE q = r
    <3>1. /\ run[r].at = call[r].request.payload
          /\ call[r].step = "publishing"
      BY DEF CycleInv, CallsSound, Calling
    <3>2. run'[r] = new
      BY DEF CycleInv, Types
    <3>3. new # None => run'[r].at = call[r].request.payload
      BY <3>1, <3>2 DEF GoesOn
    <3>4. new = None /\ answer'[r] = Publication!Succeeded =>
             Out(call[r].request.payload)'
      <4>1. run[r].at \in Times
        BY DEF CycleInv, Types
      <4> QED BY <3>1, <4>1 DEF EndsTruly
    <3> QED BY <2>1, <3>1, <3>2, <3>3, <3>4
  <2>2. CASE q # r
    <3>1. run'[q] = run[q] /\ answer'[q] = answer[q]
      BY <2>2 DEF CycleInv, Types
    <3> QED BY <1>1, <3>1 DEF CycleInv, CallsSound
  <2> QED BY <2>1, <2>2
<1>7. LedgerSound'
  BY <1>1 DEF CycleInv, LedgerSound, Sound
<1> QED BY <1>4, <1>5, <1>6, <1>7 DEF CycleInv

-----------------------------------------------------------------------------
(* Each step of the publication service. *)

\* What a run becomes that goes to another step.
Moved(r, step, receipt) ==
    [ number |-> run[r].number, at |-> run[r].at, step |-> step, receipt |-> receipt,
      late |-> run[r].late ]

LEMMA GotoMoves ==
    ASSUME Types, NEW r \in Runners, run[r] # None,
           NEW step \in {"persist", "reread", "deliver", "complete", "readback"},
           Publication!Goto(r, step)
    PROVE  /\ Moved(r, step, run[r].receipt) \in RunRecords
           /\ run' = [run EXCEPT ![r] = Moved(r, step, run[r].receipt)]
           /\ answer' = answer
<1>1. run[r] \in RunRecords
  BY DEF Types
<1>2. [run[r] EXCEPT !.step = step] = Moved(r, step, run[r].receipt)
  BY <1>1 DEF Moved
<1>3. Moved(r, step, run[r].receipt) \in RunRecords
  BY <1>1 DEF Moved
<1> QED BY <1>2, <1>3 DEF Publication!Goto

\* A run that is past its first reading began before any intent.
LEMMA LateOnlyReads ==
    ASSUME CycleInv, NEW r \in Runners, run[r] # None, run[r].step # "read"
    PROVE  ~run[r].late
  BY DEF CycleInv, RunsSound, Types

\* A run that ends by answering `what`.
LEMMA AnswerKeepsInv ==
    ASSUME CycleInv, NEW r \in Runners, run[r] # None, Calling(r, "publishing"),
           NEW what, Publication!Answer(r, what),
           artifact' \in Artifacts \cup {None}, ArtifactGrows, SuccessIsReceived',
           delivered \subseteq delivered', delivered' \subseteq delivered \cup {run[r].number},
           what = Publication!Succeeded =>
              artifact' # None /\ artifact'.state = what /\ artifact'.at = run[r].at,
           UNCHANGED <<runs, ledger, call>>
    PROVE  CycleInv'
<1>1. /\ run' = [run EXCEPT ![r] = None]
      /\ DOMAIN answer' = Runners
      /\ answer'[r] = what
      /\ \A q \in Runners : q # r => answer'[q] = answer[q]
  BY DEF Publication!Answer, CycleInv, Types
<1>2. Advances(r, None)
  BY <1>1 DEF Advances
<1>3. EndsTruly(r)
  BY <1>1 DEF EndsTruly, Out, SuccessIsReceived
<1> QED BY <1>2, <1>3, AdvanceKeepsInv

\* A run that goes on to another step.
LEMMA GotoKeepsInv ==
    ASSUME CycleInv, NEW r \in Runners, run[r] # None, Calling(r, "publishing"),
           NEW step \in {"persist", "reread", "deliver", "complete", "readback"},
           Publication!Goto(r, step),
           ~run[r].late,
           artifact' \in Artifacts \cup {None}, ArtifactGrows, SuccessIsReceived',
           delivered \subseteq delivered', delivered' \subseteq delivered \cup {run[r].number},
           step \in {"deliver", "complete", "readback"} =>
              artifact' # None /\ artifact'.at = run[r].at,
           UNCHANGED <<runs, ledger, call>>
    PROVE  CycleInv'
<1> DEFINE new == Moved(r, step, run[r].receipt)
<1>1. /\ new \in RunRecords
      /\ run' = [run EXCEPT ![r] = new]
      /\ answer' = answer
  BY GotoMoves DEF CycleInv
<1>2. Advances(r, new)
  BY <1>1 DEF Advances, CycleInv, Types
<1>3. run[r].receipt # None => run[r].receipt \in delivered
  BY DEF CycleInv, RunsSound
<1>4. GoesOn(r, new)
  BY <1>1, <1>3 DEF GoesOn, Moved
<1>5. new # None
  BY <1>1, CycleAssumption
<1> HIDE DEF new
<1> QED BY <1>1, <1>2, <1>4, <1>5, AdvanceKeepsInv

\* An artifact that stays keeps what is said of it.
LEMMA SameArtifact ==
    ASSUME CycleInv, artifact' = artifact, delivered \subseteq delivered'
    PROVE  /\ artifact' \in Artifacts \cup {None}
           /\ ArtifactGrows
           /\ SuccessIsReceived'
  BY ReceivedStays DEF CycleInv, Types, ArtifactGrows

\* Reading an existing artifact ends the run.
LEMMA ExistingKeepsInv ==
    ASSUME CycleInv, NEW r \in Runners, run[r] # None, Calling(r, "publishing"),
           artifact # None, Publication!ExistingResult(r),
           UNCHANGED <<artifact, runs, delivered, ledger, call>>
    PROVE  CycleInv'
<1>1. PICK what :
          /\ Publication!Answer(r, what)
          /\ what = Publication!Succeeded =>
                artifact.state = what /\ artifact.at = run[r].at
  BY DEF Publication!ExistingResult, Publication!Succeeded
<1> QED BY <1>1, SameArtifact, AnswerKeepsInv

LEMMA ReadKeepsInv ==
    ASSUME CycleInv, NEW r \in Runners, Calling(r, "publishing"),
           Publication!ReadExisting(r) \/ Publication!Reread(r),
           UNCHANGED <<ledger, call>>
    PROVE  CycleInv'
<1>1. /\ run[r] # None
      /\ UNCHANGED <<artifact, runs, delivered>>
  BY DEF Publication!ReadExisting, Publication!Reread, Publication!At
<1>2. CASE artifact # None
  BY <1>1, <1>2, ExistingKeepsInv DEF Publication!ReadExisting, Publication!Reread
<1>3. CASE artifact = None /\ Publication!ReadExisting(r)
  <2>1. Publication!Goto(r, "persist") /\ ~run[r].late
    BY <1>1, <1>3 DEF Publication!ReadExisting, CycleInv, RunsSound, Types
  <2> QED BY <1>1, <2>1, SameArtifact, GotoKeepsInv
<1>4. CASE artifact = None /\ Publication!Reread(r)
  <2>1. Publication!Answer(r, "not persisted")
    BY <1>4 DEF Publication!Reread
  <2> QED BY <1>1, <2>1, SameArtifact, AnswerKeepsInv DEF Publication!Succeeded
<1> QED BY <1>2, <1>3, <1>4

\* An intent that is written, or is there already, is of this publication.
LEMMA IntentGrows ==
    ASSUME CycleInv, NEW r \in Runners, run[r] # None,
           artifact \in {None, Publication!Artifact(Publication!Intent, run[r].at, None)},
           artifact' = Publication!Artifact(Publication!Intent, run[r].at, None)
    PROVE  /\ artifact' \in Artifacts
           /\ artifact' # None
           /\ artifact'.at = run[r].at
           /\ ArtifactGrows
           /\ SuccessIsReceived'
<1>1. run[r].at \in Times
  BY DEF CycleInv, Types
<1>2. artifact' \in Artifacts /\ artifact'.at = run[r].at
      /\ artifact'.state # Publication!Succeeded
  BY <1>1 DEF Publication!Artifact, Publication!Intent, Publication!Succeeded
<1>3. artifact' # None
  BY <1>2, CycleAssumption
<1>4. ArtifactGrows
  BY <1>3 DEF ArtifactGrows
<1> QED BY <1>2, <1>3, <1>4 DEF SuccessIsReceived

LEMMA PersistKeepsInv ==
    ASSUME CycleInv, NEW r \in Runners, Calling(r, "publishing"),
           Publication!PersistIntent(r) \/ Publication!PersistIntentFails(r),
           UNCHANGED <<ledger, call>>
    PROVE  CycleInv'
<1>1. /\ run[r] # None
      /\ ~run[r].late
      /\ UNCHANGED <<runs, delivered>>
  BY LateOnlyReads
     DEF Publication!PersistIntent, Publication!PersistIntentFails, Publication!At
<1>2. CASE artifact' = artifact /\ Publication!PersistIntentFails(r)
  <2>1. Publication!Goto(r, "reread")
    BY <1>2 DEF Publication!PersistIntentFails
  <2> QED BY <1>1, <1>2, <2>1, SameArtifact, GotoKeepsInv
<1>3. CASE /\ artifact \in {None, Publication!Artifact(Publication!Intent, run[r].at, None)}
           /\ artifact' = Publication!Artifact(Publication!Intent, run[r].at, None)
  <2>1. PICK step \in {"deliver", "reread"} : Publication!Goto(r, step)
    BY DEF Publication!PersistIntent, Publication!PersistIntentFails
  <2> QED BY <1>1, <1>3, <2>1, IntentGrows, GotoKeepsInv
<1> QED BY <1>2, <1>3 DEF Publication!PersistIntent, Publication!PersistIntentFails

\* The adapter sends the message of this run, or does not.
LEMMA DeliverKeepsInv ==
    ASSUME CycleInv, NEW r \in Runners, Calling(r, "publishing"),
           \/ Publication!Deliver(r)
           \/ \E sent \in BOOLEAN :
                 Publication!DeliveryRaises(r, sent) \/ Publication!ReceiptRejected(r, sent),
           UNCHANGED <<ledger, call>>
    PROVE  CycleInv'
<1>1. /\ run[r] # None
      /\ run[r].step = "deliver"
      /\ ~run[r].late
      /\ run[r].number \in 1 .. MaxRuns
      /\ artifact # None /\ artifact.at = run[r].at
      /\ UNCHANGED <<artifact, runs>>
      /\ delivered \subseteq delivered'
      /\ delivered' \subseteq delivered \cup {run[r].number}
  <2>1. /\ run[r] # None
        /\ run[r].step = "deliver"
        /\ UNCHANGED <<artifact, runs>>
        /\ delivered' \in {delivered, delivered \cup {run[r].number}}
    BY DEF Publication!Deliver, Publication!DeliveryRaises, Publication!ReceiptRejected,
           Publication!At, Publication!Send
  <2>2. run[r].number \in 1 .. MaxRuns
    BY <2>1 DEF CycleInv, Types
  <2> QED BY <2>1, <2>2, LateOnlyReads DEF CycleInv, RunsSound
<1>2. CASE Publication!Deliver(r)
  <2> DEFINE new == Moved(r, "complete", run[r].number)
  <2>1. /\ run' = [run EXCEPT ![r] = new]
        /\ new \in RunRecords
    <3>1. run[r] \in RunRecords
      BY <1>1 DEF CycleInv, Types
    <3>2. [run[r] EXCEPT !.step = "complete", !.receipt = run[r].number] = new
      <4>1. [run[r] EXCEPT !.step = "complete"] = Moved(r, "complete", run[r].receipt)
        BY <3>1 DEF Moved
      <4>2. [Moved(r, "complete", run[r].receipt) EXCEPT !.receipt = run[r].number] = new
        BY DEF Moved
      <4> QED BY <4>1, <4>2
    <3>3. new \in RunRecords
      BY <1>1, <3>1 DEF Moved
    <3> HIDE DEF new
    <3> QED BY <1>2, <3>2, <3>3 DEF Publication!Deliver
  <2>2. Advances(r, new)
    <3> HIDE DEF new
    <3> QED BY <1>1, <1>2, <2>1, SameArtifact
            DEF Advances, Publication!Deliver, CycleInv, Types
  <2>3. run[r].number \in delivered'
    BY <1>2 DEF Publication!Deliver, Publication!Send
  <2>4. GoesOn(r, new)
    BY <1>1, <2>1, <2>3 DEF GoesOn, Moved
  <2>5. new # None
    BY <2>1, CycleAssumption
  <2> HIDE DEF new
  <2> QED BY <1>1, <2>1, <2>2, <2>4, <2>5, SameArtifact, AdvanceKeepsInv
<1>3. CASE \E sent \in BOOLEAN : Publication!DeliveryRaises(r, sent)
  <2>1. Publication!Goto(r, "complete")
    BY <1>3 DEF Publication!DeliveryRaises
  <2> QED BY <1>1, <2>1, SameArtifact, GotoKeepsInv
<1>4. CASE \E sent \in BOOLEAN : Publication!ReceiptRejected(r, sent)
  <2>1. Publication!Answer(r, "not completed")
    BY <1>4 DEF Publication!ReceiptRejected
  <2> QED BY <1>1, <2>1, SameArtifact, AnswerKeepsInv DEF Publication!Succeeded
<1> QED BY <1>2, <1>3, <1>4

\* A completion replaces the intent of its publication, or itself.
LEMMA CompletionGrows ==
    ASSUME CycleInv, NEW r \in Runners, run[r] # None,
           Publication!MayComplete(r), artifact' = Publication!Completion(r),
           delivered' = delivered
    PROVE  /\ artifact' \in Artifacts
           /\ artifact' # None
           /\ artifact'.at = run[r].at
           /\ ArtifactGrows
           /\ SuccessIsReceived'
<1>1. /\ run[r] \in RunRecords
      /\ run[r].receipt # None => run[r].receipt \in delivered
  BY DEF CycleInv, Types, RunsSound
<1>2. /\ artifact' \in Artifacts
      /\ artifact'.at = run[r].at
      /\ artifact'.state = Publication!Succeeded => artifact'.receipt \in delivered
  BY <1>1 DEF Publication!Completion, Publication!Artifact, Publication!Succeeded,
              Publication!Failed
<1>3. artifact' # None
  BY <1>2, CycleAssumption
<1>4. ArtifactGrows
  BY <1>2, <1>3
     DEF ArtifactGrows, Publication!MayComplete, Publication!Artifact, Publication!Intent,
         Publication!Succeeded
<1> QED BY <1>2, <1>3, <1>4 DEF SuccessIsReceived

LEMMA CompleteKeepsInv ==
    ASSUME CycleInv, NEW r \in Runners, Calling(r, "publishing"),
           Publication!Complete(r) \/ Publication!CompleteFails(r) \/ Publication!ReadBack(r),
           UNCHANGED <<ledger, call>>
    PROVE  CycleInv'
<1>1. /\ run[r] # None
      /\ ~run[r].late
      /\ UNCHANGED <<runs, delivered>>
      /\ artifact # None
      /\ artifact.at = run[r].at
  <2>1. run[r] # None /\ run[r].step \in {"complete", "readback"} /\ UNCHANGED <<runs, delivered>>
    BY DEF Publication!Complete, Publication!CompleteFails, Publication!ReadBack,
           Publication!At
  <2> QED BY <2>1, LateOnlyReads DEF CycleInv, RunsSound
<1>2. CASE Publication!Complete(r)
  <2>1. /\ Publication!MayComplete(r)
        /\ artifact' = Publication!Completion(r)
        /\ Publication!Goto(r, "readback")
    BY <1>2 DEF Publication!Complete
  <2> QED BY <1>1, <2>1, CompletionGrows, GotoKeepsInv
<1>3. CASE Publication!CompleteFails(r)
  <2>1. /\ Publication!Answer(r, "not completed")
        /\ artifact' = artifact \/ /\ Publication!MayComplete(r)
                                   /\ artifact' = Publication!Completion(r)
    BY <1>3 DEF Publication!CompleteFails
  <2> QED BY <1>1, <2>1, SameArtifact, CompletionGrows, AnswerKeepsInv
          DEF Publication!Succeeded
<1>4. CASE Publication!ReadBack(r)
  <2>1. Publication!Answer(r, artifact.state) /\ artifact' = artifact
    BY <1>4 DEF Publication!ReadBack
  <2> QED BY <1>1, <2>1, SameArtifact, AnswerKeepsInv
<1> QED BY <1>2, <1>3, <1>4

-----------------------------------------------------------------------------
(* Calls begin, end and die. *)

LEMMA BeginKeepsInv ==
    ASSUME CycleInv, NEW r \in Runners, NEW kind \in {"cycle", "program"},
           NEW at \in Times, Begin(r, kind, at)
    PROVE  CycleInv'
<1> DEFINE new == [ number |-> runs + 1, at |-> at, step |-> "read", receipt |-> None,
                    late |-> artifact # None ]
           opened == Opened(kind, at, TransitionOf(kind), "publishing")
<1>1. /\ run[r] = None
      /\ call[r] = None
      /\ run' = [run EXCEPT ![r] = new]
      /\ answer' = [answer EXCEPT ![r] = None]
      /\ runs' = runs + 1
      /\ call' = [call EXCEPT ![r] = opened]
      /\ UNCHANGED <<artifact, delivered, ledger>>
  BY DEF Begin, Publication!Begin
<1>2. /\ runs \in 0 .. MaxRuns
      /\ runs + 1 \in 1 .. MaxRuns
      /\ delivered \subseteq 1 .. runs
  BY CycleAssumption DEF Begin, Publication!Begin, CycleInv, Types
<1>3. new \in RunRecords /\ new # None
  <2>1. (artifact # None) \in BOOLEAN
    OBVIOUS
  <2>2. new \in RunRecords
    BY <1>2, <2>1
  <2> QED BY <2>2, CycleAssumption
<1>4. /\ opened \in CallsMade
      /\ opened.step = "publishing"
      /\ opened.request.payload = at
  BY DEF Opened, CallsMade, TransitionOf, Request, CycleInv, LedgerSound, Sound
<1>5. /\ new.number = runs + 1 /\ new.at = at /\ new.step = "read" /\ new.receipt = None
      /\ new.late => artifact # None
  OBVIOUS
<1> HIDE DEF new, opened
<1>6. Types'
  <2>1. delivered' \subseteq 1 .. runs'
    BY <1>1, <1>2
  <2>2. runs' \in 0 .. MaxRuns
    BY <1>1, <1>2
  <2> QED BY <1>1, <1>3, <1>4, <2>1, <2>2 DEF CycleInv, Types
<1>7. SuccessIsReceived' /\ LedgerSound'
  BY <1>1 DEF CycleInv, SuccessIsReceived, LedgerSound, Sound, Out
<1>8. \A q \in Runners : /\ run'[q] = IF q = r THEN new ELSE run[q]
                         /\ q # r => answer'[q] = answer[q] /\ call'[q] = call[q]
  BY <1>1 DEF CycleInv, Types
<1>9. RunsSound'
  <2>1. \A q \in Runners : run[q] # None => run[q].number <= runs /\ run[q].number \in Nat
    BY CycleAssumption DEF CycleInv, RunsSound, Types
  <2>2. runs + 1 \notin delivered
    BY <1>2
  <2> QED BY <1>1, <1>2, <1>5, <1>8, <2>1, <2>2 DEF CycleInv, RunsSound
<1>10. CallsSound'
  <2>1. call'[r] = opened
    BY <1>1 DEF CycleInv, Types
  <2> QED BY <1>1, <1>3, <1>4, <1>5, <1>8, <2>1 DEF CycleInv, CallsSound, Out
<1> QED BY <1>6, <1>7, <1>9, <1>10 DEF CycleInv

\* A call that does not touch the publication moves on or ends.
LEMMA CallKeepsInv ==
    ASSUME CycleInv, NEW r \in Runners, NEW new \in CallsMade \cup {None},
           call' = [call EXCEPT ![r] = new],
           new # None => new.step # "publishing" /\ Out(new.request.payload),
           Sound(ledger'),
           UNCHANGED publicationVars
    PROVE  CycleInv'
<1>1. \A at : Out(at)' <=> Out(at)
  BY DEF publicationVars, Out
<1>2. Types' /\ SuccessIsReceived' /\ RunsSound'
  BY DEF CycleInv, Types, SuccessIsReceived, RunsSound, publicationVars
<1>3. LedgerSound'
  BY <1>1 DEF LedgerSound, Sound
<1>4. CallsSound'
  BY <1>1 DEF CycleInv, Types, CallsSound, publicationVars
<1> QED BY <1>2, <1>3, <1>4 DEF CycleInv

\* The call of r at another step, what it expects and read included.
Stepped(r, step, expected, before) ==
    [ kind |-> call[r].kind, step |-> step, expected |-> expected, before |-> before,
      request |-> call[r].request ]

LEMMA CallFields ==
    ASSUME CycleInv, NEW r \in Runners, call[r] # None
    PROVE  /\ call[r] = Stepped(r, call[r].step, call[r].expected, call[r].before)
           /\ call[r].expected \in Nat
           /\ call[r].before \in Nat \cup {None}
  BY DEF CycleInv, Types, CallsMade, Stepped

LEMMA SteppedIsCall ==
    ASSUME CycleInv, NEW r \in Runners, call[r] # None,
           NEW step, step = "look" \/ step = "reserve" \/ step = "bind",
           NEW expected, expected \in Nat,
           NEW before, before \in Nat \cup {None}
    PROVE  /\ Stepped(r, step, expected, before) \in CallsMade
           /\ Stepped(r, step, expected, before).step = step
           /\ Stepped(r, step, expected, before).request = call[r].request
  BY DEF CycleInv, Types, CallsMade, Stepped

\* What the assignments to fields of a call make of it.
LEMMA FieldsAssigned ==
    ASSUME CycleInv, NEW r \in Runners, call[r] # None, NEW step, NEW expected, NEW before
    PROVE  /\ [call[r] EXCEPT !.step = step] =
                 Stepped(r, step, call[r].expected, call[r].before)
           /\ [call[r] EXCEPT !.step = step, !.expected = expected] =
                 Stepped(r, step, expected, call[r].before)
           /\ [call[r] EXCEPT !.step = step, !.before = before] =
                 Stepped(r, step, call[r].expected, before)
<1>1. call[r] = Stepped(r, call[r].step, call[r].expected, call[r].before)
  BY CallFields
<1>2. [call[r] EXCEPT !.step = step] = Stepped(r, step, call[r].expected, call[r].before)
  BY <1>1 DEF Stepped
<1>3. [Stepped(r, step, call[r].expected, call[r].before) EXCEPT !.expected = expected] =
         Stepped(r, step, expected, call[r].before)
  BY DEF Stepped
<1>4. [Stepped(r, step, call[r].expected, call[r].before) EXCEPT !.before = before] =
         Stepped(r, step, call[r].expected, before)
  BY DEF Stepped
<1> QED BY <1>2, <1>3, <1>4

\* A call that reports is over, and leaves a sound ledger.
LEMMA ReportKeepsInv ==
    ASSUME CycleInv, NEW r \in Runners, NEW what, Report(r, what), Sound(ledger'),
           UNCHANGED publicationVars
    PROVE  CycleInv'
  BY CallKeepsInv DEF Report

\* A call whose publication is out reports, or goes on to bind the message.
LEMMA RegistrationKeepsInv ==
    ASSUME CycleInv, NEW r \in Runners, call[r] # None, call[r].step # "publishing",
           NEW result, Registration(r, result), Sound(ledger'),
           UNCHANGED publicationVars
    PROVE  CycleInv'
<1>1. CASE \E what : Report(r, what)
  BY <1>1, ReportKeepsInv
<1>2. CASE call' = [call EXCEPT ![r].step = "bind"]
  <2> DEFINE new == Stepped(r, "bind", call[r].expected, call[r].before)
  <2>1. new \in CallsMade /\ new.step = "bind" /\ new.request = call[r].request
    BY CallFields, SteppedIsCall
  <2>2. call' = [call EXCEPT ![r] = new]
    BY <1>2, FieldsAssigned
  <2>3. Out(call[r].request.payload)
    BY DEF CycleInv, CallsSound
  <2> HIDE DEF new
  <2> QED BY <2>1, <2>2, <2>3, CallKeepsInv
<1> QED BY <1>1, <1>2 DEF Registration

LEMMA RepairKeepsInv ==
    ASSUME CycleInv, NEW r \in Runners, NEW kind \in {"cycle", "program"},
           BeginRepair(r, TransitionOf(kind))
    PROVE  CycleInv'
<1> DEFINE new == Opened("repair", artifact.at, TransitionOf(kind), "look")
<1>1. /\ call' = [call EXCEPT ![r] = new]
      /\ artifact # None
      /\ artifact.state = Publication!Succeeded
      /\ UNCHANGED <<publicationVars, ledger>>
  BY DEF BeginRepair
<1>2. /\ new \in CallsMade
      /\ new.step = "look"
      /\ new.request.payload = artifact.at
  <2>1. artifact.at \in Times /\ ledger.revision \in Nat
    BY <1>1 DEF CycleInv, Types, LedgerSound, Sound
  <2>2. TransitionOf(kind) \in {"supplied", "derived"}
    BY DEF TransitionOf
  <2>3. Request(artifact.at, TransitionOf(kind)) \in
            {Request(at, t) : at \in Times, t \in {"supplied", "derived"}}
    BY <2>1, <2>2
  <2>4. new \in CallsMade /\ new.step = "look"
    BY <2>1, <2>3 DEF Opened, CallsMade
  <2>5. new.request.payload = artifact.at
    BY DEF Opened, Request
  <2> QED BY <2>4, <2>5
<1>3. Out(artifact.at)
  BY <1>1 DEF Out, CycleInv, SuccessIsReceived
<1> HIDE DEF new
<1> QED BY <1>1, <1>2, <1>3, CallKeepsInv DEF CycleInv, LedgerSound

LEMMA PublishedKeepsInv ==
    ASSUME CycleInv, NEW r \in Runners, Published(r)
    PROVE  CycleInv'
<1>1. /\ call[r] # None
      /\ call[r].step = "publishing"
      /\ run[r] = None
      /\ UNCHANGED <<publicationVars, ledger>>
  BY DEF Published, Calling
<1>2. Sound(ledger')
  BY <1>1 DEF CycleInv, LedgerSound
<1>3. CASE \E what : Report(r, what)
  BY <1>1, <1>2, <1>3, ReportKeepsInv
<1>4. CASE /\ Confirmed(answer[r])
           /\ call' = [call EXCEPT ![r].step = "look",
                                   ![r].expected = IF call[r].kind = "program"
                                                   THEN ledger.revision ELSE @]
  <2> DEFINE expected == IF call[r].kind = "program" THEN ledger.revision
                         ELSE call[r].expected
             new == Stepped(r, "look", expected, call[r].before)
  <2>1. expected \in Nat /\ call[r].before \in Nat \cup {None}
    BY <1>1, CallFields DEF CycleInv, LedgerSound, Sound
  <2> HIDE DEF expected
  <2>2. new \in CallsMade /\ new.step = "look" /\ new.request = call[r].request
    BY <1>1, <2>1, SteppedIsCall
  <2>3. call' = [call EXCEPT ![r] = new]
    <3>1. [call[r] EXCEPT !.step = "look", !.expected = expected] = new
      BY <1>1, FieldsAssigned
    <3> HIDE DEF new
    <3> QED BY <1>4, <3>1 DEF expected
  <2>4. Out(call[r].request.payload)
    BY <1>1, <1>4 DEF CycleInv, CallsSound, Confirmed
  <2> HIDE DEF new
  <2> QED BY <1>1, <1>2, <2>2, <2>3, <2>4, CallKeepsInv
<1> QED BY <1>3, <1>4 DEF Published

-----------------------------------------------------------------------------
(* The ledger. *)

\* A commit writes the signal as its transaction has it.
LEMMA CommitIsSound ==
    ASSUME NEW L, Sound(L), NEW q, NEW state, NEW id \in DOMAIN L.transactions,
           L.transactions[id] = TransactionOf(q, state),
           q.signal_id = "signal" => Out(q.payload)
    PROVE  Sound(CommitOccupancy(L, id))
<1> DEFINE x == L.transactions[id]
           document == CommitOccupancy(L, id)
<1>1. x.signal_id = "signal" => Out(x.payload)
  BY DEF TransactionOf
<1>2. /\ IsSignal(PublishedSignal(x))
      /\ PublishedSignal(x).payload = x.payload
  BY DEF IsSignal, PublishedSignal
<1>3. /\ DOMAIN document.signals = DOMAIN L.signals \cup {x.signal_id}
      /\ \A s \in DOMAIN document.signals :
            document.signals[s] = IF s = x.signal_id THEN PublishedSignal(x)
                                  ELSE L.signals[s]
  BY DEF CommitOccupancy, Put
<1>4. /\ DOMAIN document.transactions = DOMAIN L.transactions \cup {id}
      /\ \A y \in DOMAIN document.transactions :
            document.transactions[y] = IF y = id THEN [x EXCEPT !.state = Committed]
                                       ELSE L.transactions[y]
  BY DEF CommitOccupancy, Put
<1>5. /\ [x EXCEPT !.state = Committed].signal_id = x.signal_id
      /\ [x EXCEPT !.state = Committed].payload = x.payload
  <2>1. x = TransactionOf(q, state)
    OBVIOUS
  <2> HIDE DEF x
  <2> QED BY <2>1 DEF TransactionOf
<1>6. document.revision \in Nat
  BY DEF CommitOccupancy, Sound
<1> HIDE DEF x, document
<1>7. Sound(document)
  BY <1>1, <1>2, <1>3, <1>4, <1>5, <1>6 DEF Sound
<1> QED BY <1>7 DEF document

\* Inserting a transaction that is not committed yet.
LEMMA CandidateIsSound ==
    ASSUME NEW L, Sound(L), NEW q, q.signal_id = "signal" => Out(q.payload)
    PROVE  /\ Sound(WithCandidate(L, q))
           /\ q.transaction_id \in DOMAIN WithCandidate(L, q).transactions
           /\ WithCandidate(L, q).transactions[q.transaction_id] = TransactionOf(q, Prepared)
<1> DEFINE document == WithCandidate(L, q)
<1>1. /\ document.revision = L.revision
      /\ document.signals = L.signals
      /\ DOMAIN document.transactions = DOMAIN L.transactions \cup {q.transaction_id}
      /\ \A x \in DOMAIN document.transactions :
            document.transactions[x] = IF x = q.transaction_id THEN TransactionOf(q, Prepared)
                                       ELSE L.transactions[x]
  BY DEF WithCandidate, Put
<1>2. /\ TransactionOf(q, Prepared).signal_id = q.signal_id
      /\ TransactionOf(q, Prepared).payload = q.payload
  BY DEF TransactionOf
<1> HIDE DEF document
<1>3. Sound(document)
  BY <1>1, <1>2 DEF Sound
<1> QED BY <1>1, <1>3 DEF document

\* Whatever reserve_published_signal returns is sound if its request is.
LEMMA ReservedIsSound ==
    ASSUME NEW L, Sound(L), NEW q, NEW expected, q.signal_id = "signal" => Out(q.payload),
           Reserved(L, q, expected) # None
    PROVE  Sound(Reserved(L, q, expected))
<1>1. \/ /\ ResumeAllowed(L, q)
         /\ Reserved(L, q, expected) = CommitOccupancy(L, q.transaction_id)
      \/ Reserved(L, q, expected) = L
      \/ Reserved(L, q, expected) = PrepareAndCommit(L, q)
  BY DEF Reserved
<1>2. CASE ResumeAllowed(L, q) /\ Reserved(L, q, expected) = CommitOccupancy(L, q.transaction_id)
  <2>1. /\ q.transaction_id \in DOMAIN L.transactions
        /\ L.transactions[q.transaction_id] =
              TransactionOf(q, L.transactions[q.transaction_id].state)
    BY <1>2 DEF ResumeAllowed, ReservationKnown
  <2> QED BY <1>2, <2>1, CommitIsSound
<1>3. CASE Reserved(L, q, expected) = PrepareAndCommit(L, q)
  BY <1>3, CandidateIsSound, CommitIsSound DEF PrepareAndCommit
<1> QED BY <1>1, <1>2, <1>3

\* A signal that moves on keeps its payload.
LEMMA MovedSignalIsSound ==
    ASSUME NEW L, Sound(L), NEW s \in DOMAIN L.signals, NEW M,
           M.revision = L.revision + 1, M.transactions = L.transactions,
           NEW moved, IsSignal(moved), moved.payload = L.signals[s].payload,
           M.signals = Put(L.signals, s, moved)
    PROVE  Sound(M)
<1>1. /\ DOMAIN M.signals = DOMAIN L.signals
      /\ \A t \in DOMAIN M.signals : M.signals[t] = IF t = s THEN moved ELSE L.signals[t]
  BY DEF Put
<1> QED BY <1>1 DEF Sound

LEMMA EnteredIsSound ==
    ASSUME NEW L, Sound(L), NEW s \in DOMAIN L.signals, NEW id, NEW evidence
    PROVE  Sound(Entered(L, id, s, evidence))
<1> DEFINE moved == EnteredSignal(L.signals[s], id)
<1>1. IsSignal(moved) /\ moved.payload = L.signals[s].payload
  <2>1. IsSignal(L.signals[s])
    BY DEF Sound
  <2> QED BY <2>1, MovedIsSignal
<1> HIDE DEF moved
<1>2. /\ Entered(L, id, s, evidence).revision = L.revision + 1
      /\ Entered(L, id, s, evidence).transactions = L.transactions
      /\ Entered(L, id, s, evidence).signals = Put(L.signals, s, moved)
  BY DEF Entered, moved, EnteredSignal
<1> QED BY <1>1, <1>2, MovedSignalIsSound

LEMMA TerminatedIsSound ==
    ASSUME NEW L, Sound(L), NEW s \in DOMAIN L.signals, NEW id, NEW state, NEW evidence
    PROVE  Sound(Terminated(L, id, s, state, evidence))
<1> DEFINE moved == EndedSignal(L.signals[s], state, evidence, id)
<1>1. IsSignal(moved) /\ moved.payload = L.signals[s].payload
  <2>1. IsSignal(L.signals[s])
    BY DEF Sound
  <2> QED BY <2>1, MovedIsSignal
<1> HIDE DEF moved
<1>2. /\ Terminated(L, id, s, state, evidence).revision = L.revision + 1
      /\ Terminated(L, id, s, state, evidence).transactions = L.transactions
      /\ Terminated(L, id, s, state, evidence).signals = Put(L.signals, s, moved)
  BY DEF Terminated, moved, EndedSignal
<1> QED BY <1>1, <1>2, MovedSignalIsSound

LEMMA RegisteringKeepsInv ==
    ASSUME CycleInv, NEW r \in Runners, Look(r) \/ Reserve(r) \/ RegistrationFails(r)
    PROVE  CycleInv'
<1>1. /\ call[r] # None
      /\ call[r].step \in {"look", "reserve"}
      /\ UNCHANGED publicationVars
  BY DEF Look, Reserve, RegistrationFails, Calling
<1>2. Out(call[r].request.payload)
  BY <1>1 DEF CycleInv, CallsSound
<1>3. Sound(ledger)
  BY DEF CycleInv, LedgerSound
<1>4. \A expected : Reserved(ledger, call[r].request, expected) # None =>
                      Sound(Reserved(ledger, call[r].request, expected))
  BY <1>2, <1>3, ReservedIsSound
<1>5. Sound(ledger')
  BY <1>3, <1>4 DEF Look, Reserve, RegistrationFails
<1>6. CASE \E result : Registration(r, result)
  BY <1>1, <1>5, <1>6, RegistrationKeepsInv
<1>7. CASE call' = [call EXCEPT ![r].step = "reserve", ![r].before = ledger.revision]
  <2> DEFINE new == Stepped(r, "reserve", call[r].expected, ledger.revision)
  <2>1. new \in CallsMade /\ new.step = "reserve" /\ new.request = call[r].request
    BY <1>1, <1>3, CallFields, SteppedIsCall DEF Sound
  <2>2. call' = [call EXCEPT ![r] = new]
    <3> DEFINE before == ledger.revision
    <3>1. call' = [call EXCEPT ![r].step = "reserve", ![r].before = before]
      BY <1>7
    <3> HIDE DEF before
    <3>2. [call[r] EXCEPT !.step = "reserve", !.before = before] =
             Stepped(r, "reserve", call[r].expected, before)
      <4>1. [call[r] EXCEPT !.step = "reserve"] =
               Stepped(r, "reserve", call[r].expected, call[r].before)
        BY <1>1, FieldsAssigned
      <4>2. [Stepped(r, "reserve", call[r].expected, call[r].before) EXCEPT !.before = before] =
               Stepped(r, "reserve", call[r].expected, before)
        BY DEF Stepped
      <4> QED BY <4>1, <4>2
    <3>3. call' = [call EXCEPT ![r] = Stepped(r, "reserve", call[r].expected, before)]
      BY <3>1, <3>2
    <3> QED BY <3>3 DEF before
  <2> HIDE DEF new
  <2> QED BY <1>1, <1>2, <1>5, <2>1, <2>2, CallKeepsInv
<1> QED BY <1>6, <1>7 DEF Look, Reserve, RegistrationFails

LEMMA BindKeepsInv ==
    ASSUME CycleInv, NEW r \in Runners, Bind(r)
    PROVE  CycleInv'
  BY ReportKeepsInv DEF Bind, CycleInv, LedgerSound

\* A process dies outside the publication service, or in it.
LEMMA DieKeepsInv ==
    ASSUME CycleInv, NEW r \in Runners, Die(r)
    PROVE  CycleInv'
<1>1. call' = [call EXCEPT ![r] = None] /\ ledger' = ledger
  BY DEF Die
<1>2. CASE UNCHANGED publicationVars
  BY <1>1, <1>2, CallKeepsInv DEF CycleInv, LedgerSound
<1>3. CASE Publication!Crash(r)
  <2>1. /\ run[r] # None
        /\ run' = [run EXCEPT ![r] = None]
        /\ answer' = [answer EXCEPT ![r] = None]
        /\ UNCHANGED <<runs, delivered>>
    BY <1>3 DEF Publication!Crash
  <2>2. /\ artifact' \in Artifacts \cup {None}
        /\ ArtifactGrows
        /\ SuccessIsReceived'
    <3>1. CASE artifact' = artifact
      BY <2>1, <3>1, SameArtifact
    <3>2. CASE artifact = None
               /\ artifact' = Publication!Artifact(Publication!Intent, run[r].at, None)
      BY <2>1, <3>2, IntentGrows
    <3>3. CASE Publication!MayComplete(r) /\ artifact' = Publication!Completion(r)
      BY <2>1, <3>3, CompletionGrows
    <3> QED BY <1>3, <3>1, <3>2, <3>3 DEF Publication!Crash
  <2>3. \A at : Out(at) => Out(at)'
    BY <2>1, <2>2, OutStays
  <2>4. \A q \in Runners :
            IF q = r THEN run'[q] = None /\ call'[q] = None
            ELSE run'[q] = run[q] /\ answer'[q] = answer[q] /\ call'[q] = call[q]
    BY <1>1, <2>1 DEF CycleInv, Types
  <2>5. Types'
    BY <1>1, <2>1, <2>2 DEF CycleInv, Types
  <2>6. RunsSound'
    BY <2>1, <2>2, <2>4 DEF CycleInv, RunsSound, ArtifactGrows
  <2>7. CallsSound'
    BY <2>3, <2>4 DEF CycleInv, CallsSound
  <2>8. LedgerSound'
    BY <1>1, <2>3 DEF CycleInv, LedgerSound, Sound
  <2> QED BY <2>2, <2>5, <2>6, <2>7, <2>8 DEF CycleInv
<1> QED BY <1>2, <1>3 DEF Die

\* Other signals come and all of them move on.
LEMMA OthersKeepInv ==
    ASSUME CycleInv, Others
    PROVE  CycleInv'
<1>1. Sound(ledger)
  BY DEF CycleInv, LedgerSound
<1>2. Sound(ledger')
  <2>1. CASE \E q \in OtherRequests :
               /\ Reserved(ledger, q, ledger.revision) # None
               /\ ledger' = Reserved(ledger, q, ledger.revision)
    BY <1>1, <2>1, DigestAssumption, ReservedIsSound
  <2>2. CASE \E s \in DOMAIN ledger.signals : ledger' = Entered(ledger, <<"entry", s>>, s, None)
    BY <1>1, <2>2, EnteredIsSound
  <2>3. CASE \E s \in DOMAIN ledger.signals :
               ledger' = Terminated(ledger, <<"end", s>>, s, "CLOSED_PROFIT", None)
    BY <1>1, <2>3, TerminatedIsSound
  <2> QED BY <2>1, <2>2, <2>3 DEF Others
<1>3. UNCHANGED <<publicationVars, call>>
  BY DEF Others
<1>4. \A at : Out(at)' <=> Out(at)
  BY <1>3 DEF publicationVars, Out
<1>5. LedgerSound'
  BY <1>2, <1>4 DEF LedgerSound, Sound
<1>6. (Types /\ SuccessIsReceived /\ RunsSound /\ CallsSound)'
  BY <1>3, <1>4
     DEF publicationVars, CycleInv, Types, SuccessIsReceived, RunsSound, CallsSound
<1> QED BY <1>5, <1>6 DEF CycleInv

-----------------------------------------------------------------------------
(* The invariant of the publication and the ledger. *)

LEMMA InitialCycleInv == CycleInit => CycleInv
<1> SUFFICES ASSUME CycleInit PROVE CycleInv
  OBVIOUS
<1> USE DEF CycleInit, Publication!Init
<1>1. Types
  BY CycleAssumption DEF Types
<1>2. SuccessIsReceived /\ RunsSound /\ CallsSound
  BY DEF SuccessIsReceived, RunsSound, CallsSound
<1>3. LedgerSound
  BY DEF LedgerSound, Sound, EmptyLedger, NoEntries
<1> QED BY <1>1, <1>2, <1>3 DEF CycleInv

LEMMA PublishingKeepsInv ==
    ASSUME CycleInv, NEW r \in Runners, Publishing(r)
    PROVE  CycleInv'
<1>1. Calling(r, "publishing") /\ UNCHANGED <<ledger, call>>
  BY DEF Publishing
<1> QED BY <1>1, ReadKeepsInv, PersistKeepsInv, DeliverKeepsInv, CompleteKeepsInv
        DEF Publishing

LEMMA CycleStep ==
    ASSUME CycleInv, [CycleNext]_cycleVars
    PROVE  CycleInv'
<1>1. CASE \E r \in Runners, kind \in {"cycle", "program"}, at \in Times : Begin(r, kind, at)
  BY <1>1, BeginKeepsInv
<1>2. CASE \E r \in Runners, kind \in {"cycle", "program"} : BeginRepair(r, TransitionOf(kind))
  BY <1>2, RepairKeepsInv
<1>3. CASE \E r \in Runners : Publishing(r)
  BY <1>3, PublishingKeepsInv
<1>4. CASE \E r \in Runners : Published(r)
  BY <1>4, PublishedKeepsInv
<1>5. CASE \E r \in Runners : Look(r) \/ Reserve(r) \/ RegistrationFails(r)
  BY <1>5, RegisteringKeepsInv
<1>6. CASE \E r \in Runners : Bind(r)
  BY <1>6, BindKeepsInv
<1>7. CASE \E r \in Runners : Die(r)
  BY <1>7, DieKeepsInv
<1>8. CASE Others
  BY <1>8, OthersKeepInv
<1>9. CASE UNCHANGED cycleVars
  BY <1>9 DEF cycleVars, publicationVars, CycleInv, Types, SuccessIsReceived, RunsSound,
              CallsSound, LedgerSound, Sound, Out
<1> QED BY <1>1, <1>2, <1>3, <1>4, <1>5, <1>6, <1>7, <1>8, <1>9 DEF CycleNext

-----------------------------------------------------------------------------
(* The document in the ledger file. *)

RequestIds == {<<"supplied", "signal">>, <<"derived", "signal">>}

\* The ledger is valid, what is in it is committed, and the signal's ids are
\* in it only for the signal.
Fresh(L) ==
    /\ IsFiniteSet(DOMAIN L.signals)
    /\ Valid(L)
    /\ \A s \in DOMAIN L.signals : L.signals[s].delivery_id = "delivery" => s = "signal"
    /\ \A x \in DOMAIN L.transactions :
          /\ L.transactions[x].state = Committed
          /\ IsTransaction(L.transactions[x])
          /\ \A at \in Times :
                x = <<"signal", at>> => L.transactions[x].signal_id = "signal"
    /\ \A t \in DOMAIN L.transitions :
          t \in RequestIds => L.transitions[t].signal_id = "signal"

\* A request uses the signal's ids only if it is the signal's.
OwnIds(q) ==
    q.signal_id # "signal" =>
        /\ q.delivery_id # "delivery"
        /\ \A at \in Times : q.transaction_id # <<"signal", at>>
        /\ q.transition_id \notin RequestIds

\* No transaction is lost or changed.
Keeps(L, M) ==
    \A x \in DOMAIN L.transactions :
        x \in DOMAIN M.transactions /\ M.transactions[x] = L.transactions[x]

\* A document that inserts and commits a request that is new.
LEMMA RegisteredIsFresh ==
    ASSUME NEW L, Fresh(L), NEW q, OwnIds(q), NEW expected,
           ReservationAllowed(L, q, expected)
    PROVE  /\ Fresh(PrepareAndCommit(L, q))
           /\ Keeps(L, PrepareAndCommit(L, q))
<1> DEFINE x == TransactionOf(q, Prepared)
           settled == [x EXCEPT !.state = Committed]
           D == PrepareAndCommit(L, q)
<1>1. /\ IsTransaction(settled)
      /\ settled.state = Committed
      /\ settled.signal_id = q.signal_id
      /\ x.signal_id = q.signal_id
      /\ x.reservation_transition_id = q.transition_id
      /\ PublishedSignal(x).delivery_id = q.delivery_id
  <2>1. /\ IsTransaction(x)
        /\ x.signal_id = q.signal_id
        /\ x.delivery_id = q.delivery_id
        /\ x.reservation_transition_id = q.transition_id
    BY RequestedTransaction
  <2> HIDE DEF x
  <2> QED BY <2>1, SettledTransaction
<1>2. /\ D.transactions = Put(WithCandidate(L, q).transactions, q.transaction_id, settled)
      /\ D.signals = Put(L.signals, x.signal_id, PublishedSignal(x))
      /\ D.transitions = Put(L.transitions, x.reservation_transition_id,
                             ReserveTransition(x.signal_id, L.revision + 1))
  BY DEF PrepareAndCommit, CommitOccupancy, WithCandidate, Put
<1>3. /\ DOMAIN D.transactions = DOMAIN L.transactions \cup {q.transaction_id}
      /\ D.transactions[q.transaction_id] = settled
      /\ \A y \in DOMAIN L.transactions : D.transactions[y] = L.transactions[y]
  <2>1. q.transaction_id \notin DOMAIN L.transactions
    BY DEF ReservationAllowed
  <2> HIDE DEF settled, x, D
  <2> QED BY <1>2, <2>1 DEF WithCandidate, Put
<1>4. /\ DOMAIN D.signals = DOMAIN L.signals \cup {q.signal_id}
      /\ D.signals[q.signal_id].delivery_id = q.delivery_id
      /\ \A s \in DOMAIN L.signals : D.signals[s] = L.signals[s]
  <2>1. q.signal_id \notin DOMAIN L.signals
    BY DEF ReservationAllowed
  <2> HIDE DEF x, D
  <2> QED BY <1>1, <1>2, <2>1 DEF Put
<1>5. \A t \in DOMAIN D.transitions :
          \/ t = q.transition_id /\ D.transitions[t].signal_id = q.signal_id
          \/ t \in DOMAIN L.transitions /\ D.transitions[t] = L.transitions[t]
  <2> HIDE DEF x, D
  <2> QED BY <1>1, <1>2 DEF Put, ReserveTransition
<1>6. Valid(D) /\ IsFiniteSet(DOMAIN D.signals)
  <2>1. IsFiniteSet(DOMAIN L.signals \cup {q.signal_id})
    BY FS_AddElement DEF Fresh
  <2> QED BY <1>4, <2>1, ReservationIsValid DEF Fresh
<1> HIDE DEF x, settled, D
<1>7. \A s \in DOMAIN D.signals : D.signals[s].delivery_id = "delivery" => s = "signal"
  BY <1>4 DEF Fresh, OwnIds
<1>8. \A y \in DOMAIN D.transactions :
          /\ D.transactions[y].state = Committed
          /\ IsTransaction(D.transactions[y])
          /\ \A at \in Times :
                y = <<"signal", at>> => D.transactions[y].signal_id = "signal"
  BY <1>1, <1>3 DEF Fresh, OwnIds
<1>9. \A t \in DOMAIN D.transitions :
          t \in RequestIds => D.transitions[t].signal_id = "signal"
  BY <1>5 DEF Fresh, OwnIds
<1>10. Keeps(L, D)
  BY <1>3 DEF Keeps
<1>11. Fresh(D)
  BY <1>6, <1>7, <1>8, <1>9 DEF Fresh
<1> QED BY <1>10, <1>11 DEF D

\* Whatever reserve_published_signal returns.
LEMMA ReservedIsFresh ==
    ASSUME NEW L, Fresh(L), NEW q, OwnIds(q), NEW expected, Reserved(L, q, expected) # None
    PROVE  /\ Fresh(Reserved(L, q, expected))
           /\ Keeps(L, Reserved(L, q, expected))
<1>1. ~ResumeAllowed(L, q)
  BY DEF Fresh, ResumeAllowed, ReservationKnown, Prepared, Committed
<1>2. \/ Reserved(L, q, expected) = L
      \/ /\ ReservationAllowed(L, q, expected)
         /\ Reserved(L, q, expected) = PrepareAndCommit(L, q)
  BY <1>1 DEF Reserved
<1>3. Keeps(L, L)
  BY DEF Keeps
<1> QED BY <1>2, <1>3, RegisteredIsFresh

\* A signal that moves on stays what it is, under an id of the move's own.
LEMMA MoveIsFresh ==
    ASSUME NEW L, Fresh(L), NEW s \in DOMAIN L.signals, NEW M, Valid(M),
           M.transactions = L.transactions,
           NEW moved, moved.delivery_id = L.signals[s].delivery_id,
           M.signals = Put(L.signals, s, moved),
           NEW id, id \notin RequestIds, NEW move, M.transitions = Put(L.transitions, id, move)
    PROVE  Fresh(M) /\ Keeps(L, M)
<1>1. /\ DOMAIN M.signals = DOMAIN L.signals
      /\ \A t \in DOMAIN L.signals : M.signals[t] = IF t = s THEN moved ELSE L.signals[t]
  BY DEF Put
<1>2. \A t \in DOMAIN M.transitions :
          t \in RequestIds => /\ t \in DOMAIN L.transitions
                              /\ M.transitions[t] = L.transitions[t]
  BY DEF Put
<1>3. Keeps(L, M)
  BY DEF Keeps
<1>4. \A t \in DOMAIN M.signals : M.signals[t].delivery_id = "delivery" => t = "signal"
  BY <1>1 DEF Fresh
<1>5. \A t \in DOMAIN M.transitions :
          t \in RequestIds => M.transitions[t].signal_id = "signal"
  BY <1>2 DEF Fresh
<1> QED BY <1>1, <1>3, <1>4, <1>5 DEF Fresh

LEMMA OthersAreFresh ==
    ASSUME Fresh(ledger), Sound(ledger), Others
    PROVE  Fresh(ledger') /\ Keeps(ledger, ledger')
<1>1. CASE \E q \in OtherRequests :
             /\ Reserved(ledger, q, ledger.revision) # None
             /\ ledger' = Reserved(ledger, q, ledger.revision)
  <2>1. \A q \in OtherRequests : OwnIds(q)
    BY DigestAssumption DEF OwnIds, RequestIds
  <2> QED BY <1>1, <2>1, ReservedIsFresh
<1>2. ASSUME NEW s \in DOMAIN ledger.signals,
             EntryAllowed(ledger, <<"entry", s>>, s, ledger.revision),
             ledger' = Entered(ledger, <<"entry", s>>, s, None)
      PROVE  Fresh(ledger') /\ Keeps(ledger, ledger')
  <2> DEFINE moved == EnteredSignal(ledger.signals[s], <<"entry", s>>)
             move == EntryTransition(s, None, ledger.revision + 1)
  <2>1. IsSignal(ledger.signals[s]) /\ IsFiniteSet(DOMAIN ledger.signals) /\ Valid(ledger)
    BY DEF Sound, Fresh
  <2>2. Valid(ledger')
    BY <1>2, <2>1, EnteredIsValid
  <2>3. moved.delivery_id = ledger.signals[s].delivery_id
    BY <2>1, MovedIsSignal
  <2>4. /\ ledger'.transactions = ledger.transactions
        /\ ledger'.signals = Put(ledger.signals, s, moved)
        /\ ledger'.transitions = Put(ledger.transitions, <<"entry", s>>, move)
    BY <1>2 DEF Entered, EnteredSignal
  <2>5. <<"entry", s>> \notin RequestIds
    BY DEF RequestIds
  <2> HIDE DEF moved, move
  <2> QED BY <2>2, <2>3, <2>4, <2>5, MoveIsFresh
<1>3. ASSUME NEW s \in DOMAIN ledger.signals,
             ledger' = Terminated(ledger, <<"end", s>>, s, "CLOSED_PROFIT", None)
      PROVE  Fresh(ledger') /\ Keeps(ledger, ledger')
  <2> DEFINE moved == EndedSignal(ledger.signals[s], "CLOSED_PROFIT", None, <<"end", s>>)
             move == TerminalTransition(s, ledger.signals[s].state, "CLOSED_PROFIT", None,
                                        ledger.revision + 1)
  <2>1. IsSignal(ledger.signals[s]) /\ IsFiniteSet(DOMAIN ledger.signals) /\ Valid(ledger)
    BY DEF Sound, Fresh
  <2>2. Valid(ledger')
    <3>1. "CLOSED_PROFIT" # EntryActive
      BY DEF EntryActive
    <3> QED BY <1>3, <2>1, <3>1, TerminatedIsValid
  <2>3. moved.delivery_id = ledger.signals[s].delivery_id
    BY <2>1, MovedIsSignal
  <2>4. /\ ledger'.transactions = ledger.transactions
        /\ ledger'.signals = Put(ledger.signals, s, moved)
        /\ ledger'.transitions = Put(ledger.transitions, <<"end", s>>, move)
    BY <1>3 DEF Terminated, EndedSignal
  <2>5. <<"end", s>> \notin RequestIds
    BY DEF RequestIds
  <2> HIDE DEF moved, move
  <2> QED BY <2>2, <2>3, <2>4, <2>5, MoveIsFresh
<1> QED BY <1>1, <1>2, <1>3 DEF Others

\* A call is made for the signal.
LEMMA CallIsOwn ==
    ASSUME CycleInv, NEW r \in Runners, call[r] # None
    PROVE  call[r].request.signal_id = "signal" /\ OwnIds(call[r].request)
  BY DEF CycleInv, Types, CallsMade, Request, OwnIds

\* Every step leaves a fresh ledger fresh, and loses no transaction.
LEMMA LedgerStep ==
    ASSUME CycleInv, Fresh(ledger), [CycleNext]_cycleVars
    PROVE  Fresh(ledger') /\ Keeps(ledger, ledger')
<1>1. CASE ledger' = ledger
  BY <1>1 DEF Keeps
<1>2. CASE Others
  BY <1>2, OthersAreFresh DEF CycleInv, LedgerSound
<1>3. ASSUME NEW r \in Runners, Look(r) \/ Reserve(r) \/ RegistrationFails(r)
      PROVE  Fresh(ledger') /\ Keeps(ledger, ledger')
  <2>1. call[r] # None
    BY <1>3 DEF Look, Reserve, RegistrationFails, Calling
  <2>2. \/ ledger' = ledger
        \/ \E expected : /\ Reserved(ledger, call[r].request, expected) # None
                         /\ ledger' = Reserved(ledger, call[r].request, expected)
    BY <1>3 DEF Look, Reserve, RegistrationFails
  <2> QED BY <1>1, <2>1, <2>2, CallIsOwn, ReservedIsFresh
<1>4. ledger' = ledger \/ Others \/ \E r \in Runners : Look(r) \/ Reserve(r) \/ RegistrationFails(r)
  BY DEF CycleNext, cycleVars, Begin, BeginRepair, Publishing, Published, Bind, Die
<1> QED BY <1>1, <1>2, <1>3, <1>4

-----------------------------------------------------------------------------
(* What is reported. *)

\* The publication at `at` is committed in the document.
CommittedIn(L, at) ==
    \E x \in DOMAIN L.transactions :
        /\ L.transactions[x].signal_id = "signal"
        /\ L.transactions[x].state = Committed
        /\ L.transactions[x].payload = at

\* Who is told that the publication is registered, or goes on to bind its
\* message, finds it committed, and who is told that all is done has bound it.
ReportsSound ==
    /\ DOMAIN reported = Runners
    /\ \A r \in Runners :
          /\ reported[r] \in RegisteredResults \cup {"exit 0"} =>
                /\ artifact # None
                /\ artifact.state = Publication!Succeeded
                /\ CommittedIn(ledger, artifact.at)
          /\ reported[r] = "exit 0" => bound
          /\ call[r] # None /\ call[r].step = "bind" =>
                CommittedIn(ledger, call[r].request.payload)

CommittedStays(L, M) == \A at : CommittedIn(L, at) => CommittedIn(M, at)

LEMMA KeptIsCommitted ==
    ASSUME NEW L, NEW M, Keeps(L, M)
    PROVE  CommittedStays(L, M)
  BY DEF Keeps, CommittedStays, CommittedIn

\* A publication that succeeded is final.
LEMMA SuccessIsFinal ==
    ASSUME CycleInv, [CycleNext]_cycleVars, artifact # None,
           artifact.state = Publication!Succeeded
    PROVE  artifact' = artifact
<1>1. ASSUME NEW r \in Runners, run[r] # None, Publication!MayComplete(r),
             artifact' = Publication!Completion(r)
      PROVE  artifact' = artifact
  BY <1>1 DEF Publication!MayComplete, Publication!Artifact, Publication!Intent,
              Publication!Succeeded
<1>2. ASSUME NEW r \in Runners,
             artifact \in {None, Publication!Artifact(Publication!Intent, run[r].at, None)}
      PROVE  artifact' = artifact
  BY <1>2 DEF Publication!Artifact, Publication!Intent, Publication!Succeeded
<1>3. ASSUME NEW r \in Runners, Publishing(r) PROVE artifact' = artifact
  BY <1>1, <1>2, <1>3
     DEF Publishing, Publication!ReadExisting, Publication!PersistIntent,
         Publication!PersistIntentFails, Publication!Reread, Publication!Deliver,
         Publication!DeliveryRaises, Publication!ReceiptRejected, Publication!Complete,
         Publication!CompleteFails, Publication!ReadBack, Publication!At
<1>4. ASSUME NEW r \in Runners, Die(r) PROVE artifact' = artifact
  BY <1>1, <1>4 DEF Die, Publication!Crash, publicationVars
<1>5. ASSUME NEW r \in Runners, NEW kind, NEW at, Begin(r, kind, at) PROVE artifact' = artifact
  BY <1>5 DEF Begin, Publication!Begin
<1>6. \/ UNCHANGED publicationVars
      \/ \E r \in Runners :
            Publishing(r) \/ Die(r) \/ \E kind, at : Begin(r, kind, at)
  BY DEF CycleNext, cycleVars, BeginRepair, Published, Look, Reserve, RegistrationFails,
         Bind, Others
<1> QED BY <1>3, <1>4, <1>5, <1>6 DEF publicationVars

\* A result that registers is one of the two that settle, or a repair's.
LEMMA ClassifiedIsCommitted ==
    ASSUME NEW L, NEW q, q.signal_id = "signal", NEW before, NEW repair,
           Classification(before, L, q, repair) \in RegisteredResults
    PROVE  CommittedIn(L, q.payload)
<1>1. MatchesPersisted(L, q)
  BY DEF Classification, RegisteredResults
<1>2. /\ q.transaction_id \in DOMAIN L.transactions
      /\ L.transactions[q.transaction_id] =
            TransactionOf(q, L.transactions[q.transaction_id].state)
      /\ L.transactions[q.transaction_id].state = Committed
  BY <1>1 DEF MatchesPersisted, ReservationKnown
<1>3. /\ L.transactions[q.transaction_id].signal_id = q.signal_id
      /\ L.transactions[q.transaction_id].payload = q.payload
  BY <1>2, RequestedTransaction
<1> QED BY <1>2, <1>3 DEF CommittedIn

\* What a step of r reports, or goes on to, is true.
LEMMA RunnerReports ==
    ASSUME CycleInv, ReportsSound, NEW r \in Runners,
           CommittedStays(ledger, ledger'),
           artifact # None /\ artifact.state = Publication!Succeeded => artifact' = artifact,
           bound => bound',
           DOMAIN reported' = Runners,
           \A q \in Runners : q # r => call'[q] = call[q] /\ reported'[q] = reported[q],
           reported'[r] # reported[r] /\ reported'[r] \in RegisteredResults \cup {"exit 0"} =>
              /\ artifact' # None
              /\ artifact'.state = Publication!Succeeded
              /\ CommittedIn(ledger', artifact'.at),
           reported'[r] # reported[r] /\ reported'[r] = "exit 0" => bound',
           call'[r] # None /\ call'[r].step = "bind" =>
              CommittedIn(ledger', call'[r].request.payload)
    PROVE  ReportsSound'
<1> SUFFICES ASSUME NEW q \in Runners
             PROVE  /\ reported'[q] \in RegisteredResults \cup {"exit 0"} =>
                          /\ artifact' # None
                          /\ artifact'.state = Publication!Succeeded
                          /\ CommittedIn(ledger', artifact'.at)
                    /\ reported'[q] = "exit 0" => bound'
                    /\ call'[q] # None /\ call'[q].step = "bind" =>
                          CommittedIn(ledger', call'[q].request.payload)
  BY DEF ReportsSound, CommittedIn
<1>1. \A at : CommittedIn(ledger, at) => CommittedIn(ledger', at)
  BY DEF CommittedStays
<1>2. reported'[q] = reported[q] /\ reported'[q] \in RegisteredResults \cup {"exit 0"} =>
         /\ artifact' # None
         /\ artifact'.state = Publication!Succeeded
         /\ CommittedIn(ledger', artifact'.at)
  BY <1>1 DEF ReportsSound
<1> QED BY <1>1, <1>2 DEF ReportsSound

\* The steps of a call.
LEMMA SilentReports ==
    ASSUME CycleInv, ReportsSound, NEW r \in Runners, [CycleNext]_cycleVars,
           CommittedStays(ledger, ledger'),
           bound' = bound,
           \/ UNCHANGED <<call, reported>>
           \/ call' = [call EXCEPT ![r] = None] /\ UNCHANGED reported
           \/ /\ \E new : /\ call' = [call EXCEPT ![r] = new]
                          /\ new # None => new.step # "bind"
              /\ \/ UNCHANGED reported
                 \/ \E what : /\ what \notin RegisteredResults \cup {"exit 0"}
                              /\ reported' = [reported EXCEPT ![r] = what]
    PROVE  ReportsSound'
<1>1. artifact # None /\ artifact.state = Publication!Succeeded => artifact' = artifact
  BY SuccessIsFinal
<1>2. DOMAIN reported = Runners /\ DOMAIN call = Runners
  BY DEF CycleInv, Types, ReportsSound
<1>3. /\ DOMAIN reported' = Runners
      /\ \A q \in Runners : q # r => call'[q] = call[q] /\ reported'[q] = reported[q]
      /\ reported'[r] = reported[r] \/ reported'[r] \notin RegisteredResults \cup {"exit 0"}
      /\ call'[r] # None /\ call'[r].step = "bind" => call'[r] = call[r]
  BY <1>2
<1>4. call'[r] # None /\ call'[r].step = "bind" =>
         CommittedIn(ledger', call'[r].request.payload)
  BY <1>3 DEF ReportsSound, CommittedStays
<1> QED BY <1>1, <1>3, <1>4, RunnerReports

LEMMA RegistrationReports ==
    ASSUME CycleInv, ReportsSound, NEW r \in Runners, [CycleNext]_cycleVars,
           CommittedStays(ledger, ledger'),
           call[r] # None, call[r].step # "publishing", NEW result, Registration(r, result),
           result # "exit 0",
           result \in RegisteredResults => CommittedIn(ledger', call[r].request.payload),
           UNCHANGED <<publicationVars, bound>>
    PROVE  ReportsSound'
<1>1. DOMAIN reported = Runners /\ DOMAIN call = Runners
  BY DEF CycleInv, Types, ReportsSound
<1>2. /\ artifact # None
      /\ artifact.state = Publication!Succeeded
      /\ artifact.at = call[r].request.payload
      /\ artifact' = artifact
  BY DEF CycleInv, CallsSound, Out, publicationVars
<1>3. CASE Report(r, "exit 7")
  BY <1>3, SilentReports DEF Report, RegisteredResults
<1>4. CASE Report(r, result)
  <2>1. reported'[r] = result /\ call'[r] = None
    BY <1>1, <1>4 DEF Report
  <2>2. /\ DOMAIN reported' = Runners
        /\ \A q \in Runners : q # r => call'[q] = call[q] /\ reported'[q] = reported[q]
    BY <1>1, <1>4 DEF Report
  <2> QED BY <1>2, <2>1, <2>2, RunnerReports
<1>5. CASE Settles(result) /\ call' = [call EXCEPT ![r].step = "bind"] /\ UNCHANGED reported
  <2> DEFINE new == Stepped(r, "bind", call[r].expected, call[r].before)
  <2>1. call' = [call EXCEPT ![r] = new]
    BY <1>1, <1>5, FieldsAssigned
  <2>2. new.request = call[r].request
    BY DEF Stepped
  <2>3. result \in RegisteredResults
    BY <1>5 DEF Settles, RegisteredResults
  <2> HIDE DEF new
  <2>4. /\ call'[r] = new
        /\ \A q \in Runners : q # r => call'[q] = call[q] /\ reported'[q] = reported[q]
    BY <1>1, <1>5, <2>1
  <2> QED BY <1>1, <1>2, <1>5, <2>2, <2>3, <2>4, RunnerReports
<1> QED BY <1>3, <1>4, <1>5 DEF Registration

LEMMA RegisteringReports ==
    ASSUME CycleInv, ReportsSound, NEW r \in Runners, [CycleNext]_cycleVars,
           CommittedStays(ledger, ledger'),
           Look(r) \/ Reserve(r) \/ RegistrationFails(r)
    PROVE  ReportsSound'
<1>1. /\ call[r] # None
      /\ call[r].step # "publishing"
      /\ UNCHANGED <<publicationVars, bound>>
  BY DEF Look, Reserve, RegistrationFails, Calling
<1>2. ASSUME NEW result \in {"ACTIVE_REVISION_CONFLICT", "IDENTITY_CONFLICT",
                             "PUBLICATION_SUCCEEDED_REGISTRATION_PENDING"},
             Registration(r, result)
      PROVE  ReportsSound'
  <2>1. result # "exit 0" /\ result \notin RegisteredResults
    BY DEF RegisteredResults
  <2> QED BY <1>1, <1>2, <2>1, RegistrationReports
<1>3. ASSUME call' = [call EXCEPT ![r].step = "reserve", ![r].before = ledger.revision],
             UNCHANGED reported
      PROVE  ReportsSound'
  <2> DEFINE before == ledger.revision
  <2>1. [call[r] EXCEPT !.step = "reserve", !.before = before].step = "reserve"
    <3> HIDE DEF before
    <3> QED BY <1>1, FieldsAssigned DEF Stepped
  <2>2. call' = [call EXCEPT ![r] = [call[r] EXCEPT !.step = "reserve", !.before = before]]
    BY <1>3
  <2> HIDE DEF before
  <2> QED BY <1>1, <1>3, <2>1, <2>2, SilentReports
<1>4. CASE Look(r)
  BY <1>2, <1>3, <1>4 DEF Look
<1>5. CASE RegistrationFails(r)
  BY <1>2, <1>5 DEF RegistrationFails
<1>6. CASE Reserve(r) /\ Registration(r, Refused(ledger, call[r].request, call[r].expected))
  BY <1>2, <1>6 DEF Refused
<1>7. ASSUME NEW document, document = ledger', NEW repair,
             Registration(r, Classification(call[r].before, document, call[r].request, repair))
      PROVE  ReportsSound'
  <2> DEFINE result == Classification(call[r].before, document, call[r].request, repair)
  <2>1. result \in RegisteredResults => CommittedIn(ledger', call[r].request.payload)
    BY <1>1, <1>7, CallIsOwn, ClassifiedIsCommitted
  <2>2. result # "exit 0"
    BY DEF Classification
  <2>3. Registration(r, result)
    BY <1>7
  <2> HIDE DEF result
  <2> QED BY <1>1, <2>1, <2>2, <2>3, RegistrationReports
<1>8. CASE Reserve(r) /\ \E repair :
              Registration(r, Classification(call[r].before, ledger', call[r].request, repair))
  BY <1>7, <1>8
<1> QED BY <1>4, <1>5, <1>6, <1>8 DEF Reserve

LEMMA BindReports ==
    ASSUME CycleInv, ReportsSound, NEW r \in Runners, [CycleNext]_cycleVars,
           CommittedStays(ledger, ledger'), Bind(r)
    PROVE  ReportsSound'
<1>1. DOMAIN reported = Runners /\ DOMAIN call = Runners
  BY DEF CycleInv, Types, ReportsSound
<1>2. /\ artifact' = artifact /\ ledger' = ledger
      /\ call[r] # None /\ call[r].step = "bind"
      /\ bound => bound'
  <2>1. bound => bound'
    <3>1. bound' = TRUE \/ bound' = bound
      BY DEF Bind
    <3> QED BY <3>1, Zenon
  <2> QED BY <2>1 DEF Bind, Calling, publicationVars
<1>3. /\ artifact # None
      /\ artifact.state = Publication!Succeeded
      /\ CommittedIn(ledger, artifact.at)
  BY <1>2 DEF CycleInv, CallsSound, Out, ReportsSound
<1>4. PICK what \in {"exit 0", "exit 7"} : Report(r, what) /\ (what = "exit 0" => bound')
  BY DEF Bind
<1>5. /\ DOMAIN reported' = Runners
      /\ \A q \in Runners : q # r => call'[q] = call[q] /\ reported'[q] = reported[q]
      /\ reported'[r] = what /\ call'[r] = None
  BY <1>1, <1>4 DEF Report
<1> QED BY <1>2, <1>3, <1>4, <1>5, RunnerReports

LEMMA PublishedReports ==
    ASSUME CycleInv, ReportsSound, NEW r \in Runners, [CycleNext]_cycleVars,
           CommittedStays(ledger, ledger'), Published(r)
    PROVE  ReportsSound'
<1>1. call[r] # None /\ bound' = bound
  BY DEF Published, Calling
<1>2. ASSUME NEW what \in {"DELIVERY_FAILED", "PUBLICATION_FAILED"}, Report(r, what)
      PROVE  ReportsSound'
  <2>1. what \notin RegisteredResults \cup {"exit 0"}
    BY DEF RegisteredResults
  <2> QED BY <1>1, <1>2, <2>1, SilentReports DEF Report
<1>3. ASSUME NEW expected, UNCHANGED reported,
             call' = [call EXCEPT ![r] = [call[r] EXCEPT !.step = "look", !.expected = expected]]
      PROVE  ReportsSound'
  <2>1. [call[r] EXCEPT !.step = "look", !.expected = expected].step = "look"
    BY <1>1, FieldsAssigned DEF Stepped
  <2> QED BY <1>1, <1>3, <2>1, SilentReports
<1>4. ASSUME UNCHANGED reported,
             call' = [call EXCEPT ![r].step = "look",
                                  ![r].expected = IF call[r].kind = "program"
                                                  THEN ledger.revision ELSE @]
      PROVE  ReportsSound'
  <2> DEFINE expected == IF call[r].kind = "program" THEN ledger.revision
                         ELSE call[r].expected
  <2>1. call' = [call EXCEPT ![r] = [call[r] EXCEPT !.step = "look", !.expected = expected]]
    <3>1. [call[r] EXCEPT !.step = "look"].expected = call[r].expected
      BY <1>1, FieldsAssigned DEF Stepped
    <3> QED BY <1>1, <1>4, <3>1
  <2> HIDE DEF expected
  <2> QED BY <1>3, <1>4, <2>1
<1> QED BY <1>2, <1>4 DEF Published

LEMMA ReportsStep ==
    ASSUME CycleInv, ReportsSound, [CycleNext]_cycleVars, Keeps(ledger, ledger')
    PROVE  ReportsSound'
<1>1. CommittedStays(ledger, ledger')
  BY KeptIsCommitted
<1>2. ASSUME NEW r \in Runners, NEW kind, NEW at, Begin(r, kind, at) PROVE ReportsSound'
  <2>1. /\ call' = [call EXCEPT ![r] = Opened(kind, at, TransitionOf(kind), "publishing")]
        /\ Opened(kind, at, TransitionOf(kind), "publishing").step = "publishing"
        /\ reported' = [reported EXCEPT ![r] = None]
        /\ bound' = bound
    BY <1>2 DEF Begin, Opened
  <2> QED BY <1>1, <2>1, ResultAssumption, SilentReports
<1>3. ASSUME NEW r \in Runners, NEW transition, BeginRepair(r, transition) PROVE ReportsSound'
  <2>1. /\ call' = [call EXCEPT ![r] = Opened("repair", artifact.at, transition, "look")]
        /\ Opened("repair", artifact.at, transition, "look").step = "look"
        /\ reported' = [reported EXCEPT ![r] = None]
        /\ bound' = bound
    BY <1>3 DEF BeginRepair, Opened
  <2> QED BY <1>1, <2>1, ResultAssumption, SilentReports
<1>4. ASSUME NEW r \in Runners, Publishing(r) \/ Die(r) PROVE ReportsSound'
  BY <1>1, <1>4, SilentReports DEF Publishing, Die
<1>5. ASSUME NEW r \in Runners, Published(r) PROVE ReportsSound'
  BY <1>1, <1>5, PublishedReports
<1>6. ASSUME NEW r \in Runners, Look(r) \/ Reserve(r) \/ RegistrationFails(r)
      PROVE  ReportsSound'
  BY <1>1, <1>6, RegisteringReports
<1>7. ASSUME NEW r \in Runners, Bind(r) PROVE ReportsSound'
  BY <1>1, <1>7, BindReports
<1>8. CASE Others \/ UNCHANGED cycleVars
  <2>1. UNCHANGED <<artifact, call, reported, bound>>
    BY <1>8 DEF Others, cycleVars, publicationVars
  <2> QED BY <1>1, <2>1 DEF ReportsSound, CommittedStays
<1> QED BY <1>2, <1>3, <1>4, <1>5, <1>6, <1>7, <1>8 DEF CycleNext

-----------------------------------------------------------------------------
(* A repair stays possible. *)

\* While the signal is not in a fresh ledger, none of its ids are.
LEMMA NothingOfTheSignal ==
    ASSUME NEW L, Fresh(L), "signal" \notin DOMAIN L.signals, NEW at \in Times, NEW t \in RequestIds
    PROVE  /\ \A s \in DOMAIN L.signals : L.signals[s].delivery_id # "delivery"
           /\ \A x \in DOMAIN L.transactions :
                 /\ L.transactions[x].signal_id # "signal"
                 /\ L.transactions[x].delivery_id # "delivery"
                 /\ L.transactions[x].state # Prepared
           /\ <<"signal", at>> \notin DOMAIN L.transactions
           /\ t \notin DOMAIN L.transitions
<1>1. \A s \in DOMAIN L.signals : L.signals[s].delivery_id # "delivery"
  BY DEF Fresh
<1>2. ASSUME NEW x \in DOMAIN L.transactions
      PROVE  /\ L.transactions[x].signal_id \in DOMAIN L.signals
             /\ L.transactions[x].delivery_id =
                   L.signals[L.transactions[x].signal_id].delivery_id
             /\ L.transactions[x].state = Committed
  <2>1. /\ L.transactions[x].signal_id \in DOMAIN L.signals
        /\ Identity(L.signals[L.transactions[x].signal_id]) = Identity(L.transactions[x])
        /\ L.transactions[x].state = Committed
    BY DEF Fresh, Valid, CommittedAgree
  <2> QED BY <2>1 DEF Identity
<1>3. t \notin DOMAIN L.transitions
  BY DEF Fresh, Valid, TransitionsRegistered
<1>4. <<"signal", at>> \notin DOMAIN L.transactions
  BY <1>2 DEF Fresh
<1> QED BY <1>1, <1>2, <1>3, <1>4 DEF Prepared, Committed

\* A document that a request was inserted into and committed matches it.
LEMMA RegisteredMatches ==
    ASSUME NEW L, NEW q, q.transaction_id \notin DOMAIN L.transactions
    PROVE  MatchesPersisted(PrepareAndCommit(L, q), q)
<1> DEFINE x == TransactionOf(q, Prepared)
           settled == [x EXCEPT !.state = Committed]
           D == PrepareAndCommit(L, q)
<1>1. settled = TransactionOf(q, Committed)
  BY DEF TransactionOf
<1>2. /\ D.transactions[q.transaction_id] = settled
      /\ q.transaction_id \in DOMAIN D.transactions
      /\ q.signal_id \in DOMAIN D.signals
      /\ D.signals[q.signal_id] = PublishedSignal(x)
      /\ q.transition_id \in DOMAIN D.transitions
      /\ D.transitions[q.transition_id] = ReserveTransition(q.signal_id, L.revision + 1)
  <2>1. x.signal_id = q.signal_id /\ x.reservation_transition_id = q.transition_id
    BY RequestedTransaction
  <2>2. /\ WithCandidate(L, q).transactions[q.transaction_id] = x
        /\ WithCandidate(L, q).signals = L.signals
        /\ WithCandidate(L, q).transitions = L.transitions
        /\ WithCandidate(L, q).revision = L.revision
    BY DEF WithCandidate, Put
  <2>3. /\ D.transactions = Put(WithCandidate(L, q).transactions, q.transaction_id, settled)
        /\ D.signals = Put(L.signals, q.signal_id, PublishedSignal(x))
        /\ D.transitions = Put(L.transitions, q.transition_id,
                               ReserveTransition(q.signal_id, L.revision + 1))
    <3> HIDE DEF x
    <3> QED BY <2>1, <2>2 DEF PrepareAndCommit, CommitOccupancy
  <2> HIDE DEF D, x, settled
  <2> QED BY <2>3 DEF Put
<1>3. /\ Identity(PublishedSignal(x)) = Identity(q)
      /\ PublishedSignal(x).state = PendingEntry
      /\ PublishedSignal(x).last_transition_id = q.transition_id
  BY DEF PublishedSignal, TransactionOf, Identity
<1>4. TransactionOf(q, Committed).state = Committed
  BY RequestedTransaction
<1>5. /\ ReserveTransition(q.signal_id, L.revision + 1).operation = "RESERVE"
      /\ ReserveTransition(q.signal_id, L.revision + 1).signal_id = q.signal_id
  BY DEF ReserveTransition
<1> HIDE DEF x, settled, D
<1>6. MatchesPersisted(D, q)
  BY <1>1, <1>2, <1>3, <1>4, <1>5 DEF MatchesPersisted, ReservationKnown
<1> QED BY <1>6 DEF D

LEMMA FreshIsRepairable ==
    ASSUME CycleInv, Fresh(ledger)
    PROVE  RegistrationStaysPossible
<1> SUFFICES ASSUME artifact # None, artifact.state = Publication!Succeeded,
                    "signal" \notin DOMAIN ledger.signals
             PROVE  LET request  == Request(artifact.at, "derived")
                        document == PrepareAndCommit(ledger, request)
                    IN  /\ ~KnownConflict(ledger, request)
                        /\ Valid(document)
                        /\ Reserved(ledger, request, ledger.revision) = document
                        /\ MatchesPersisted(document, request)
  BY DEF RegistrationStaysPossible
<1> DEFINE q == Request(artifact.at, "derived")
           D == PrepareAndCommit(ledger, q)
<1>1. artifact.at \in Times
  BY DEF CycleInv, Types
<1>2. /\ q.signal_id = "signal" /\ q.delivery_id = "delivery"
      /\ q.transaction_id = <<"signal", artifact.at>>
      /\ q.transition_id = <<"derived", "signal">>
  BY DEF Request
<1> HIDE DEF q
<1>3. /\ \A s \in DOMAIN ledger.signals : ledger.signals[s].delivery_id # q.delivery_id
      /\ \A x \in DOMAIN ledger.transactions :
            /\ ledger.transactions[x].signal_id # q.signal_id
            /\ ledger.transactions[x].delivery_id # q.delivery_id
            /\ ledger.transactions[x].state # Prepared
      /\ q.transaction_id \notin DOMAIN ledger.transactions
      /\ q.transition_id \notin DOMAIN ledger.transitions
  <2>1. <<"derived", "signal">> \in RequestIds
    BY DEF RequestIds
  <2> QED BY <1>1, <1>2, <2>1, NothingOfTheSignal
<1>4. ReservationAllowed(ledger, q, ledger.revision)
  BY <1>2, <1>3 DEF ReservationAllowed, PendingConflict
<1>5. ~KnownConflict(ledger, q)
  BY <1>2, <1>3 DEF KnownConflict, SignalConflict
<1>6. Valid(D)
  BY <1>4, ReservationIsValid DEF Fresh
<1>7. MatchesPersisted(D, q)
  BY <1>3, RegisteredMatches
<1>8. ~ReservationKnown(ledger, q) /\ ~ResumeAllowed(ledger, q)
  BY <1>3 DEF ReservationKnown, ResumeAllowed
<1>9. Reserved(ledger, q, ledger.revision) = D
  BY <1>4, <1>6, <1>8 DEF Reserved
<1> QED BY <1>5, <1>6, <1>7, <1>9 DEF q

-----------------------------------------------------------------------------
(* The theorems. *)

\* The invariant that the theorems below follow from.
THEOREM CycleInvHolds == CycleSpec => []CycleInv
  BY InitialCycleInv, CycleStep, PTL DEF CycleSpec

\* The ledger has a signal only of a message that reached the channel and of
\* the publication that says so, however many processes publish, register,
\* repair, fail and die.
THEOREM RegisteredIsDeliveredTheorem == CycleSpec => []RegisteredIsDelivered
<1>1. CycleInv => RegisteredIsDelivered
  BY DEF CycleInv, LedgerSound, Sound, Out, RegisteredIsDelivered
<1> QED BY <1>1, CycleInvHolds, PTL

\* However many runs begin after an intent was persisted, none of them delivers.
THEOREM NoRedeliveryTheorem == CycleSpec => []NoRedelivery
<1>1. CycleInv => NoRedelivery
  BY DEF CycleInv, RunsSound, NoRedelivery, Publication!NoRedelivery
<1> QED BY <1>1, CycleInvHolds, PTL

\* What the next two theorems add: the document in the ledger file, and what
\* the calls report of it.
FreshInv == CycleInv /\ Fresh(ledger) /\ ReportsSound

THEOREM FreshInvHolds == CycleSpec => []FreshInv
<1>1. CycleInit => FreshInv
  <2> SUFFICES ASSUME CycleInit PROVE Fresh(ledger) /\ ReportsSound
    BY InitialCycleInv DEF FreshInv
  <2>1. ledger = EmptyLedger /\ reported = [r \in Runners |-> None]
        /\ call = [r \in Runners |-> None]
    BY DEF CycleInit
  <2>2. /\ ledger.signals = [k \in {} |-> None]
        /\ ledger.transactions = [k \in {} |-> None]
        /\ ledger.transitions = [k \in {} |-> None]
    BY <2>1 DEF EmptyLedger, NoEntries
  <2>3. Occupants(ledger) = {} /\ \A m : ActiveIn(ledger, m) = {}
    BY <2>2 DEF Occupants, ActiveIn
  <2>4. WithinCapacity(ledger)
    BY <2>3, FS_EmptySet, CapacityAssumption DEF WithinCapacity
  <2>5. Valid(ledger)
    BY <2>2, <2>3, <2>4 DEF Valid, DistinctDeliveries, DistinctPairs,
                            TransitionsRegistered, CommittedAgree
  <2>6. Fresh(ledger)
    BY <2>2, <2>5, FS_EmptySet DEF Fresh
  <2>7. ReportsSound
    BY <2>1, ResultAssumption DEF ReportsSound
  <2> QED BY <2>6, <2>7
<1>2. FreshInv /\ [CycleNext]_cycleVars => FreshInv'
  BY CycleStep, LedgerStep, ReportsStep DEF FreshInv, Fresh
<1> QED BY <1>1, <1>2, PTL DEF CycleSpec

\* Who is told that the publication is registered - the cycle, the program or a
\* repair, whichever did it - finds it committed in the ledger ever after, and
\* a program that exits with 0 has bound its message.
THEOREM ReportedIsRegisteredTheorem == CycleSpec => []ReportedIsRegistered
<1>1. FreshInv => ReportedIsRegistered
  BY DEF FreshInv, ReportsSound, CommittedIn, ReportedIsRegistered
<1> QED BY <1>1, FreshInvHolds, PTL

\* As long as a delivered publication is not registered, a repair at the
\* current revision registers it, whoever failed or died before and whatever
\* the ledger took in or ended since.
THEOREM RegistrationStaysPossibleTheorem == CycleSpec => []RegistrationStaysPossible
<1>1. FreshInv => RegistrationStaysPossible
  BY FreshIsRepairable DEF FreshInv
<1> QED BY <1>1, FreshInvHolds, PTL

\* Whatever cycles, repairs and other callers interleave, the ledger never
\* exceeds its capacity nor has a pair entered twice: validate_ledger accepts
\* whatever they leave.
THEOREM CycleLedgerIsValidTheorem == CycleSpec => []Valid(ledger)
<1>1. FreshInv => Valid(ledger)
  BY DEF FreshInv, Fresh
<1> QED BY <1>1, FreshInvHolds, PTL
=============================================================================
