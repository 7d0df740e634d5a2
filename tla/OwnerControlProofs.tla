------------------------- MODULE OwnerControlProofs -------------------------
(***************************************************************************)
(* Theorems about OwnerControl, for any updates, publications, endings and *)
(* failures: an accepted command did what the owner was told, once; each   *)
(* decision is answered once and after it was recorded; and no update is   *)
(* passed in silence.                                                      *)
(***************************************************************************)
EXTENDS OwnerControl, LedgerDocumentProofs, WellFoundedInduction

CommandNames == {"owner-entry", "owner-reject", "owner-close", "none"}

AcceptedOutcomes == {"ENTRY_ACCEPTED", "SIGNAL_REJECTED_BY_OWNER", "POSITION_CLOSED"}

Bindings == control.signal_message_bindings

Processed == control.processed_updates

Settled(u) == u \in DOMAIN Processed \cup failed

\* What a candidate for a command is, and stays while the command is applied.
Means(u, s) ==
    /\ s \in DOMAIN ledger.signals
    /\ PairOf(ledger.signals[s]) = PairOf(texts[u])
    /\ texts[u].reply # None =>
          texts[u].reply \in DOMAIN Bindings /\ Bindings[texts[u].reply] = s

AppliedAs(u, outcome) ==
    /\ outcome = Accepted(texts[u].kind)
    /\ Applied(u)
    /\ Means(u, ledger.transitions[CommandTransition(u)].signal_id)

-----------------------------------------------------------------------------
(* The invariant. *)

TextsOK == texts \in Seq(Texts) /\ Len(texts) <= MaxUpdates

LedgerOK ==
    /\ \A x \in DOMAIN ledger.transactions : ledger.transactions[x].state = Committed
    /\ \A s \in DOMAIN ledger.signals : "symbol" \in DOMAIN ledger.signals[s]

ControlOK ==
    /\ DOMAIN control = {"last_update_id", "processed_updates", "signal_message_bindings"}
    /\ control.last_update_id \in Nat
    /\ DOMAIN Processed \subseteq DOMAIN texts
    /\ \A u \in DOMAIN Processed : DOMAIN Processed[u] = {"outcome", "answered"}

\* Whoever works on the control state holds its flock and has it as it is.
FlockOK ==
    /\ holder = "poller" <=> poller.at \in {"commit", "record"}
    /\ poller.at \in {"commit", "record"} => poller.state = control
    /\ runner # None =>
          /\ DOMAIN runner = {"publication", "state"}
          /\ runner.publication \in Publications
          /\ runner.publication.message \notin DOMAIN Bindings
          /\ runner.state # None => holder = "runner" /\ runner.state = control

\* Of an update that is left in the batch, those before it are settled or left
\* too.
BatchOK ==
    /\ DOMAIN poller = {"at", "batch", "state", "signal", "expected", "outcome"}
    /\ poller.at \in {"fetch", "process", "commit", "record", "respond", "receipt"}
    /\ poller.at # "fetch" =>
          /\ poller.batch \subseteq DOMAIN texts
          /\ poller.batch # {}
          /\ \A b \in poller.batch : \A u \in 1 .. b - 1 : Settled(u) \/ u \in poller.batch

DecisionOK ==
    /\ poller.at \in {"commit", "record"} => Current \notin DOMAIN Processed
    /\ poller.at = "commit" =>
          texts[Current].kind \in Commands /\ Means(Current, poller.signal)
    /\ poller.at = "record" =>
          (poller.outcome \in AcceptedOutcomes => AppliedAs(Current, poller.outcome))
    /\ poller.at \in {"respond", "receipt"} =>
          Current \in DOMAIN Processed /\ poller.outcome = Decision(Current)
    /\ poller.at = "respond" => \A i \in DOMAIN sent : sent[i].update # Current

AcceptedOK ==
    \A u \in DOMAIN Processed :
        Decision(u) \in AcceptedOutcomes => AppliedAs(u, Decision(u))

AnsweredOK ==
    /\ \E S : sent \in Seq(S)
    /\ AnsweredOnceAfterDeciding

OwnerInv ==
    /\ TextsOK /\ LedgerOK /\ ControlOK /\ FlockOK /\ BatchOK /\ DecisionOK
    /\ AcceptedOK /\ AnsweredOK /\ NothingPassedInSilence

-----------------------------------------------------------------------------
(* The current update. *)

LEMMA LeastOfBatch ==
    ASSUME NEW S, S \subseteq Nat, S # {}
    PROVE  Min(S) \in S /\ \A y \in S : Min(S) <= y
<1>1. PICK x \in S : \A y \in S : ~(<<y, x>> \in OpToRel(<, Nat))
  BY NatLessThanWellFounded, WFMin
<1>2. \A y \in S : ~(y < x)
  BY <1>1, Zenon DEF OpToRel
<1>3. \A y \in S : x =< y
  BY <1>2
<1> QED BY <1>3 DEF Min

LEMMA CurrentIsLeast ==
    ASSUME TextsOK, BatchOK, poller.at # "fetch"
    PROVE  /\ Current \in poller.batch /\ Current \in DOMAIN texts
           /\ Current \in Updates
           /\ \A b \in poller.batch : Current <= b
           /\ \A u \in 1 .. Current - 1 : Settled(u)
<1>1. poller.batch \subseteq DOMAIN texts /\ poller.batch # {}
      /\ DOMAIN texts = 1 .. Len(texts) /\ Len(texts) \in Nat /\ Len(texts) <= MaxUpdates
  BY DEF TextsOK, BatchOK
<1>2. poller.batch \subseteq Nat
  BY <1>1
<1>3. Current \in poller.batch /\ \A b \in poller.batch : Current <= b
  BY <1>1, <1>2, LeastOfBatch DEF Current
<1>4. Current \in DOMAIN texts /\ Current \in Nat
  BY <1>1, <1>3
<1>5. Current \in Updates
  BY <1>1, <1>4, BoundAssumption DEF Updates
<1>6. ASSUME NEW u \in 1 .. Current - 1
      PROVE  Settled(u)
  <2>1. u \notin poller.batch
    BY <1>3, <1>4
  <2> QED BY <1>3, <2>1 DEF BatchOK
<1> QED BY <1>3, <1>4, <1>5, <1>6

LEMMA CommandIds ==
    ASSUME NEW u \in Updates
    PROVE  /\ \E name \in CommandNames : CommandTransition(u) = <<name, u>>
           /\ \A p \in Publications : p.request.transition_id # CommandTransition(u)
<1>1. \E name \in CommandNames : CommandTransition(u) = <<name, u>>
  BY DEF CommandTransition, CommandNames
<1>2. \A p \in Publications : p.request.transition_id # CommandTransition(u)
  BY <1>1, NameAssumption DEF CommandNames, Updates
<1> QED BY <1>1, <1>2

-----------------------------------------------------------------------------
(* What every step leaves of the past. *)

LedgerKept ==
    /\ DOMAIN ledger.signals \subseteq DOMAIN ledger'.signals
    /\ \A s \in DOMAIN ledger.signals : ledger'.signals[s].symbol = ledger.signals[s].symbol
    /\ \A u \in Updates :
          Applied(u) =>
             /\ CommandTransition(u) \in DOMAIN ledger'.transitions
             /\ ledger'.transitions[CommandTransition(u)] =
                   ledger.transitions[CommandTransition(u)]

TextsKept == \A u \in DOMAIN texts : u \in DOMAIN texts' /\ texts'[u] = texts[u]

BindingsKept ==
    \A m \in DOMAIN Bindings : m \in DOMAIN Bindings' /\ Bindings'[m] = Bindings[m]

DecisionsKept ==
    \A u \in DOMAIN Processed :
        u \in DOMAIN Processed' /\ Decision(u)' = Decision(u)

PastKept == LedgerKept /\ TextsKept /\ BindingsKept /\ DecisionsKept /\ failed \subseteq failed'

LEMMA MeaningStays ==
    ASSUME PastKept, NEW u \in DOMAIN texts, NEW s, Means(u, s)
    PROVE  Means(u, s)'
<1>1. texts'[u] = texts[u] /\ s \in DOMAIN ledger'.signals
      /\ ledger'.signals[s].symbol = ledger.signals[s].symbol
  BY DEF PastKept, LedgerKept, TextsKept, Means
<1>2. PairOf(ledger'.signals[s]) = PairOf(texts'[u])
  BY <1>1 DEF Means, PairOf
<1>3. texts'[u].reply # None =>
          texts'[u].reply \in DOMAIN Bindings' /\ Bindings'[texts'[u].reply] = s
  BY <1>1 DEF Means, PastKept, BindingsKept
<1> QED BY <1>1, <1>2, <1>3 DEF Means

LEMMA AppliedStays ==
    ASSUME TextsOK, PastKept, NEW u \in DOMAIN texts, NEW outcome, AppliedAs(u, outcome)
    PROVE  AppliedAs(u, outcome)'
<1>1. texts'[u] = texts[u] /\ u \in Updates
  BY BoundAssumption DEF PastKept, TextsKept, TextsOK, Updates
<1>2. CommandTransition(u)' = CommandTransition(u)
  BY <1>1 DEF CommandTransition
<1>3. /\ CommandTransition(u) \in DOMAIN ledger'.transitions
      /\ ledger'.transitions[CommandTransition(u)] = ledger.transitions[CommandTransition(u)]
  BY <1>1 DEF AppliedAs, PastKept, LedgerKept
<1>4. Means(u, ledger.transitions[CommandTransition(u)].signal_id)'
  <2>1. PICK s : s = ledger.transitions[CommandTransition(u)].signal_id /\ Means(u, s)
    BY DEF AppliedAs
  <2>2. Means(u, s)'
    BY <2>1, MeaningStays
  <2>3. ledger'.transitions[CommandTransition(u)'].signal_id = s
    BY <1>2, <1>3, <2>1
  <2> QED BY <2>2, <2>3 DEF Means
<1>5. outcome = Accepted(texts'[u].kind)
  BY <1>1 DEF AppliedAs
<1> QED BY <1>2, <1>3, <1>4, <1>5 DEF AppliedAs, Applied

-----------------------------------------------------------------------------
(* What the operations on the ledger leave of it. *)

LEMMA RegistrationKeepsLedger ==
    ASSUME LedgerOK, NEW p \in Publications,
           ledger' = Reserved(ledger, p.request, ledger.revision), ledger' # None
    PROVE  LedgerOK' /\ LedgerKept
<1> DEFINE request == p.request
<1>1. ~ResumeAllowed(ledger, request)
  BY DEF ResumeAllowed, ReservationKnown, LedgerOK, Prepared, Committed
<1>2. CASE ledger' = ledger
  BY <1>2 DEF LedgerOK, LedgerKept, Applied
<1>3. CASE ledger' # ledger
  <2>1. /\ ReservationAllowed(ledger, request, ledger.revision)
        /\ ledger' = PrepareAndCommit(ledger, request)
    BY <1>1, <1>3 DEF Reserved
  <2>2. request.signal_id \notin DOMAIN ledger.signals
    BY <2>1 DEF ReservationAllowed
  <2>3. \A u \in Updates : request.transition_id # CommandTransition(u)
    BY CommandIds
  <2> HIDE DEF request
  <2> DEFINE C == WithCandidate(ledger, request)
             x == C.transactions[request.transaction_id]
  <2>4. /\ C.signals = ledger.signals /\ C.transitions = ledger.transitions
        /\ DOMAIN C.transactions = DOMAIN ledger.transactions \cup {request.transaction_id}
        /\ x = TransactionOf(request, Prepared)
        /\ \A y \in DOMAIN ledger.transactions :
              y # request.transaction_id => C.transactions[y] = ledger.transactions[y]
    BY DEF WithCandidate, Put
  <2>5. /\ x.signal_id = request.signal_id
        /\ x.reservation_transition_id = request.transition_id
        /\ [x EXCEPT !.state = Committed].state = Committed
    BY <2>4 DEF TransactionOf
  <2> HIDE DEF x, C
  <2>6. ledger' = CommitOccupancy(C, request.transaction_id)
    BY <2>1 DEF PrepareAndCommit, C
  <2>7. PICK signal, step, settled :
           /\ "symbol" \in DOMAIN signal
           /\ settled.state = Committed
           /\ ledger'.signals = Put(ledger.signals, request.signal_id, signal)
           /\ ledger'.transitions = Put(ledger.transitions, request.transition_id, step)
           /\ ledger'.transactions = Put(C.transactions, request.transaction_id, settled)
    <3> DEFINE signal == PublishedSignal(x)
               step == ReserveTransition(x.signal_id, C.revision + 1)
               settled == [x EXCEPT !.state = Committed]
    <3>1. "symbol" \in DOMAIN signal
      BY DEF PublishedSignal
    <3>2. settled.state = Committed
      BY <2>5
    <3>3. C.transactions[request.transaction_id] = x
      BY DEF x
    <3>4. /\ ledger'.signals = Put(ledger.signals, request.signal_id, signal)
          /\ ledger'.transitions = Put(ledger.transitions, request.transition_id, step)
          /\ ledger'.transactions = Put(C.transactions, request.transaction_id, settled)
      BY <2>4, <2>5, <2>6, <3>3 DEF CommitOccupancy
    <3> HIDE DEF signal, step, settled
    <3> QED BY <3>1, <3>2, <3>4
  <2>8. /\ DOMAIN ledger'.signals = DOMAIN ledger.signals \cup {request.signal_id}
        /\ ledger'.signals[request.signal_id] = signal
        /\ \A s \in DOMAIN ledger.signals : ledger'.signals[s] = ledger.signals[s]
    BY <2>2, <2>7 DEF Put
  <2>9. /\ DOMAIN ledger'.transitions = DOMAIN ledger.transitions \cup {request.transition_id}
        /\ \A t \in DOMAIN ledger.transitions :
              t # request.transition_id => ledger'.transitions[t] = ledger.transitions[t]
    BY <2>7 DEF Put
  <2>10. \A y \in DOMAIN ledger'.transactions : ledger'.transactions[y].state = Committed
    BY <2>4, <2>7 DEF Put, LedgerOK
  <2>11. LedgerKept
    BY <2>3, <2>8, <2>9 DEF LedgerKept, Applied
  <2>12. LedgerOK'
    BY <2>7, <2>8, <2>10 DEF LedgerOK, Committed
  <2> QED BY <2>11, <2>12
<1> QED BY <1>2, <1>3

LEMMA MoveKeepsLedger ==
    ASSUME LedgerOK, NEW s \in DOMAIN ledger.signals, NEW id, id \notin DOMAIN ledger.transitions,
           NEW state, NEW evidence,
           \/ ledger' = Entered(ledger, id, s, evidence)
           \/ ledger' = Terminated(ledger, id, s, state, evidence)
    PROVE  /\ LedgerOK' /\ LedgerKept
           /\ id \in DOMAIN ledger'.transitions
           /\ ledger'.transitions[id].signal_id = s
<1>1. PICK signal, step :
          /\ signal.symbol = ledger.signals[s].symbol
          /\ "symbol" \in DOMAIN signal
          /\ step.signal_id = s
          /\ ledger'.signals = Put(ledger.signals, s, signal)
          /\ ledger'.transitions = Put(ledger.transitions, id, step)
          /\ ledger'.transactions = ledger.transactions
  <2>1. CASE ledger' = Entered(ledger, id, s, evidence)
    <3> DEFINE signal == [ledger.signals[s] EXCEPT !.state = EntryActive, !.last_transition_id = id]
               step == EntryTransition(s, evidence, ledger.revision + 1)
    <3>1. signal.symbol = ledger.signals[s].symbol /\ "symbol" \in DOMAIN signal
      BY DEF LedgerOK
    <3>2. step.signal_id = s
      BY DEF EntryTransition
    <3>3. /\ ledger'.signals = Put(ledger.signals, s, signal)
          /\ ledger'.transitions = Put(ledger.transitions, id, step)
          /\ ledger'.transactions = ledger.transactions
      BY <2>1 DEF Entered
    <3> HIDE DEF signal, step
    <3> QED BY <3>1, <3>2, <3>3
  <2>2. CASE ledger' = Terminated(ledger, id, s, state, evidence)
    <3> DEFINE signal == [ledger.signals[s] EXCEPT !.state = state, !.terminal = evidence,
                                                   !.last_transition_id = id]
               step == TerminalTransition(s, ledger.signals[s].state, state, evidence,
                                          ledger.revision + 1)
    <3>1. signal.symbol = ledger.signals[s].symbol /\ "symbol" \in DOMAIN signal
      BY DEF LedgerOK
    <3>2. step.signal_id = s
      BY DEF TerminalTransition
    <3>3. /\ ledger'.signals = Put(ledger.signals, s, signal)
          /\ ledger'.transitions = Put(ledger.transitions, id, step)
          /\ ledger'.transactions = ledger.transactions
      BY <2>2 DEF Terminated
    <3> HIDE DEF signal, step
    <3> QED BY <3>1, <3>2, <3>3
  <2> QED BY <2>1, <2>2
<1>2. /\ DOMAIN ledger'.signals = DOMAIN ledger.signals
      /\ ledger'.signals[s] = signal
      /\ \A r \in DOMAIN ledger.signals : r # s => ledger'.signals[r] = ledger.signals[r]
  BY <1>1 DEF Put
<1>3. /\ DOMAIN ledger'.transitions = DOMAIN ledger.transitions \cup {id}
      /\ ledger'.transitions[id] = step
      /\ \A t \in DOMAIN ledger.transitions : ledger'.transitions[t] = ledger.transitions[t]
  BY <1>1 DEF Put
<1>4. LedgerOK'
  BY <1>1, <1>2 DEF LedgerOK
<1>5. LedgerKept
  BY <1>1, <1>2, <1>3 DEF LedgerKept, Applied
<1> QED BY <1>1, <1>3, <1>4, <1>5

-----------------------------------------------------------------------------
(* Steps that leave most of the state alone. *)

\* Of the steps in which the poller is not involved.
LEMMA OthersKeepInv ==
    ASSUME OwnerInv, PastKept, UNCHANGED <<poller, sent>>,
           Processed' = Processed, control'.last_update_id = control.last_update_id,
           TextsOK', LedgerOK', ControlOK', FlockOK'
    PROVE  OwnerInv'
<1>1. DOMAIN texts \subseteq DOMAIN texts' /\ failed \subseteq failed'
  BY DEF PastKept, TextsKept
<1>2. \A u : Settled(u) => Settled(u)'
  BY <1>1 DEF Settled
<1>3. Current' = Current
  BY DEF Current
<1>4. BatchOK'
  <2>1. poller.at # "fetch" =>
           \A b \in poller.batch : \A u \in 1 .. b - 1 : Settled(u)' \/ u \in poller.batch
    BY <1>2 DEF OwnerInv, BatchOK
  <2> QED BY <1>1, <2>1 DEF OwnerInv, BatchOK
<1>5. poller.at # "fetch" => Current \in DOMAIN texts
  BY CurrentIsLeast DEF OwnerInv
<1>6. \A u : Decision(u)' = Decision(u)
  BY DEF Decision, Processed
<1>7. poller.at = "commit" =>
         texts'[Current].kind \in Commands /\ Means(Current, poller.signal)'
  <2>1. SUFFICES ASSUME poller.at = "commit"
                 PROVE  texts'[Current].kind \in Commands /\ Means(Current, poller.signal)'
    OBVIOUS
  <2>2. texts'[Current] = texts[Current]
    BY <1>5, <2>1 DEF PastKept, TextsKept
  <2>3. PICK u, s : u = Current /\ s = poller.signal
    OBVIOUS
  <2>4. Means(u, s)'
    BY <1>5, <2>1, <2>3, MeaningStays DEF OwnerInv, DecisionOK
  <2>5. Means(Current, poller.signal)'
    BY <1>3, <2>3, <2>4 DEF Means
  <2> QED BY <2>1, <2>2, <2>5 DEF OwnerInv, DecisionOK
<1>8. poller.at = "record" /\ poller.outcome \in AcceptedOutcomes =>
         AppliedAs(Current, poller.outcome)'
  <2>1. SUFFICES ASSUME poller.at = "record", poller.outcome \in AcceptedOutcomes
                 PROVE  AppliedAs(Current, poller.outcome)'
    OBVIOUS
  <2>2. PICK u, o : u = Current /\ o = poller.outcome
    OBVIOUS
  <2>3. AppliedAs(u, o)'
    BY <1>5, <2>1, <2>2, AppliedStays DEF OwnerInv, DecisionOK
  <2> QED BY <1>3, <2>2, <2>3 DEF AppliedAs, Applied, Means, CommandTransition
<1>9. DecisionOK'
  BY <1>3, <1>6, <1>7, <1>8 DEF OwnerInv, DecisionOK
<1>10. AcceptedOK'
  <2>1. ASSUME NEW u \in DOMAIN Processed', Decision(u)' \in AcceptedOutcomes,
               NEW o, o = Decision(u)
        PROVE  AppliedAs(u, o)'
    <3>1. u \in DOMAIN texts /\ AppliedAs(u, o)
      BY <1>6, <2>1 DEF OwnerInv, ControlOK, AcceptedOK
    <3> QED BY <3>1, AppliedStays DEF OwnerInv
  <2>2. ASSUME NEW u \in DOMAIN Processed', Decision(u)' \in AcceptedOutcomes
        PROVE  (AppliedAs(u, Decision(u)))'
    <3>1. PICK o : o = Decision(u)
      OBVIOUS
    <3>2. AppliedAs(u, o)' /\ Decision(u)' = o
      BY <1>6, <2>1, <2>2, <3>1
    <3> QED BY <3>2 DEF AppliedAs
  <2> QED BY <2>2 DEF AcceptedOK
<1>11. AnsweredOK'
  BY <1>6 DEF OwnerInv, AnsweredOK, AnsweredOnceAfterDeciding, Processed
<1>12. NothingPassedInSilence'
  BY <1>1 DEF OwnerInv, NothingPassedInSilence, Processed
<1> QED BY <1>4, <1>9, <1>10, <1>11, <1>12 DEF OwnerInv

\* Of the steps of the poller that nobody sees.
LEMMA QuietStepKeepsInv ==
    ASSUME OwnerInv, UNCHANGED <<ledger, control, texts, sent>>, failed \subseteq failed',
           FlockOK', BatchOK', DecisionOK'
    PROVE  OwnerInv'
<1>1. TextsOK' /\ LedgerOK' /\ ControlOK'
  BY DEF OwnerInv, TextsOK, LedgerOK, ControlOK, Processed
<1>2. AcceptedOK'
  BY DEF OwnerInv, AcceptedOK, AppliedAs, Applied, Means, CommandTransition, Decision,
         Processed, Bindings
<1>3. AnsweredOK'
  BY DEF OwnerInv, AnsweredOK, AnsweredOnceAfterDeciding, Decision
<1>4. NothingPassedInSilence'
  BY DEF OwnerInv, NothingPassedInSilence
<1> QED BY <1>1, <1>2, <1>3, <1>4 DEF OwnerInv

LEMMA NextUpdateKeepsBatch ==
    ASSUME TextsOK, BatchOK, poller.at # "fetch", NextUpdate, texts' = texts,
           \A u : Settled(u) => Settled(u)', Current \in DOMAIN Processed' \cup failed'
    PROVE  BatchOK' /\ poller'.at \in {"fetch", "process"}
<1> DEFINE rest == poller.batch \ {Current}
<1>1. CASE rest = {}
  BY <1>1 DEF NextUpdate, Idle, BatchOK
<1>2. CASE rest # {}
  <2>1. poller' = [Idle EXCEPT !.at = "process", !.batch = rest]
    BY <1>2 DEF NextUpdate
  <2>2. /\ DOMAIN poller' = {"at", "batch", "state", "signal", "expected", "outcome"}
        /\ poller'.at = "process" /\ poller'.batch = rest
    BY <2>1 DEF Idle
  <2>3. ASSUME NEW b \in rest, NEW u \in 1 .. b - 1
        PROVE  Settled(u)' \/ u \in rest
    <3>1. Settled(u) \/ u \in poller.batch
      BY DEF BatchOK
    <3>2. u = Current => Settled(u)'
      BY DEF Settled
    <3> QED BY <3>1, <3>2
  <2> QED BY <1>2, <2>2, <2>3 DEF BatchOK
<1> QED BY <1>1, <1>2

\* The poller works on the same batch.
LEMMA SameBatch ==
    ASSUME BatchOK, poller.at # "fetch", texts' = texts,
           DOMAIN poller' = DOMAIN poller, poller'.batch = poller.batch,
           poller'.at \in {"process", "commit", "record", "respond", "receipt"},
           \A u : Settled(u) => Settled(u)'
    PROVE  BatchOK' /\ Current' = Current
<1>1. Current' = Current
  BY DEF Current
<1>2. \A b \in poller.batch : \A u \in 1 .. b - 1 : Settled(u)' \/ u \in poller.batch
  BY DEF BatchOK
<1> QED BY <1>1, <1>2 DEF BatchOK

\* Between two updates nothing is decided.
LEMMA NoDecisionPending ==
    ASSUME poller'.at \in {"fetch", "process"}
    PROVE  DecisionOK'
  BY DEF DecisionOK

-----------------------------------------------------------------------------
(* The poller. *)

LEMMA FetchKeepsInv ==
    ASSUME OwnerInv, NEW redelivered, Fetch(redelivered)
    PROVE  OwnerInv'
<1> DEFINE batch == redelivered \cup {u \in DOMAIN texts : u >= Offset}
<1>1. /\ DOMAIN texts = 1 .. Len(texts) /\ Len(texts) \in Nat
      /\ control.last_update_id \in Nat
  BY DEF OwnerInv, TextsOK, ControlOK
<1>2. /\ DOMAIN poller' = {"at", "batch", "state", "signal", "expected", "outcome"}
      /\ poller'.at = "process" /\ poller'.batch = batch
  BY DEF Fetch, Idle
<1>3. batch \subseteq DOMAIN texts /\ batch # {}
  BY <1>1 DEF Fetch
<1>4. ASSUME NEW b \in batch, NEW u \in 1 .. b - 1
      PROVE  Settled(u)' \/ u \in batch
  <2>1. u \in DOMAIN texts /\ u \in Nat
    BY <1>1, <1>3
  <2>2. CASE u >= Offset
    BY <2>1, <2>2
  <2>3. CASE ~(u >= Offset)
    <3>1. u \in 1 .. control.last_update_id
      BY <1>1, <2>1, <2>3 DEF Offset
    <3>2. Settled(u)
      BY <3>1 DEF OwnerInv, NothingPassedInSilence, Settled, Processed
    <3> QED BY <3>2 DEF Fetch, Settled, Processed
  <2> QED BY <2>2, <2>3
<1>5. BatchOK'
  <2>1. texts' = texts
    BY DEF Fetch
  <2> HIDE DEF batch
  <2> QED BY <1>2, <1>3, <1>4, <2>1 DEF BatchOK
<1>6. FlockOK'
  BY <1>2 DEF Fetch, OwnerInv, FlockOK, Bindings
<1>7. DecisionOK'
  BY <1>2, NoDecisionPending
<1> QED BY <1>5, <1>6, <1>7, QuietStepKeepsInv DEF Fetch

\* The poller leaves an update and is left with nothing of it.
LEMMA LeavingKeepsInv ==
    ASSUME OwnerInv, poller.at # "fetch", NextUpdate,
           UNCHANGED <<ledger, control, runner, texts, sent>>, failed \subseteq failed',
           Current \in DOMAIN Processed' \cup failed',
           holder' = IF poller.at = "record" THEN None ELSE holder,
           poller.at # "commit"
    PROVE  OwnerInv'
<1>1. \A u : Settled(u) => Settled(u)'
  BY DEF Settled, Processed
<1>2. BatchOK' /\ poller'.at \in {"fetch", "process"}
  BY <1>1, NextUpdateKeepsBatch DEF OwnerInv
<1>3. DecisionOK'
  BY <1>2, NoDecisionPending
<1>4. FlockOK'
  BY <1>2, NameAssumption DEF OwnerInv, FlockOK, Bindings
<1> QED BY <1>2, <1>3, <1>4, QuietStepKeepsInv

LEMMA LeavingSteps ==
    ASSUME OwnerInv, LockUnavailable \/ Suppress \/ RecordFails
    PROVE  OwnerInv'
<1>1. CASE LockUnavailable
  BY <1>1, LeavingKeepsInv DEF LockUnavailable, Unrecorded
<1>2. CASE Suppress
  BY <1>2, LeavingKeepsInv DEF Suppress, AlreadyProcessed, Processed
<1>3. CASE RecordFails
  BY <1>3, LeavingKeepsInv DEF RecordFails, Unrecorded
<1> QED BY <1>1, <1>2, <1>3

\* The poller starts anew, and the kernel has freed its flock.
LEMMA RestartKeepsInv ==
    ASSUME OwnerInv, ReceiptUnavailable \/ Crash
    PROVE  OwnerInv'
<1>1. /\ poller' = Idle
      /\ UNCHANGED <<ledger, control, runner, texts, sent, failed>>
      /\ holder' = IF holder = "poller" THEN None ELSE holder
  BY DEF ReceiptUnavailable, Crash, OwnerInv, FlockOK
<1>2. BatchOK' /\ poller'.at = "fetch"
  BY <1>1 DEF BatchOK, Idle
<1>3. DecisionOK'
  BY <1>2, NoDecisionPending
<1>4. FlockOK'
  BY <1>1, <1>2, NameAssumption DEF OwnerInv, FlockOK, Bindings
<1> QED BY <1>1, <1>2, <1>3, <1>4, QuietStepKeepsInv

LEMMA TakeStarts ==
    ASSUME OwnerInv, NEW at, at \in {"commit", "record"}, NEW signal, NEW outcome,
           Take(at, signal, outcome)
    PROVE  /\ BatchOK' /\ FlockOK' /\ Current' = Current
           /\ Current \notin DOMAIN Processed'
           /\ poller'.at = at /\ poller'.signal = signal /\ poller'.outcome = outcome
           /\ UNCHANGED <<ledger, control, texts, sent, failed>>
<1>1. /\ DOMAIN poller' = DOMAIN poller /\ poller'.at = at /\ poller'.batch = poller.batch
      /\ poller'.state = control /\ poller'.signal = signal /\ poller'.outcome = outcome
  BY DEF Take, OwnerInv, BatchOK
<1>2. /\ UNCHANGED <<ledger, control, runner, texts, sent, failed>>
      /\ holder = None /\ holder' = "poller" /\ poller.at = "process"
      /\ Current \notin DOMAIN Processed
  BY DEF Take, AlreadyProcessed, Processed
<1>3. BatchOK' /\ Current' = Current
  <2>1. \A u : Settled(u) => Settled(u)'
    BY <1>2 DEF Settled, Processed
  <2> QED BY <1>1, <1>2, <2>1, SameBatch DEF OwnerInv
<1>4. FlockOK'
  BY <1>1, <1>2, NameAssumption DEF OwnerInv, FlockOK, Bindings
<1> QED BY <1>1, <1>2, <1>3, <1>4 DEF Processed

LEMMA ResolveKeepsInv ==
    ASSUME OwnerInv, Resolve
    PROVE  OwnerInv'
<1>1. PICK s : /\ s \in Candidates(control, ledger, texts[Current])
               /\ Take("commit", s, None)
  BY DEF Resolve
<1>2. /\ BatchOK' /\ FlockOK' /\ Current' = Current
      /\ Current \notin DOMAIN Processed'
      /\ poller'.at = "commit" /\ poller'.signal = s
      /\ UNCHANGED <<ledger, control, texts, sent, failed>>
  BY <1>1, TakeStarts
<1>3. Means(Current, s)
  BY <1>1 DEF Candidates, Means, Bindings
<1>4. texts[Current].kind \in Commands
  BY DEF Resolve
<1>5. DecisionOK'
  BY <1>2, <1>3, <1>4 DEF DecisionOK, Means, Bindings
<1> QED BY <1>2, <1>5, QuietStepKeepsInv

LEMMA DecisionWithoutEffect ==
    ASSUME OwnerInv, DecideWithoutEffect \/ LoadFails
    PROVE  OwnerInv'
<1>1. PICK outcome : outcome \notin AcceptedOutcomes /\ Take("record", None, outcome)
  <2>1. CASE DecideWithoutEffect
    <3>1. OutcomeWithoutEffect(texts[Current]) \notin AcceptedOutcomes
      BY DEF OutcomeWithoutEffect, AcceptedOutcomes
    <3> QED BY <2>1, <3>1 DEF DecideWithoutEffect
  <2>2. CASE LoadFails
    BY <2>2 DEF LoadFails, AcceptedOutcomes
  <2> QED BY <2>1, <2>2
<1>2. /\ BatchOK' /\ FlockOK' /\ Current' = Current
      /\ Current \notin DOMAIN Processed'
      /\ poller'.at = "record" /\ poller'.outcome = outcome
      /\ UNCHANGED <<ledger, control, texts, sent, failed>>
  BY <1>1, TakeStarts
<1>3. DecisionOK'
  BY <1>1, <1>2 DEF DecisionOK
<1> QED BY <1>2, <1>3, QuietStepKeepsInv

\* The command was carried out or refused: the decision waits to be recorded.
LEMMA DecidingKeepsInv ==
    ASSUME OwnerInv, poller.at = "commit", NEW outcome, Decided(outcome), PastKept, LedgerOK',
           UNCHANGED <<control, holder, runner, texts, sent, failed>>,
           NEW u, u = Current, outcome \in AcceptedOutcomes => AppliedAs(u, outcome)'
    PROVE  OwnerInv'
<1>1. /\ DOMAIN poller' = DOMAIN poller /\ poller'.at = "record"
      /\ poller'.batch = poller.batch /\ poller'.state = poller.state
      /\ poller'.outcome = outcome
  BY DEF Decided, OwnerInv, BatchOK
<1>2. BatchOK' /\ Current' = u
  <2>1. \A v : Settled(v) => Settled(v)'
    BY DEF Settled, Processed
  <2> QED BY <1>1, <2>1, SameBatch DEF OwnerInv
<1>3. FlockOK'
  BY <1>1 DEF OwnerInv, FlockOK, Bindings
<1>4. DecisionOK'
  <2>1. u \notin DOMAIN Processed'
    BY DEF OwnerInv, DecisionOK, Processed
  <2>2. outcome \in AcceptedOutcomes => (AppliedAs(Current, outcome))'
    BY <1>2 DEF AppliedAs, Applied, Means, CommandTransition
  <2> QED BY <1>1, <1>2, <2>1, <2>2 DEF DecisionOK, AppliedAs
<1>5. AcceptedOK'
  <2>1. ASSUME NEW v \in DOMAIN Processed', Decision(v)' \in AcceptedOutcomes
        PROVE  (AppliedAs(v, Decision(v)))'
    <3>1. PICK o : o = Decision(v)
      OBVIOUS
    <3>2. /\ v \in DOMAIN texts /\ AppliedAs(v, o) /\ Decision(v)' = o
      BY <2>1, <3>1 DEF OwnerInv, ControlOK, AcceptedOK, Processed, Decision
    <3>3. AppliedAs(v, o)'
      BY <3>2, AppliedStays DEF OwnerInv
    <3> QED BY <3>2, <3>3 DEF AppliedAs
  <2> QED BY <2>1 DEF AcceptedOK
<1>6. TextsOK' /\ ControlOK'
  BY DEF OwnerInv, TextsOK, ControlOK, Processed
<1>7. AnsweredOK' /\ NothingPassedInSilence'
  BY DEF OwnerInv, AnsweredOK, AnsweredOnceAfterDeciding, Decision, NothingPassedInSilence
<1> QED BY <1>2, <1>3, <1>4, <1>5, <1>6, <1>7 DEF OwnerInv

LEMMA RefusalKeepsInv ==
    ASSUME OwnerInv, poller.at = "commit", Decided(Refusal(texts[Current].kind)),
           UNCHANGED <<ledger, control, holder, runner, texts, sent, failed>>
    PROVE  OwnerInv'
<1>1. Refusal(texts[Current].kind) \notin AcceptedOutcomes
  BY DEF Refusal, AcceptedOutcomes
<1>2. PastKept
  BY DEF PastKept, LedgerKept, TextsKept, BindingsKept, DecisionsKept, Applied, Decision,
         Processed, Bindings
<1>3. LedgerOK'
  BY DEF OwnerInv, LedgerOK
<1> QED BY <1>1, <1>2, <1>3, DecidingKeepsInv

LEMMA CommitKeepsInv ==
    ASSUME OwnerInv, Commit \/ CommitFails
    PROVE  OwnerInv'
<1> DEFINE kind == texts[Current].kind
           id == CommandTransition(Current)
           s == poller.signal
           state == TerminalState(kind)
<1>1. CASE CommitFails
  BY <1>1, RefusalKeepsInv DEF CommitFails
<1>2. ASSUME Commit, Decided(Accepted(kind)),
             \/ /\ EntryAllowed(ledger, id, s, poller.expected)
                /\ ledger' = Entered(ledger, id, s, Evidence)
             \/ /\ TerminalAllowed(ledger, id, s, state, poller.expected)
                /\ ledger' = Terminated(ledger, id, s, state, Evidence)
      PROVE  OwnerInv'
  <2>1. /\ poller.at = "commit" /\ Means(Current, s)
        /\ UNCHANGED <<control, holder, runner, texts, sent, failed>>
        /\ s \in DOMAIN ledger.signals /\ id \notin DOMAIN ledger.transitions
    BY <1>2 DEF Commit, OwnerInv, DecisionOK, EntryAllowed, TerminalAllowed
  <2>2. /\ LedgerOK' /\ LedgerKept
        /\ id \in DOMAIN ledger'.transitions /\ ledger'.transitions[id].signal_id = s
    <3> HIDE DEF id, s, state
    <3> QED BY <1>2, <2>1, MoveKeepsLedger DEF OwnerInv
  <2>3. PastKept
    BY <2>1, <2>2 DEF PastKept, TextsKept, BindingsKept, DecisionsKept, Decision,
                      Processed, Bindings
  <2>4. Current \in DOMAIN texts
    BY <2>1, CurrentIsLeast DEF OwnerInv
  <2>5. PICK u, r, o : u = Current /\ r = s /\ o = Accepted(kind)
    OBVIOUS
  <2>6. Means(u, r)'
    BY <2>1, <2>3, <2>4, <2>5, MeaningStays
  <2>7. CommandTransition(u)' = id
    BY <2>1, <2>5 DEF CommandTransition
  <2>8. AppliedAs(u, o)'
    BY <2>1, <2>2, <2>5, <2>6, <2>7 DEF AppliedAs, Applied, Means
  <2> QED BY <1>2, <2>1, <2>2, <2>3, <2>5, <2>8, DecidingKeepsInv
<1>3. ASSUME Commit, Decided(Refusal(kind)), ledger' = ledger
      PROVE  OwnerInv'
  BY <1>3, RefusalKeepsInv DEF Commit
<1> QED BY <1>1, <1>2, <1>3 DEF Commit

LEMMA RecordKeepsInv ==
    ASSUME OwnerInv, Record
    PROVE  OwnerInv'
<1> DEFINE entry == [outcome |-> poller.outcome, answered |-> FALSE]
<1>1. /\ poller.at = "record" /\ poller.state = control /\ holder = "poller"
      /\ Current \in DOMAIN texts /\ Current \in Updates /\ Current \notin DOMAIN Processed
      /\ \A u \in 1 .. Current - 1 : Settled(u)
      /\ UNCHANGED <<ledger, runner, texts, sent, failed>>
  BY CurrentIsLeast DEF Record, OwnerInv, FlockOK, DecisionOK
<1>2. PICK u, e, o : u = Current /\ e = entry /\ o = poller.outcome
  OBVIOUS
<1>3. /\ DOMAIN control' = {"last_update_id", "processed_updates", "signal_message_bindings"}
      /\ control'.last_update_id = CursorAfter(control.last_update_id, u)
      /\ Processed' = Put(Processed, u, e)
      /\ Bindings' = Bindings
  <2> HIDE DEF entry
  <2>1. entry = [outcome |-> poller.outcome, answered |-> FALSE]
    BY DEF entry
  <2>2. control' = [ last_update_id    |-> CursorAfter(control.last_update_id, u),
                     processed_updates |-> Put(Processed, u, e),
                     signal_message_bindings |-> Bindings ]
    BY <1>1, <1>2, <2>1 DEF Record, WithDecision, Processed, Bindings
  <2> QED BY <2>2 DEF Processed, Bindings
<1>4. e.outcome = o /\ DOMAIN e = {"outcome", "answered"}
  BY <1>2
<1> HIDE DEF entry
<1>5. /\ DOMAIN Processed' = DOMAIN Processed \cup {u}
      /\ Processed'[u] = e
      /\ \A v \in DOMAIN Processed : Processed'[v] = Processed[v]
  BY <1>1, <1>2, <1>3 DEF Put
<1>6. /\ Decision(u)' = o
      /\ \A v \in DOMAIN Processed : Decision(v)' = Decision(v)
  BY <1>4, <1>5 DEF Decision, Processed
<1>7. \A v : Settled(v) => Settled(v)'
  BY <1>1, <1>5 DEF Settled
<1>8. /\ DOMAIN poller' = DOMAIN poller /\ poller'.at = "respond"
      /\ poller'.batch = poller.batch /\ poller'.outcome = o
  BY <1>2 DEF Record, OwnerInv, BatchOK
<1>9. BatchOK' /\ Current' = u
  BY <1>1, <1>2, <1>7, <1>8, SameBatch DEF OwnerInv
<1>10. TextsOK' /\ LedgerOK'
  BY <1>1 DEF OwnerInv, TextsOK, LedgerOK
<1>11. ControlOK'
  <2>1. control'.last_update_id \in Nat
    BY <1>1, <1>2, <1>3 DEF CursorAfter, OwnerInv, ControlOK, Updates
  <2> QED BY <1>1, <1>2, <1>3, <1>4, <1>5, <2>1 DEF OwnerInv, ControlOK
<1>12. FlockOK'
  <2>1. holder' = None
    BY DEF Record
  <2> QED BY <1>1, <1>3, <1>8, <2>1, NameAssumption DEF OwnerInv, FlockOK
<1>13. PastKept
  <2>1. \A v \in Updates : CommandTransition(v)' = CommandTransition(v)
    BY <1>1 DEF CommandTransition
  <2> QED BY <1>1, <1>3, <1>5, <1>6
      DEF PastKept, LedgerKept, TextsKept, BindingsKept, DecisionsKept, Applied
<1>14. DecisionOK'
  <2>1. \A i \in DOMAIN sent : sent[i].update # u
    BY <1>1, <1>2 DEF OwnerInv, AnsweredOK, AnsweredOnceAfterDeciding, Processed
  <2>2. u \in DOMAIN Processed' /\ poller'.outcome = Decision(u)'
    BY <1>5, <1>6, <1>8
  <2> QED BY <1>1, <1>8, <1>9, <2>1, <2>2 DEF DecisionOK, Decision
<1>15. AcceptedOK'
  <2>1. ASSUME NEW v \in DOMAIN Processed', NEW d, d = Decision(v)', d \in AcceptedOutcomes
        PROVE  AppliedAs(v, d)'
    <3>1. v \in DOMAIN texts /\ AppliedAs(v, d)
      BY <1>1, <1>2, <1>5, <1>6, <2>1 DEF OwnerInv, ControlOK, AcceptedOK, DecisionOK
    <3> QED BY <1>13, <3>1, AppliedStays DEF OwnerInv
  <2>2. ASSUME NEW v \in DOMAIN Processed', Decision(v)' \in AcceptedOutcomes
        PROVE  (AppliedAs(v, Decision(v)))'
    <3>1. PICK d : d = Decision(v)'
      OBVIOUS
    <3>2. AppliedAs(v, d)'
      BY <2>1, <2>2, <3>1
    <3> QED BY <3>1, <3>2 DEF AppliedAs
  <2> QED BY <2>2 DEF AcceptedOK
<1>16. AnsweredOK'
  BY <1>1, <1>5, <1>6 DEF OwnerInv, AnsweredOK, AnsweredOnceAfterDeciding, Processed
<1>17. NothingPassedInSilence'
  <2>1. ASSUME NEW v \in 1 .. control'.last_update_id
        PROVE  v \in DOMAIN Processed' \cup failed'
    <3>1. CASE v \in 1 .. control.last_update_id
      <4>1. Settled(v)
        BY <3>1 DEF OwnerInv, NothingPassedInSilence, Settled, Processed
      <4> QED BY <1>7, <4>1 DEF Settled
    <3>2. CASE v \in 1 .. u - 1
      BY <1>1, <1>2, <1>7, <3>2 DEF Settled
    <3>3. CASE v = u
      BY <1>5, <3>3
    <3>4. v \in 1 .. control.last_update_id \/ v \in 1 .. u
      BY <1>3, <2>1 DEF CursorAfter
    <3>5. u \in Nat
      BY <1>1, <1>2 DEF Updates
    <3> QED BY <3>1, <3>2, <3>3, <3>4, <3>5
  <2> QED BY <2>1 DEF NothingPassedInSilence, Processed
<1> QED BY <1>9, <1>10, <1>11, <1>12, <1>14, <1>15, <1>16, <1>17 DEF OwnerInv

LEMMA RespondKeepsInv ==
    ASSUME OwnerInv, Respond
    PROVE  OwnerInv'
<1> DEFINE answer == [update |-> Current, outcome |-> poller.outcome]
<1>1. /\ poller.at = "respond" /\ sent' = Append(sent, answer)
      /\ UNCHANGED <<ledger, control, holder, runner, texts, failed>>
      /\ Current \in DOMAIN Processed /\ poller.outcome = Decision(Current)
      /\ \A i \in DOMAIN sent : sent[i].update # Current
  BY DEF Respond, OwnerInv, DecisionOK
<1>2. /\ DOMAIN poller' = DOMAIN poller /\ poller'.at = "receipt"
      /\ poller'.batch = poller.batch /\ poller'.outcome = poller.outcome
  BY DEF Respond, OwnerInv, BatchOK
<1>3. BatchOK' /\ Current' = Current
  <2>1. \A u : Settled(u) => Settled(u)'
    BY <1>1 DEF Settled, Processed
  <2> QED BY <1>1, <1>2, <2>1, SameBatch DEF OwnerInv
<1>4. TextsOK' /\ LedgerOK' /\ ControlOK'
  BY <1>1 DEF OwnerInv, TextsOK, LedgerOK, ControlOK, Processed
<1>5. FlockOK'
  BY <1>1, <1>2 DEF OwnerInv, FlockOK, Bindings
<1>6. DecisionOK'
  BY <1>1, <1>2, <1>3 DEF DecisionOK, Processed, Decision
<1>7. AcceptedOK'
  BY <1>1 DEF OwnerInv, AcceptedOK, AppliedAs, Applied, Means, CommandTransition, Decision,
              Processed, Bindings
<1>8. answer.update = Current /\ answer.outcome = Decision(Current)
  BY <1>1
<1> HIDE DEF answer
<1>9. /\ \E S : sent' \in Seq(S)
      /\ \A i \in DOMAIN sent : sent'[i] = sent[i]
      /\ sent'[Len(sent) + 1] = answer
      /\ \A i \in DOMAIN sent' : i \in DOMAIN sent \/ i = Len(sent) + 1
  <2>1. PICK S : sent \in Seq(S)
    BY DEF OwnerInv, AnsweredOK
  <2>2. sent \in Seq(S \cup {answer})
    BY <2>1
  <2>3. sent' \in Seq(S \cup {answer})
    BY <1>1, <2>2
  <2>4. /\ \A i \in DOMAIN sent : sent'[i] = sent[i]
        /\ sent'[Len(sent) + 1] = answer
        /\ \A i \in DOMAIN sent' : i \in DOMAIN sent \/ i = Len(sent) + 1
    BY <1>1, <2>1
  <2> QED BY <2>3, <2>4
<1>10. AnsweredOnceAfterDeciding'
  <2>1. \A i \in DOMAIN sent' :
           /\ sent'[i].update \in DOMAIN control'.processed_updates
           /\ sent'[i].outcome = control'.processed_updates[sent'[i].update].outcome
    BY <1>1, <1>8, <1>9
       DEF OwnerInv, AnsweredOK, AnsweredOnceAfterDeciding, Decision, Processed
  <2>2. \A i, j \in DOMAIN sent' : sent'[i].update = sent'[j].update => i = j
    BY <1>1, <1>8, <1>9 DEF OwnerInv, AnsweredOK, AnsweredOnceAfterDeciding
  <2> QED BY <2>1, <2>2 DEF AnsweredOnceAfterDeciding, Decision
<1>11. NothingPassedInSilence'
  BY <1>1 DEF OwnerInv, NothingPassedInSilence
<1> QED BY <1>3, <1>4, <1>5, <1>6, <1>7, <1>9, <1>10, <1>11 DEF OwnerInv, AnsweredOK

LEMMA RecordReceiptKeepsInv ==
    ASSUME OwnerInv, RecordReceipt
    PROVE  OwnerInv'
<1>1. /\ poller.at = "receipt" /\ holder = None /\ NextUpdate
      /\ UNCHANGED <<ledger, holder, runner, texts, sent, failed>>
      /\ Current \in DOMAIN Processed
  BY DEF RecordReceipt, OwnerInv, DecisionOK
<1>2. /\ DOMAIN control' = DOMAIN control
      /\ control'.last_update_id = control.last_update_id
      /\ Bindings' = Bindings
      /\ DOMAIN Processed' = DOMAIN Processed
      /\ \A u \in DOMAIN Processed :
            /\ DOMAIN Processed'[u] = DOMAIN Processed[u]
            /\ Processed'[u].outcome = Processed[u].outcome
  BY DEF RecordReceipt, OwnerInv, ControlOK, Processed, Bindings
<1>3. \A u \in DOMAIN Processed : Decision(u)' = Decision(u)
  BY <1>2 DEF Decision, Processed
<1>4. TextsOK' /\ LedgerOK' /\ ControlOK'
  BY <1>1, <1>2 DEF OwnerInv, TextsOK, LedgerOK, ControlOK
<1>5. BatchOK' /\ poller'.at \in {"fetch", "process"}
  <2>1. \A u : Settled(u) => Settled(u)'
    BY <1>1, <1>2 DEF Settled
  <2> QED BY <1>1, <1>2, <2>1, NextUpdateKeepsBatch DEF OwnerInv
<1>6. FlockOK'
  BY <1>1, <1>2, <1>5, NameAssumption DEF OwnerInv, FlockOK
<1>7. DecisionOK'
  BY <1>5, NoDecisionPending
<1>8. AcceptedOK'
  BY <1>1, <1>2, <1>3 DEF OwnerInv, AcceptedOK, AppliedAs, Applied, Means, CommandTransition
<1>9. AnsweredOK'
  BY <1>1, <1>2, <1>3 DEF OwnerInv, AnsweredOK, AnsweredOnceAfterDeciding, Processed
<1>10. NothingPassedInSilence'
  BY <1>1, <1>2 DEF OwnerInv, NothingPassedInSilence, Processed
<1> QED BY <1>4, <1>5, <1>6, <1>7, <1>8, <1>9, <1>10 DEF OwnerInv

-----------------------------------------------------------------------------
(* The owner, the runner and the other callers of the ledger. *)

\* A step on the ledger or the texts alone.
LEMMA OutsideKeepsInv ==
    ASSUME OwnerInv, UNCHANGED <<control, holder, poller, sent, failed>>,
           TextsOK', LedgerOK', LedgerKept, TextsKept, FlockOK'
    PROVE  OwnerInv'
<1>1. PastKept
  BY DEF PastKept, BindingsKept, DecisionsKept, Decision, Processed, Bindings
<1>2. ControlOK'
  BY DEF OwnerInv, ControlOK, TextsKept, Processed
<1>3. Processed' = Processed
  BY DEF Processed
<1> QED BY <1>1, <1>2, <1>3, OthersKeepInv

LEMMA OwnerSendsKeepsInv ==
    ASSUME OwnerInv, NEW text \in Texts, OwnerSends(text)
    PROVE  OwnerInv'
<1>1. UNCHANGED <<ledger, control, holder, poller, runner, sent, failed>>
  BY DEF OwnerSends
<1>2. TextsOK' /\ TextsKept
  BY BoundAssumption DEF OwnerSends, OwnerInv, TextsOK, TextsKept
<1>3. LedgerOK' /\ LedgerKept
  BY <1>1 DEF OwnerInv, LedgerOK, LedgerKept, Applied
<1>4. FlockOK'
  BY <1>1 DEF OwnerInv, FlockOK, Bindings
<1> QED BY <1>1, <1>2, <1>3, <1>4, OutsideKeepsInv

LEMMA PublishKeepsInv ==
    ASSUME OwnerInv, NEW p \in Publications, Publish(p)
    PROVE  OwnerInv'
<1>1. /\ UNCHANGED <<control, holder, poller, texts, sent, failed>>
      /\ runner' = [publication |-> p, state |-> None]
      /\ p.message \notin DOMAIN Bindings
  BY DEF Publish, Bindings
<1>2. LedgerOK' /\ LedgerKept
  BY RegistrationKeepsLedger DEF Publish, OwnerInv
<1>3. TextsOK' /\ TextsKept
  BY <1>1 DEF OwnerInv, TextsOK, TextsKept
<1>4. FlockOK'
  BY <1>1 DEF OwnerInv, FlockOK, Bindings
<1> QED BY <1>1, <1>2, <1>3, <1>4, OutsideKeepsInv

LEMMA OthersEndKeepsInv ==
    ASSUME OwnerInv, NEW e, OthersEnd(e)
    PROVE  OwnerInv'
<1>1. UNCHANGED <<control, holder, poller, runner, texts, sent, failed>>
  BY DEF OthersEnd
<1>2. LedgerOK' /\ LedgerKept
  BY MoveKeepsLedger DEF OthersEnd, TerminalAllowed, OwnerInv
<1>3. TextsOK' /\ TextsKept
  BY <1>1 DEF OwnerInv, TextsOK, TextsKept
<1>4. FlockOK'
  BY <1>1 DEF OwnerInv, FlockOK, Bindings
<1> QED BY <1>1, <1>2, <1>3, <1>4, OutsideKeepsInv

LEMMA RunnerKeepsInv ==
    ASSUME OwnerInv, RunnerLocks \/ RunnerRefused \/ RunnerDies
    PROVE  OwnerInv'
<1>1. UNCHANGED <<ledger, control, poller, texts, sent, failed>>
  BY DEF RunnerLocks, RunnerRefused, RunnerDies
<1>2. PastKept
  BY <1>1 DEF PastKept, LedgerKept, TextsKept, BindingsKept, DecisionsKept, Applied, Decision,
              Processed, Bindings
<1>3. TextsOK' /\ LedgerOK' /\ ControlOK'
  BY <1>1 DEF OwnerInv, TextsOK, LedgerOK, ControlOK, Processed
<1>4. FlockOK'
  <2>1. CASE RunnerLocks
    <3>1. /\ DOMAIN runner' = DOMAIN runner /\ runner'.publication = runner.publication
          /\ runner'.state = control /\ holder = None /\ holder' = "runner"
      BY <2>1 DEF RunnerLocks, OwnerInv, FlockOK
    <3>2. runner # None
      BY <2>1 DEF RunnerLocks
    <3> QED BY <1>1, <3>1, <3>2, NameAssumption DEF OwnerInv, FlockOK, Bindings
  <2>2. CASE RunnerRefused
    BY <1>1, <2>2 DEF RunnerRefused, OwnerInv, FlockOK
  <2>3. CASE RunnerDies
    BY <1>1, <2>3, NameAssumption DEF RunnerDies, OwnerInv, FlockOK
  <2> QED BY <2>1, <2>2, <2>3
<1>5. Processed' = Processed
  BY <1>1 DEF Processed
<1> QED BY <1>1, <1>2, <1>3, <1>4, <1>5, OthersKeepInv

LEMMA RunnerBindsKeepsInv ==
    ASSUME OwnerInv, RunnerBinds
    PROVE  OwnerInv'
<1> DEFINE p == runner.publication
<1>1. /\ UNCHANGED <<ledger, poller, texts, sent, failed>>
      /\ runner' = None /\ holder = "runner" /\ holder' = None
      /\ runner.state = control /\ p.message \notin DOMAIN Bindings
  BY DEF RunnerBinds, OwnerInv, FlockOK
<1>2. /\ DOMAIN control' = DOMAIN control
      /\ control'.last_update_id = control.last_update_id
      /\ Processed' = Processed
      /\ Bindings' = Put(Bindings, p.message, p.request.signal_id)
  BY <1>1 DEF RunnerBinds, OwnerInv, ControlOK, Processed, Bindings
<1>3. BindingsKept
  <2> HIDE DEF p
  <2> QED BY <1>1, <1>2 DEF BindingsKept, Put
<1>4. PastKept
  BY <1>1, <1>2, <1>3 DEF PastKept, LedgerKept, TextsKept, DecisionsKept, Applied, Decision,
                          Processed
<1>5. TextsOK' /\ LedgerOK' /\ ControlOK'
  BY <1>1, <1>2 DEF OwnerInv, TextsOK, LedgerOK, ControlOK
<1>6. FlockOK'
  BY <1>1, NameAssumption DEF OwnerInv, FlockOK
<1> QED BY <1>1, <1>2, <1>4, <1>5, <1>6, OthersKeepInv

-----------------------------------------------------------------------------
(* Theorems. *)

LEMMA InitInv == Init => OwnerInv
<1> SUFFICES ASSUME Init PROVE OwnerInv
  OBVIOUS
<1>1. /\ texts = <<>> /\ sent = <<>> /\ holder = None /\ runner = None
      /\ poller.at = "fetch"
      /\ DOMAIN poller = {"at", "batch", "state", "signal", "expected", "outcome"}
  BY DEF Init, Idle
<1>2. /\ DOMAIN control = {"last_update_id", "processed_updates", "signal_message_bindings"}
      /\ control.last_update_id = 0 /\ DOMAIN Processed = {}
  BY DEF Init, EmptyState, NoEntries, Processed
<1>3. DOMAIN ledger.signals = {} /\ DOMAIN ledger.transactions = {}
  BY DEF Init, EmptyLedger, NoEntries
<1>4. TextsOK /\ LedgerOK /\ ControlOK
  BY <1>1, <1>2, <1>3, BoundAssumption DEF TextsOK, LedgerOK, ControlOK
<1>5. FlockOK /\ BatchOK /\ DecisionOK
  BY <1>1, NameAssumption DEF FlockOK, BatchOK, DecisionOK
<1>6. AcceptedOK /\ NothingPassedInSilence
  BY <1>2 DEF AcceptedOK, NothingPassedInSilence
<1>7. AnsweredOK
  <2>1. sent \in Seq({}) /\ DOMAIN sent = {}
    BY <1>1
  <2> QED BY <2>1 DEF AnsweredOK, AnsweredOnceAfterDeciding
<1> QED BY <1>4, <1>5, <1>6, <1>7 DEF OwnerInv

LEMMA StutterKeepsInv == OwnerInv /\ UNCHANGED vars => OwnerInv'
<1> SUFFICES ASSUME OwnerInv, UNCHANGED vars PROVE OwnerInv'
  OBVIOUS
<1>1. FlockOK' /\ BatchOK' /\ DecisionOK'
  BY DEF vars, OwnerInv, FlockOK, BatchOK, DecisionOK, Bindings, Processed, Settled, Current,
         Means, AppliedAs, Applied, CommandTransition, Decision
<1> QED BY <1>1, QuietStepKeepsInv DEF vars

LEMMA NextKeepsInv == OwnerInv /\ [Next]_vars => OwnerInv'
<1> SUFFICES ASSUME OwnerInv, [Next]_vars PROVE OwnerInv'
  OBVIOUS
<1>1. ASSUME NEW text \in Texts, OwnerSends(text) PROVE OwnerInv'
  BY <1>1, OwnerSendsKeepsInv
<1>2. ASSUME PollerStep PROVE OwnerInv'
  <2>1. ASSUME NEW redelivered, Fetch(redelivered) PROVE OwnerInv'
    BY <2>1, FetchKeepsInv
  <2>2. CASE LockUnavailable \/ Suppress
    BY <2>2, LeavingSteps
  <2>3. CASE Resolve
    BY <2>3, ResolveKeepsInv
  <2>4. CASE DecideWithoutEffect
    BY <2>4, DecisionWithoutEffect
  <2>5. CASE Commit
    BY <2>5, CommitKeepsInv
  <2>6. CASE Record
    BY <2>6, RecordKeepsInv
  <2>7. CASE Respond
    BY <2>7, RespondKeepsInv
  <2>8. CASE RecordReceipt
    BY <2>8, RecordReceiptKeepsInv
  <2>9. CASE ReceiptUnavailable
    BY <2>9, RestartKeepsInv
  <2> QED BY <1>2, <2>1, <2>2, <2>3, <2>4, <2>5, <2>6, <2>7, <2>8, <2>9 DEF PollerStep
<1>3. CASE LoadFails
  BY <1>3, DecisionWithoutEffect
<1>4. CASE CommitFails
  BY <1>4, CommitKeepsInv
<1>5. CASE RecordFails
  BY <1>5, LeavingSteps
<1>6. CASE Crash
  BY <1>6, RestartKeepsInv
<1>7. ASSUME NEW p \in Publications, Publish(p) PROVE OwnerInv'
  BY <1>7, PublishKeepsInv
<1>8. CASE RunnerStep \/ RunnerDies
  BY <1>8, RunnerKeepsInv, RunnerBindsKeepsInv DEF RunnerStep
<1>9. ASSUME NEW e \in Endings, OthersEnd(e) PROVE OwnerInv'
  BY <1>9, OthersEndKeepsInv
<1>10. CASE UNCHANGED vars
  BY <1>10, StutterKeepsInv
<1> QED BY <1>1, <1>2, <1>3, <1>4, <1>5, <1>6, <1>7, <1>8, <1>9, <1>10 DEF Next

\* The two processes, their locks and files stay in step with each other.
THEOREM OwnerInvHolds == Spec => []OwnerInv
<1>1. Init => OwnerInv
  BY InitInv
<1>2. OwnerInv /\ [Next]_vars => OwnerInv'
  BY NextKeepsInv
<1> QED BY <1>1, <1>2, PTL DEF Spec

\* What the owner is told was accepted, the ledger holds, for a signal of the
\* pair he named and of the message he replied to, whatever crashed or failed
\* (process_owner_update, commit_owner_confirmed_entry, commit_owner_terminal).
THEOREM AcceptedIsAppliedTheorem == Spec => []AcceptedIsApplied
<1>1. OwnerInv => AcceptedIsApplied
  BY DEF OwnerInv, AcceptedOK, AcceptedIsApplied, AcceptedOutcomes, AppliedAs, Means,
         Processed, Bindings
<1> QED BY <1>1, OwnerInvHolds, PTL

\* A recorded decision is the one the owner is told, and he is told it once,
\* across crashes and updates that are delivered again (_record_decision
\* before send_message, and processed_updates before both).
THEOREM AnsweredOnceTheorem == Spec => []AnsweredOnceAfterDeciding
<1>1. OwnerInv => AnsweredOnceAfterDeciding
  BY DEF OwnerInv, AnsweredOK
<1> QED BY <1>1, OwnerInvHolds, PTL

\* The cursor of get_updates never passes an update that was neither decided
\* nor failed to be recorded (last_update_id and the order of a batch).
THEOREM NothingPassedTheorem == Spec => []NothingPassedInSilence
<1>1. OwnerInv => NothingPassedInSilence
  BY DEF OwnerInv
<1> QED BY <1>1, OwnerInvHolds, PTL

LEMMA NextKeepsLedger == OwnerInv /\ [Next]_vars => LedgerKept
<1> SUFFICES ASSUME OwnerInv, [Next]_vars PROVE LedgerKept
  OBVIOUS
<1>1. CASE ledger' = ledger
  BY <1>1 DEF LedgerKept, Applied
<1>2. CASE Commit
  <2>1. CASE ledger' = ledger
    BY <1>1, <2>1
  <2>2. CASE ledger' # ledger
    <3> DEFINE id == CommandTransition(Current)
               s == poller.signal
               state == TerminalState(texts[Current].kind)
    <3>1. \/ /\ EntryAllowed(ledger, id, s, poller.expected)
             /\ ledger' = Entered(ledger, id, s, Evidence)
          \/ /\ TerminalAllowed(ledger, id, s, state, poller.expected)
             /\ ledger' = Terminated(ledger, id, s, state, Evidence)
      BY <1>2, <2>2 DEF Commit
    <3> HIDE DEF id, s, state
    <3>2. s \in DOMAIN ledger.signals /\ id \notin DOMAIN ledger.transitions
      BY <3>1 DEF EntryAllowed, TerminalAllowed
    <3> QED BY <3>1, <3>2, MoveKeepsLedger DEF OwnerInv
  <2> QED BY <2>1, <2>2
<1>3. ASSUME NEW p \in Publications, Publish(p) PROVE LedgerKept
  BY <1>3, RegistrationKeepsLedger DEF Publish, OwnerInv
<1>4. ASSUME NEW e \in Endings, OthersEnd(e) PROVE LedgerKept
  BY <1>4, MoveKeepsLedger DEF OthersEnd, TerminalAllowed, OwnerInv
<1>5. \/ ledger' = ledger
      \/ Commit
      \/ \E p \in Publications : Publish(p)
      \/ \E e \in Endings : OthersEnd(e)
  BY DEF Next, PollerStep, RunnerStep, vars, OwnerSends, Fetch, LockUnavailable, Suppress, Resolve,
         Take, DecideWithoutEffect, LoadFails, CommitFails, Record, RecordFails, Respond,
         RecordReceipt, ReceiptUnavailable, Crash, RunnerLocks, RunnerRefused, RunnerBinds,
         RunnerDies
<1> QED BY <1>1, <1>2, <1>3, <1>4, <1>5

\* A command takes effect at most once, on the signal it first meant: a crash
\* between the ledger's write and the control state's lets the update come
\* again, but its transition id is taken (transition_id in the ledger).
THEOREM EffectIsFinalTheorem == Spec => EffectIsFinal
<1> DEFINE Final ==
      \A u \in DOMAIN texts :
          Applied(u) =>
              /\ CommandTransition(u) \in DOMAIN ledger'.transitions
              /\ ledger'.transitions[CommandTransition(u)] =
                    ledger.transitions[CommandTransition(u)]
<1>1. OwnerInv /\ [Next]_vars => [Final]_vars
  <2> SUFFICES ASSUME OwnerInv, [Next]_vars PROVE Final
    OBVIOUS
  <2>1. DOMAIN texts \subseteq Updates
    BY BoundAssumption DEF OwnerInv, TextsOK, Updates
  <2>2. LedgerKept
    BY NextKeepsLedger
  <2> QED BY <2>1, <2>2 DEF LedgerKept
<1> QED BY <1>1, OwnerInvHolds, PTL DEF Spec, EffectIsFinal
-----------------------------------------------------------------------------
(* What is written is a ledger that validate_ledger accepts. *)

\* What a registration writes is as sound as what it found.
LEMMA RegistrationStaysSound ==
    ASSUME NEW L, SoundLedger(L), NEW request, NEW expected,
           Reserved(L, request, expected) # None
    PROVE  SoundLedger(Reserved(L, request, expected))
<1> DEFINE resumed == CommitOccupancy(L, request.transaction_id)
           written == PrepareAndCommit(L, request)
           R == Reserved(L, request, expected)
<1>1. /\ R \in {resumed, L, written}
      /\ Valid(R)
  BY DEF Reserved
<1>2. CASE R = resumed
  BY <1>1, <1>2, CommittedStaysSound DEF SoundLedger
<1>3. CASE R = L
  BY <1>3
<1>4. CASE R = written
  BY <1>1, <1>4, ReservedStaysSound
<1> HIDE DEF R, resumed, written
<1> QED BY <1>1, <1>2, <1>3, <1>4 DEF R

LEMMA OwnerStepStaysSound ==
    ASSUME SoundLedger(ledger), [Next]_vars
    PROVE  SoundLedger(ledger')
<1>1. CASE Commit
  <2> DEFINE id == CommandTransition(Current)
             s == poller.signal
             state == TerminalState(texts[Current].kind)
  <2>1. CASE ledger' = ledger
    BY <2>1
  <2>2. CASE /\ EntryAllowed(ledger, id, s, poller.expected)
             /\ ledger' = Entered(ledger, id, s, Evidence)
    BY <2>2, EnteredStaysSound
  <2>3. CASE /\ TerminalAllowed(ledger, id, s, state, poller.expected)
             /\ ledger' = Terminated(ledger, id, s, state, Evidence)
    <3>1. state \in TerminalStates
      BY DEF TerminalState, TerminalStates
    <3>2. s \in DOMAIN ledger.signals
      BY <2>3 DEF TerminalAllowed
    <3> QED BY <2>3, <3>1, <3>2, TerminatedStaysSound
  <2> QED BY <1>1, <2>1, <2>2, <2>3 DEF Commit
<1>2. CASE \E p \in Publications : Publish(p)
  BY <1>2, RegistrationStaysSound DEF Publish
<1>3. CASE \E e \in Endings : OthersEnd(e)
  <2>1. PICK e \in Endings : OthersEnd(e)
    BY <1>3
  <2>2. e.state \in TerminalStates /\ e.signal \in DOMAIN ledger.signals
    BY <2>1, EndingAssumption DEF OthersEnd, TerminalAllowed
  <2> QED BY <2>1, <2>2, TerminatedStaysSound DEF OthersEnd
<1>4. CASE \/ \E text \in Texts : OwnerSends(text)
           \/ \E redelivered : Fetch(redelivered)
           \/ LockUnavailable \/ Suppress \/ Resolve \/ DecideWithoutEffect
           \/ Record \/ Respond \/ RecordReceipt \/ ReceiptUnavailable
           \/ LoadFails \/ CommitFails \/ RecordFails \/ Crash
           \/ RunnerStep \/ RunnerDies
  <2>1. ASSUME \E text \in Texts : OwnerSends(text) PROVE ledger' = ledger
    BY <2>1 DEF OwnerSends
  <2>2. ASSUME \E redelivered : Fetch(redelivered) PROVE ledger' = ledger
    BY <2>2 DEF Fetch
  <2>3. ASSUME LockUnavailable \/ Suppress \/ Resolve \/ DecideWithoutEffect
        PROVE  ledger' = ledger
    BY <2>3 DEF LockUnavailable, Suppress, Resolve, DecideWithoutEffect, Take
  <2>4. ASSUME Record \/ Respond \/ RecordReceipt \/ ReceiptUnavailable
        PROVE  ledger' = ledger
    BY <2>4 DEF Record, Respond, RecordReceipt, ReceiptUnavailable
  <2>5. ASSUME LoadFails \/ CommitFails \/ RecordFails \/ Crash
        PROVE  ledger' = ledger
    BY <2>5 DEF LoadFails, CommitFails, RecordFails, Crash, Take, Unrecorded
  <2>6. ASSUME RunnerStep \/ RunnerDies PROVE ledger' = ledger
    BY <2>6 DEF RunnerStep, RunnerLocks, RunnerRefused, RunnerBinds, RunnerDies
  <2> QED BY <1>4, <2>1, <2>2, <2>3, <2>4, <2>5, <2>6
<1>5. CASE UNCHANGED vars
  BY <1>5 DEF vars
<1> QED BY <1>1, <1>2, <1>3, <1>4, <1>5 DEF Next, PollerStep

\* Commands of the owner, registrations and the endings of other callers,
\* each decided on what was loaded before, never exceed the ledger's capacity
\* nor enter a pair twice: validate_ledger accepts whatever they leave.
THEOREM OwnerLedgerIsValidTheorem == Spec => []Valid(ledger)
<1>1. Init => SoundLedger(ledger)
  BY EmptyIsSound DEF Init
<1>2. SoundLedger(ledger) /\ [Next]_vars => SoundLedger(ledger)'
  BY OwnerStepStaysSound
<1>3. SoundLedger(ledger) => Valid(ledger)
  BY DEF SoundLedger
<1> QED BY <1>1, <1>2, <1>3, PTL DEF Spec
=============================================================================
