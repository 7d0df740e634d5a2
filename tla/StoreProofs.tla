---------------------------- MODULE StoreProofs -----------------------------
(***************************************************************************)
(* Theorems about the stores that share nothing with another: the quota    *)
(* file (QuotaSlots), the replay guard (ReplayGuard), the refill request   *)
(* ledger (StyleRefillLedger) and the durable reservation store            *)
(* (ReservationStore), for every value of their constants.                 *)
(***************************************************************************)
EXTENDS ReplayGuard, QuotaSlots, StyleRefillLedger, ReservationStore,
        FiniteSetTheorems, WellFoundedInduction, TLAPS

-----------------------------------------------------------------------------
(* The quota file: any users, windows and reservations, whatever fails. *)

Places == {"idle", "admitted", "running", "releasing"}

SlotStates == {"UNKNOWN", "ACTIVE", "RELEASED"}

Counts == [Subjects -> [Windows -> Nat]]

QuotaTypeOK ==
    /\ window \in Windows
    /\ usage \in Counts
    /\ slots \in [ReservationIds -> SlotStates]
    /\ scan \in [state : {"NONE", "STARTED", "COMPLETED", "FAILED"},
                 of : ReservationIds \cup {NoReservation}]
    /\ place \in Places
    /\ subject \in Subjects
    /\ admission \in ReservationIds \cup {NoReservation}
    /\ workerError \in BOOLEAN
    /\ answer.admission \in ReservationIds \cup {NoReservation}
    /\ ran \in Counts
    /\ abandoned \subseteq ReservationIds

\* A dispatch between the steps has a reservation, and it is active; an idle
\* one has none.
DispatchHoldsSlot ==
    IF place = "idle" THEN admission = NoReservation
    ELSE admission \in ReservationIds /\ slots[admission] = "ACTIVE"

\* An admitted scan is charged and has not run.
AdmittedIsCharged ==
    place = "admitted" => ran[subject][window] < usage[subject][window]

\* A worker that did not raise has written what it did.
WorkerHasWritten ==
    /\ place = "running" => scan.of = admission
    /\ place = "releasing" /\ ~workerError =>
          scan = [state |-> "COMPLETED", of |-> admission]

\* A scan was answered as a success once, of a slot that was given back then.
SuccessIsSettled ==
    answer.category = "SCAN_SUCCESS" =>
        /\ answer.admission \in ReservationIds
        /\ slots[answer.admission] = "RELEASED"
        /\ scan.of = answer.admission => scan.state = "COMPLETED"

QuotaInv ==
    /\ QuotaTypeOK
    /\ DispatchHoldsSlot
    /\ AdmittedIsCharged
    /\ WorkerHasWritten
    /\ SuccessIsSettled
    /\ ScansArePaidFor
    /\ ActiveSlots \subseteq abandoned \cup {admission}

USE DEF Places, SlotStates, Counts

-----------------------------------------------------------------------------
(* The invariant holds at the outset and every step keeps it. *)

LEMMA InitialInv == QuotaInit => QuotaInv
<1> SUFFICES ASSUME QuotaInit PROVE QuotaInv
  OBVIOUS
<1> USE DEF QuotaInit
<1>1. /\ usage \in Counts
      /\ \A s \in Subjects, w \in Windows : usage[s][w] = 0
  OBVIOUS
<1>2. QuotaTypeOK
  BY <1>1 DEF QuotaTypeOK
<1>3. DispatchHoldsSlot /\ AdmittedIsCharged /\ WorkerHasWritten
  BY DEF DispatchHoldsSlot, AdmittedIsCharged, WorkerHasWritten
<1>4. SuccessIsSettled
  BY DEF SuccessIsSettled
<1>5. ScansArePaidFor
  BY <1>1, QuotaAssumption DEF ScansArePaidFor
<1>6. ActiveSlots = {}
  BY DEF ActiveSlots
<1> QED BY <1>2, <1>3, <1>4, <1>5, <1>6 DEF QuotaInv

\* A rejection leaves the files as they are.
LEMMA RejectedKeepsInv ==
    ASSUME QuotaInv, place = "idle", NEW category \in Rejections \cup {"INTERNAL_ERROR"},
           Rejected(category)
    PROVE  QuotaInv'
<1> USE DEF Rejected, Respond
<1>1. QuotaTypeOK'
  BY DEF QuotaInv, QuotaTypeOK, DispatchHoldsSlot
<1>2. (DispatchHoldsSlot /\ AdmittedIsCharged /\ WorkerHasWritten)'
  BY DEF DispatchHoldsSlot, AdmittedIsCharged, WorkerHasWritten
<1>3. SuccessIsSettled'
  BY DEF SuccessIsSettled, Rejections
<1>4. (ScansArePaidFor /\ ActiveSlots \subseteq abandoned \cup {admission})'
  BY DEF QuotaInv, DispatchHoldsSlot, ScansArePaidFor, ActiveSlots
<1> QED BY <1>1, <1>2, <1>3, <1>4 DEF QuotaInv

\* An admission charges the user and takes a slot that nobody had.
LEMMA AdmitKeepsInv ==
    ASSUME QuotaInv, NEW r \in ReservationIds, Admit(r)
    PROVE  QuotaInv'
<1> USE DEF Admit, HasRoom
<1>1. /\ usage[subject][window] \in Nat
      /\ usage[subject][window] < QuotaLimit
      /\ ran[subject][window] <= usage[subject][window]
      /\ ran[subject][window] \in Nat
      /\ \A s \in Subjects, w \in Windows :
            usage'[s][w] = IF s = subject /\ w = window
                           THEN usage[s][w] + 1 ELSE usage[s][w]
  BY DEF QuotaInv, QuotaTypeOK, ScansArePaidFor
<1>2. QuotaTypeOK'
  BY DEF QuotaInv, QuotaTypeOK
<1>3. DispatchHoldsSlot'
  BY DEF QuotaInv, QuotaTypeOK, DispatchHoldsSlot
<1>4. AdmittedIsCharged'
  <2>1. usage'[subject'][window'] = usage[subject][window] + 1
    BY <1>1 DEF QuotaInv, QuotaTypeOK
  <2>2. ran'[subject'][window'] = ran[subject][window]
    OBVIOUS
  <2> QED BY <1>1, <2>1, <2>2 DEF AdmittedIsCharged
<1>5. WorkerHasWritten'
  BY DEF WorkerHasWritten
<1>6. SuccessIsSettled'
  BY DEF QuotaInv, QuotaTypeOK, SuccessIsSettled
<1>7. ScansArePaidFor'
  BY <1>1, QuotaAssumption DEF QuotaInv, QuotaTypeOK, ScansArePaidFor
<1>8. (ActiveSlots \subseteq abandoned \cup {admission})'
  BY QuotaAssumption DEF QuotaInv, QuotaTypeOK, DispatchHoldsSlot, ActiveSlots
<1> QED BY <1>2, <1>3, <1>4, <1>5, <1>6, <1>7, <1>8 DEF QuotaInv

\* A run that starts is one of those that were charged.
LEMMA WriteStartedKeepsInv ==
    ASSUME QuotaInv, WriteStarted
    PROVE  QuotaInv'
<1> USE DEF WriteStarted
<1>1. /\ ran[subject][window] \in Nat
      /\ usage[subject][window] \in Nat
      /\ ran[subject][window] < usage[subject][window]
      /\ \A s \in Subjects, w \in Windows :
            ran'[s][w] = IF s = subject /\ w = window
                         THEN ran[s][w] + 1 ELSE ran[s][w]
  BY DEF QuotaInv, QuotaTypeOK, AdmittedIsCharged
<1>2. QuotaTypeOK'
  BY DEF QuotaInv, QuotaTypeOK
<1>3. (DispatchHoldsSlot /\ AdmittedIsCharged /\ WorkerHasWritten)'
  BY DEF QuotaInv, DispatchHoldsSlot, AdmittedIsCharged, WorkerHasWritten
<1>4. SuccessIsSettled'
  BY DEF QuotaInv, DispatchHoldsSlot, SuccessIsSettled
<1>5. ScansArePaidFor'
  BY <1>1 DEF QuotaInv, QuotaTypeOK, ScansArePaidFor
<1>6. (ActiveSlots \subseteq abandoned \cup {admission})'
  BY DEF QuotaInv, ActiveSlots
<1> QED BY <1>2, <1>3, <1>4, <1>5, <1>6 DEF QuotaInv

\* The worker comes to its end; the slot is still held.
LEMMA WorkerEndsKeepsInv ==
    ASSUME QuotaInv, WriteCompleted \/ WriteFailed \/ WorkerRaises
    PROVE  QuotaInv'
<1> USE DEF WriteCompleted, WriteFailed, WorkerRaises
<1>1. QuotaTypeOK'
  BY DEF QuotaInv, QuotaTypeOK
<1>2. (DispatchHoldsSlot /\ AdmittedIsCharged)'
  BY DEF QuotaInv, DispatchHoldsSlot, AdmittedIsCharged
<1>3. WorkerHasWritten'
  BY DEF QuotaInv, QuotaTypeOK, WorkerHasWritten
<1>4. SuccessIsSettled'
  BY DEF QuotaInv, QuotaTypeOK, DispatchHoldsSlot, WorkerHasWritten, SuccessIsSettled
<1>5. (ScansArePaidFor /\ ActiveSlots \subseteq abandoned \cup {admission})'
  BY DEF QuotaInv, ScansArePaidFor, ActiveSlots
<1> QED BY <1>1, <1>2, <1>3, <1>4, <1>5 DEF QuotaInv

\* The slot is given back before the user hears of it.
LEMMA ReleaseKeepsInv ==
    ASSUME QuotaInv, ReleaseSlot
    PROVE  QuotaInv'
<1> USE DEF ReleaseSlot, Respond
<1>1. /\ admission \in ReservationIds
      /\ slots'[admission] = "RELEASED"
  BY DEF QuotaInv, QuotaTypeOK, DispatchHoldsSlot
<1>2. QuotaTypeOK'
  BY <1>1 DEF QuotaInv, QuotaTypeOK
<1>3. (DispatchHoldsSlot /\ AdmittedIsCharged /\ WorkerHasWritten)'
  BY DEF DispatchHoldsSlot, AdmittedIsCharged, WorkerHasWritten
<1>4. SuccessIsSettled'
  BY <1>1 DEF QuotaInv, QuotaTypeOK, WorkerHasWritten, SuccessIsSettled
<1>5. (ScansArePaidFor /\ ActiveSlots \subseteq abandoned \cup {admission})'
  BY <1>1 DEF QuotaInv, QuotaTypeOK, ScansArePaidFor, ActiveSlots
<1> QED BY <1>2, <1>3, <1>4, <1>5 DEF QuotaInv

\* A slot that could not be given back is abandoned.
LEMMA ReleaseFailsKeepsInv ==
    ASSUME QuotaInv, ReleaseRejected \/ ReleaseRaises
    PROVE  QuotaInv'
<1> USE DEF ReleaseRejected, ReleaseRaises, Respond
<1>1. admission \in ReservationIds /\ answer'.admission = admission
  BY DEF QuotaInv, DispatchHoldsSlot
<1>2. QuotaTypeOK'
  BY <1>1 DEF QuotaInv, QuotaTypeOK
<1>3. (DispatchHoldsSlot /\ AdmittedIsCharged /\ WorkerHasWritten)'
  BY DEF DispatchHoldsSlot, AdmittedIsCharged, WorkerHasWritten
<1>4. answer'.category # "SCAN_SUCCESS"
  OBVIOUS
<1>5. SuccessIsSettled'
  BY <1>4 DEF SuccessIsSettled
<1>6. (ScansArePaidFor /\ ActiveSlots \subseteq abandoned \cup {admission})'
  BY DEF QuotaInv, ScansArePaidFor, ActiveSlots
<1> QED BY <1>6, <1>2, <1>3, <1>4, <1>5 DEF QuotaInv

\* A process that dies abandons the slot it holds, if it holds one.
LEMMA DieKeepsInv ==
    ASSUME QuotaInv, Die
    PROVE  QuotaInv'
<1> USE DEF Die
<1>1. QuotaTypeOK'
  BY DEF QuotaInv, QuotaTypeOK
<1>2. (DispatchHoldsSlot /\ AdmittedIsCharged /\ WorkerHasWritten)'
  BY DEF DispatchHoldsSlot, AdmittedIsCharged, WorkerHasWritten
<1>3. SuccessIsSettled'
  BY DEF QuotaInv, SuccessIsSettled
<1>4. (ScansArePaidFor /\ ActiveSlots \subseteq abandoned \cup {admission})'
  BY DEF QuotaInv, ScansArePaidFor, ActiveSlots
<1> QED BY <1>1, <1>2, <1>3, <1>4 DEF QuotaInv

LEMMA StepKeepsInv ==
    ASSUME QuotaInv, [QuotaNext]_quotaVars
    PROVE  QuotaInv'
<1>1. CASE QuotaExhausted \/ SlotsFull \/ AdmissionFails
           \/ \E r \in ReservationIds : ReservationTaken(r)
  <2>1. /\ place = "idle"
        /\ \E category \in Rejections \cup {"INTERNAL_ERROR"} : Rejected(category)
    BY <1>1 DEF QuotaExhausted, SlotsFull, AdmissionFails, ReservationTaken, Rejections
  <2> QED BY <2>1, RejectedKeepsInv
<1>2. CASE \E r \in ReservationIds : Admit(r)
  BY <1>2, AdmitKeepsInv
<1>3. CASE WriteStarted
  BY <1>3, WriteStartedKeepsInv
<1>4. CASE WriteCompleted \/ WriteFailed \/ WorkerRaises
  BY <1>4, WorkerEndsKeepsInv
<1>5. CASE ReleaseSlot
  BY <1>5, ReleaseKeepsInv
<1>6. CASE ReleaseRejected \/ ReleaseRaises
  BY <1>6, ReleaseFailsKeepsInv
<1>7. CASE Die
  BY <1>7, DieKeepsInv
<1>8. CASE UNCHANGED quotaVars
  BY <1>8 DEF quotaVars, QuotaInv, QuotaTypeOK, DispatchHoldsSlot, AdmittedIsCharged,
              WorkerHasWritten, SuccessIsSettled, ScansArePaidFor, ActiveSlots
<1> QED BY <1>1, <1>2, <1>3, <1>4, <1>5, <1>6, <1>7, <1>8 DEF QuotaNext

\* The invariant that the two theorems below follow from.
THEOREM InvHolds == QuotaSpec => []QuotaInv
  BY InitialInv, StepKeepsInv, PTL DEF QuotaSpec

\* No user gets more engine runs in a window than were charged, nor is charged
\* more than the limit, however many users, windows and slots there are.
THEOREM ScansPaidForTheorem == QuotaSpec => []ScansArePaidFor
<1>1. QuotaInv => ScansArePaidFor
  BY DEF QuotaInv
<1> QED BY <1>1, InvHolds, PTL

\* Every active slot has a dispatch or was abandoned, and a scan answered as a
\* success was completed and its slot given back.
THEOREM SlotsAccountedTheorem == QuotaSpec => []SlotsAreAccounted
<1>1. QuotaInv => SlotsAreAccounted
  BY DEF QuotaInv, SuccessIsSettled, SlotsAreAccounted
<1> QED BY <1>1, InvHolds, PTL

-----------------------------------------------------------------------------
(* The replay guard: any processes, approvals, rows and files. *)

Steps ==
    { "idle", "opened", "rechecked", "connected", "begun", "looking", "inserted",
      "committed" }

GuardTypeOK ==
    /\ path \in Files
    /\ files \in Files
    /\ consumed \in [Files -> SUBSET Identities]
    /\ owner \in [Files -> Processes \cup {NoProcess}]
    /\ step \in [Processes -> Steps]
    /\ identity \in [Processes -> Identities \cup {NoIdentity}]
    /\ held \in [Processes -> 0 .. MaxFiles]
    /\ connected \in [Processes -> 0 .. MaxFiles]
    /\ view \in [Processes -> SUBSET Identities]
    /\ granted \subseteq [identity : Identities, file : Files]
    /\ overlapped \subseteq Files

\* A process between two steps has an approval.
ConsumesAnApproval == \A p \in Processes : step[p] # "idle" => identity[p] \in Identities

Connected(p) == step[p] \in {"connected", "begun", "looking", "inserted", "committed"}

\* What is at the path or open there has been there once.
FilesExist ==
    /\ path <= files
    /\ \A p \in Processes : Connected(p) => connected[p] \in Files /\ connected[p] <= files

\* A process in a transaction is the only one on that file.
TransactionsExclude ==
    \A p, q \in Processes :
        connected[p] \notin overlapped /\ q \in Transacting(connected[p])
                                       /\ p \in Transacting(connected[p]) => p = q

\* What a transaction has read is what the file has, what it inserts is new,
\* and what is committed is recorded.
InsertedIsNew ==
    \A p \in Processes : connected[p] \notin overlapped =>
        /\ step[p] \in {"looking", "inserted"} => view[p] = consumed[connected[p]]
        /\ step[p] = "inserted"  => identity[p] \notin view[p]
        /\ step[p] = "committed" => identity[p] \in consumed[connected[p]]

\* What was granted is recorded.
GrantedIsRecorded ==
    \A g \in granted :
        g.file <= files /\ (g.file \notin overlapped => g.identity \in consumed[g.file])

SameRow(p, q) == identity[p] = identity[q] /\ connected[p] = connected[q]

\* What a process has committed and is about to be granted, no other has
\* committed or been granted.
CommittedOnce ==
    \A p \in Processes : step[p] = "committed" /\ connected[p] \notin overlapped =>
        /\ \A q \in Processes : step[q] = "committed" /\ SameRow(p, q) => p = q
        /\ ~\E g \in granted : g.identity = identity[p] /\ g.file = connected[p]

\* All of this, but the types, is of files on which no two transactions were
\* open at once.
GuardInv ==
    /\ GuardTypeOK
    /\ ConsumesAnApproval
    /\ FilesExist
    /\ TransactionsExclude
    /\ InsertedIsNew
    /\ GrantedIsRecorded
    /\ CommittedOnce

USE DEF Files, Steps, Connected, SameRow, Transacting

-----------------------------------------------------------------------------
(* The invariant holds at the outset and every step keeps it. *)

LEMMA InitialGuardInv == GuardInit => GuardInv
  BY GuardAssumption
     DEF GuardInit, GuardInv, GuardTypeOK, ConsumesAnApproval, FilesExist,
         TransactionsExclude, InsertedIsNew, GrantedIsRecorded, CommittedOnce

\* A call that ends without success.
LEMMA LeaveKeepsInv ==
    ASSUME GuardInv, NEW p \in Processes, Leave(p), UNCHANGED <<consumed, granted>>
    PROVE  GuardInv'
<1> USE DEF Leave, StepTo
<1>1. GuardTypeOK'
  BY GuardAssumption DEF GuardInv, GuardTypeOK
<1>2. ConsumesAnApproval'
  BY DEF GuardInv, GuardTypeOK, ConsumesAnApproval
<1>3. FilesExist'
  BY DEF GuardInv, GuardTypeOK, FilesExist
<1>4. TransactionsExclude'
  BY DEF GuardInv, GuardTypeOK, TransactionsExclude
<1>5. InsertedIsNew'
  BY DEF GuardInv, GuardTypeOK, InsertedIsNew
<1>6. GrantedIsRecorded'
  BY DEF GuardInv, GuardTypeOK, GrantedIsRecorded
<1>7. CommittedOnce'
  BY DEF GuardInv, GuardTypeOK, CommittedOnce
<1> QED BY <1>1, <1>2, <1>3, <1>4, <1>5, <1>6, <1>7 DEF GuardInv

\* A call begins, or a check leads on to the next system call.
LEMMA OpenKeepsInv ==
    ASSUME GuardInv, NEW p \in Processes,
           \/ \E i \in Identities : OpenDescriptors(p, i)
           \/ RecheckOpened(p) \/ Connect(p)
    PROVE  GuardInv'
<1> USE DEF OpenDescriptors, RecheckOpened, Connect, StepTo, PathUnchanged
<1>0. /\ \A q \in Processes : step'[q] \in {"begun", "looking", "inserted", "committed"} =>
            step'[q] = step[q] /\ identity'[q] = identity[q] /\ connected'[q] = connected[q]
      /\ UNCHANGED <<consumed, view, granted, overlapped>>
  <2>1. CASE Connect(p)
    BY <2>1 DEF GuardInv, GuardTypeOK
  <2>2. CASE RecheckOpened(p) \/ \E i \in Identities : OpenDescriptors(p, i)
    BY <2>2 DEF GuardInv, GuardTypeOK
  <2> QED BY <2>1, <2>2
<1>1. GuardTypeOK'
  <2>1. CASE \E i \in Identities : OpenDescriptors(p, i)
    BY <2>1, GuardAssumption DEF GuardInv, GuardTypeOK
  <2>2. CASE RecheckOpened(p)
    BY <2>2 DEF GuardInv, GuardTypeOK
  <2>3. CASE Connect(p)
    BY <2>3, GuardAssumption DEF GuardInv, GuardTypeOK
  <2> QED BY <2>1, <2>2, <2>3
<1>2. ConsumesAnApproval'
  BY DEF GuardInv, GuardTypeOK, ConsumesAnApproval
<1>3. FilesExist'
  BY DEF GuardInv, GuardTypeOK, FilesExist
<1>4. TransactionsExclude'
  BY <1>0 DEF GuardInv, TransactionsExclude
<1>5. InsertedIsNew'
  BY <1>0 DEF GuardInv, InsertedIsNew
<1>6. GrantedIsRecorded'
  BY DEF GuardInv, GuardTypeOK, GrantedIsRecorded
<1>7. CommittedOnce'
  BY <1>0 DEF GuardInv, CommittedOnce
<1> QED BY <1>1, <1>2, <1>3, <1>4, <1>5, <1>6, <1>7 DEF GuardInv

\* Either no transaction was open on the file, or it is marked.
LEMMA BeginKeepsInv ==
    ASSUME GuardInv, NEW p \in Processes, BeginImmediate(p)
    PROVE  GuardInv'
<1> DEFINE f == connected[p]
<1> USE DEF BeginImmediate, StepTo
<1>0. /\ f \in Files
      /\ overlapped \subseteq overlapped' /\ overlapped' \subseteq Files
      /\ f \notin overlapped' => Transacting(f) = {}
      /\ step'[p] = "begun"
      /\ \A q \in Processes \ {p} : step'[q] = step[q]
  BY DEF GuardInv, GuardTypeOK, FilesExist
<1>1. GuardTypeOK'
  BY <1>0 DEF GuardInv, GuardTypeOK
<1>2. ConsumesAnApproval'
  BY DEF GuardInv, GuardTypeOK, ConsumesAnApproval
<1>3. FilesExist'
  BY DEF GuardInv, GuardTypeOK, FilesExist
<1>4. TransactionsExclude'
  <2> SUFFICES ASSUME NEW q \in Processes, NEW r \in Processes,
                      connected[q] \notin overlapped',
                      connected[r] = connected[q],
                      step'[q] \in {"begun", "looking", "inserted"},
                      step'[r] \in {"begun", "looking", "inserted"}
               PROVE  q = r
    BY DEF TransactionsExclude
  <2>1. CASE q # p /\ r # p
    BY <2>1, <1>0 DEF GuardInv, TransactionsExclude
  <2>2. CASE q = p \/ r = p
    BY <2>2, <1>0
  <2> QED BY <2>1, <2>2
<1>5. InsertedIsNew'
  BY <1>0 DEF GuardInv, GuardTypeOK, InsertedIsNew
<1>6. GrantedIsRecorded'
  BY <1>0 DEF GuardInv, GuardTypeOK, GrantedIsRecorded
<1>7. CommittedOnce'
  BY <1>0 DEF GuardInv, GuardTypeOK, CommittedOnce
<1> QED BY <1>1, <1>2, <1>3, <1>4, <1>5, <1>6, <1>7 DEF GuardInv

\* A transaction reads the file.
LEMMA LookKeepsInv ==
    ASSUME GuardInv, NEW p \in Processes, RecheckBegun(p) \/ InsertIdentity(p)
    PROVE  GuardInv'
<1> USE DEF RecheckBegun, InsertIdentity, StepTo
<1>1. GuardTypeOK'
  <2>1. CASE RecheckBegun(p)
    BY <2>1 DEF GuardInv, GuardTypeOK, FilesExist, Released
  <2>2. CASE InsertIdentity(p)
    BY <2>2 DEF GuardInv, GuardTypeOK
  <2> QED BY <2>1, <2>2
<1>2. ConsumesAnApproval'
  BY DEF GuardInv, GuardTypeOK, ConsumesAnApproval
<1>3. FilesExist'
  BY DEF GuardInv, GuardTypeOK, FilesExist
<1>4. TransactionsExclude'
  BY DEF GuardInv, GuardTypeOK, TransactionsExclude
<1>5. InsertedIsNew'
  <2>1. CASE RecheckBegun(p)
    BY <2>1 DEF GuardInv, GuardTypeOK, InsertedIsNew
  <2>2. CASE InsertIdentity(p)
    BY <2>2 DEF GuardInv, GuardTypeOK, InsertedIsNew
  <2> QED BY <2>1, <2>2
<1>6. GrantedIsRecorded'
  BY DEF GuardInv, GuardTypeOK, GrantedIsRecorded
<1>7. CommittedOnce'
  BY DEF GuardInv, GuardTypeOK, CommittedOnce
<1> QED BY <1>1, <1>2, <1>3, <1>4, <1>5, <1>6, <1>7 DEF GuardInv

\* What is written back to a file that no other transaction was open on is
\* what was there and the row inserted.
LEMMA WriteBackAdds ==
    ASSUME GuardInv, NEW p \in Processes, step[p] = "inserted", WriteBack(p)
    PROVE  /\ consumed' \in [Files -> SUBSET Identities]
           /\ \A f \in Files : f # connected[p] => consumed'[f] = consumed[f]
           /\ connected[p] \notin overlapped =>
                  consumed'[connected[p]] = consumed[connected[p]] \cup {identity[p]}
<1> DEFINE f    == connected[p]
           both == view[p] \cap consumed[f]
           any  == (view[p] \cup consumed[f]) \ both
<1>1. PICK kept \in SUBSET any :
          consumed' = [consumed EXCEPT ![f] = (both \cup kept) \cup {identity[p]}]
  BY DEF WriteBack
<1>2. /\ f \in Files
      /\ identity[p] \in Identities
      /\ view[p] \subseteq Identities /\ consumed[f] \subseteq Identities
  BY DEF GuardInv, GuardTypeOK, FilesExist, ConsumesAnApproval
<1>3. consumed'[f] = (both \cup kept) \cup {identity[p]}
  BY <1>1, <1>2 DEF GuardInv, GuardTypeOK
<1>4. f \notin overlapped => view[p] = consumed[f]
  BY DEF GuardInv, InsertedIsNew
<1>5. f \notin overlapped => both \cup kept = consumed[f]
  BY <1>4
<1> QED BY <1>1, <1>2, <1>3, <1>5 DEF GuardInv, GuardTypeOK

\* A commit records an approval that was neither granted nor recorded.
LEMMA CommitKeepsInv ==
    ASSUME GuardInv, NEW p \in Processes, CommitIdentity(p)
    PROVE  GuardInv'
<1> USE DEF CommitIdentity, StepTo
<1>0. /\ consumed' \in [Files -> SUBSET Identities]
      /\ \A f \in Files : f # connected[p] => consumed'[f] = consumed[f]
      /\ connected[p] \notin overlapped =>
             consumed'[connected[p]] = consumed[connected[p]] \cup {identity[p]}
  BY WriteBackAdds
<1>1. GuardTypeOK'
  BY <1>0 DEF GuardInv, GuardTypeOK, FilesExist, Released
<1>2. ConsumesAnApproval'
  BY DEF GuardInv, GuardTypeOK, ConsumesAnApproval
<1>3. FilesExist'
  BY DEF GuardInv, GuardTypeOK, FilesExist
<1>4. TransactionsExclude'
  BY DEF GuardInv, GuardTypeOK, TransactionsExclude
<1>5. InsertedIsNew'
  BY <1>0 DEF GuardInv, GuardTypeOK, FilesExist, InsertedIsNew, TransactionsExclude
<1>6. GrantedIsRecorded'
  BY <1>0 DEF GuardInv, GuardTypeOK, GrantedIsRecorded
<1>7. CommittedOnce'
  BY DEF GuardInv, GuardTypeOK, FilesExist, CommittedOnce, InsertedIsNew, GrantedIsRecorded
<1> QED BY <1>1, <1>2, <1>3, <1>4, <1>5, <1>6, <1>7 DEF GuardInv

\* A commit in doubt records it perhaps, and grants nothing.
LEMMA UncertainKeepsInv ==
    ASSUME GuardInv, NEW p \in Processes, DurabilityNotConfirmed(p)
    PROVE  GuardInv'
<1> USE DEF DurabilityNotConfirmed, Leave, StepTo
<1>0. /\ consumed' \in [Files -> SUBSET Identities]
      /\ \A f \in Files : f # connected[p] => consumed'[f] = consumed[f]
      /\ connected[p] \notin overlapped => consumed[connected[p]] \subseteq consumed'[connected[p]]
  <2>1. CASE consumed' = consumed
    BY <2>1 DEF GuardInv, GuardTypeOK
  <2>2. CASE WriteBack(p)
    BY <2>2, WriteBackAdds
  <2> QED BY <2>1, <2>2
<1>1. GuardTypeOK'
  BY <1>0, GuardAssumption DEF GuardInv, GuardTypeOK
<1>2. ConsumesAnApproval'
  BY DEF GuardInv, GuardTypeOK, ConsumesAnApproval
<1>3. FilesExist'
  BY DEF GuardInv, GuardTypeOK, FilesExist
<1>4. TransactionsExclude'
  BY DEF GuardInv, GuardTypeOK, TransactionsExclude
<1>5. InsertedIsNew'
  BY <1>0 DEF GuardInv, GuardTypeOK, FilesExist, InsertedIsNew, TransactionsExclude
<1>6. GrantedIsRecorded'
  BY <1>0 DEF GuardInv, GuardTypeOK, GrantedIsRecorded
<1>7. CommittedOnce'
  BY DEF GuardInv, GuardTypeOK, CommittedOnce
<1> QED BY <1>1, <1>2, <1>3, <1>4, <1>5, <1>6, <1>7 DEF GuardInv

\* A grant takes it from the only process that could.
LEMMA GrantKeepsInv ==
    ASSUME GuardInv, NEW p \in Processes, Grant(p)
    PROVE  GuardInv'
<1> USE DEF Grant, Leave, StepTo
<1>0. connected[p] \in Files /\ connected[p] <= files /\ identity[p] \in Identities
  BY DEF GuardInv, FilesExist, ConsumesAnApproval
<1>1. GuardTypeOK'
  BY <1>0, GuardAssumption DEF GuardInv, GuardTypeOK
<1>2. ConsumesAnApproval'
  BY DEF GuardInv, GuardTypeOK, ConsumesAnApproval
<1>3. FilesExist'
  BY DEF GuardInv, GuardTypeOK, FilesExist
<1>4. TransactionsExclude'
  BY DEF GuardInv, GuardTypeOK, TransactionsExclude
<1>5. InsertedIsNew'
  BY DEF GuardInv, GuardTypeOK, InsertedIsNew
<1>6. GrantedIsRecorded'
  BY <1>0 DEF GuardInv, GuardTypeOK, GrantedIsRecorded, InsertedIsNew
<1>7. CommittedOnce'
  BY DEF GuardInv, GuardTypeOK, CommittedOnce
<1> QED BY <1>1, <1>2, <1>3, <1>4, <1>5, <1>6, <1>7 DEF GuardInv

\* A new file at the path is on none of the connections.
LEMMA ReplaceStoreKeepsInv ==
    ASSUME GuardInv, ReplaceStore
    PROVE  GuardInv'
<1> USE DEF ReplaceStore
<1>1. PICK rows \in SUBSET consumed[path] :
          consumed' = [consumed EXCEPT ![files + 1] = rows]
  OBVIOUS
<1>2. files' \in Files /\ files' = files + 1 /\ path' = files'
  BY GuardAssumption DEF GuardInv, GuardTypeOK
<1>3. /\ GuardTypeOK'
      /\ \A f \in Files : f <= files => consumed'[f] = consumed[f]
  BY <1>1, <1>2 DEF GuardInv, GuardTypeOK
<1>4. (ConsumesAnApproval /\ FilesExist /\ TransactionsExclude)'
  BY <1>2 DEF GuardInv, GuardTypeOK, ConsumesAnApproval, FilesExist, TransactionsExclude
<1>5. InsertedIsNew'
  BY <1>3 DEF GuardInv, GuardTypeOK, FilesExist, InsertedIsNew
<1>6. GrantedIsRecorded'
  BY <1>2, <1>3 DEF GuardInv, GuardTypeOK, GrantedIsRecorded
<1>7. CommittedOnce'
  BY DEF GuardInv, CommittedOnce
<1> QED BY <1>3, <1>4, <1>5, <1>6, <1>7 DEF GuardInv

\* Nor does it matter which of them is there.
LEMMA RestoreStoreKeepsInv ==
    ASSUME GuardInv, NEW f \in Files, RestoreStore(f)
    PROVE  GuardInv'
<1> USE DEF RestoreStore
<1>1. (GuardTypeOK /\ ConsumesAnApproval /\ FilesExist)'
  BY DEF GuardInv, GuardTypeOK, ConsumesAnApproval, FilesExist
<1>2. (TransactionsExclude /\ InsertedIsNew /\ GrantedIsRecorded /\ CommittedOnce)'
  BY DEF GuardInv, TransactionsExclude, InsertedIsNew, GrantedIsRecorded, CommittedOnce
<1> QED BY <1>1, <1>2 DEF GuardInv

LEMMA GuardStep ==
    ASSUME GuardInv, [GuardNext]_guardVars
    PROVE  GuardInv'
<1>1. CASE \E p \in Processes :
              \/ \E i \in Identities : OpenDescriptors(p, i)
              \/ RecheckOpened(p) \/ Connect(p)
  BY <1>1, OpenKeepsInv
<1>2. CASE \E p \in Processes : BeginImmediate(p)
  BY <1>2, BeginKeepsInv
<1>3. CASE \E p \in Processes : RecheckBegun(p) \/ InsertIdentity(p)
  BY <1>3, LookKeepsInv
<1>4. CASE \E p \in Processes : AlreadyConsumed(p) \/ CapacityExceeded(p) \/ FailGuard(p)
  BY <1>4, LeaveKeepsInv DEF AlreadyConsumed, CapacityExceeded, FailGuard
<1>5. CASE \E p \in Processes : CommitIdentity(p)
  BY <1>5, CommitKeepsInv
<1>6. CASE \E p \in Processes : DurabilityNotConfirmed(p)
  BY <1>6, UncertainKeepsInv
<1>7. CASE \E p \in Processes : Grant(p)
  BY <1>7, GrantKeepsInv
<1>8. CASE ReplaceStore
  BY <1>8, ReplaceStoreKeepsInv
<1>9. CASE \E f \in Files : RestoreStore(f)
  BY <1>9, RestoreStoreKeepsInv
<1>10. CASE UNCHANGED guardVars
  BY <1>10 DEF guardVars, GuardInv, GuardTypeOK, ConsumesAnApproval, FilesExist,
               TransactionsExclude, InsertedIsNew, GrantedIsRecorded, CommittedOnce
<1> QED BY <1>1, <1>2, <1>3, <1>4, <1>5, <1>6, <1>7, <1>8, <1>9, <1>10 DEF GuardNext

\* The invariant that the theorem below follows from.
THEOREM GuardInvHolds == GuardSpec => []GuardInv
  BY InitialGuardInv, GuardStep, PTL DEF GuardSpec

\* However many processes crash, retry and follow each other, and whatever
\* files are put at the path and back, a file on which no two transactions were
\* open at once grants no approval twice, nor one that it has not recorded.
THEOREM GrantedOnceTheorem == GuardSpec => GrantedOnceUnlessOverlapping
<1>1. ASSUME GuardInv, NEW p \in Processes, Grant(p), connected[p] \notin overlapped
      PROVE  GrantedAnew(p)
  BY <1>1 DEF Grant, GrantedAnew, GuardInv, InsertedIsNew, CommittedOnce
<1>2. GuardInv /\ [GuardNext]_guardVars =>
      [\A p \in Processes :
          Grant(p) /\ connected[p] \notin overlapped => GrantedAnew(p)]_guardVars
  BY <1>1
<1> QED BY <1>2, GuardInvHolds, PTL DEF GuardSpec, GrantedOnceUnlessOverlapping

-----------------------------------------------------------------------------
(* The refill ledger: any workers, tokens and releases, however often claims *)
(* are taken back. *)

Statuses == {Pending, Claimed, Completed, Cancelled}

RequestRecords ==
    [ status : Statuses, token : Tokens \cup {None},
      claimed_at : Stamps \cup {None}, outcome : CompletionOutcomes \cup {None},
      attempts : Nat, created_at : Stamps ]

\* The schema of a refill ledger document.
IsRefillLedger(R) ==
    /\ R = [revision |-> R.revision, requests |-> R.requests, sources |-> R.sources]
    /\ R.requests = [id \in DOMAIN R.requests |-> R.requests[id]]
    /\ DOMAIN R.requests \subseteq RequestIds
    /\ \A id \in DOMAIN R.requests : R.requests[id] \in RequestRecords

\* What LatestClaimHolds says of one request.
ClaimHolds(request, claimed, finished) ==
    /\ request.status # Pending => claimed # <<>> /\ request.token = Last(claimed)
    /\ finished = IF request.status \in {Completed, Cancelled}
                  THEN <<request.token>> ELSE <<>>

RefillInvariant ==
    /\ IsRefillLedger(refill)
    /\ now \in Stamps
    /\ claims \in [RequestIds -> Seq(Tokens)]
    /\ finishes \in [RequestIds -> Seq(Tokens)]
    /\ \A id \in DOMAIN refill.requests :
          ClaimHolds(refill.requests[id], claims[id], finishes[id])
    \* nobody has finished a request that is not there
    /\ \A id \in RequestIds \ DOMAIN refill.requests : finishes[id] = <<>>

-----------------------------------------------------------------------------
(* Every operation keeps the invariant. *)

\* The other requests stay as they were.
LEMMA OneRequestChanges ==
    ASSUME RefillInvariant, now' \in Stamps, NEW id \in RequestIds, NEW request \in RequestRecords,
           IsRefillLedger(refill'),
           DOMAIN refill'.requests = DOMAIN refill.requests \cup {id},
           refill'.requests[id] = request,
           \A i \in DOMAIN refill.requests :
               i # id => refill'.requests[i] = refill.requests[i],
           claims' \in [RequestIds -> Seq(Tokens)],
           finishes' \in [RequestIds -> Seq(Tokens)],
           \A i \in RequestIds :
               i # id => claims'[i] = claims[i] /\ finishes'[i] = finishes[i],
           ClaimHolds(request, claims'[id], finishes'[id])
    PROVE  RefillInvariant'
<1>1. \A i \in DOMAIN refill.requests : i \in RequestIds
  BY DEF RefillInvariant, IsRefillLedger
<1>2. ASSUME NEW i \in DOMAIN refill'.requests
      PROVE  ClaimHolds(refill'.requests[i], claims'[i], finishes'[i])
  <2>1. CASE i = id
    BY <2>1
  <2>2. CASE i # id
    BY <1>1, <2>2 DEF RefillInvariant
  <2> QED BY <2>1, <2>2
<1>3. \A i \in RequestIds \ DOMAIN refill'.requests : finishes'[i] = <<>>
  BY DEF RefillInvariant
<1> QED BY <1>2, <1>3 DEF RefillInvariant, IsRefillLedger, ClaimHolds

\* A call that changes nothing.
LEMMA RereadKeepsClaims ==
    ASSUME RefillInvariant, UNCHANGED <<refill, claims, finishes>>, now' \in Stamps
    PROVE  RefillInvariant'
  BY DEF RefillInvariant, IsRefillLedger, ClaimHolds

\* A new request is pending, and nobody has finished it.
LEMMA ReleaseKeepsClaims ==
    ASSUME RefillInvariant, NEW r \in Releases, ReleaseAccepted(refill, r),
           refill' = RecordRelease(refill, r, now), UNCHANGED <<now, claims, finishes>>
    PROVE  RefillInvariant'
<1> DEFINE id == RequestId(r)
           request == [status |-> Pending, token |-> None, claimed_at |-> None,
                       outcome |-> None, attempts |-> 0, created_at |-> now]
<1>1. id \in RequestIds /\ id \notin DOMAIN refill.requests
  BY DEF RequestIds, ReleaseAccepted
<1>2. request \in RequestRecords /\ request.status = Pending
  BY DEF RefillInvariant, RequestRecords, Statuses
<1>3. /\ DOMAIN refill'.requests = DOMAIN refill.requests \cup {id}
      /\ refill'.requests[id] = request
      /\ \A i \in DOMAIN refill.requests : i # id => refill'.requests[i] = refill.requests[i]
  BY DEF RecordRelease, Assign
<1>4. IsRefillLedger(refill')
  BY <1>1, <1>2, <1>3 DEF RefillInvariant, IsRefillLedger, RecordRelease, Assign
<1>5. ClaimHolds(request, claims'[id], finishes'[id])
  BY <1>1, <1>2 DEF RefillInvariant, ClaimHolds, Pending, Completed, Cancelled
<1> HIDE DEF id, request
<1> QED BY <1>1, <1>2, <1>3, <1>4, <1>5, OneRequestChanges DEF RefillInvariant

\* The claim is the latest, and the request had not been finished.
LEMMA ClaimKeepsClaims ==
    ASSUME RefillInvariant, NEW id \in RequestIds, NEW token \in Tokens,
           NEW expected, ClaimAllowed(refill, id, expected),
           refill' = ClaimedBy(refill, id, token, now),
           claims' = [claims EXCEPT ![id] = Append(@, token)],
           UNCHANGED <<now, finishes>>
    PROVE  RefillInvariant'
<1> DEFINE old == refill.requests[id]
           request == [old EXCEPT !.status = Claimed, !.token = token,
                                  !.claimed_at = now, !.attempts = old.attempts + 1]
<1>1. /\ id \in DOMAIN refill.requests
      /\ old \in RequestRecords /\ old.status = Pending
  BY DEF ClaimAllowed, RefillInvariant, IsRefillLedger
<1>2. /\ request \in RequestRecords
      /\ request.status = Claimed /\ request.token = token
  <2>1. old.attempts + 1 \in Nat /\ now \in Stamps
    BY <1>1 DEF RefillInvariant, RequestRecords
  <2> QED BY <1>1, <2>1 DEF RequestRecords, Statuses
<1>3. /\ refill'.requests = [refill.requests EXCEPT ![id] = request]
      /\ DOMAIN refill'.requests = DOMAIN refill.requests \cup {id}
      /\ IsRefillLedger(refill')
  BY <1>1, <1>2 DEF ClaimedBy, RefillInvariant, IsRefillLedger
<1>4. /\ refill'.requests[id] = request
      /\ \A i \in DOMAIN refill.requests : i # id => refill'.requests[i] = refill.requests[i]
  BY <1>1, <1>3
<1>5. /\ claims' \in [RequestIds -> Seq(Tokens)]
      /\ claims'[id] # <<>> /\ Last(claims'[id]) = token
  <2>1. claims[id] \in Seq(Tokens)
    BY DEF RefillInvariant
  <2>2. Append(claims[id], token) \in Seq(Tokens) /\ Append(claims[id], token) # <<>>
    BY <2>1
  <2>3. Last(Append(claims[id], token)) = token
    BY <2>1 DEF Last
  <2> QED BY <2>2, <2>3 DEF RefillInvariant
<1>6. finishes[id] = <<>>
  BY <1>1 DEF RefillInvariant, ClaimHolds, Pending, Completed, Cancelled
<1>7. ClaimHolds(request, claims'[id], finishes'[id])
  BY <1>2, <1>5, <1>6 DEF ClaimHolds, Claimed, Completed, Cancelled
<1>8. /\ finishes' \in [RequestIds -> Seq(Tokens)]
      /\ now' \in Stamps
      /\ \A i \in RequestIds : i # id => claims'[i] = claims[i] /\ finishes'[i] = finishes[i]
  BY DEF RefillInvariant
<1> HIDE DEF old, request
<1> QED BY <1>1, <1>2, <1>3, <1>4, <1>5, <1>7, <1>8, OneRequestChanges

\* Who completes a request claimed it last, and is the first to finish it.
LEMMA CompletionKeepsClaims ==
    ASSUME RefillInvariant, NEW id \in RequestIds, NEW token \in Tokens,
           NEW outcome \in CompletionOutcomes, NEW expected,
           CompletionAllowed(refill, id, token, expected),
           refill' = CompletedWith(refill, id, outcome),
           finishes' = [finishes EXCEPT ![id] = Append(@, token)],
           UNCHANGED <<now, claims>>
    PROVE  RefillInvariant'
<1> DEFINE old == refill.requests[id]
           request == [old EXCEPT !.status = IF outcome = Cancelled THEN Cancelled
                                                                     ELSE Completed,
                                  !.outcome = outcome]
<1>1. /\ id \in DOMAIN refill.requests
      /\ old \in RequestRecords /\ old.status = Claimed /\ old.token = token
  BY DEF CompletionAllowed, RefillInvariant, IsRefillLedger
<1>2. /\ request \in RequestRecords
      /\ request.status \in {Completed, Cancelled} /\ request.token = token
  BY <1>1 DEF RequestRecords, Statuses
<1>3. /\ refill'.requests = [refill.requests EXCEPT ![id] = request]
      /\ DOMAIN refill'.requests = DOMAIN refill.requests \cup {id}
      /\ IsRefillLedger(refill')
  BY <1>1, <1>2 DEF CompletedWith, RefillInvariant, IsRefillLedger
<1>4. /\ refill'.requests[id] = request
      /\ \A i \in DOMAIN refill.requests : i # id => refill'.requests[i] = refill.requests[i]
  BY <1>1, <1>3
<1>5. /\ claims[id] # <<>> /\ Last(claims[id]) = token
      /\ finishes[id] = <<>>
  BY <1>1 DEF RefillInvariant, ClaimHolds, Pending, Claimed, Completed, Cancelled
<1>6. finishes'[id] = <<token>> /\ finishes' \in [RequestIds -> Seq(Tokens)]
  BY <1>5 DEF RefillInvariant
<1>7. ClaimHolds(request, claims'[id], finishes'[id])
  BY <1>2, <1>5, <1>6 DEF ClaimHolds
<1>8. /\ claims' \in [RequestIds -> Seq(Tokens)]
      /\ now' \in Stamps
      /\ \A i \in RequestIds : i # id => claims'[i] = claims[i] /\ finishes'[i] = finishes[i]
  BY DEF RefillInvariant
<1> HIDE DEF old, request
<1> QED BY <1>1, <1>2, <1>3, <1>4, <1>6, <1>7, <1>8, OneRequestChanges

\* A request that is taken back had not been finished.
LEMMA RecoveryKeepsClaims ==
    ASSUME RefillInvariant, NEW cutoff,
           refill' = Recovered(refill, Interrupted(refill, cutoff)),
           UNCHANGED <<now, claims, finishes>>
    PROVE  RefillInvariant'
<1>1. /\ DOMAIN refill'.requests = DOMAIN refill.requests
      /\ \A i \in DOMAIN refill.requests :
             refill'.requests[i] =
                 IF i \in Interrupted(refill, cutoff)
                 THEN [refill.requests[i] EXCEPT !.status = Pending, !.token = None,
                                                 !.claimed_at = None]
                 ELSE refill.requests[i]
      /\ refill' = [revision |-> refill'.revision, requests |-> refill'.requests,
                    sources |-> refill'.sources]
      /\ refill'.requests = [i \in DOMAIN refill'.requests |-> refill'.requests[i]]
  BY DEF Recovered, RefillInvariant, IsRefillLedger
<1>2. ASSUME NEW i \in DOMAIN refill.requests
      PROVE  /\ refill'.requests[i] \in RequestRecords
             /\ ClaimHolds(refill'.requests[i], claims[i], finishes[i])
  <2>1. /\ refill.requests[i] \in RequestRecords
        /\ ClaimHolds(refill.requests[i], claims[i], finishes[i])
    BY DEF RefillInvariant, IsRefillLedger
  <2>2. CASE i \in Interrupted(refill, cutoff)
    <3>1. refill.requests[i].status = Claimed
      BY <2>2 DEF Interrupted
    <3>2. /\ refill'.requests[i] \in RequestRecords
          /\ refill'.requests[i].status = Pending
      BY <1>1, <2>1, <2>2 DEF RequestRecords, Statuses
    <3> QED BY <2>1, <3>1, <3>2 DEF ClaimHolds, Pending, Claimed, Completed, Cancelled
  <2>3. CASE i \notin Interrupted(refill, cutoff)
    BY <1>1, <2>1, <2>3
  <2> QED BY <2>2, <2>3
<1> QED BY <1>1, <1>2 DEF RefillInvariant, IsRefillLedger, ClaimHolds

-----------------------------------------------------------------------------
(* The specification. *)

LEMMA RefillStep ==
    ASSUME RefillInvariant, [Next]_vars
    PROVE  RefillInvariant'
<1>1. CASE UNCHANGED vars
  BY <1>1, RereadKeepsClaims DEF vars, RefillInvariant
<1>2. CASE Tick
  BY <1>2, RereadKeepsClaims DEF Tick, Later
<1>3. ASSUME NEW w \in Workers, LoadRefillLedger(w)
      PROVE  RefillInvariant'
  BY <1>3, RereadKeepsClaims DEF LoadRefillLedger, Reread, RefillInvariant
<1>4. ASSUME NEW w \in Workers, NEW r \in Releases, NEW e,
             ReconcileTerminalTransition(w, r, e)
      PROVE  RefillInvariant'
  BY <1>4, RereadKeepsClaims, ReleaseKeepsClaims
     DEF ReconcileTerminalTransition, Reread, Persist, RefillInvariant
<1>5. ASSUME NEW w \in Workers, NEW id \in RequestIds, NEW t \in Tokens,
             ClaimRefillRequest(w, id, t)
      PROVE  RefillInvariant'
  BY <1>5, RereadKeepsClaims, ClaimKeepsClaims
     DEF ClaimRefillRequest, Reread, Persist, RefillInvariant
<1>6. ASSUME NEW w \in Workers, NEW t \in Tokens, NEW modes,
             ClaimNextPending(w, t, modes)
      PROVE  RefillInvariant'
  <2>1. Oldest(refill, modes) \subseteq RequestIds
    BY DEF Oldest, Waiting, RefillInvariant, IsRefillLedger
  <2> QED BY <1>5, <1>6, <2>1 DEF ClaimNextPending
<1>7. ASSUME NEW w \in Workers, NEW id \in RequestIds, NEW t \in Tokens,
             NEW o \in CompletionOutcomes, CompleteRefillRequest(w, id, t, o)
      PROVE  RefillInvariant'
  BY <1>7, RereadKeepsClaims, CompletionKeepsClaims
     DEF CompleteRefillRequest, Reread, Persist, RefillInvariant
<1>8. ASSUME NEW w \in Workers, NEW cutoff, RecoverInterruptedClaims(w, cutoff)
      PROVE  RefillInvariant'
  BY <1>8, RereadKeepsClaims, RecoveryKeepsClaims
     DEF RecoverInterruptedClaims, Reread, Persist, RefillInvariant
<1> QED BY <1>1, <1>2, <1>3, <1>4, <1>5, <1>6, <1>7, <1>8 DEF Next

\* Whoever holds a request claimed it last, and that one alone finishes it,
\* once, however late others complete and however often claims are taken back.
THEOREM LatestClaimHoldsTheorem == Spec => []LatestClaimHolds
<1>1. Init => RefillInvariant
  BY DEF Init, RefillInvariant, IsRefillLedger, EmptyRefillLedger, Empty
<1>2. RefillInvariant => LatestClaimHolds
  BY DEF RefillInvariant, LatestClaimHolds, ClaimHolds
<1> QED BY <1>1, <1>2, RefillStep, PTL DEF Spec

-----------------------------------------------------------------------------
CallPlaces == {"idle", "called", "inside", "committing", "answering", "row", "count"}

Entries ==
    [command : Commands,
     snapshot : {Snapshot(command, m, n) : command \in Commands, m \in Nat, n \in Nat}]

StoreTypeOK ==
    /\ log \in Seq(Entries)
    /\ writer \in Callers \cup {Nobody}
    /\ at \in [Callers -> CallPlaces]
    /\ DOMAIN call = Callers
    /\ DOMAIN found = Callers
    /\ DOMAIN reply = Callers
    /\ DOMAIN snapshots = Reservations

\* The writer alone is in a transaction, and what it has found to be
\* appendable nobody else can have made otherwise.
WriterIsAlone ==
    \A c \in Callers :
        /\ at[c] \in {"inside", "committing"} <=> writer = c
        /\ at[c] = "committing" => Appendable(call[c])

CallsAreMade ==
    \A c \in Callers :
        /\ at[c] = "idle" => call[c] = Nothing
        /\ at[c] \in {"called", "inside", "committing", "answering"} => call[c] \in Commands

\* Who is to be answered with a snapshot is answered with a recorded one.
AnswerIsRecorded ==
    \A c \in Callers :
        at[c] = "answering" /\ found[c] # Nothing =>
            \E i \in DOMAIN log : log[i].command = call[c] /\ log[i].snapshot = found[c]

\* The entries up to n of a reservation.
Upto(n, r) == {i \in 1 .. n : log[i].command.reservation = r}

\* An entry carries the number of its reservation's entries up to itself.
EntriesAreCounted ==
    \A i \in DOMAIN log :
        LET n == Cardinality(Upto(i, log[i].command.reservation))
        IN log[i].snapshot = Snapshot(log[i].command, n, n)

EventsOf(r) == {e \in events : e.reservation = r}

EventsAreFinite == \A r \in Reservations : IsFiniteSet(EventsOf(r))

StoreInv ==
    /\ StoreTypeOK
    /\ WriterIsAlone
    /\ CallsAreMade
    /\ AnswerIsRecorded
    /\ EntriesAreCounted
    /\ EventsAreFinite
    /\ ChainsAreLegal

-----------------------------------------------------------------------------
(* The log and the entries of one reservation in it. *)

\* The counts of entries are numbers, and the last entry counts them all.
LEMMA CountsAreNumbers ==
    ASSUME NEW n \in Nat, NEW r
    PROVE  IsFiniteSet(Upto(n, r)) /\ Cardinality(Upto(n, r)) \in Nat
<1>1. IsFiniteSet(1 .. n)
  BY FS_Interval
<1>2. Upto(n, r) \in SUBSET (1 .. n)
  BY DEF Upto
<1> QED BY <1>1, <1>2, FS_Subset, FS_CardinalityType

\* A set of positions in a sequence has a last one.
LEMMA PositionsHaveLast ==
    ASSUME NEW n \in Nat, NEW S, S \subseteq 1 .. n, S # {}
    PROVE  \E i \in S : \A j \in S : j <= i
<1> DEFINE T == {n - j : j \in S}
<1>1. T \subseteq Nat /\ T # {}
  <2>1. \A j \in S : j \in 1 .. n
    OBVIOUS
  <2>2. \A j \in S : n - j \in Nat
    BY <2>1
  <2> QED BY <2>2
<1>2. PICK x \in T : \A y \in T : ~(<<y, x>> \in OpToRel(<, Nat))
  <2> HIDE DEF T
  <2> QED BY <1>1, NatLessThanWellFounded, WFMin
<1>3. \A y \in T : ~(y < x)
  BY <1>1, <1>2, Zenon DEF OpToRel
<1>4. PICK i \in S : x = n - i
  BY <1>2
<1>5. ASSUME NEW j \in S PROVE j <= i
  BY <1>3, <1>4
<1> QED BY <1>5

LastEntry(r) == CHOOSE i \in EntriesOf(r) : \A j \in EntriesOf(r) : j <= i

\* What was recorded has a last entry, which Current returns.
LEMMA LastEntryIsLast ==
    ASSUME StoreTypeOK, NEW r, Recorded(r)
    PROVE  /\ LastEntry(r) \in EntriesOf(r)
           /\ \A j \in EntriesOf(r) : j <= LastEntry(r)
           /\ Current(r) = log[LastEntry(r)].snapshot
<1>1. EntriesOf(r) \subseteq 1 .. Len(log) /\ Len(log) \in Nat
  BY DEF EntriesOf, StoreTypeOK
<1>2. \E i \in EntriesOf(r) : \A j \in EntriesOf(r) : j <= i
  BY <1>1, PositionsHaveLast DEF Recorded
<1> QED BY <1>2 DEF Current, LastEntry

\* The revision and the number of events of a reservation are both the number
\* of its entries.
LEMMA RevisionIsCount ==
    ASSUME StoreTypeOK, EntriesAreCounted, NEW r
    PROVE  /\ Revision(r) = Cardinality(Upto(Len(log), r))
           /\ Count(r) = Cardinality(Upto(Len(log), r))
<1>1. Len(log) \in Nat /\ DOMAIN log = 1 .. Len(log)
  BY DEF StoreTypeOK
<1>2. CASE Recorded(r)
  <2> DEFINE last == LastEntry(r)
  <2>1. /\ last \in 1 .. Len(log)
        /\ log[last].command.reservation = r
        /\ \A j \in 1 .. Len(log) : log[j].command.reservation = r => j <= last
    BY <1>1, <1>2, LastEntryIsLast DEF EntriesOf
  <2>2. Upto(last, r) = Upto(Len(log), r)
    BY <1>1, <2>1 DEF Upto
  <2>3. log[last].snapshot = Snapshot(log[last].command, Cardinality(Upto(last, r)),
                                      Cardinality(Upto(last, r)))
    BY <1>1, <2>1 DEF EntriesAreCounted
  <2> QED BY <1>2, <2>2, <2>3, LastEntryIsLast DEF Revision, Count, Snapshot
<1>3. CASE ~Recorded(r)
  <2>1. Upto(Len(log), r) = {}
    BY <1>1, <1>3 DEF Recorded, EntriesOf, Upto
  <2> QED BY <1>3, <2>1, FS_EmptySet DEF Revision, Count
<1> QED BY <1>2, <1>3

\* A log with one more entry.
LEMMA AppendedLog ==
    ASSUME log \in Seq(Entries), NEW entry \in Entries, log' = Append(log, entry)
    PROVE  /\ Len(log) \in Nat
           /\ DOMAIN log = 1 .. Len(log)
           /\ log' \in Seq(Entries)
           /\ Len(log') = Len(log) + 1
           /\ DOMAIN log' = 1 .. (Len(log) + 1)
           /\ DOMAIN log' = DOMAIN log \cup {Len(log) + 1}
           /\ Len(log) + 1 \notin DOMAIN log
           /\ log'[Len(log) + 1] = entry
           /\ \A i \in DOMAIN log : log'[i] = log[i]
<1>1. /\ Len(log) \in Nat
      /\ DOMAIN log = 1 .. Len(log)
      /\ log' \in Seq(Entries)
      /\ Len(log') = Len(log) + 1
      /\ DOMAIN log' = 1 .. (Len(log) + 1)
      /\ log'[Len(log) + 1] = entry
      /\ \A i \in 1 .. Len(log) : log'[i] = log[i]
  OBVIOUS
<1> QED BY <1>1

\* What a step leaves that leaves the rows.
LEMMA SameRows ==
    ASSUME UNCHANGED <<snapshots, events, log>>
    PROVE  /\ \A command : Appendable(command)' <=> Appendable(command)
           /\ EntriesAreCounted' <=> EntriesAreCounted
           /\ EventsAreFinite' <=> EventsAreFinite
           /\ ChainsAreLegal' <=> ChainsAreLegal
<1>1. \A r : /\ EntriesOf(r)' = EntriesOf(r)
             /\ Recorded(r)' = Recorded(r)
             /\ Current(r)' = Current(r)
             /\ Count(r)' = Count(r)
             /\ EventsOf(r)' = EventsOf(r)
  BY DEF EntriesOf, Recorded, Current, Count, EventsOf
<1>2. \A command : Appendable(command)' <=> Appendable(command)
  BY <1>1 DEF Appendable, Ids, Keys, RequestConflict, EventKnown, ExpectsCurrent,
              RevisionTaken, Revision, Recorded, Current, EntriesOf
<1>3. EntriesAreCounted' <=> EntriesAreCounted
  BY DEF EntriesAreCounted, Upto
<1>4. EventsAreFinite' <=> EventsAreFinite
  BY DEF EventsAreFinite, EventsOf
<1>5. ChainsAreLegal' <=> ChainsAreLegal
  BY DEF ChainsAreLegal, Follows, EntriesOf, Recorded, Current, Count
<1> QED BY <1>2, <1>3, <1>4, <1>5

-----------------------------------------------------------------------------
(* The steps that write nothing keep the invariant. *)

LEMMA InitialStoreInv == ReservationInit => StoreInv
<1> SUFFICES ASSUME ReservationInit PROVE StoreInv
  OBVIOUS
<1> USE DEF ReservationInit
<1>1. StoreTypeOK
  BY DEF StoreTypeOK, CallPlaces
<1>2. WriterIsAlone
  BY CallerAssumption DEF WriterIsAlone
<1>3. CallsAreMade /\ AnswerIsRecorded
  BY DEF CallsAreMade, AnswerIsRecorded
<1>4. EntriesAreCounted
  BY DEF EntriesAreCounted
<1>5. \A r : EventsOf(r) = {}
  BY DEF EventsOf
<1>6. EventsAreFinite
  BY <1>5, FS_EmptySet DEF EventsAreFinite
<1>7. ChainsAreLegal
  <2>1. \A r : EntriesOf(r) = {} /\ ~Recorded(r) /\ Count(r) = 0
    BY DEF EntriesOf, Recorded, Count
  <2>2. \A r : Cardinality({e \in events : e.reservation = r}) = 0
    BY <1>5, FS_EmptySet DEF EventsOf
  <2> QED BY <2>1, <2>2 DEF ChainsAreLegal
<1> QED BY <1>1, <1>2, <1>3, <1>4, <1>6, <1>7 DEF StoreInv

\* A caller who returns, with or without an answer, gives the writing up.
LEMMA ReturnKeepsStoreInv ==
    ASSUME StoreInv, NEW c \in Callers, Return(c),
           UNCHANGED <<snapshots, events, log>>, DOMAIN reply' = Callers
    PROVE  StoreInv'
<1> USE DEF Return, Goto
<1>1. StoreTypeOK'
  BY DEF StoreInv, StoreTypeOK, CallPlaces
<1>2. WriterIsAlone'
  BY SameRows, CallerAssumption DEF StoreInv, StoreTypeOK, WriterIsAlone
<1>3. CallsAreMade'
  BY DEF StoreInv, StoreTypeOK, CallsAreMade
<1>4. AnswerIsRecorded'
  BY DEF StoreInv, StoreTypeOK, AnswerIsRecorded
<1> QED BY <1>1, <1>2, <1>3, <1>4, SameRows DEF StoreInv

LEMMA AnswerKeepsStoreInv ==
    ASSUME StoreInv, NEW c \in Callers, NEW snapshot, Answer(c, snapshot),
           UNCHANGED tables
    PROVE  StoreInv'
<1>1. DOMAIN reply' = Callers
  BY DEF Answer, StoreInv, StoreTypeOK
<1> QED BY <1>1, ReturnKeepsStoreInv DEF Answer, tables

\* A caller begins: a call, a transaction, a read.
LEMMA BeginningKeepsStoreInv ==
    ASSUME StoreInv, NEW c \in Callers,
           \/ \E command \in Commands : Submit(c, command)
           \/ Begin(c)
           \/ Insert(c)
           \/ \E r \in Reservations : ReadRecord(c, r)
           \/ ReadRow(c)
    PROVE  StoreInv'
<1> USE DEF Submit, Begin, Insert, ReadRecord, ReadRow, Goto, tables
<1>1. UNCHANGED <<snapshots, events, log>>
  OBVIOUS
<1>2. StoreTypeOK'
  BY DEF StoreInv, StoreTypeOK, CallPlaces
<1>3. WriterIsAlone'
  BY <1>1, SameRows, CallerAssumption DEF StoreInv, StoreTypeOK, WriterIsAlone
<1>4. CallsAreMade'
  BY DEF StoreInv, StoreTypeOK, CallsAreMade
<1>5. AnswerIsRecorded'
  BY DEF StoreInv, StoreTypeOK, AnswerIsRecorded
<1> QED BY <1>1, <1>2, <1>3, <1>4, <1>5, SameRows DEF StoreInv

LEMMA BootstrapKeepsStoreInv ==
    ASSUME StoreInv, Bootstrap
    PROVE  StoreInv'
<1> USE DEF Bootstrap
<1>1. StoreTypeOK' /\ CallsAreMade' /\ AnswerIsRecorded'
  BY DEF StoreInv, StoreTypeOK, CallsAreMade, AnswerIsRecorded
<1>2. WriterIsAlone'
  BY SameRows DEF StoreInv, WriterIsAlone
<1> QED BY <1>1, <1>2, SameRows DEF StoreInv

-----------------------------------------------------------------------------
(* The commit keeps the invariant. *)

\* What a commit does to the log and to the entries of each reservation.
LEMMA CommitAppends ==
    ASSUME StoreInv, NEW c \in Callers, NEW raises \in BOOLEAN, Commit(c, raises)
    PROVE  /\ call[c] \in Commands
           /\ call[c].reservation \in Reservations
           /\ Appendable(call[c])
           /\ writer = c
           /\ Len(log) \in Nat
           /\ DOMAIN log = 1 .. Len(log)
           /\ log' \in Seq(Entries)
           /\ DOMAIN log' = DOMAIN log \cup {Len(log) + 1}
           /\ Len(log) + 1 \notin DOMAIN log
           /\ log'[Len(log) + 1] = [command |-> call[c], snapshot |-> Left(call[c])]
           /\ \A i \in DOMAIN log : log'[i] = log[i]
           /\ \A r : EntriesOf(r)' = IF r = call[c].reservation
                                     THEN EntriesOf(r) \cup {Len(log) + 1} ELSE EntriesOf(r)
<1> DEFINE new == Len(log) + 1
           own == call[c].reservation
           entry == [command |-> call[c], snapshot |-> Left(call[c])]
<1>1. /\ call[c] \in Commands
      /\ Appendable(call[c])
      /\ writer = c
  BY DEF Commit, StoreInv, CallsAreMade, WriterIsAlone
<1>2. own \in Reservations
  BY <1>1 DEF Reservations
<1>3. Revision(own) \in Nat /\ Count(own) \in Nat
  <2>1. Len(log) \in Nat /\ StoreTypeOK /\ EntriesAreCounted
    BY DEF StoreInv, StoreTypeOK
  <2>2. Cardinality(Upto(Len(log), own)) \in Nat
    BY <2>1, CountsAreNumbers
  <2> HIDE DEF own
  <2> QED BY <2>1, <2>2, RevisionIsCount
<1>4. entry \in Entries
  BY <1>1, <1>3 DEF Entries, Left
<1>5. log \in Seq(Entries) /\ log' = Append(log, entry)
  BY DEF Commit, Apply, StoreInv, StoreTypeOK
<1>6. /\ Len(log) \in Nat
      /\ DOMAIN log = 1 .. Len(log)
      /\ log' \in Seq(Entries)
      /\ DOMAIN log' = DOMAIN log \cup {new}
      /\ new \notin DOMAIN log
      /\ log'[new] = entry
      /\ \A i \in DOMAIN log : log'[i] = log[i]
  <2> HIDE DEF entry
  <2> QED BY <1>4, <1>5, AppendedLog
<1>7. ASSUME NEW r, r = own PROVE EntriesOf(r)' = EntriesOf(r) \cup {new}
  BY <1>6, <1>7 DEF EntriesOf
<1>8. ASSUME NEW r, r # own PROVE EntriesOf(r)' = EntriesOf(r)
  BY <1>6, <1>8 DEF EntriesOf
<1> QED BY <1>1, <1>2, <1>6, <1>7, <1>8

LEMMA CommitKeepsControl ==
    ASSUME StoreInv, NEW c \in Callers, NEW raises \in BOOLEAN, Commit(c, raises)
    PROVE  StoreTypeOK' /\ WriterIsAlone' /\ CallsAreMade' /\ AnswerIsRecorded'
<1> USE DEF Commit, Apply, Goto
<1>1. StoreTypeOK'
  BY CommitAppends DEF StoreInv, StoreTypeOK, CallPlaces
<1>2. WriterIsAlone'
  <2>1. \A d \in Callers : at'[d] \notin {"inside", "committing"}
    BY CommitAppends DEF StoreInv, StoreTypeOK, WriterIsAlone
  <2> QED BY <2>1, CallerAssumption DEF WriterIsAlone
<1>3. CallsAreMade'
  BY DEF StoreInv, StoreTypeOK, CallsAreMade
<1>4. AnswerIsRecorded'
  <2> SUFFICES ASSUME NEW d \in Callers, at'[d] = "answering", found'[d] # Nothing
               PROVE  \E i \in DOMAIN log' :
                         log'[i].command = call'[d] /\ log'[i].snapshot = found'[d]
    BY DEF AnswerIsRecorded
  <2>1. CASE d = c
    <3>1. found'[c] = Left(call[c])
      BY <2>1 DEF StoreInv, StoreTypeOK
    <3>2. /\ Len(log) + 1 \in DOMAIN log'
          /\ log'[Len(log) + 1] = [command |-> call[c], snapshot |-> Left(call[c])]
      BY CommitAppends
    <3>3. log'[Len(log) + 1].command = call'[d] /\ log'[Len(log) + 1].snapshot = found'[d]
      BY <2>1, <3>1, <3>2
    <3> QED BY <3>2, <3>3
  <2>2. CASE d # c
    <3>1. at[d] = "answering" /\ found[d] = found'[d]
      BY <2>2 DEF StoreInv, StoreTypeOK
    <3>2. PICK i \in DOMAIN log : log[i].command = call[d] /\ log[i].snapshot = found[d]
      BY <3>1 DEF StoreInv, AnswerIsRecorded
    <3>3. i \in DOMAIN log' /\ log'[i] = log[i]
      BY CommitAppends
    <3> QED BY <3>1, <3>2, <3>3
  <2> QED BY <2>1, <2>2
<1> QED BY <1>1, <1>2, <1>3, <1>4

LEMMA CommitKeepsCounts ==
    ASSUME StoreInv, NEW c \in Callers, NEW raises \in BOOLEAN, Commit(c, raises)
    PROVE  EntriesAreCounted'
<1> DEFINE new == Len(log) + 1
           own == call[c].reservation
<1>1. \A r : \A i \in DOMAIN log : Upto(i, r)' = Upto(i, r)
  <2> SUFFICES ASSUME NEW r, NEW i \in DOMAIN log PROVE Upto(i, r)' = Upto(i, r)
    OBVIOUS
  <2>1. /\ Len(log) \in Nat
        /\ DOMAIN log = 1 .. Len(log)
        /\ \A j \in DOMAIN log : log'[j] = log[j]
    BY CommitAppends
  <2>2. \A j \in 1 .. i : j \in DOMAIN log
    BY <2>1
  <2> QED BY <2>1, <2>2 DEF Upto
<1>2. ASSUME NEW r, r = own, NEW n, n = new
      PROVE  /\ Upto(n, r)' = Upto(Len(log), r) \cup {n}
             /\ n \notin Upto(Len(log), r)
  <2>1. /\ Len(log) \in Nat
        /\ DOMAIN log = 1 .. Len(log)
        /\ \A j \in DOMAIN log : log'[j] = log[j]
        /\ log'[new] = [command |-> call[c], snapshot |-> Left(call[c])]
    BY CommitAppends
  <2>3. log'[n].command.reservation = r
    BY <1>2, <2>1
  <2>2. 1 .. n = (1 .. Len(log)) \cup {n} /\ n \notin 1 .. Len(log)
    BY <1>2, <2>1
  <2> QED BY <2>1, <2>2, <2>3 DEF Upto
<1>3. ASSUME NEW r, r = own, NEW n, n = new
      PROVE  Cardinality(Upto(n, r)') = Cardinality(Upto(Len(log), r)) + 1
  <2>1. Len(log) \in Nat
    BY CommitAppends
  <2>2. IsFiniteSet(Upto(Len(log), r))
    BY <2>1, CountsAreNumbers
  <2> QED BY <1>2, <1>3, <2>2, FS_AddElement
<1>4. ASSUME NEW r, r = own, NEW n, n = new
      PROVE  log'[n].snapshot =
                Snapshot(call[c], Cardinality(Upto(n, r)'), Cardinality(Upto(n, r)'))
  <2>1. log'[n].snapshot = Left(call[c])
    <3>1. log'[new] = [command |-> call[c], snapshot |-> Left(call[c])]
      BY CommitAppends
    <3> QED BY <1>4, <3>1
  <2>2. Revision(r) = Cardinality(Upto(Len(log), r)) /\ Count(r) = Cardinality(Upto(Len(log), r))
    BY RevisionIsCount DEF StoreInv
  <2> QED BY <1>3, <1>4, <2>1, <2>2 DEF Left
<1>5. ASSUME NEW i \in DOMAIN log', NEW r, r = log'[i].command.reservation
      PROVE  log'[i].snapshot =
                Snapshot(log'[i].command, Cardinality(Upto(i, r)'), Cardinality(Upto(i, r)'))
  <2>1. CASE i \in DOMAIN log
    <3>1. log'[i] = log[i] /\ Upto(i, r)' = Upto(i, r)
      BY <1>1, <2>1, CommitAppends
    <3> QED BY <1>5, <2>1, <3>1 DEF StoreInv, EntriesAreCounted
  <2>2. CASE i = new
    <3>1. log'[new] = [command |-> call[c], snapshot |-> Left(call[c])]
      BY CommitAppends
    <3>2. log'[i].command = call[c]
      BY <2>2, <3>1
    <3> QED BY <1>4, <1>5, <2>2, <3>2
  <2>3. DOMAIN log' = DOMAIN log \cup {new}
    BY CommitAppends
  <2> QED BY <2>1, <2>2, <2>3
<1> QED BY <1>5 DEF EntriesAreCounted, Upto

LEMMA CommitAddsEvent ==
    ASSUME StoreInv, NEW c \in Callers, NEW raises \in BOOLEAN, Commit(c, raises)
    PROVE  /\ EventsAreFinite'
           /\ \A r \in Reservations :
                 Cardinality(EventsOf(r)') = IF r = call[c].reservation
                                             THEN Cardinality(EventsOf(r)) + 1
                                             ELSE Cardinality(EventsOf(r))
<1> DEFINE own == call[c].reservation
           event == [event |-> call[c].event, reservation |-> own,
                     revision |-> Left(call[c]).revision]
<1>1. events' = events \cup {event} /\ event \notin events
  <2>1. ~EventKnown(call[c])
    BY CommitAppends DEF Appendable
  <2> QED BY <2>1 DEF Commit, Apply, EventKnown
<1>2. event.reservation = own
  OBVIOUS
<1> HIDE DEF event
<1>3. ASSUME NEW r \in Reservations
      PROVE  /\ IsFiniteSet(EventsOf(r)')
             /\ Cardinality(EventsOf(r)') = IF r = own THEN Cardinality(EventsOf(r)) + 1
                                                       ELSE Cardinality(EventsOf(r))
  <2>1. IsFiniteSet(EventsOf(r))
    BY DEF StoreInv, EventsAreFinite
  <2>2. CASE r = own
    <3>1. EventsOf(r)' = EventsOf(r) \cup {event} /\ event \notin EventsOf(r)
      BY <1>1, <1>2, <2>2 DEF EventsOf
    <3> QED BY <2>1, <2>2, <3>1, FS_AddElement
  <2>3. CASE r # own
    <3>1. EventsOf(r)' = EventsOf(r)
      BY <1>1, <1>2, <2>3 DEF EventsOf
    <3> QED BY <2>1, <2>3, <3>1
  <2> QED BY <2>2, <2>3
<1>4. EventsAreFinite'
  BY <1>3 DEF EventsAreFinite
<1> QED BY <1>3, <1>4

\* The old entries follow each other as before; the new one follows the last.
LEMMA CommitKeepsFollowing ==
    ASSUME StoreInv, NEW c \in Callers, NEW raises \in BOOLEAN, Commit(c, raises)
    PROVE  /\ \A i \in DOMAIN log : \A j \in DOMAIN log' :
                 Follows(i, j)' <=> j \in DOMAIN log /\ Follows(i, j)
           /\ \A j \in DOMAIN log' : \A n : n = Len(log) + 1 =>
                 (Follows(n, j)' <=> /\ j \in EntriesOf(call[c].reservation)
                                     /\ \A k \in EntriesOf(call[c].reservation) : k <= j)
<1> DEFINE new == Len(log) + 1
           own == call[c].reservation
<1>1. /\ Len(log) \in Nat
      /\ DOMAIN log = 1 .. Len(log)
      /\ DOMAIN log' = DOMAIN log \cup {new}
      /\ log'[new] = [command |-> call[c], snapshot |-> Left(call[c])]
      /\ \A i \in DOMAIN log : log'[i] = log[i]
      /\ \A r : EntriesOf(r)' = IF r = own THEN EntriesOf(r) \cup {new} ELSE EntriesOf(r)
  BY CommitAppends
<1>2. \A r : EntriesOf(r) \subseteq DOMAIN log
  BY DEF EntriesOf
<1>3. ASSUME NEW i \in DOMAIN log, NEW j \in DOMAIN log'
      PROVE  Follows(i, j)' <=> j \in DOMAIN log /\ Follows(i, j)
  <2> DEFINE r == log[i].command.reservation
  <2>1. /\ Follows(i, j)' <=> /\ j \in EntriesOf(r)'
                              /\ j < i
                              /\ \A k \in EntriesOf(r)' : ~(j < k /\ k < i)
        /\ Follows(i, j) <=> /\ j \in EntriesOf(r)
                             /\ j < i
                             /\ \A k \in EntriesOf(r) : ~(j < k /\ k < i)
    BY <1>1 DEF Follows
  <2> QED BY <1>1, <1>2, <2>1
<1>4. ASSUME NEW j \in DOMAIN log', NEW n, n = new
      PROVE  Follows(n, j)' <=> j \in EntriesOf(own) /\ \A k \in EntriesOf(own) : k <= j
  <2>1. PICK r : r = own
    OBVIOUS
  <2>2. log'[n].command.reservation = r
    BY <1>1, <1>4, <2>1
  <2>3. Follows(n, j)' <=> /\ j \in EntriesOf(r)'
                           /\ j < n
                           /\ \A k \in EntriesOf(r)' : ~(j < k /\ k < n)
    BY <2>2 DEF Follows
  <2>4. EntriesOf(r)' = EntriesOf(r) \cup {n}
    BY <1>1, <1>4, <2>1
  <2>5. \A k \in EntriesOf(r) : k \in Nat /\ k < n
    BY <1>1, <1>2, <1>4
  <2>6. n \in Nat /\ j \in Nat
    BY <1>1, <1>4
  <2> QED BY <2>1, <2>3, <2>4, <2>5, <2>6
<1> QED BY <1>3, <1>4

LEMMA CommitKeepsChains ==
    ASSUME StoreInv, NEW c \in Callers, NEW raises \in BOOLEAN, Commit(c, raises)
    PROVE  ChainsAreLegal'
<1> DEFINE new == Len(log) + 1
           own == call[c].reservation
           Opens(i) == /\ \A j \in DOMAIN log : ~Follows(i, j)
                       /\ log[i].snapshot = Snapshot(log[i].command, 1, 1)
                       /\ log[i].command.expected = 0
           Continues(i, j) == /\ Follows(i, j)
                              /\ log[i].command.expected = log[j].snapshot.revision
                              /\ log[i].command.prior = log[j].command.requested
                              /\ log[i].command.last = log[j].command.event
                              /\ log[i].snapshot = Snapshot(log[i].command,
                                                            log[j].snapshot.revision + 1,
                                                            log[j].snapshot.count + 1)
<1>1. /\ Len(log) \in Nat
      /\ DOMAIN log = 1 .. Len(log)
      /\ DOMAIN log' = DOMAIN log \cup {new}
      /\ log'[new] = [command |-> call[c], snapshot |-> Left(call[c])]
      /\ \A i \in DOMAIN log : log'[i] = log[i]
      /\ \A r : EntriesOf(r)' = IF r = own THEN EntriesOf(r) \cup {new} ELSE EntriesOf(r)
      /\ Appendable(call[c])
      /\ own \in Reservations
  BY CommitAppends
<1>2. \A r : EntriesOf(r) \subseteq DOMAIN log
  BY DEF EntriesOf
<1>3. ASSUME NEW i \in DOMAIN log
      PROVE  Opens(i)' \/ \E j \in DOMAIN log' : Continues(i, j)'
  <2>1. CASE Opens(i)
    <3>1. \A j \in DOMAIN log' : ~Follows(i, j)'
      BY <2>1, CommitKeepsFollowing
    <3> QED BY <1>1, <2>1, <3>1
  <2>2. CASE \E j \in DOMAIN log : Continues(i, j)
    <3>1. PICK j \in DOMAIN log : Continues(i, j)
      BY <2>2
    <3>2. j \in DOMAIN log' /\ Follows(i, j)'
      BY <1>1, <3>1, CommitKeepsFollowing
    <3> QED BY <1>1, <3>1, <3>2
  <2>3. Opens(i) \/ \E j \in DOMAIN log : Continues(i, j)
    BY DEF StoreInv, ChainsAreLegal
  <2> QED BY <2>1, <2>2, <2>3
<1>4. ASSUME NEW n, n = new
      PROVE  Opens(n)' \/ \E j \in DOMAIN log' : Continues(n, j)'
  <2>1. log'[n].command = call[c] /\ log'[n].snapshot = Left(call[c])
    BY <1>1, <1>4
  <2>2. CASE ~Recorded(own)
    <3>1. EntriesOf(own) = {}
      BY <2>2 DEF Recorded
    <3>2. \A j \in DOMAIN log' : ~Follows(n, j)'
      BY <1>4, <3>1, CommitKeepsFollowing
    <3>3. call[c].expected = 0
      BY <1>1, <2>2 DEF Appendable, ExpectsCurrent
    <3>4. Left(call[c]) = Snapshot(call[c], 1, 1)
      BY <2>2 DEF Left, Revision, Count
    <3> QED BY <2>1, <3>2, <3>3, <3>4
  <2>3. CASE Recorded(own)
    <3>1. PICK j \in EntriesOf(own) : /\ \A k \in EntriesOf(own) : k <= j
                                      /\ Current(own) = log[j].snapshot
      BY <2>3, LastEntryIsLast DEF StoreInv
    <3>2. j \in DOMAIN log /\ log'[j] = log[j] /\ j \in DOMAIN log'
      BY <1>1, <1>2, <3>1
    <3>3. Follows(n, j)'
      BY <1>4, <3>1, <3>2, CommitKeepsFollowing
    <3>4. /\ call[c].expected = log[j].snapshot.revision
          /\ call[c].last = log[j].snapshot.last
          /\ call[c].prior = log[j].snapshot.state
      BY <1>1, <2>3, <3>1 DEF Appendable, ExpectsCurrent
    <3>5. /\ log[j].snapshot.last = log[j].command.event
          /\ log[j].snapshot.state = log[j].command.requested
      <4>1. PICK m : log[j].snapshot = Snapshot(log[j].command, m, m)
        BY <3>2 DEF StoreInv, EntriesAreCounted
      <4> QED BY <4>1 DEF Snapshot
    <3>6. Left(call[c]) = Snapshot(call[c], log[j].snapshot.revision + 1,
                                   log[j].snapshot.count + 1)
      BY <2>3, <3>1 DEF Left, Revision, Count
    <3>7. Continues(n, j)'
      BY <2>1, <3>2, <3>3, <3>4, <3>5, <3>6
    <3> QED BY <3>2, <3>7
  <2> QED BY <2>2, <2>3
<1>5. \A i \in DOMAIN log' : Opens(i)' \/ \E j \in DOMAIN log' : Continues(i, j)'
  BY <1>1, <1>3, <1>4
<1>6. ASSUME NEW r \in Reservations
      PROVE  /\ ~Recorded(r)' => snapshots'[r] = Nothing
             /\ Recorded(r)' => snapshots'[r] = [revision |-> Current(r)'.revision,
                                                 last     |-> Current(r)'.last]
             /\ Cardinality(EventsOf(r)') = Count(r)'
  <2>1. CASE r = own
    <3>1. EntriesOf(r)' = EntriesOf(r) \cup {new} /\ Recorded(r)'
      BY <1>1, <2>1 DEF Recorded
    <3>2. LastEntry(r)' = new
      <4>1. \A i \in EntriesOf(r)' : i \in Nat /\ i <= new
        BY <1>1, <1>2, <3>1
      <4>2. ASSUME NEW i \in EntriesOf(r)', \A j \in EntriesOf(r)' : j <= i
            PROVE  i = new
        <5>1. new <= i /\ i <= new /\ i \in Nat /\ new \in Nat
          BY <1>1, <3>1, <4>1, <4>2
        <5> QED BY <5>1
      <4> QED BY <3>1, <4>1, <4>2 DEF LastEntry
    <3>3. Current(r)' = Left(call[c])
      <4>1. Current(r)' = log'[LastEntry(r)'].snapshot
        BY DEF Current, LastEntry
      <4> QED BY <1>1, <3>2, <4>1
    <3>4. snapshots'[r] = [revision |-> Left(call[c]).revision, last |-> Left(call[c]).last]
      BY <2>1, <1>1 DEF Commit, Apply, StoreInv, StoreTypeOK
    <3>5. Count(r)' = Count(r) + 1
      BY <2>1, <3>1, <3>3 DEF Count, Left, Snapshot
    <3>6. Cardinality(EventsOf(r)') = Cardinality(EventsOf(r)) + 1
      BY <2>1, CommitAddsEvent
    <3>7. Cardinality(EventsOf(r)) = Count(r)
      BY DEF StoreInv, ChainsAreLegal, EventsOf
    <3> QED BY <3>1, <3>3, <3>4, <3>5, <3>6, <3>7
  <2>2. CASE r # own
    <3>1. EntriesOf(r)' = EntriesOf(r) /\ Recorded(r)' = Recorded(r)
      BY <1>1, <2>2 DEF Recorded
    <3>2. ASSUME Recorded(r) PROVE Current(r)' = Current(r)
      <4>1. LastEntry(r)' = LastEntry(r) /\ LastEntry(r) \in DOMAIN log
        BY <1>2, <3>1, <3>2, LastEntryIsLast DEF StoreInv, LastEntry
      <4> QED BY <1>1, <4>1 DEF Current, LastEntry
    <3>3. Count(r)' = Count(r)
      BY <3>1, <3>2 DEF Count
    <3>4. snapshots'[r] = snapshots[r]
      BY <2>2 DEF Commit, Apply, StoreInv, StoreTypeOK
    <3>5. Cardinality(EventsOf(r)') = Cardinality(EventsOf(r))
      BY <2>2, CommitAddsEvent
    <3>6. /\ ~Recorded(r) => snapshots[r] = Nothing
          /\ Recorded(r) => snapshots[r] = [revision |-> Current(r).revision,
                                            last     |-> Current(r).last]
          /\ Cardinality(EventsOf(r)) = Count(r)
      BY DEF StoreInv, ChainsAreLegal, EventsOf
    <3> QED BY <3>1, <3>2, <3>3, <3>4, <3>5, <3>6
  <2> QED BY <2>1, <2>2
<1> QED BY <1>5, <1>6 DEF ChainsAreLegal, EventsOf

-----------------------------------------------------------------------------
(* The invariant of every behaviour. *)

LEMMA StoreCommitKeepsInv ==
    ASSUME StoreInv, NEW c \in Callers, NEW raises \in BOOLEAN, Commit(c, raises)
    PROVE  StoreInv'
  BY CommitKeepsControl, CommitKeepsCounts, CommitAddsEvent, CommitKeepsChains DEF StoreInv

LEMMA NextKeepsStoreInv == StoreInv /\ [ReservationNext]_reservationVars => StoreInv'
<1> SUFFICES ASSUME StoreInv, [ReservationNext]_reservationVars PROVE StoreInv'
  OBVIOUS
<1>1. CASE Bootstrap
  BY <1>1, BootstrapKeepsStoreInv
<1>2. ASSUME NEW c \in Callers,
             \/ \E command \in Commands : Submit(c, command)
             \/ Begin(c) \/ Insert(c) \/ ReadRow(c)
             \/ \E r \in Reservations : ReadRecord(c, r)
      PROVE  StoreInv'
  BY <1>2, BeginningKeepsStoreInv
<1>3. ASSUME NEW c \in Callers,
             \/ Unavailable(c) \/ Refuse(c) \/ Conclude(c) \/ TransactionFails(c)
             \/ \E i \in DOMAIN log : Replay(c, log[i].snapshot)
      PROVE  StoreInv'
  <2>1. UNCHANGED tables /\ \E snapshot : Answer(c, snapshot)
    BY <1>3 DEF Unavailable, Refuse, Conclude, TransactionFails, Replay
  <2> QED BY <2>1, AnswerKeepsStoreInv
<1>4. ASSUME NEW c \in Callers, Crash(c) \/ ReadCount(c) \/ ReadMismatch(c)
      PROVE  StoreInv'
  <2>1. /\ Return(c)
        /\ UNCHANGED <<snapshots, events, log>>
        /\ DOMAIN reply' = Callers
    BY <1>4 DEF Crash, ReadCount, ReadMismatch, tables, StoreInv, StoreTypeOK
  <2> QED BY <2>1, ReturnKeepsStoreInv
<1>5. ASSUME NEW c \in Callers, NEW raises \in BOOLEAN, Commit(c, raises)
      PROVE  StoreInv'
  BY <1>5, StoreCommitKeepsInv
<1>6. CASE UNCHANGED reservationVars
  <2> USE <1>6 DEF reservationVars
  <2>1. StoreTypeOK' /\ CallsAreMade' /\ AnswerIsRecorded'
    BY DEF StoreInv, StoreTypeOK, CallsAreMade, AnswerIsRecorded
  <2>2. WriterIsAlone'
    BY SameRows DEF StoreInv, WriterIsAlone
  <2> QED BY <2>1, <2>2, SameRows DEF StoreInv
<1> QED BY <1>1, <1>2, <1>3, <1>4, <1>5, <1>6 DEF ReservationNext

THEOREM StoreInvHolds == ReservationSpec => []StoreInv
<1>1. ReservationInit => StoreInv
  BY InitialStoreInv
<1>2. StoreInv /\ [ReservationNext]_reservationVars => StoreInv'
  BY NextKeepsStoreInv
<1> QED BY <1>1, <1>2, PTL DEF ReservationSpec

\* compare_and_append builds legal chains only, on whose end the three tables
\* agree, whichever callers race, fail or repeat a command.
THEOREM ChainsAreLegalTheorem == ReservationSpec => []ChainsAreLegal
<1>1. StoreInv => ChainsAreLegal
  BY DEF StoreInv
<1> QED BY <1>1, StoreInvHolds, PTL

-----------------------------------------------------------------------------
(* The refinement.  A commit is the effect of its command, an answer the    *)
(* answer; a crash of a caller with a command loses the answer; a read and  *)
(* what happens inside a transaction are no steps of AppendOnce.            *)

History == [i \in DOMAIN log |-> log[i].command]

PendingCalls == [c \in Callers |-> IF at[c] \in {"row", "count"} THEN Nothing ELSE call[c]]

\* AppendOnce means by the operators it shares with the store the same.
LEMMA SharedOperators ==
    /\ \A S : Promise!Cardinality(S) = Cardinality(S)
    /\ \A command, m, n : Promise!Snapshot(command, m, n) = Snapshot(command, m, n)
    /\ \A a, b : Promise!SameContent(a, b) <=> SameContent(a, b)
<1>1. \A S : Promise!Cardinality(S) = Cardinality(S)
  BY DEF Promise!Cardinality, Cardinality
<1>2. \A command, m, n : Promise!Snapshot(command, m, n) = Snapshot(command, m, n)
  BY DEF Promise!Snapshot, Snapshot
<1>3. \A a, b : Promise!SameContent(a, b) <=> SameContent(a, b)
  BY DEF Promise!SameContent, SameContent
<1> QED BY <1>1, <1>2, <1>3

LEMMA CallerIsWaiting ==
    ASSUME StoreInv, NEW c \in Callers,
           at[c] \in {"called", "inside", "committing", "answering"}
    PROVE  PendingCalls[c] = call[c] /\ call[c] # Nothing
  BY CommandAssumption DEF StoreInv, CallsAreMade, PendingCalls

\* The snapshot of an entry is the one that AppendOnce lets be answered.
LEMMA SnapshotIsPromised ==
    ASSUME StoreInv, NEW i \in DOMAIN log
    PROVE  LET n == Cardinality({j \in 1 .. i : History[j].reservation = History[i].reservation})
           IN log[i].snapshot = Snapshot(History[i], n, n)
<1>1. /\ Len(log) \in Nat
      /\ DOMAIN log = 1 .. Len(log)
  BY DEF StoreInv, StoreTypeOK
<1>2. \A j \in 1 .. i : j \in DOMAIN log
  BY <1>1
<1>3. {j \in 1 .. i : History[j].reservation = History[i].reservation} =
         Upto(i, log[i].command.reservation)
  BY <1>2 DEF History, Upto
<1> QED BY <1>3 DEF StoreInv, EntriesAreCounted, History

LEMMA AnswerIsPromised ==
    ASSUME StoreInv, NEW c \in Callers, NEW snapshot, Answer(c, snapshot), UNCHANGED tables,
           at[c] \in {"called", "inside", "committing", "answering"},
           \/ snapshot = Nothing
           \/ \E i \in DOMAIN log : SameContent(log[i].command, call[c]) /\ snapshot = log[i].snapshot
    PROVE  Promise!Next
<1>1. PendingCalls[c] = call[c] /\ call[c] # Nothing
  BY CallerIsWaiting
<1>2. PendingCalls' = [PendingCalls EXCEPT ![c] = Nothing]
  BY DEF Answer, Return, Goto, PendingCalls, StoreInv, StoreTypeOK
<1>3. reply' = [reply EXCEPT ![c] = snapshot]
  BY DEF Answer
<1>4. History' = History
  BY DEF tables, History
<1>5. CASE snapshot = Nothing
  <2>1. Promise!Answer(c, Nothing)
    BY <1>1, <1>2, <1>3, <1>4, <1>5 DEF Promise!Answer, History, PendingCalls
  <2> QED BY <2>1 DEF Promise!Next
<1>6. CASE \E i \in DOMAIN log : SameContent(log[i].command, call[c]) /\ snapshot = log[i].snapshot
  <2>1. PICK i \in DOMAIN log : SameContent(log[i].command, call[c]) /\ snapshot = log[i].snapshot
    BY <1>6
  <2> DEFINE n == Cardinality({j \in 1 .. i : History[j].reservation = History[i].reservation})
  <2>2. /\ i \in DOMAIN History
        /\ SameContent(History[i], PendingCalls[c])
        /\ snapshot = Snapshot(History[i], n, n)
    BY <1>1, <2>1, SnapshotIsPromised DEF History
  <2>3. Promise!CountTo(i, History[i].reservation) = n
    BY SharedOperators DEF Promise!CountTo, History
  <2> HIDE DEF n
  <2>4. Promise!SameContent(History[i], PendingCalls[c])
    BY <2>2, SharedOperators
  <2>5. snapshot = Promise!Snapshot(History[i], Promise!CountTo(i, History[i].reservation),
                                    Promise!CountTo(i, History[i].reservation))
    BY <2>2, <2>3, SharedOperators
  <2>6. Promise!Answer(c, snapshot)
    BY <1>1, <1>2, <1>3, <1>4, <2>2, <2>4, <2>5 DEF Promise!Answer, History, PendingCalls
  <2>7. snapshot \in Promise!Snapshots
    BY <2>2, <2>5 DEF Promise!Snapshots, History
  <2> QED BY <2>6, <2>7 DEF Promise!Next
<1> QED BY <1>5, <1>6

\* A commit is the effect of its command.
LEMMA CommitIsPromised ==
    ASSUME StoreInv, NEW c \in Callers, NEW raises \in BOOLEAN, Commit(c, raises)
    PROVE  Promise!Next
<1> DEFINE own == call[c].reservation
<1>1. /\ Len(log) \in Nat
      /\ DOMAIN log = 1 .. Len(log)
      /\ Appendable(call[c])
      /\ at[c] = "committing"
  BY CommitAppends DEF Commit
<1>2. PendingCalls[c] = call[c] /\ call[c] # Nothing
  BY <1>1, CallerIsWaiting
<1>3. \A i \in DOMAIN History : History[i].id # call[c].id /\ History[i].key # call[c].key
  BY <1>1 DEF Appendable, Ids, Keys, History
<1>4. History \in Seq(Commands) /\ Len(History) = Len(log) /\ DOMAIN History = DOMAIN log
  <2>1. \A i \in DOMAIN log : log[i].command \in Commands
    <3>1. \A i \in DOMAIN log : log[i] \in Entries
      BY DEF StoreInv, StoreTypeOK
    <3> QED BY <3>1 DEF Entries
  <2> QED BY <1>1, <2>1 DEF History
<1>5. call[c].expected = Cardinality(Upto(Len(log), own))
  <2>1. Revision(own) = Cardinality(Upto(Len(log), own))
    BY RevisionIsCount DEF StoreInv
  <2>2. call[c].expected = Revision(own)
    BY <1>1 DEF Appendable, ExpectsCurrent, Revision
  <2> QED BY <2>1, <2>2
<1>6. call[c].expected = Promise!CountTo(Len(History), own)
  <2>1. {i \in 1 .. Len(log) : History[i].reservation = own} = Upto(Len(log), own)
    BY <1>1 DEF History, Upto
  <2>2. Promise!CountTo(Len(History), own) =
           Promise!Cardinality({i \in 1 .. Len(History) : History[i].reservation = own})
    BY DEF Promise!CountTo, History
  <2> QED BY <1>4, <1>5, <2>1, <2>2, SharedOperators
<1>7. History' = Append(History, call[c])
  <2>1. /\ DOMAIN log' = 1 .. (Len(log) + 1)
        /\ \A i \in DOMAIN log : log'[i] = log[i]
        /\ log'[Len(log) + 1].command = call[c]
    <3>1. /\ DOMAIN log' = DOMAIN log \cup {Len(log) + 1}
          /\ \A i \in DOMAIN log : log'[i] = log[i]
          /\ log'[Len(log) + 1] = [command |-> call[c], snapshot |-> Left(call[c])]
      BY CommitAppends
    <3>2. (1 .. Len(log)) \cup {Len(log) + 1} = 1 .. (Len(log) + 1)
      BY <1>1
    <3> QED BY <1>1, <3>1, <3>2
  <2>2. DOMAIN History' = 1 .. (Len(log) + 1)
    BY <2>1 DEF History
  <2>3. \A i \in 1 .. (Len(log) + 1) :
           History'[i] = IF i = Len(log) + 1 THEN call[c] ELSE History[i]
    BY <1>1, <2>1 DEF History
  <2>4. Append(History, call[c]) = [i \in 1 .. (Len(log) + 1) |->
                                      IF i = Len(log) + 1 THEN call[c] ELSE History[i]]
    BY <1>1, <1>4
  <2>5. History' = [i \in 1 .. (Len(log) + 1) |-> History'[i]]
    BY <2>2 DEF History
  <2> QED BY <2>3, <2>4, <2>5
<1>8. PendingCalls' = PendingCalls /\ reply' = reply
  BY <1>1 DEF Commit, Goto, PendingCalls, StoreInv, StoreTypeOK
<1>9. Promise!TakeEffect(c)
  BY <1>2, <1>3, <1>6, <1>7, <1>8 DEF Promise!TakeEffect, History, PendingCalls
<1> QED BY <1>9 DEF Promise!Next

LEMMA InitialPromiseOfStore == ReservationInit => Promise!Init
<1> SUFFICES ASSUME ReservationInit PROVE Promise!Init
  OBVIOUS
<1>1. History = <<>>
  BY DEF ReservationInit, History
<1>2. PendingCalls = [c \in Callers |-> Nothing]
  BY DEF ReservationInit, PendingCalls
<1> QED BY <1>1, <1>2 DEF ReservationInit, Promise!Init, History, PendingCalls

\* A step between the ones that AppendOnce has.
LEMMA StutterOfStore ==
    ASSUME History' = History, PendingCalls' = PendingCalls, reply' = reply
    PROVE  UNCHANGED Promise!vars
  BY DEF Promise!vars, History, PendingCalls

LEMMA StorePromiseStep ==
    StoreInv /\ [ReservationNext]_reservationVars => [Promise!Next]_(Promise!vars)
<1> SUFFICES ASSUME StoreInv, [ReservationNext]_reservationVars
             PROVE  Promise!Next \/ UNCHANGED Promise!vars
  OBVIOUS
<1>1. CASE Bootstrap \/ UNCHANGED reservationVars
  BY <1>1, StutterOfStore DEF Bootstrap, reservationVars, History, PendingCalls
<1>2. ASSUME NEW c \in Callers, NEW command \in Commands, Submit(c, command)
      PROVE  Promise!Next
  <2>1. PendingCalls[c] = Nothing /\ History' = History
    BY <1>2 DEF Submit, StoreInv, CallsAreMade, PendingCalls, History
  <2>2. PendingCalls' = [PendingCalls EXCEPT ![c] = command] /\ reply' = [reply EXCEPT ![c] = Nothing]
    BY <1>2 DEF Submit, Goto, StoreInv, StoreTypeOK, PendingCalls
  <2>3. PendingCalls'[c] = command
    BY <2>2 DEF PendingCalls
  <2>4. Promise!Submit(c)
    BY <2>1, <2>2, <2>3 DEF Promise!Submit, History, PendingCalls
  <2> QED BY <2>4 DEF Promise!Next
<1>3. ASSUME NEW c \in Callers, Unavailable(c) \/ Refuse(c) \/ TransactionFails(c)
      PROVE  Promise!Next
  <2>1. /\ Answer(c, Nothing)
        /\ UNCHANGED tables
        /\ at[c] \in {"called", "inside", "committing", "answering"}
    BY <1>3 DEF Unavailable, Refuse, TransactionFails
  <2> QED BY <2>1, AnswerIsPromised
<1>4. ASSUME NEW c \in Callers, NEW i \in DOMAIN log, Replay(c, log[i].snapshot)
      PROVE  Promise!Next
  <2>1. PICK j \in DOMAIN log : SameContent(log[j].command, call[c])
                                /\ log[i].snapshot = log[j].snapshot
    BY <1>4 DEF Replay, Replayed
  <2>2. /\ Answer(c, log[i].snapshot)
        /\ UNCHANGED tables
        /\ at[c] \in {"called", "inside", "committing", "answering"}
    BY <1>4 DEF Replay
  <2> QED BY <2>1, <2>2, AnswerIsPromised
<1>5. ASSUME NEW c \in Callers, Conclude(c)
      PROVE  Promise!Next
  <2>1. /\ Answer(c, found[c])
        /\ UNCHANGED tables
        /\ at[c] = "answering"
    BY <1>5 DEF Conclude
  <2>2. CASE found[c] = Nothing
    BY <2>1, <2>2, AnswerIsPromised
  <2>3. CASE found[c] # Nothing
    <3>1. PICK i \in DOMAIN log : log[i].command = call[c] /\ log[i].snapshot = found[c]
      BY <2>1, <2>3 DEF StoreInv, AnswerIsRecorded
    <3>2. SameContent(log[i].command, call[c])
      BY <3>1 DEF SameContent
    <3> QED BY <2>1, <3>1, <3>2, AnswerIsPromised
  <2> QED BY <2>2, <2>3
<1>6. ASSUME NEW c \in Callers, NEW raises \in BOOLEAN, Commit(c, raises)
      PROVE  Promise!Next
  BY <1>6, CommitIsPromised
<1>7. ASSUME NEW c \in Callers,
             \/ Begin(c) \/ Insert(c) \/ ReadRow(c) \/ ReadCount(c) \/ ReadMismatch(c)
             \/ \E r \in Reservations : ReadRecord(c, r)
      PROVE  UNCHANGED Promise!vars
  <2>1. History' = History /\ reply' = reply
    BY <1>7 DEF Begin, Insert, ReadRow, ReadCount, ReadMismatch, ReadRecord, tables, History
  <2>2. PendingCalls' = PendingCalls
    BY <1>7 DEF Begin, Insert, ReadRow, ReadCount, ReadMismatch, ReadRecord, Return, Goto,
                StoreInv, StoreTypeOK, CallsAreMade, PendingCalls
  <2> QED BY <2>1, <2>2, StutterOfStore
<1>8. ASSUME NEW c \in Callers, Crash(c)
      PROVE  Promise!Next \/ UNCHANGED Promise!vars
  <2>1. History' = History /\ reply' = reply
    BY <1>8 DEF Crash, tables, History
  <2>2. PendingCalls' = [PendingCalls EXCEPT ![c] = Nothing]
    BY <1>8 DEF Crash, Return, Goto, StoreInv, StoreTypeOK, PendingCalls
  <2>3. CASE at[c] \in {"row", "count"}
    <3>1. PendingCalls' = PendingCalls
      BY <2>2, <2>3 DEF PendingCalls
    <3> QED BY <2>1, <3>1, StutterOfStore
  <2>4. CASE at[c] \notin {"row", "count"}
    <3>1. at[c] \in {"called", "inside", "committing", "answering"}
      BY <1>8, <2>4 DEF Crash, StoreInv, StoreTypeOK, CallPlaces
    <3>2. PendingCalls[c] # Nothing
      BY <3>1, CallerIsWaiting
    <3>3. Promise!Vanish(c)
      BY <2>1, <2>2, <3>2 DEF Promise!Vanish, History, PendingCalls
    <3> QED BY <3>3 DEF Promise!Next
  <2> QED BY <2>3, <2>4
<1> QED BY <1>1, <1>2, <1>3, <1>4, <1>5, <1>6, <1>7, <1>8 DEF ReservationNext

\* The reservation store keeps what AppendOnce promises: whatever callers
\* race, crash or repeat, and whatever a commit that raises has done, a
\* command takes effect at one instant and at most once, and a snapshot that
\* is answered is the one that a command of its content left.
THEOREM StorePromiseTheorem == ReservationSpec => StorePromiseKept
<1>1. ReservationInit => Promise!Init
  BY InitialPromiseOfStore
<1>2. StoreInv /\ [ReservationNext]_reservationVars => [Promise!Next]_(Promise!vars)
  BY StorePromiseStep
<1> QED BY <1>1, <1>2, StoreInvHolds, PTL DEF ReservationSpec, StorePromiseKept, Promise!Spec

-----------------------------------------------------------------------------
(* What a recovery read returns.  The record it found stays one of its       *)
(* reservation's; as the entries are counted, the one with as many events as *)
(* there are is the last.                                                    *)

FoundIsRecorded ==
    \A c \in Callers : at[c] \in {"row", "count"} =>
        /\ call[c] \in Reservations
        /\ \E i \in EntriesOf(call[c]) : found[c] = log[i].snapshot

LEMMA EntriesStayRecorded ==
    ASSUME StoreInv, [ReservationNext]_reservationVars, NEW i \in DOMAIN log
    PROVE  i \in DOMAIN log' /\ log'[i] = log[i]
<1>1. ASSUME NEW c \in Callers, NEW raises \in BOOLEAN, Commit(c, raises)
      PROVE  i \in DOMAIN log' /\ log'[i] = log[i]
  BY <1>1, CommitAppends
<1>2. CASE log' = log
  BY <1>2
<1>3. CASE Bootstrap \/ UNCHANGED reservationVars
  BY <1>2, <1>3 DEF Bootstrap, reservationVars
<1>4. ASSUME NEW c \in Callers,
             \/ \E command \in Commands : Submit(c, command)
             \/ Begin(c) \/ Unavailable(c)
             \/ \E j \in DOMAIN log : Replay(c, log[j].snapshot)
             \/ Refuse(c) \/ Insert(c) \/ Conclude(c) \/ TransactionFails(c) \/ Crash(c)
             \/ \E s \in Reservations : ReadRecord(c, s)
             \/ ReadRow(c) \/ ReadCount(c) \/ ReadMismatch(c)
      PROVE  log' = log
  BY <1>4 DEF Submit, Begin, Unavailable, Replay, Refuse, Insert, Conclude, TransactionFails,
              Crash, ReadRecord, ReadRow, ReadCount, ReadMismatch, tables
<1> QED BY <1>1, <1>2, <1>3, <1>4 DEF ReservationNext

\* A caller in a read has just begun it or was in it before.
LEMMA ReadsBegin ==
    ASSUME StoreInv, [ReservationNext]_reservationVars, NEW c \in Callers,
           at'[c] \in {"row", "count"}
    PROVE  \/ ReadRecord(c, call'[c]) /\ call'[c] \in Reservations /\ found'[c] = Current(call'[c])
           \/ at[c] \in {"row", "count"} /\ call'[c] = call[c] /\ found'[c] = found[c]
<1> USE DEF StoreInv, StoreTypeOK
<1>1. CASE Bootstrap \/ UNCHANGED reservationVars
  BY <1>1 DEF Bootstrap, reservationVars
<1>2. ASSUME NEW d \in Callers,
             \/ \E command \in Commands : Submit(d, command)
             \/ Begin(d) \/ Insert(d)
             \/ \E raises \in BOOLEAN : Commit(d, raises)
             \/ ReadRow(d)
      PROVE  at[c] \in {"row", "count"} /\ call'[c] = call[c] /\ found'[c] = found[c]
  BY <1>2 DEF Submit, Begin, Insert, Commit, ReadRow, Goto
<1>3. ASSUME NEW d \in Callers, Return(d)
      PROVE  at[c] \in {"row", "count"} /\ call'[c] = call[c] /\ found'[c] = found[c]
  BY <1>3 DEF Return, Goto
<1>4. ASSUME NEW d \in Callers,
             \/ Unavailable(d)
             \/ \E j \in DOMAIN log : Replay(d, log[j].snapshot)
             \/ Refuse(d) \/ Conclude(d) \/ TransactionFails(d) \/ Crash(d)
             \/ ReadCount(d) \/ ReadMismatch(d)
      PROVE  Return(d)
  BY <1>4 DEF Unavailable, Replay, Refuse, Conclude, TransactionFails, Crash, ReadCount,
              ReadMismatch, Answer
<1>5. ASSUME NEW d \in Callers, NEW r \in Reservations, ReadRecord(d, r), d # c
      PROVE  at[c] \in {"row", "count"} /\ call'[c] = call[c] /\ found'[c] = found[c]
  BY <1>5 DEF ReadRecord, Goto
<1>6. ASSUME NEW r \in Reservations, ReadRecord(c, r)
      PROVE  call'[c] = r /\ found'[c] = Current(r)
  BY <1>6 DEF ReadRecord
<1> QED BY <1>1, <1>2, <1>3, <1>4, <1>5, <1>6 DEF ReservationNext

LEMMA FoundStaysRecorded ==
    StoreInv /\ FoundIsRecorded /\ [ReservationNext]_reservationVars => FoundIsRecorded'
<1> SUFFICES ASSUME StoreInv, FoundIsRecorded, [ReservationNext]_reservationVars,
                    NEW c \in Callers, at'[c] \in {"row", "count"}
             PROVE  (/\ call[c] \in Reservations
                     /\ \E i \in EntriesOf(call[c]) : found[c] = log[i].snapshot)'
  BY DEF FoundIsRecorded
<1>1. /\ call'[c] \in Reservations
      /\ \E i \in EntriesOf(call'[c]) : found'[c] = log[i].snapshot
  <2>1. CASE /\ ReadRecord(c, call'[c])
             /\ call'[c] \in Reservations
             /\ found'[c] = Current(call'[c])
    BY <2>1, LastEntryIsLast DEF ReadRecord, StoreInv
  <2>2. CASE at[c] \in {"row", "count"} /\ call'[c] = call[c] /\ found'[c] = found[c]
    BY <2>2 DEF FoundIsRecorded
  <2> QED BY <2>1, <2>2, ReadsBegin
<1>2. PICK i \in EntriesOf(call'[c]) : found'[c] = log[i].snapshot
  BY <1>1
<1>3. i \in DOMAIN log /\ log[i].command.reservation = call'[c]
  BY <1>2 DEF EntriesOf
<1>4. i \in DOMAIN log' /\ log'[i] = log[i]
  BY <1>3, EntriesStayRecorded
<1> QED BY <1>1, <1>2, <1>3, <1>4 DEF EntriesOf

\* Of the entries of a reservation only the last has as many events as there are.
LEMMA LastEntryHasAllEvents ==
    ASSUME StoreInv, NEW r \in Reservations, NEW i \in EntriesOf(r),
           log[i].snapshot.count = Cardinality(EventsOf(r))
    PROVE  log[i].snapshot = Current(r)
<1> DEFINE last == LastEntry(r)
<1>1. /\ Len(log) \in Nat
      /\ DOMAIN log = 1 .. Len(log)
      /\ Recorded(r)
  BY DEF StoreInv, StoreTypeOK, Recorded
<1>2. /\ last \in EntriesOf(r) /\ i <= last
      /\ Current(r) = log[last].snapshot
  BY <1>1, LastEntryIsLast DEF StoreInv
<1> HIDE DEF last
<1>3. /\ i \in 1 .. Len(log) /\ log[i].command.reservation = r
      /\ last \in 1 .. Len(log) /\ log[last].command.reservation = r
  BY <1>1, <1>2 DEF EntriesOf
<1>4. /\ log[i].snapshot.count = Cardinality(Upto(i, r))
      /\ log[last].snapshot.count = Cardinality(Upto(last, r))
  <2>1. ASSUME NEW j \in DOMAIN log, log[j].command.reservation = r
        PROVE  log[j].snapshot.count = Cardinality(Upto(j, r))
    <3> DEFINE n == Cardinality(Upto(j, r))
    <3>1. log[j].snapshot = Snapshot(log[j].command, n, n)
      BY <2>1 DEF StoreInv, EntriesAreCounted
    <3> HIDE DEF n
    <3>2. Snapshot(log[j].command, n, n).count = n
      BY DEF Snapshot
    <3> QED BY <3>1, <3>2 DEF n
  <2> QED BY <1>1, <1>3, <2>1
<1>5. Cardinality(Upto(i, r)) = Cardinality(Upto(last, r))
  BY <1>1, <1>2, <1>4 DEF StoreInv, ChainsAreLegal, EventsOf, Count
<1>6. CASE i < last
  <2>1. /\ IsFiniteSet(Upto(i, r)) /\ Cardinality(Upto(i, r)) \in Nat
        /\ IsFiniteSet(Upto(last, r)) /\ Cardinality(Upto(last, r)) \in Nat
    BY <1>3, CountsAreNumbers
  <2>2. last \notin Upto(i, r) /\ (Upto(i, r) \cup {last}) \subseteq Upto(last, r)
    BY <1>3, <1>6 DEF Upto
  <2>3. Cardinality(Upto(i, r) \cup {last}) = Cardinality(Upto(i, r)) + 1
    BY <2>1, <2>2, FS_AddElement
  <2>4. Cardinality(Upto(i, r) \cup {last}) <= Cardinality(Upto(last, r))
    BY <2>1, <2>2, FS_Subset
  <2> QED BY <1>5, <2>1, <2>3, <2>4
<1>7. CASE i = last
  BY <1>2, <1>7
<1> QED BY <1>2, <1>3, <1>6, <1>7

\* Whatever is committed between its queries, a recovery read returns what is
\* current at its last one, and answers None for a recorded reservation only if
\* a commit has changed the record since its first.
THEOREM RecoveryReadIsCurrentTheorem == ReservationSpec => RecoveryReadIsCurrent
<1>1. ReservationInit => FoundIsRecorded
  BY DEF ReservationInit, FoundIsRecorded
<1>2. ReservationSpec => []FoundIsRecorded
  BY <1>1, FoundStaysRecorded, StoreInvHolds, PTL DEF ReservationSpec
<1>3. ASSUME StoreInv, FoundIsRecorded, NEW c \in Callers, ReadCount(c)
      PROVE  found[c] = Current(call[c])
  <2>1. PICK i \in EntriesOf(call[c]) : found[c] = log[i].snapshot
    BY <1>3 DEF FoundIsRecorded, ReadCount
  <2>2. call[c] \in Reservations /\ found[c].count = Cardinality(EventsOf(call[c]))
    BY <1>3 DEF FoundIsRecorded, ReadCount, CountMatches, EventsOf
  <2> QED BY <2>1, <2>2, <1>3, LastEntryHasAllEvents
<1>4. ASSUME StoreInv, FoundIsRecorded, NEW c \in Callers, ReadMismatch(c),
             found[c] = Current(call[c])
      PROVE  FALSE
  <2>1. call[c] \in Reservations /\ Recorded(call[c])
    BY <1>4 DEF FoundIsRecorded, ReadMismatch, Recorded
  <2>2. /\ snapshots[call[c]] = [revision |-> found[c].revision, last |-> found[c].last]
        /\ Cardinality({e \in events : e.reservation = call[c]}) = found[c].count
    BY <1>4, <2>1 DEF StoreInv, ChainsAreLegal, Count
  <2> QED BY <1>4, <2>2 DEF ReadMismatch, RowMatches, CountMatches
<1>5. StoreInv /\ FoundIsRecorded /\ [ReservationNext]_reservationVars =>
      [\A c \in Callers :
          /\ ReadCount(c) => found[c] = Current(call[c])
          /\ ReadMismatch(c) => found[c] # Current(call[c])]_reservationVars
  BY <1>3, <1>4
<1> QED BY <1>2, <1>5, StoreInvHolds, PTL DEF ReservationSpec, RecoveryReadIsCurrent
=============================================================================
