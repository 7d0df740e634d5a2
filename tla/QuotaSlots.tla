----------------------------- MODULE QuotaSlots -----------------------------
(***************************************************************************)
(* The /scan command: the Telegram application admits a scan against a     *)
(* quota per user and window and a number of slots, both kept in one file; *)
(* the stateful worker runs the master engine and keeps its own file; the  *)
(* slot is released whatever the worker did.  The handler is synchronous,  *)
(* so one request is dispatched at a time; the process may die at any      *)
(* point, and Telegram then delivers the request again.                    *)
(***************************************************************************)
EXTENDS Naturals, FiniteSets

CONSTANTS
    Subjects,       \* Telegram users
    Windows,        \* quota windows; a process is configured with one
    ReservationIds,   \* what reservation_id_provider may return
    QuotaLimit,
    SlotCapacity,
    NoReservation

ASSUME QuotaAssumption ==
    /\ QuotaLimit \in Nat \ {0}
    /\ SlotCapacity \in Nat \ {0}
    /\ NoReservation \notin ReservationIds

VARIABLES
    window,         \* TELEGRAM_WINDOW_ID of the process
    usage,          \* file: quota_usage
    slots,          \* file: [ReservationIds -> its state, or "UNKNOWN"]
    scan,           \* file of the worker: [state, of]
    place,          \* where the dispatch is
    subject,        \* the user it is for
    admission,      \* the reservation it was admitted with
    workerError,    \* whether the worker raised
    answer,         \* the last answer: [category, admission]
    ran,            \* history: engine runs per user and window
    abandoned       \* history: reservations whose dispatch died or was told of a failed release

quotaVars == <<window, usage, slots, scan, place, subject, admission, workerError,
               answer, ran, abandoned>>

Rejections == {"QUOTA_EXHAUSTED", "SLOTS_FULL", "STATE_UNAVAILABLE", "ADMISSION_REJECTED"}

ActiveSlots == {r \in ReservationIds : slots[r] = "ACTIVE"}

QuotaInit ==
    /\ window \in Windows
    /\ usage = [s \in Subjects |-> [w \in Windows |-> 0]]
    /\ slots = [r \in ReservationIds |-> "UNKNOWN"]
    /\ scan = [state |-> "NONE", of |-> NoReservation]
    /\ place = "idle"
    /\ subject \in Subjects
    /\ admission = NoReservation
    /\ workerError = FALSE
    /\ answer = [category |-> "NONE", admission |-> NoReservation]
    /\ ran = usage
    /\ abandoned = {}

\* dispatch returns: the response goes to the chat and the next update is taken.
Respond(category) ==
    /\ answer' = [category |-> category, admission |-> admission]
    /\ place' = "idle"
    /\ subject' \in Subjects
    /\ admission' = NoReservation
    /\ workerError' = FALSE
    /\ UNCHANGED window

-----------------------------------------------------------------------------
(* acquire_quota_slot_v4, in the order of its checks. *)

Rejected(category) ==
    /\ Respond(category)
    /\ UNCHANGED <<usage, slots, scan, ran, abandoned>>

QuotaExhausted ==
    /\ place = "idle"
    /\ usage[subject][window] >= QuotaLimit
    /\ Rejected("QUOTA_EXHAUSTED")

SlotsFull ==
    /\ place = "idle"
    /\ usage[subject][window] < QuotaLimit
    /\ Cardinality(ActiveSlots) >= SlotCapacity
    /\ Rejected("SLOTS_FULL")

\* Fault: room is left for one scan more than the quota.
HasRoomForOneMore ==
    /\ usage[subject][window] <= QuotaLimit
    /\ Cardinality(ActiveSlots) < SlotCapacity

HasRoom ==
    /\ usage[subject][window] < QuotaLimit
    /\ Cardinality(ActiveSlots) < SlotCapacity

ReservationTaken(r) ==
    /\ place = "idle"
    /\ HasRoom
    /\ slots[r] # "UNKNOWN"
    /\ Rejected("ADMISSION_REJECTED")

\* The state cannot be read, or the new state cannot be written.
AdmissionFails ==
    /\ place = "idle"
    /\ \/ Rejected("STATE_UNAVAILABLE")
       \/ HasRoom /\ Rejected("INTERNAL_ERROR")

Admit(r) ==
    /\ place = "idle"
    /\ HasRoom
    /\ slots[r] = "UNKNOWN"
    /\ usage' = [usage EXCEPT ![subject][window] = @ + 1]
    /\ slots' = [slots EXCEPT ![r] = "ACTIVE"]
    /\ admission' = r
    /\ place' = "admitted"
    /\ UNCHANGED <<window, scan, subject, workerError, answer, ran, abandoned>>

-----------------------------------------------------------------------------
(* run_master_engine_worker_v4. *)

WriteStarted ==
    /\ place = "admitted"
    /\ scan' = [state |-> "STARTED", of |-> admission]
    /\ place' = "running"
    /\ ran' = [ran EXCEPT ![subject][window] = @ + 1]
    /\ UNCHANGED <<window, usage, slots, subject, admission, workerError, answer, abandoned>>

WriteCompleted ==
    /\ place = "running"
    /\ scan' = [scan EXCEPT !.state = "COMPLETED"]
    /\ place' = "releasing"
    /\ UNCHANGED <<window, usage, slots, subject, admission, workerError, answer, ran, abandoned>>

\* The engine raises and the worker records it.
WriteFailed ==
    /\ place = "running"
    /\ scan' = [scan EXCEPT !.state = "FAILED"]
    /\ place' = "releasing"
    /\ workerError' = TRUE
    /\ UNCHANGED <<window, usage, slots, subject, admission, answer, ran, abandoned>>

\* A write of the worker's file raises, or the engine is interrupted.
WorkerRaises ==
    /\ place \in {"admitted", "running"}
    /\ place' = "releasing"
    /\ workerError' = TRUE
    /\ UNCHANGED <<window, usage, slots, scan, subject, admission, answer, ran, abandoned>>

-----------------------------------------------------------------------------
(* release_quota_slot_v4 in the finally clause, and what dispatch answers. *)

\* Fault: a worker that raised leaves the release to nobody.
ReleaseIfSucceeded ==
    /\ place = "releasing"
    /\ slots' = IF workerError THEN slots ELSE [slots EXCEPT ![admission] = "RELEASED"]
    /\ Respond(IF workerError THEN "WORKER_FAILED" ELSE "SCAN_SUCCESS")
    /\ UNCHANGED <<usage, scan, ran, abandoned>>

ReleaseSlot ==
    /\ place = "releasing"
    /\ slots' = [slots EXCEPT ![admission] = "RELEASED"]
    /\ Respond(IF workerError THEN "WORKER_FAILED" ELSE "SCAN_SUCCESS")
    /\ UNCHANGED <<usage, scan, ran, abandoned>>

\* The state cannot be read: a QuotaSlotRejected.  It is answered like the
\* rejection of an admission, unless the worker raised before.
ReleaseRejected ==
    /\ place = "releasing"
    /\ Respond(IF workerError THEN "WORKER_AND_RELEASE_FAILED" ELSE "STATE_UNAVAILABLE")
    /\ abandoned' = abandoned \cup {admission}
    /\ UNCHANGED <<usage, slots, scan, ran>>

\* The released state cannot be written: another exception.
ReleaseRaises ==
    /\ place = "releasing"
    /\ Respond(IF workerError THEN "WORKER_AND_RELEASE_FAILED" ELSE "RELEASE_FAILED")
    /\ abandoned' = abandoned \cup {admission}
    /\ UNCHANGED <<usage, slots, scan, ran>>

\* The process ends, and is started again, perhaps for another window.
Die ==
    /\ window' \in Windows
    /\ place' = "idle"
    /\ subject' \in Subjects
    /\ admission' = NoReservation
    /\ workerError' = FALSE
    /\ abandoned' = abandoned \cup ({admission} \ {NoReservation})
    /\ UNCHANGED <<usage, slots, scan, answer, ran>>

QuotaNext ==
    \/ QuotaExhausted \/ SlotsFull \/ AdmissionFails
    \/ \E r \in ReservationIds : ReservationTaken(r) \/ Admit(r)
    \/ WriteStarted \/ WriteCompleted \/ WriteFailed \/ WorkerRaises
    \/ ReleaseSlot \/ ReleaseRejected \/ ReleaseRaises
    \/ Die

QuotaSpec == QuotaInit /\ [][QuotaNext]_quotaVars

-----------------------------------------------------------------------------
(* Properties. *)

\* Whatever fails and whenever the process dies, no user has more engine runs
\* in a window than were charged, nor more charged than the limit.
ScansArePaidFor ==
    \A s \in Subjects, w \in Windows :
        /\ ran[s][w] <= usage[s][w]
        /\ usage[s][w] <= QuotaLimit

\* A slot is held by the dispatch in progress, or by one which died or whose
\* failed release was answered as such: every other path out of the worker
\* gives the slot back, and success is answered only of a scan that the
\* worker's file has as completed.
SlotsAreAccounted ==
    /\ ActiveSlots \subseteq abandoned \cup {admission}
    /\ answer.category = "SCAN_SUCCESS" /\ scan.of = answer.admission =>
          scan.state = "COMPLETED" /\ slots[answer.admission] = "RELEASED"

\* A user who is told that the scan was not admitted was not charged for it,
\* and no scan of theirs ran.
RejectionsAreFree ==
    answer.category \in Rejections => answer.admission = NoReservation
=============================================================================
