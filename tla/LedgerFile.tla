----------------------------- MODULE LedgerFile -----------------------------
(***************************************************************************)
(* A ledger file and its sibling lock file, system call by system call, as *)
(* the active ledger and the refill ledger both handle them: create the    *)
(* lock with O_EXCL, trying a bounded number of times; load the document,  *)
(* check the guards; write a temporary file and os.replace it over the     *)
(* document; unlink the lock in a finally clause.                          *)
(*                                                                         *)
(* What a guard decides is left open (ActiveSignalLedger and               *)
(* StyleRefillLedger say it); a document is named by the calls that made   *)
(* it.  A caller may crash between any two system calls, which leaves its  *)
(* lock file behind: there is no age-based deletion, an operator removes   *)
(* it.  The operator, who is not in the code, removes only such a lock.    *)
(***************************************************************************)
EXTENDS Naturals, Sequences

CONSTANTS
    Callers,        \* processes that use the file
    MaxCalls,       \* bound on the calls of one caller
    LockAttempts,   \* _LOCK_ATTEMPTS
    Absent,         \* there is no document
    Unlocked,       \* there is no lock file
    Orphaned        \* the lock file of a caller that will not remove it

ASSUME FileAssumption ==
    /\ MaxCalls \in Nat
    /\ LockAttempts \in Nat
    /\ Unlocked \notin Callers
    /\ Orphaned \notin Callers
    /\ Unlocked # Orphaned

ASSUME AbsentAssumption == Absent \notin Seq(Callers \X (1 .. MaxCalls))

VARIABLES
    document,       \* the file: Absent or the calls that made it
    lock,           \* the lock file: Unlocked, Orphaned or who created it
    pc,             \* [Callers -> where each is]
    kind,           \* [Callers -> what kind of operation each called last]
    tries,          \* [Callers -> attempts made to create the lock file]
    loaded,         \* [Callers -> the document each has in memory]
    verdict,        \* [Callers -> what each is about to be told]
    made,           \* [Callers -> number of calls made so far]
    answer          \* history: [call -> what its caller was told]

fileVars == <<document, lock, pc, kind, tries, loaded, verdict, made, answer>>

Calls == Callers \X (1 .. MaxCalls)

Current(c) == <<c, made[c]>>

\* initialize_ledger refuses an existing file, the mutations a missing one;
\* reconcile_terminal_transition starts from an empty document.
Kinds == {"initialize", "mutate", "reconcile"}

FileInit ==
    /\ document = Absent
    /\ lock = Unlocked
    /\ pc = [c \in Callers |-> "idle"]
    /\ kind = [c \in Callers |-> "mutate"]
    /\ tries = [c \in Callers |-> 0]
    /\ loaded = [c \in Callers |-> <<>>]
    /\ verdict = [c \in Callers |-> "none"]
    /\ made = [c \in Callers |-> 0]
    /\ answer = [call \in Calls |-> "none"]

Goto(c, place) == pc' = [pc EXCEPT ![c] = place]

Call(c, k) ==
    /\ pc[c] = "idle"
    /\ made[c] < MaxCalls
    /\ kind' = [kind EXCEPT ![c] = k]
    /\ Goto(c, "locking")
    /\ tries' = [tries EXCEPT ![c] = 0]
    /\ made' = [made EXCEPT ![c] = made[c] + 1]
    /\ UNCHANGED <<document, lock, loaded, verdict, answer>>

\* The call returns or raises, and its local variables are gone.
Return(c, what) ==
    /\ Goto(c, "idle")
    /\ answer' = [answer EXCEPT ![Current(c)] = what]
    /\ loaded' = [loaded EXCEPT ![c] = <<>>]
    /\ verdict' = [verdict EXCEPT ![c] = "none"]
    /\ UNCHANGED <<document, kind, tries, made>>

-----------------------------------------------------------------------------
(* _ledger_lock: entering. *)

\* Fault: the lock file is opened without O_EXCL.
CreateLockUnlessOrphaned(c) ==
    /\ pc[c] = "locking"
    /\ tries[c] < LockAttempts
    /\ lock # Orphaned
    /\ lock' = c
    /\ Goto(c, "loading")
    /\ UNCHANGED <<document, kind, tries, loaded, verdict, made, answer>>

CreateLock(c) ==
    /\ pc[c] = "locking"
    /\ tries[c] < LockAttempts
    /\ lock = Unlocked
    /\ lock' = c
    /\ Goto(c, "loading")
    /\ UNCHANGED <<document, kind, tries, loaded, verdict, made, answer>>

\* Fault: the attempts are not counted.
LockExistsRetryingForever(c) ==
    /\ pc[c] = "locking"
    /\ tries[c] < LockAttempts
    /\ lock # Unlocked
    /\ UNCHANGED fileVars

LockExists(c) ==
    /\ pc[c] = "locking"
    /\ tries[c] < LockAttempts
    /\ lock # Unlocked
    /\ tries' = [tries EXCEPT ![c] = tries[c] + 1]
    /\ UNCHANGED <<document, lock, pc, kind, loaded, verdict, made, answer>>

GiveUp(c) ==
    /\ pc[c] = "locking"
    /\ tries[c] = LockAttempts
    /\ Return(c, "refused")
    /\ UNCHANGED lock

\* open, write or fsync of the lock file fails; a file just created is
\* unlinked again, unless that fails too.
LockingFails(c) ==
    /\ pc[c] = "locking"
    /\ tries[c] < LockAttempts
    /\ \/ UNCHANGED lock
       \/ lock = Unlocked /\ lock' = Orphaned
    /\ Return(c, "refused")

-----------------------------------------------------------------------------
(* The body: load, decide, write. *)

Decide(c, what) ==
    /\ Goto(c, "unlocking")
    /\ verdict' = [verdict EXCEPT ![c] = what]
    /\ UNCHANGED <<document, lock, kind, tries, loaded, made, answer>>

\* Fault: initialize_ledger does not look for a file.
LoadUnchecked(c) ==
    /\ pc[c] = "loading"
    /\ kind[c] = "mutate" => document # Absent
    /\ loaded' = [loaded EXCEPT ![c] = IF document = Absent \/ kind[c] = "initialize"
                                      THEN <<>> ELSE document]
    /\ Goto(c, "writing")
    /\ UNCHANGED <<document, lock, kind, tries, verdict, made, answer>>

\* The document is there, or not, as the operation wants it, and the guards
\* on what was read accept.
Load(c) ==
    /\ pc[c] = "loading"
    /\ kind[c] = "initialize" => document = Absent
    /\ kind[c] = "mutate" => document # Absent
    /\ loaded' = [loaded EXCEPT ![c] = IF document = Absent \/ kind[c] = "initialize"
                                      THEN <<>> ELSE document]
    /\ Goto(c, "writing")
    /\ UNCHANGED <<document, lock, kind, tries, verdict, made, answer>>

\* A guard rejects, or the file is missing, present or unreadable; or the
\* operation finds itself applied already and returns the document it read.
DoNothing(c, what) ==
    /\ pc[c] = "loading"
    /\ what = "unchanged" => kind[c] # "initialize" /\ document # Absent
    /\ Decide(c, what)

\* os.replace of the temporary file.
Replace(c) ==
    /\ pc[c] = "writing"
    /\ document' = Append(loaded[c], Current(c))
    /\ verdict' = [verdict EXCEPT ![c] = "accepted"]
    /\ Goto(c, "unlocking")
    /\ UNCHANGED <<lock, kind, tries, loaded, made, answer>>

\* A system call up to and including os.replace fails.
WriteFails(c) ==
    /\ pc[c] = "writing"
    /\ Decide(c, "refused")

-----------------------------------------------------------------------------
(* _ledger_lock: the finally clause, crashes, and the operator. *)

Unlock(c) ==
    /\ pc[c] = "unlocking"
    /\ lock' = Unlocked
    /\ Return(c, verdict[c])

\* The unlink fails; the error is swallowed.
UnlockFails(c) ==
    /\ pc[c] = "unlocking"
    /\ lock' = Orphaned
    /\ Return(c, verdict[c])

\* The process dies; a new one may take its place.
Crash(c) ==
    /\ pc[c] # "idle"
    /\ lock' = IF lock = c THEN Orphaned ELSE lock
    /\ Return(c, "lost")

RemoveOrphan ==
    /\ lock = Orphaned
    /\ lock' = Unlocked
    /\ UNCHANGED <<document, pc, kind, tries, loaded, verdict, made, answer>>

\* What a caller does on its own, once called.
Progress(c) ==
    \/ CreateLock(c) \/ LockExists(c) \/ GiveUp(c)
    \/ Load(c)
    \/ \E what \in {"refused", "unchanged"} : DoNothing(c, what)
    \/ Replace(c)
    \/ Unlock(c)

Failure(c) == LockingFails(c) \/ WriteFails(c) \/ UnlockFails(c) \/ Crash(c)

FileNext ==
    \/ \E c \in Callers :
          \/ \E k \in Kinds : Call(c, k)
          \/ Progress(c)
          \/ Failure(c)
    \/ RemoveOrphan

\* A live process keeps running: nothing in the code waits for another one.
\* Nothing has to fail, and the operator never has to come.
Fairness == \A c \in Callers : WF_fileVars(Progress(c))

FileSpec == FileInit /\ [][FileNext]_fileVars /\ Fairness

-----------------------------------------------------------------------------
(* Safety. *)

Inside == {c \in Callers : pc[c] \in {"loading", "writing", "unlocking"}}

\* Every variable holds what the code may put in it.
TypeOK ==
    /\ document \in {Absent} \cup Seq(Calls)
    /\ lock \in {Unlocked, Orphaned} \cup Callers
    /\ pc \in [Callers -> {"idle", "locking", "loading", "writing", "unlocking"}]
    /\ kind \in [Callers -> Kinds]
    /\ tries \in [Callers -> 0 .. LockAttempts]
    /\ loaded \in [Callers -> Seq(Calls)]
    /\ verdict \in [Callers -> {"none", "accepted", "unchanged", "refused"}]
    /\ made \in [Callers -> 0 .. MaxCalls]
    /\ answer \in [Calls -> {"none", "accepted", "unchanged", "refused", "lost"}]

\* Only the caller whose lock file it is reads, decides and writes, crashes
\* and failing unlinks included.
MutualExclusion == \A c \in Inside : lock = c

\* The document behaves as if each call took effect at one instant on the
\* latest document: no update is lost and none is applied twice.
Promise == INSTANCE AtomicDocument WITH open <- [c \in Callers |-> pc[c] # "idle"]

PromiseKept == Promise!Spec

-----------------------------------------------------------------------------
(* What a step may never do, and what must happen. *)

\* Every call returns or its process dies, whoever holds the lock and even if
\* no one ever removes an orphaned one.
EveryCallEnds == \A c \in Callers : pc[c] # "idle" ~> pc[c] = "idle"
=============================================================================
