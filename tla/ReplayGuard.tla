----------------------------- MODULE ReplayGuard -----------------------------
(***************************************************************************)
(* The durable replay guard of owner approvals: an approval is consumed by *)
(* inserting its identity into a SQLite file, and is granted only if it    *)
(* was not there.  The file is opened by path a second time, for SQLite,   *)
(* and the path is checked against the held descriptor again and again: an *)
(* operator may put another file in its place, and put it back.            *)
(*                                                                         *)
(* Every recheck opens the file at the path and closes it again.  Closing  *)
(* any descriptor of a file drops every POSIX lock its process has on that *)
(* file, so the recheck after BEGIN IMMEDIATE gives the lock of SQLite     *)
(* away: a second process may then begin, look and commit on the same      *)
(* file, each writing back the pages it read.                              *)
(*                                                                         *)
(* A file is a number; files that fail the checks of owner, mode, schema   *)
(* or deployment are left out: every one of those checks ends the call     *)
(* with a failure and changes nothing.  A process makes one call at a time *)
(* (SQLite itself keeps the connections of one process apart).  What two   *)
(* transactions at once do to a file is abstracted to which rows survive;  *)
(* that they may also corrupt it, which quick_check would find, is left    *)
(* out.                                                                    *)
(***************************************************************************)
EXTENDS Naturals, FiniteSets

CONSTANTS
    Processes,      \* callers of check_and_record_phase_12_owner_approval_replay_v1
    Identities,     \* replay identities of approvals
    MaxRows,        \* _MAX_ROWS
    MaxFiles,       \* bound on the files that are ever put at the path
    NoProcess,
    NoIdentity

ASSUME GuardAssumption ==
    /\ MaxRows \in Nat
    /\ MaxFiles \in Nat \ {0}
    /\ NoProcess \notin Processes
    /\ NoIdentity \notin Identities

VARIABLES
    path,           \* the file the path leads to
    files,          \* number of files there have been
    consumed,       \* [file -> the identities in its table]
    owner,          \* [file -> the process that has the write lock, or NoProcess]
    step,           \* [Processes -> where each is]
    identity,       \* [Processes -> the approval it wants consumed]
    held,           \* [Processes -> the file its descriptor is on, or 0]
    connected,      \* [Processes -> the file its SQLite connection is on, or 0]
    view,           \* [Processes -> the rows its transaction has read]
    granted,        \* history: set of [identity, file that recorded it]
    overlapped      \* history: files on which two transactions were open at once

guardVars ==
    <<path, files, consumed, owner, step, identity, held, connected, view, granted, overlapped>>

Files == 1 .. MaxFiles

GuardInit ==
    /\ path = 1
    /\ files = 1
    /\ consumed = [f \in Files |-> {}]
    /\ owner = [f \in Files |-> NoProcess]
    /\ step = [p \in Processes |-> "idle"]
    /\ identity = [p \in Processes |-> NoIdentity]
    /\ held = [p \in Processes |-> 0]
    /\ connected = [p \in Processes |-> 0]
    /\ view = [p \in Processes |-> {}]
    /\ granted = {}
    /\ overlapped = {}

StepTo(p, place) == step' = [step EXCEPT ![p] = place]

\* Closing a descriptor of file f drops the locks p has on f.
Released(p, f) == [owner EXCEPT ![f] = IF owner[f] = p THEN NoProcess ELSE owner[f]]

\* The call ends: its connection and its descriptors are closed.
Leave(p) ==
    /\ StepTo(p, "idle")
    /\ identity' = [identity EXCEPT ![p] = NoIdentity]
    /\ held' = [held EXCEPT ![p] = 0]
    /\ connected' = [connected EXCEPT ![p] = 0]
    /\ view' = [view EXCEPT ![p] = {}]
    /\ owner' = [f \in Files |-> IF owner[f] = p THEN NoProcess ELSE owner[f]]
    /\ UNCHANGED <<path, files, overlapped>>

\* _recheck_path compares the path with the held descriptor; what the
\* connection is on, it does not ask.
PathUnchanged(p) == held[p] = path

\* Who has a transaction open on file f.
Transacting(f) ==
    {p \in Processes : step[p] \in {"begun", "looking", "inserted"} /\ connected[p] = f}

-----------------------------------------------------------------------------

OpenDescriptors(p, i) ==
    /\ step[p] = "idle"
    /\ StepTo(p, "opened")
    /\ identity' = [identity EXCEPT ![p] = i]
    /\ held' = [held EXCEPT ![p] = path]
    /\ UNCHANGED <<path, files, consumed, owner, connected, view, granted, overlapped>>

\* The first recheck.
RecheckOpened(p) ==
    /\ step[p] = "opened"
    /\ PathUnchanged(p)
    /\ StepTo(p, "rechecked")
    /\ UNCHANGED <<path, files, consumed, owner, identity, held, connected, view, granted,
                   overlapped>>

\* sqlite3.connect opens whatever is at the path now.
Connect(p) ==
    /\ step[p] = "rechecked"
    /\ connected' = [connected EXCEPT ![p] = path]
    /\ StepTo(p, "connected")
    /\ UNCHANGED <<path, files, consumed, owner, identity, held, view, granted, overlapped>>

\* The lock is free, though another transaction may be open that lost it.
BeginImmediate(p) ==
    LET f == connected[p]
    IN  /\ step[p] = "connected"
        /\ owner[f] = NoProcess
        /\ owner' = [owner EXCEPT ![f] = p]
        /\ overlapped' = IF Transacting(f) # {} THEN overlapped \cup {f} ELSE overlapped
        /\ StepTo(p, "begun")
        /\ UNCHANGED <<path, files, consumed, identity, held, connected, view, granted>>

\* The second recheck, under the transaction: it opens and closes the file at
\* the path, which is the held one.  Then the schema checks and quick_check,
\* which read the file.
RecheckBegun(p) ==
    /\ step[p] = "begun"
    /\ PathUnchanged(p)
    /\ owner' = Released(p, held[p])
    /\ view' = [view EXCEPT ![p] = consumed[connected[p]]]
    /\ StepTo(p, "looking")
    /\ UNCHANGED <<path, files, consumed, identity, held, connected, granted, overlapped>>

AlreadyConsumed(p) ==
    /\ step[p] = "looking"
    /\ identity[p] \in view[p]
    /\ Leave(p)
    /\ UNCHANGED <<consumed, granted>>

CapacityExceeded(p) ==
    /\ step[p] = "looking"
    /\ identity[p] \notin view[p]
    /\ Cardinality(view[p]) >= MaxRows
    /\ Leave(p)
    /\ UNCHANGED <<consumed, granted>>

InsertIdentity(p) ==
    /\ step[p] = "looking"
    /\ identity[p] \notin view[p]
    /\ Cardinality(view[p]) < MaxRows
    /\ StepTo(p, "inserted")
    /\ UNCHANGED <<path, files, consumed, owner, identity, held, connected, view, granted,
                   overlapped>>

\* The transaction's pages reach the file, which needs the lock of no other:
\* its row does, and of rows written or lost since it read the file, those on
\* other pages stay and those on its pages are as it read them.
WriteBack(p) ==
    LET f    == connected[p]
        both == view[p] \cap consumed[f]
        any  == (view[p] \cup consumed[f]) \ both
    IN  /\ owner[f] \in {p, NoProcess}
        /\ \E kept \in SUBSET any :
              consumed' = [consumed EXCEPT ![f] = both \cup kept \cup {identity[p]}]

CommitIdentity(p) ==
    /\ step[p] = "inserted"
    /\ WriteBack(p)
    /\ owner' = Released(p, connected[p])
    /\ StepTo(p, "committed")
    /\ UNCHANGED <<path, files, identity, held, connected, view, granted, overlapped>>

\* Fault: a COMMIT that raises is taken for one that was done.
CommitAssumed(p) ==
    /\ step[p] = "inserted"
    /\ UNCHANGED consumed \/ WriteBack(p)
    /\ StepTo(p, "committed")
    /\ UNCHANGED <<path, files, owner, identity, held, connected, view, granted, overlapped>>

\* COMMIT raises: the identity may have persisted, the approval is not granted.
DurabilityNotConfirmed(p) ==
    /\ step[p] = "inserted"
    /\ UNCHANGED consumed \/ WriteBack(p)
    /\ Leave(p)
    /\ UNCHANGED granted

\* The third recheck, and success.
Grant(p) ==
    /\ step[p] = "committed"
    /\ PathUnchanged(p)
    /\ granted' = granted \cup {[identity |-> identity[p], file |-> connected[p]]}
    /\ Leave(p)
    /\ UNCHANGED consumed

\* A recheck fails, the database is busy or cannot be opened, a statement
\* raises, or the process dies.
FailGuard(p) ==
    /\ step[p] # "idle"
    /\ Leave(p)
    /\ UNCHANGED <<consumed, granted>>

\* External: another file, a copy or an empty one, takes the place of the store.
ReplaceStore ==
    /\ files < MaxFiles
    /\ files' = files + 1
    /\ path' = files + 1
    /\ consumed' \in {[consumed EXCEPT ![files + 1] = rows] : rows \in SUBSET consumed[path]}
    /\ UNCHANGED <<owner, step, identity, held, connected, view, granted, overlapped>>

\* External: a file that was the store before is put back.
RestoreStore(f) ==
    /\ f <= files
    /\ f # path
    /\ path' = f
    /\ UNCHANGED <<files, consumed, owner, step, identity, held, connected, view, granted,
                   overlapped>>

GuardNext ==
    \/ \E p \in Processes :
          \/ \E i \in Identities : OpenDescriptors(p, i)
          \/ RecheckOpened(p) \/ Connect(p) \/ BeginImmediate(p) \/ RecheckBegun(p)
          \/ AlreadyConsumed(p) \/ CapacityExceeded(p) \/ InsertIdentity(p)
          \/ CommitIdentity(p) \/ DurabilityNotConfirmed(p) \/ Grant(p)
          \/ FailGuard(p)
    \/ ReplaceStore
    \/ \E f \in Files : RestoreStore(f)

GuardSpec == GuardInit /\ [][GuardNext]_guardVars

-----------------------------------------------------------------------------
(* Safety. *)

\* The file that is about to grant p's approval has it recorded and has not
\* granted it before.
GrantedAnew(p) ==
    /\ identity[p] \in consumed[connected[p]]
    /\ ~\E g \in granted : g.identity = identity[p] /\ g.file = connected[p]

\* As long as no two transactions were open on a file at once, the file grants
\* an approval at most once and has it recorded: no crash, no uncertain commit
\* and no swap of files between the checks, even one that is swapped back,
\* gets it granted again by the file or granted without a record in it.  The
\* file is the one the connection is on, which need not be the one checked.
GrantedOnceUnlessOverlapping ==
    [][\A p \in Processes :
          Grant(p) /\ connected[p] \notin overlapped => GrantedAnew(p)]_guardVars

\* The same of whatever runs at once: what the guard is documented to ensure
\* across local processes, by BEGIN IMMEDIATE and SQLite's locking.
GrantedOncePerStore ==
    [][\A p \in Processes : Grant(p) => GrantedAnew(p)]_guardVars
=============================================================================
