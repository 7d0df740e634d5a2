-------------------------- MODULE ReservationStore --------------------------
(***************************************************************************)
(* The durable reservation store on SQLite: the schema bootstrap, one      *)
(* transaction for each compare_and_append and the recovery read, which is *)
(* three queries outside any transaction.                                  *)
(*                                                                         *)
(* SQLite is external: BEGIN IMMEDIATE lets one connection write, a reader *)
(* sees what is committed, a crash or a closed connection rolls back, and  *)
(* a COMMIT that raises may have become durable.                           *)
(***************************************************************************)
EXTENDS ReservationCommand, FiniteSets

CONSTANTS
    Callers,
    Nobody          \* no connection holds the write lock

ASSUME CallerAssumption == Nobody \notin Callers

VARIABLES
    schema,         \* have the tables been created
    snapshots,      \* reservation_snapshots: [reservation -> [revision, last] or Nothing]
    events,         \* reservation_events: a set of [event, reservation, revision]
    log,            \* persistence_commands with their recovery_evidence, by rowid
    writer,         \* the caller in a write transaction, or Nobody
    at,             \* [Callers -> where each is]
    call,           \* [Callers -> the command, or the reservation to read, or Nothing]
    found,          \* [Callers -> the record a read has found so far]
    reply           \* [Callers -> what each was told last of a command]

tables == <<schema, snapshots, events, log>>

reservationVars == <<schema, snapshots, events, log, writer, at, call, found, reply>>

ReservationInit ==
    /\ schema = FALSE
    /\ snapshots = [r \in Reservations |-> Nothing]
    /\ events = {}
    /\ log = <<>>
    /\ writer = Nobody
    /\ at = [c \in Callers |-> "idle"]
    /\ call = [c \in Callers |-> Nothing]
    /\ found = [c \in Callers |-> Nothing]
    /\ reply = [c \in Callers |-> Nothing]

Goto(c, place) == at' = [at EXCEPT ![c] = place]

Return(c) ==
    /\ Goto(c, "idle")
    /\ call' = [call EXCEPT ![c] = Nothing]
    /\ found' = [found EXCEPT ![c] = Nothing]
    /\ writer' = IF writer = c THEN Nobody ELSE writer

Answer(c, snapshot) ==
    /\ Return(c)
    /\ reply' = [reply EXCEPT ![c] = snapshot]

-----------------------------------------------------------------------------
(* What a transaction looks up. *)

Ids == {log[i].command.id : i \in DOMAIN log}

Keys == {log[i].command.key : i \in DOMAIN log}

EntriesOf(r) == {i \in DOMAIN log : log[i].command.reservation = r}

Recorded(r) == EntriesOf(r) # {}

\* _current_snapshot: the record of the reservation with the highest rowid.
Current(r) ==
    log[CHOOSE i \in EntriesOf(r) : \A j \in EntriesOf(r) : j <= i].snapshot

\* Fault: a command is looked up by its id alone.
ReplayedById(command, snapshot) ==
    \E i \in DOMAIN log :
        /\ log[i].command.id = command.id
        /\ snapshot = log[i].snapshot

\* The command was recorded before, by itself or under another id but with
\* its idempotency key: the snapshot of then is returned.
Replayed(command, snapshot) ==
    \E i \in DOMAIN log :
        /\ \/ log[i].command.id = command.id
           \/ command.id \notin Ids /\ log[i].command.key = command.key
        /\ SameContent(log[i].command, command)
        /\ snapshot = log[i].snapshot

\* _request_conflict: the request belongs to another reservation.
RequestConflict(command) ==
    \E i \in DOMAIN log :
        /\ log[i].snapshot.request = command.request
        /\ log[i].snapshot.reservation # command.reservation

EventKnown(command) == \E e \in events : e.event = command.event

\* Fault: the last event is not compared.
ExpectsRevision(command) ==
    LET current == Current(command.reservation)
    IN IF Recorded(command.reservation)
       THEN /\ current.revision = command.expected
            /\ current.state = command.prior
       ELSE command.expected = 0

\* The state before the first command is not compared with anything.
ExpectsCurrent(command) ==
    LET current == Current(command.reservation)
    IN IF Recorded(command.reservation)
       THEN /\ current.revision = command.expected
            /\ current.last = command.last
            /\ current.state = command.prior
       ELSE command.expected = 0

Revision(r) == IF Recorded(r) THEN Current(r).revision ELSE 0

Count(r) == IF Recorded(r) THEN Current(r).count ELSE 0

\* reservation_snapshots.revision is UNIQUE in the whole table.
RevisionTaken(command) ==
    \E r \in Reservations \ {command.reservation} :
        /\ snapshots[r] # Nothing
        /\ snapshots[r].revision = Revision(command.reservation) + 1

\* Every check of the transaction and every constraint of the tables passes.
Appendable(command) ==
    /\ command.id \notin Ids
    /\ command.key \notin Keys
    /\ ~RequestConflict(command)
    /\ ~EventKnown(command)
    /\ ExpectsCurrent(command)
    /\ ~RevisionTaken(command)

-----------------------------------------------------------------------------
(* bootstrap_sqlite_schema_v1 *)

Bootstrap ==
    /\ ~schema
    /\ writer = Nobody
    /\ schema' = TRUE
    /\ UNCHANGED <<snapshots, events, log, writer, at, call, found, reply>>

-----------------------------------------------------------------------------
(* compare_and_append *)

Submit(c, command) ==
    /\ at[c] = "idle"
    /\ Goto(c, "called")
    /\ call' = [call EXCEPT ![c] = command]
    /\ reply' = [reply EXCEPT ![c] = Nothing]
    /\ UNCHANGED <<schema, snapshots, events, log, writer, found>>

\* BEGIN IMMEDIATE
Begin(c) ==
    /\ at[c] = "called"
    /\ WellFormed(call[c])
    /\ schema
    /\ writer = Nobody
    /\ writer' = c
    /\ Goto(c, "inside")
    /\ UNCHANGED <<tables, call, found, reply>>

\* A closed adapter, a malformed command, no connection, no tables, a busy
\* database: None.
Unavailable(c) ==
    /\ at[c] = "called"
    /\ Answer(c, Nothing)
    /\ UNCHANGED tables

Replay(c, snapshot) ==
    /\ at[c] = "inside"
    /\ Replayed(call[c], snapshot)
    /\ Answer(c, snapshot)
    /\ UNCHANGED tables

\* A check fails or a constraint raises IntegrityError: rolled back.
Refuse(c) ==
    /\ at[c] = "inside"
    /\ ~\E i \in DOMAIN log : Replayed(call[c], log[i].snapshot)
    /\ ~Appendable(call[c])
    /\ Answer(c, Nothing)
    /\ UNCHANGED tables

\* The four INSERT and UPDATE statements, none of them visible yet.
Insert(c) ==
    /\ at[c] = "inside"
    /\ Appendable(call[c])
    /\ Goto(c, "committing")
    /\ UNCHANGED <<tables, writer, call, found, reply>>

Left(command) ==
    Snapshot(command, Revision(command.reservation) + 1, Count(command.reservation) + 1)

Apply(command) ==
    /\ snapshots' = [snapshots EXCEPT ![command.reservation] =
          [revision |-> Left(command).revision, last |-> Left(command).last]]
    /\ events' = events \cup {[event       |-> command.event,
                               reservation |-> command.reservation,
                               revision    |-> Left(command).revision]}
    /\ log' = Append(log, [command |-> command, snapshot |-> Left(command)])
    /\ UNCHANGED schema

\* A COMMIT that raises may have become durable all the same: the answer is
\* None, as if nothing had been written.
Commit(c, raises) ==
    /\ at[c] = "committing"
    /\ Apply(call[c])
    /\ writer' = Nobody
    /\ Goto(c, "answering")
    /\ found' = [found EXCEPT ![c] = IF raises THEN Nothing ELSE Left(call[c])]
    /\ UNCHANGED <<call, reply>>

Conclude(c) ==
    /\ at[c] = "answering"
    /\ Answer(c, found[c])
    /\ UNCHANGED tables

\* OperationalError anywhere in the transaction, the COMMIT included: rolled
\* back, or closed without a commit.
TransactionFails(c) ==
    /\ at[c] \in {"inside", "committing"}
    /\ Answer(c, Nothing)
    /\ UNCHANGED tables

Crash(c) ==
    /\ at[c] # "idle"
    /\ Return(c)
    /\ UNCHANGED <<tables, reply>>

-----------------------------------------------------------------------------
(* read_reservation *)

\* The record; a reservation without one is answered None at once.
ReadRecord(c, r) ==
    /\ at[c] = "idle"
    /\ schema
    /\ Recorded(r)
    /\ Goto(c, "row")
    /\ call' = [call EXCEPT ![c] = r]
    /\ found' = [found EXCEPT ![c] = Current(r)]
    /\ UNCHANGED <<schema, snapshots, events, log, writer, reply>>

RowMatches(c) ==
    snapshots[call[c]] = [revision |-> found[c].revision, last |-> found[c].last]

ReadRow(c) ==
    /\ at[c] = "row"
    /\ RowMatches(c)
    /\ Goto(c, "count")
    /\ UNCHANGED <<tables, writer, call, found, reply>>

\* Fault: events added since the record was read are let pass.
EnoughEvents(c) ==
    Cardinality({e \in events : e.reservation = call[c]}) >= found[c].count

CountMatches(c) ==
    Cardinality({e \in events : e.reservation = call[c]}) = found[c].count

ReadCount(c) ==
    /\ at[c] = "count"
    /\ CountMatches(c)
    /\ Return(c)
    /\ UNCHANGED <<tables, reply>>

\* The row or the number of events differs from the record: None.
ReadMismatch(c) ==
    /\ \/ at[c] = "row" /\ ~RowMatches(c)
       \/ at[c] = "count" /\ ~CountMatches(c)
    /\ Return(c)
    /\ UNCHANGED <<tables, reply>>

-----------------------------------------------------------------------------

ReservationNext ==
    \/ Bootstrap
    \/ \E c \in Callers :
          \/ \E command \in Commands : Submit(c, command)
          \/ Begin(c) \/ Unavailable(c)
          \/ \E i \in DOMAIN log : Replay(c, log[i].snapshot)
          \/ Refuse(c)
          \/ Insert(c)
          \/ \E raises \in BOOLEAN : Commit(c, raises)
          \/ Conclude(c)
          \/ TransactionFails(c) \/ Crash(c)
          \/ \E r \in Reservations : ReadRecord(c, r)
          \/ ReadRow(c) \/ ReadCount(c) \/ ReadMismatch(c)

ReservationSpec == ReservationInit /\ [][ReservationNext]_reservationVars

-----------------------------------------------------------------------------
(* Safety. *)

\* The entry i follows j in the history of its reservation.
Follows(i, j) ==
    /\ j \in EntriesOf(log[i].command.reservation)
    /\ j < i
    /\ \A k \in EntriesOf(log[i].command.reservation) : ~(j < k /\ k < i)

\* The commands of a reservation form one path through the states: each was
\* made by a caller who knew the state, revision and event which the one
\* before it left, whatever raced, failed or was retried.  The three tables
\* agree on its end, so that the recovery read does not take a sound
\* reservation for a corrupt one.
ChainsAreLegal ==
    /\ \A i \in DOMAIN log :
          \/ /\ \A j \in DOMAIN log : ~Follows(i, j)
             /\ log[i].snapshot = Snapshot(log[i].command, 1, 1)
             /\ log[i].command.expected = 0
          \/ \E j \in DOMAIN log :
                /\ Follows(i, j)
                /\ log[i].command.expected = log[j].snapshot.revision
                /\ log[i].command.prior = log[j].command.requested
                /\ log[i].command.last = log[j].command.event
                /\ log[i].snapshot = Snapshot(log[i].command, log[j].snapshot.revision + 1,
                                              log[j].snapshot.count + 1)
    /\ \A r \in Reservations :
          /\ ~Recorded(r) => snapshots[r] = Nothing
          /\ Recorded(r) =>
                snapshots[r] = [revision |-> Current(r).revision, last |-> Current(r).last]
          /\ Cardinality({e \in events : e.reservation = r}) = Count(r)

\* The store behaves as a history in which every command takes effect at one
\* instant and at most once, compared with the number of commands before it;
\* and every snapshot returned is one that a command of that content left.
Promise == INSTANCE AppendOnce WITH
    history <- [i \in DOMAIN log |-> log[i].command],
    pending <- [c \in Callers |->
                  IF at[c] \in {"row", "count"} THEN Nothing ELSE call[c]]

StorePromiseKept == Promise!Spec

\* A recovery read puts the record of one moment beside the tables of two
\* later ones, commits of others in between.  What it returns is the record at
\* its last query all the same, and None for a recorded reservation tells of a
\* commit since its first: the file is not taken for a corrupt one otherwise.
RecoveryReadIsCurrent ==
    [][\A c \in Callers :
          /\ ReadCount(c) => found[c] = Current(call[c])
          /\ ReadMismatch(c) => found[c] # Current(call[c])]_reservationVars

\* The constraints that the schema requires are on the id of a command, of a
\* reservation and of an event and on the idempotency key; whether a command
\* that meets them is refused depends on nothing but its own reservation.
ReservationsAreIndependent ==
    [][\A c \in Callers :
          Refuse(c) => \/ call[c].id \in Ids
                       \/ call[c].key \in Keys
                       \/ EventKnown(call[c])
                       \/ RequestConflict(call[c])
                       \/ ~ExpectsCurrent(call[c])]_reservationVars
=============================================================================
