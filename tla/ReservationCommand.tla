-------------------------- MODULE ReservationCommand --------------------------
(***************************************************************************)
(* A command to the durable reservation store of phase 12, and the         *)
(* snapshot that a command leaves behind.  The type of the event, the      *)
(* reservation-request id and the time of a command are only ever compared *)
(* together with the rest of its content and are part of its payload.      *)
(***************************************************************************)
EXTENDS Naturals, Sequences

\* [id, reservation, request, key, payload, expected, prior, requested, event, last]
CONSTANTS
    Commands,
    Nothing         \* the None that a failed operation returns

Reservations == {command.reservation : command \in Commands}

AllowedTransitions ==
    {<<"PROPOSED", "RESERVED">>,
     <<"RESERVED", "TRANSMISSION_PENDING">>,
     <<"RESERVED", "RELEASED">>,
     <<"RESERVED", "EXPIRED">>,
     <<"TRANSMISSION_PENDING", "CONSUMED">>,
     <<"TRANSMISSION_PENDING", "UNCERTAIN">>,
     <<"UNCERTAIN", "RECONCILED">>}

WellFormed(command) == <<command.prior, command.requested>> \in AllowedTransitions

ASSUME CommandAssumption ==
    /\ \A command \in Commands :
          /\ DOMAIN command = {"id", "reservation", "request", "key", "payload",
                               "expected", "prior", "requested", "event", "last"}
          /\ command.expected \in Nat
    /\ Nothing \notin Commands

\* identity[1:]: everything but the id of the command.
SameContent(a, b) ==
    \A field \in {"reservation", "request", "key", "payload", "expected",
                  "prior", "requested", "event", "last"} : a[field] = b[field]

\* The amounts are always zero and the currency always the same.
Snapshot(command, revision, count) ==
    [reservation |-> command.reservation,
     request     |-> command.request,
     key         |-> command.key,
     payload     |-> command.payload,
     revision    |-> revision,
     state       |-> command.requested,
     last        |-> command.event,
     count       |-> count]
=============================================================================
