------------------------- MODULE MCReservationStore -------------------------
(***************************************************************************)
(* Two callers and the commands of two reservations.  The commands of the  *)
(* first compete for its revisions; a second request wants its event,      *)
(* request, key or id.                                                     *)
(***************************************************************************)
EXTENDS ReservationStore, TLC

CONSTANTS r1, r2, q1, q2

Command(id, reservation, request, key, payload, expected, prior, requested, event, last) ==
    [id |-> id, reservation |-> reservation, request |-> request, key |-> key,
     payload |-> payload, expected |-> expected, prior |-> prior,
     requested |-> requested, event |-> event, last |-> last]

Create == Command("c1", r1, q1, "k1", "p1", 0, "PROPOSED", "RESERVED", "e1", "e0")

Transmit == Command("c2", r1, q1, "k2", "p1", 1, "RESERVED", "TRANSMISSION_PENDING", "e2", "e1")

ReleaseFirst == Command("c3", r1, q1, "k3", "p1", 1, "RESERVED", "RELEASED", "e3", "e1")

LeaveUncertain == Command("c4", r1, q1, "k4", "p1", 2, "TRANSMISSION_PENDING", "UNCERTAIN", "e4", "e2")

CreateOther == Command("c6", r2, q2, "k6", "p2", 0, "PROPOSED", "RESERVED", "e6", "e0")

ReleaseOther == Command("c7", r2, q2, "k7", "p2", 1, "RESERVED", "RELEASED", "e7", "e6")

Rivals ==
    {[Create EXCEPT !.id = "c8"],                       \* the same content under another id
     [Create EXCEPT !.payload = "p2"],                  \* another content under the id
     [Create EXCEPT !.id = "c9", !.payload = "p2"],     \* another content under the key
     [CreateOther EXCEPT !.id = "d1", !.key = "k8", !.request = q1],
     [CreateOther EXCEPT !.id = "d2", !.key = "k9", !.event = "e1"],
     [ReleaseFirst EXCEPT !.id = "d3", !.key = "k9", !.last = "e0", !.event = "e9"],
     [Create EXCEPT !.requested = "CONSUMED"]}          \* no transition

MCCommands ==
    {Create, Transmit, ReleaseFirst, LeaveUncertain, CreateOther, ReleaseOther} \cup Rivals

CONSTANTS a, b

Interchangeable == Permutations({a, b})
=============================================================================
