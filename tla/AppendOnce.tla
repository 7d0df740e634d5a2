----------------------------- MODULE AppendOnce -----------------------------
(***************************************************************************)
(* What the durable reservation store promises its callers: it is a        *)
(* history of commands, to which a command is appended at one instant, at  *)
(* most once by its id and by its idempotency key, and only by a caller    *)
(* who counted the earlier commands of that reservation right.  An answer  *)
(* other than Nothing is the snapshot which a command of the same content  *)
(* left behind; Nothing promises nothing, as a commit may be uncertain.    *)
(***************************************************************************)
EXTENDS ReservationCommand, FiniteSets

CONSTANT Callers

VARIABLES
    history,        \* the commands that took effect, in order
    pending,        \* [Callers -> the command each waits for, or Nothing]
    reply           \* [Callers -> what each was told last]

vars == <<history, pending, reply>>

\* How many of the first n commands are about the reservation.
CountTo(n, reservation) ==
    Cardinality({i \in 1 .. n : history[i].reservation = reservation})

Init ==
    /\ history = <<>>
    /\ pending = [c \in Callers |-> Nothing]
    /\ reply = [c \in Callers |-> Nothing]

\* The command submitted is the one that c waits for then.
Submit(c) ==
    /\ pending[c] = Nothing
    /\ pending'[c] \in Commands
    /\ pending' = [pending EXCEPT ![c] = pending'[c]]
    /\ reply' = [reply EXCEPT ![c] = Nothing]
    /\ UNCHANGED history

TakeEffect(c) ==
    /\ pending[c] # Nothing
    /\ \A i \in DOMAIN history : /\ history[i].id # pending[c].id
                                 /\ history[i].key # pending[c].key
    /\ pending[c].expected = CountTo(Len(history), pending[c].reservation)
    /\ history' = Append(history, pending[c])
    /\ UNCHANGED <<pending, reply>>

Answer(c, snapshot) ==
    /\ pending[c] # Nothing
    /\ \/ snapshot = Nothing
       \/ \E i \in DOMAIN history :
             /\ SameContent(history[i], pending[c])
             /\ LET n == CountTo(i, history[i].reservation)
                IN snapshot = Snapshot(history[i], n, n)
    /\ pending' = [pending EXCEPT ![c] = Nothing]
    /\ reply' = [reply EXCEPT ![c] = snapshot]
    /\ UNCHANGED history

\* A crash between the effect and the answer leaves no answer.
Vanish(c) ==
    /\ pending[c] # Nothing
    /\ pending' = [pending EXCEPT ![c] = Nothing]
    /\ UNCHANGED <<history, reply>>

Snapshots ==
    {Snapshot(history[i], CountTo(i, history[i].reservation), CountTo(i, history[i].reservation)) :
        i \in DOMAIN history}

Next ==
    \E c \in Callers :
        \/ Submit(c)
        \/ TakeEffect(c)
        \/ \E snapshot \in Snapshots \cup {Nothing} : Answer(c, snapshot)
        \/ Vanish(c)

Spec == Init /\ [][Next]_vars
=============================================================================
