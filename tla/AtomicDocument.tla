--------------------------- MODULE AtomicDocument ---------------------------
(***************************************************************************)
(* What a ledger file promises its callers, whatever its format: a call    *)
(* takes effect at one instant, on the latest document, wholly and at most *)
(* once; its answer says whether it did.  Only a caller that crashed is    *)
(* left without an answer.                                                 *)
(*                                                                         *)
(* A document is named by the calls that took effect on it, in order.      *)
(***************************************************************************)
EXTENDS Naturals, Sequences

CONSTANTS
    Callers,
    MaxCalls,       \* bound on the calls of one caller
    Absent          \* there is no file

VARIABLES
    document,       \* Absent, or the sequence of calls that made the file
    made,           \* [Callers -> number of calls made so far]
    open,           \* [Callers -> is the latest call still unanswered]
    answer          \* [call -> what its caller was told]

vars == <<document, made, open, answer>>

Calls == Callers \X (1 .. MaxCalls)

Answers == {"accepted", "unchanged", "refused"}

Current(c) == <<c, made[c]>>

Effects == IF document = Absent THEN <<>> ELSE document

TookEffect(call) == \E i \in DOMAIN Effects : Effects[i] = call

Init ==
    /\ document = Absent
    /\ made = [c \in Callers |-> 0]
    /\ open = [c \in Callers |-> FALSE]
    /\ answer = [call \in Calls |-> "none"]

Begin(c) ==
    /\ ~open[c]
    /\ made[c] < MaxCalls
    /\ made' = [made EXCEPT ![c] = made[c] + 1]
    /\ open' = [open EXCEPT ![c] = TRUE]
    /\ UNCHANGED <<document, answer>>

TakeEffect(c) ==
    /\ open[c]
    /\ ~TookEffect(Current(c))
    /\ document' = Append(Effects, Current(c))
    /\ UNCHANGED <<made, open, answer>>

Reply(c, a) ==
    /\ open[c]
    /\ (a = "accepted") = TookEffect(Current(c))
    /\ open' = [open EXCEPT ![c] = FALSE]
    /\ answer' = [answer EXCEPT ![Current(c)] = a]
    /\ UNCHANGED <<document, made>>

\* The caller crashed: it may or may not have taken effect.
Vanish(c) ==
    /\ open[c]
    /\ open' = [open EXCEPT ![c] = FALSE]
    /\ answer' = [answer EXCEPT ![Current(c)] = "lost"]
    /\ UNCHANGED <<document, made>>

Next ==
    \E c \in Callers :
        \/ Begin(c)
        \/ TakeEffect(c)
        \/ \E a \in Answers : Reply(c, a)
        \/ Vanish(c)

Spec == Init /\ [][Next]_vars
=============================================================================
