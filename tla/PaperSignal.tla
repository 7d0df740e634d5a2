---------------------------- MODULE PaperSignal ----------------------------
(***************************************************************************)
(* The paper observation of one official signal (paper_signal_observer_v1  *)
(* and paper_signal_acknowledgment_v1): which of its levels the market     *)
(* touched first, decided from the candles that closed since the           *)
(* publication.  An observer looks again as the window grows; the          *)
(* acknowledgment of the owner and a cancellation arrive meanwhile.        *)
(*                                                                         *)
(* The signal is published at time 0 and valid until ValidUntil; one       *)
(* candle closes at each time.  A candle is the levels its range covers.   *)
(***************************************************************************)
EXTENDS Naturals, FiniteSets

CONSTANTS
    Sides,          \* the sides a signal may have
    Ranges,         \* the <<low, high>> of a candle
    ValidUntil,
    MaxTime,        \* bound on the candles
    NoTime          \* of a signal nobody cancelled

VARIABLES
    side,           \* of the signal
    time,           \* the latest close
    market,         \* [close -> range], of the candles closed so far
    cancelledAt,    \* the time of the cancellation, or NoTime
    observation     \* the latest one

paperVars == <<side, time, market, cancelledAt, observation>>

-----------------------------------------------------------------------------
(* The levels of the signal, and the candles that touch them. *)

Lower == 1          \* the stop loss of a LONG signal, the target of a SHORT one
ZoneMin == 3
ZoneMax == 4
Upper == 6

PaperSignalAssumption ==
    /\ Sides \subseteq {"LONG", "SHORT"}
    /\ \A range \in Ranges : range[1] <= range[2]
    /\ ValidUntil \in Nat /\ MaxTime \in Nat
    /\ NoTime \notin Nat

ASSUME PaperSignalAssumption

TouchesEntry(range) == range[2] >= ZoneMin /\ range[1] <= ZoneMax

TouchesTarget(range) ==
    IF side = "LONG" THEN range[2] >= Upper ELSE range[1] <= Lower

TouchesInvalidation(range) ==
    IF side = "LONG" THEN range[1] <= Lower ELSE range[2] >= Upper

\* The state each touch leads to.
Touches(range) ==
    {state \in {"ENTRY_ZONE_TOUCHED", "TARGET_REACHED_BEFORE_ENTRY",
                "INVALIDATED_BEFORE_ENTRY"} :
        \/ state = "ENTRY_ZONE_TOUCHED" /\ TouchesEntry(range)
        \/ state = "TARGET_REACHED_BEFORE_ENTRY" /\ TouchesTarget(range)
        \/ state = "INVALIDATED_BEFORE_ENTRY" /\ TouchesInvalidation(range)}

-----------------------------------------------------------------------------
(* observe_paper_signal. *)

IsCancelled == cancelledAt # NoTime

CancelledBefore(close) == IsCancelled /\ cancelledAt < close

\* What the loop over the candles stops at.
Decides(close) == CancelledBefore(close) \/ Touches(market[close]) # {}

StateAt(close) ==
    IF CancelledBefore(close) THEN "CANCELLED"
    ELSE IF Cardinality(Touches(market[close])) > 1 THEN "OBSERVATION_AMBIGUOUS"
    ELSE CHOOSE state \in Touches(market[close]) : TRUE

\* Fault: a cancellation counts whatever its time.
StateAfterAnyCancellation(until) ==
    IF IsCancelled THEN "CANCELLED"
    ELSE IF until > ValidUntil THEN "EXPIRED_UNTOUCHED"
    ELSE "OBSERVING"

\* No candle decided: the cancellation first, then the validity.
StateAfter(until) ==
    IF IsCancelled /\ cancelledAt <= until THEN "CANCELLED"
    ELSE IF until > ValidUntil THEN "EXPIRED_UNTOUCHED"
    ELSE "OBSERVING"

Deciding(until) == {close \in 0 .. until : Decides(close)}

Earliest(closes) == {close \in closes : \A other \in closes : close <= other}

StateOf(until) ==
    IF Deciding(until) = {} THEN StateAfter(until)
    ELSE StateAt(CHOOSE close \in Earliest(Deciding(until)) : TRUE)

NoObservation == [until |-> NoTime, state |-> "NONE", acknowledged |-> FALSE]

PaperInit ==
    /\ side \in Sides
    /\ time = 0
    /\ market \in [{0} -> Ranges]
    /\ cancelledAt = NoTime
    /\ observation = NoObservation

\* One more candle closes.
CloseCandle(range) ==
    /\ time < MaxTime
    /\ time' = time + 1
    /\ market' = [close \in 0 .. time + 1 |-> IF close = time + 1 THEN range ELSE market[close]]
    /\ UNCHANGED <<side, cancelledAt, observation>>

\* There is at most one cancellation of a signal, and it is known at once.
Cancel ==
    /\ ~IsCancelled
    /\ cancelledAt' = time
    /\ UNCHANGED <<side, time, market, observation>>

\* An observation starts from the candles; the acknowledgment of an earlier one
\* is not carried over.
Observe(until) ==
    /\ observation' = [until |-> until, state |-> StateOf(until), acknowledged |-> FALSE]
    /\ UNCHANGED <<side, time, market, cancelledAt>>

\* apply_acknowledgment_to_observation; the first acknowledgment stays.
Acknowledge ==
    /\ observation # NoObservation
    /\ ~observation.acknowledged
    /\ observation' = [observation EXCEPT !.acknowledged = TRUE]
    /\ UNCHANGED <<side, time, market, cancelledAt>>

PaperNext ==
    \/ \E range \in Ranges : CloseCandle(range)
    \/ Cancel
    \/ \E until \in 0 .. time : Observe(until)
    \/ Acknowledge

PaperSpec == PaperInit /\ [][PaperNext]_paperVars

-----------------------------------------------------------------------------
(* What a step may never do. *)

\* The verdict is kept when the same signal is observed for as long or longer.
KeepsVerdict ==
    observation'.until >= observation.until => observation'.state = observation.state

\* A touch, an ambiguity and a cancellation are decided once: what closes, and
\* what is cancelled, after the window of an observation does not change what
\* it found (observe_paper_signal orders the events of a longer window the
\* same way).
DecidedOnce ==
    [][ observation.state \notin {"NONE", "OBSERVING", "EXPIRED_UNTOUCHED"} => KeepsVerdict ]_paperVars

\* The design document makes expiry terminal like them: once the validity is
\* over without an event, no later candle rewrites the observation.
ExpiryIsFinal ==
    [][ observation.state = "EXPIRED_UNTOUCHED" => KeepsVerdict ]_paperVars
=============================================================================
