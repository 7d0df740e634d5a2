--------------------------- MODULE ForwardOutcome ---------------------------
(***************************************************************************)
(* The forward test of one outcome entry artifact (run_forward_test_v4):   *)
(* resolve_entry_artifact adds to the resolution file the results of the   *)
(* horizons that have come due, and validate_resolved_artifact reports a   *)
(* verdict per symbol from the file.  The operator repeats it, and two     *)
(* executions may overlap: there is no lock, and both write under the same *)
(* temporary name.                                                         *)
(*                                                                         *)
(* Time counts candles of four hours from the close of the reference       *)
(* candle: candle i closes at i, and horizon i is due then.  A price is    *)
(* the side of the reference price it is on, as the trend of the symbol    *)
(* has it: the vote.                                                       *)
(***************************************************************************)
EXTENDS Naturals, Sequences, FiniteSets

CONSTANTS
    Runs,           \* executions of the program at a time
    Symbols,
    Votes,          \* of a closed candle, in {"SUPPORT", "OPPOSE", "FLAT"}
    Lookback,       \* candles the exchange answers with, the open one included
    MaxClock,       \* bound on the candles
    NoFile          \* nothing under a name, no file opened

VARIABLES
    clock,          \* the candles closed since the reference
    closes,         \* [symbol -> [candle -> vote]], of the closed candles
    file,           \* [name -> what the file of that name holds, or NoFile]
    proc,           \* [run -> its execution]
    verdicts        \* history: [symbol -> verdicts reported that are not PENDING]

outcomeVars == <<clock, closes, file, proc, verdicts>>

Horizons == 1 .. 3      \* h4, h8 and h12

\* resolved_horizons of each candidate.
NothingResolved == [s \in Symbols |-> <<>>]

Text(kind, resolved) == [kind |-> kind, resolved |-> resolved]

Blank == Text("empty", NothingResolved)
Torn == Text("torn", NothingResolved)

\* `resolved` is the state the execution works on, `pending` the symbols it
\* has yet to ask for, `open` the file it writes to.
Execution(at, now, resolved, pending, open) ==
    [at |-> at, now |-> now, resolved |-> resolved, pending |-> pending, open |-> open]

\* With nothing in memory.
At(step) == Execution(step, 0, NothingResolved, {}, NoFile)

Idle == At("idle")

OutcomeInit ==
    /\ clock = 0
    /\ closes = [s \in Symbols |-> <<>>]
    /\ file = [n \in {"resolution", "temporary"} |-> NoFile]
    /\ proc = [p \in Runs |-> Idle]
    /\ verdicts = [s \in Symbols |-> {}]

\* The candle of every symbol closes.
CandleCloses ==
    /\ clock < MaxClock
    /\ clock' = clock + 1
    /\ IF clock' \in Horizons
       THEN \E vote \in [Symbols -> Votes] :
                closes' = [s \in Symbols |-> Append(closes[s], vote[s])]
       ELSE UNCHANGED closes
    /\ UNCHANGED <<file, proc, verdicts>>

-----------------------------------------------------------------------------
(* resolve_entry_artifact. *)

\* `now` is taken once, before anything is read.
Start(p) ==
    /\ proc[p].at = "idle"
    /\ proc' = [proc EXCEPT ![p] = Execution("load", clock, NothingResolved, {}, NoFile)]
    /\ UNCHANGED <<clock, closes, file, verdicts>>

Ends(p) == proc' = [proc EXCEPT ![p] = Idle]

\* Fault: a horizon is due when its last candle opens.
EligibleAtOpening(resolved, now) ==
    {h \in Horizons : h \notin DOMAIN resolved /\ now + 1 >= h}

\* get_eligible_unresolved_horizons, of one candidate.
Eligible(resolved, now) == {h \in Horizons : h \notin DOMAIN resolved /\ now >= h}

Exists(n) == file[n] # NoFile

Unreadable == Exists("resolution") /\ file["resolution"].kind # "whole"

Loaded == IF Exists("resolution") THEN file["resolution"].resolved ELSE NothingResolved

\* Without anything due the file is written only when there is none.
LoadResolution(p) ==
    /\ proc[p].at = "load"
    /\ IF Unreadable THEN Ends(p)
       ELSE LET due == {s \in Symbols : Eligible(Loaded[s], proc[p].now) # {}}
                next == IF due # {} THEN "fetch"
                        ELSE IF Exists("resolution") THEN "report" ELSE "open"
            IN  proc' = [proc EXCEPT ![p] = Execution(next, proc[p].now, Loaded, due, NoFile)]
    /\ UNCHANGED <<clock, closes, file, verdicts>>

\* Every window starts at the first candle after the reference.
WindowIsComplete == clock < Lookback

\* The vote of a horizon: its last candle's, which has any price while open.
VotesAt(s, h) == IF h <= clock THEN {closes[s][h]} ELSE Votes

Merged(known, due, result) ==
    [h \in DOMAIN known \cup due |-> IF h \in due THEN result[h] ELSE known[h]]

Fetched(execution, s, results) ==
    Execution(IF execution.pending = {s} THEN "open" ELSE "fetch", execution.now,
              [execution.resolved EXCEPT ![s] = results], execution.pending \ {s}, NoFile)

\* The results of one symbol, all from one answer of the exchange.  The order
\* of the candidates plays no part.
Fetch(p, s) ==
    /\ proc[p].at = "fetch"
    /\ s \in proc[p].pending
    /\ WindowIsComplete
    /\ LET known == proc[p].resolved[s]
           due == Eligible(known, proc[p].now)
       IN  \E result \in [due -> Votes] :
              /\ \A h \in due : result[h] \in VotesAt(s, h)
              /\ proc' = [proc EXCEPT ![p] = Fetched(proc[p], s, Merged(known, due, result))]
    /\ UNCHANGED <<clock, closes, file, verdicts>>

\* The exchange does not answer, or no longer with the candles of a window:
\* nothing of this execution is saved.
FetchFails(p) ==
    /\ proc[p].at = "fetch"
    /\ Ends(p)
    /\ UNCHANGED <<clock, closes, file, verdicts>>

-----------------------------------------------------------------------------
(* write_resolution_state_atomic. *)

\* A file that is open is known by the name it has at the time: a replace and
\* a removal give it another, or none.  Writing to a file without a name has
\* no effect.
Reopened(execution, open) ==
    Execution(execution.at, execution.now, execution.resolved, execution.pending, open)

Renamed(execution) ==
    Reopened(execution, CASE execution.open = "temporary" -> "resolution"
                          [] execution.open = "resolution" -> "none"
                          [] OTHER -> execution.open)

Unlinked(execution) ==
    Reopened(execution, IF execution.open = "temporary" THEN "none" ELSE execution.open)

\* Creates the temporary file, or truncates the one that is there.
OpenTemporary(p) ==
    /\ proc[p].at = "open"
    /\ file' = [file EXCEPT !["temporary"] = Blank]
    /\ proc' = [proc EXCEPT ![p] =
                   Execution("write", proc[p].now, proc[p].resolved, {}, "temporary")]
    /\ UNCHANGED <<clock, closes, verdicts>>

\* The text goes over whatever another execution wrote; of a longer one the
\* rest stays.
Write(p) ==
    /\ proc[p].at = "write"
    /\ IF proc[p].open = "none" THEN UNCHANGED file
       ELSE LET before == file[proc[p].open]
                text == Text("whole", proc[p].resolved)
            IN  \E after \in {text} \cup (IF before \in {Blank, text} THEN {} ELSE {Torn}) :
                   file' = [file EXCEPT ![proc[p].open] = after]
    /\ proc' = [proc EXCEPT ![p] = At("replace")]
    /\ UNCHANGED <<clock, closes, verdicts>>

\* What has the temporary name by now becomes the resolution file.
ReplaceResolution(p) ==
    /\ proc[p].at = "replace"
    /\ Exists("temporary")
    /\ file' = [resolution |-> file["temporary"], temporary |-> NoFile]
    /\ proc' = [q \in Runs |-> IF q = p THEN At("report") ELSE Renamed(proc[q])]
    /\ UNCHANGED <<clock, closes, verdicts>>

\* The temporary file is gone, or a call fails: it is removed, whose ever it is.
SavingFails(p) ==
    /\ proc[p].at \in {"open", "write", "replace"}
    /\ file' = [file EXCEPT !["temporary"] = NoFile]
    /\ proc' = [q \in Runs |-> IF q = p THEN Idle ELSE Unlinked(proc[q])]
    /\ UNCHANGED <<clock, closes, verdicts>>

-----------------------------------------------------------------------------
(* validate_resolved_artifact. *)

VotesFor(results, vote) == Cardinality({h \in DOMAIN results : results[h] = vote})

Verdict(results) ==
    LET support == VotesFor(results, "SUPPORT")
        oppose == VotesFor(results, "OPPOSE")
    IN  CASE 3 \notin DOMAIN results -> "PENDING"
          [] 3 \in DOMAIN results /\ support > oppose -> "VALID"
          [] 3 \in DOMAIN results /\ oppose > support -> "INVALID"
          [] OTHER -> "INCONCLUSIVE"

\* From the file as it is by now.
Validate(p) ==
    /\ proc[p].at = "report"
    /\ Ends(p)
    /\ IF Unreadable THEN UNCHANGED verdicts
       ELSE verdicts' = [s \in Symbols |->
                verdicts[s] \cup ({Verdict(Loaded[s])} \ {"PENDING"})]
    /\ UNCHANGED <<clock, closes, file>>

\* The process is killed; what it wrote stays.
Dies(p) ==
    /\ proc[p].at # "idle"
    /\ Ends(p)
    /\ UNCHANGED <<clock, closes, file, verdicts>>

-----------------------------------------------------------------------------

OutcomeNext ==
    \/ CandleCloses
    \/ \E p \in Runs :
          \/ Start(p) \/ LoadResolution(p) \/ FetchFails(p) \/ OpenTemporary(p) \/ Write(p)
          \/ ReplaceResolution(p) \/ SavingFails(p) \/ Validate(p) \/ Dies(p)
          \/ \E s \in Symbols : Fetch(p, s)

OutcomeSpec == OutcomeInit /\ [][OutcomeNext]_outcomeVars

-----------------------------------------------------------------------------
(* Safety. *)

\* "Safe to execute repeatedly": the verdict on a symbol, once it is not
\* pending, is the same in every report, whatever the horizons at which the
\* program was run, the executions that failed, and those that overlapped and
\* overwrote each other's results.
VerdictsAgree == \A s \in Symbols : Cardinality(verdicts[s]) <= 1
=============================================================================
