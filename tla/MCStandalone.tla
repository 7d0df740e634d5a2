---------------------------- MODULE MCStandalone ----------------------------
(***************************************************************************)
(* Components that share nothing with another: the protocol of the ledger  *)
(* file, the provider budget, the paper observation, the forward test and  *)
(* the refill request ledger.  A behaviour is one of any of them.  Only    *)
(* the protocol has fairness; it asks for nothing while no call is open.   *)
(*                                                                         *)
(* Of the refill ledger: two signals end, one of the two is also reported  *)
(* with another revision of its source, and one slot is released by hand,  *)
(* which refill refuses.                                                   *)
(***************************************************************************)
EXTENDS LedgerFile, MCShadowRun, MCPaperSignal, ForwardOutcome, StyleRefillLedger

VARIABLE component      \* the one at work

MCReleases ==
    { Release("t1", "s1", "SWING", "CLOSED_PROFIT", 3),
      Release("t1", "s1", "SWING", "CLOSED_PROFIT", 4),
      Release("t2", "s2", "SCALP", "EXPIRED", 4),
      Release("t3", "s3", "SWING", "CLOSED_MANUAL", 5) }

StandaloneInit ==
    /\ component \in {"file", "budget", "paper", "outcome", "refill"}
    /\ FileInit
    /\ ShadowInit
    /\ PaperInit
    /\ OutcomeInit
    /\ Init
    \* one initial state of a component that is not at work
    /\ component # "paper" => <<side, market[0]>> = CHOOSE s \in Sides \X Ranges : TRUE
    /\ component # "refill" => now = CHOOSE x \in Stamps : TRUE

StandaloneNext ==
    \/ component = "file" /\ FileNext
       /\ UNCHANGED <<component, shadowVars, paperVars, outcomeVars, vars>>
    \/ component = "budget" /\ ShadowNext
       /\ UNCHANGED <<component, fileVars, paperVars, outcomeVars, vars>>
    \/ component = "paper" /\ PaperNext
       /\ UNCHANGED <<component, fileVars, shadowVars, outcomeVars, vars>>
    \/ component = "outcome" /\ OutcomeNext
       /\ UNCHANGED <<component, fileVars, shadowVars, paperVars, vars>>
    \/ component = "refill" /\ Next
       /\ UNCHANGED <<component, fileVars, shadowVars, paperVars, outcomeVars>>

StandaloneSpec ==
    /\ StandaloneInit
    /\ [][StandaloneNext]_<<component, fileVars, shadowVars, paperVars, outcomeVars, vars>>
    /\ Fairness
=============================================================================
