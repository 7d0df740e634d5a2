--------------------------- MODULE MCRegistration ---------------------------
(***************************************************************************)
(* The two ways a publication gets into the active ledger: through the     *)
(* cycle, the program and their repair (ControlledCycle), or through a     *)
(* reconciliation of a filled position (FilledPosition).  A behaviour is   *)
(* one of either, on the one variable `ledger`.                            *)
(*                                                                         *)
(* The cycle publishes in a style with one slot, for a pair that another   *)
(* signal spells differently.                                              *)
(***************************************************************************)
EXTENDS ControlledCycle, FilledPosition, TLC

VARIABLE way

Signals == {"earlier", "kmno", "pharos"}

Swing(signal) ==
    [ transaction_id |-> <<signal, 0>>, transition_id |-> <<"reserve", signal>>,
      signal_id |-> signal, delivery_id |-> signal, mode |-> "SWING",
      symbol |-> signal, payload |-> 0 ]

MCOthers ==
    { [ transaction_id |-> <<"other", 0>>, transition_id |-> <<"derived", "other">>,
        signal_id |-> "other", delivery_id |-> "dx", mode |-> "SCALP",
        symbol |-> "BTCUSDT", payload |-> 0 ] }

MCSymbols == Signals \cup {"BTC/USDT", "BTCUSDT"}

MCCanonicalPair == [s \in MCSymbols |-> IF s = "BTCUSDT" THEN "BTC/USDT" ELSE s]

MCModeCapacity == [m \in Modes |-> IF m = "SCALP" THEN 1 ELSE 3]

MCTools == <<"kmno", "pharos">>

MCEarlier == Swing("earlier")

MCPublications == [t \in {"kmno", "pharos"} |-> Swing(t)]

filledOnly == <<sealed, result, work, exit>>
cycleOnly  == <<publicationVars, call, reported, bound>>

RegistrationInit ==
    \/ /\ way = "cycle"
       /\ CycleInit
       /\ sealed = TRUE
       /\ result = [t \in ToolNames |-> None]
       /\ work = [r \in Runners |-> None]
       /\ exit = [r \in Runners |-> None]
    \/ /\ way = "filled"
       /\ FilledInit
       /\ Publication!Init
       /\ call = [r \in Runners |-> None]
       /\ reported = [r \in Runners |-> None]
       /\ bound = FALSE

RegistrationNext ==
    \/ way = "cycle" /\ CycleNext /\ UNCHANGED <<way, filledOnly>>
    \/ way = "filled" /\ FilledNext /\ UNCHANGED <<way, cycleOnly>>

RegistrationSpec == RegistrationInit /\ [][RegistrationNext]_<<cycleVars, way, filledOnly>>

Interchangeable == Permutations(Runners)
=============================================================================
