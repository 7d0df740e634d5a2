---------------------------- MODULE MCOwnerControl ----------------------------
(***************************************************************************)
(* A small instance of OwnerControl: two publications of one pair, so that *)
(* a command naming the pair may mean either, and an ending by others.     *)
(***************************************************************************)
EXTENDS OwnerControl

Request(n, mode) ==
    [ transaction_id |-> n, transition_id |-> <<"reserve", n>>, signal_id |-> n,
      delivery_id |-> n, mode |-> mode, symbol |-> "SOLUSDT", payload |-> "h" ]

MCModes         == {"SWING", "SCALP"}
MCModeCapacity  == [m \in MCModes |-> 1]
MCSymbols       == {"SOLUSDT", "SOL/USDT"}
MCCanonicalPair == [y \in MCSymbols |-> "SOL/USDT"]

Text(kind, reply) == [kind |-> kind, symbol |-> "SOL/USDT", reply |-> reply]

MCTexts ==
    { Text("ENTRY", "m1"), Text("CLOSE", None), Text("REJECT", None) }

MCPublications ==
    { [request |-> Request(1, "SWING"), message |-> "m1"],
      [request |-> Request(2, "SCALP"), message |-> "m2"] }

MCEndings == { [id |-> <<"other", 1>>, signal |-> 1, state |-> "CLOSED_PROFIT"] }
=============================================================================
