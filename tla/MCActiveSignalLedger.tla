------------------------ MODULE MCActiveSignalLedger ------------------------
(***************************************************************************)
(* A small instance of ActiveSignalLedger: two styles with one slot each,  *)
(* two spellings of one pair, and requests that collide on a transaction,  *)
(* a signal or a delivery id.                                              *)
(***************************************************************************)
EXTENDS ActiveSignalLedger, TLC

Request(x, r, s, d, m, y) ==
    [ transaction_id |-> x, transition_id |-> r, signal_id |-> s,
      delivery_id |-> d, mode |-> m, symbol |-> y, payload |-> "h" ]

MCModes         == {"SWING", "SCALP"}
MCModeCapacity  == [m \in MCModes |-> 1]
MCSymbols       == {"BTC/USDT", "BTCUSDT", "ETHUSDT"}
MCCanonicalPair == [y \in MCSymbols |-> IF y = "ETHUSDT" THEN "ETH" ELSE "BTC"]

Swing  == Request("x1", "r1", "s1", "d1", "SWING", "BTC/USDT")
Scalp  == Request("x2", "r2", "s2", "d2", "SCALP", "BTCUSDT")
Second == Request("x3", "r3", "s3", "d3", "SWING", "ETHUSDT")
Forged == Request("x1", "r1", "s2", "d1", "SWING", "BTC/USDT")
Clash  == Request("x4", "r4", "s2", "d3", "SCALP", "ETHUSDT")

MCRequests == {Swing, Scalp, Second, Forged, Clash}

\* A reservation whose transition id an entry or terminal may already bear.
Reused == Request("x3", "t1", "s3", "d3", "SWING", "ETHUSDT")

MCReusingRequests == {Swing, Reused}

\* The callers, and the ids they make up, are interchangeable.
Interchangeable == Permutations(Callers) \cup Permutations(LifecycleIds)
=============================================================================
