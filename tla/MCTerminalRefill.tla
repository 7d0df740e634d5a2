-------------------------- MODULE MCTerminalRefill --------------------------
(***************************************************************************)
(* A small instance of TerminalRefill: of two published signals one has    *)
(* been entered; each is ended under ids that collide with the other's.    *)
(***************************************************************************)
EXTENDS TerminalRefill

Request(x, r, s, d, m, y) ==
    [ transaction_id |-> x, transition_id |-> r, signal_id |-> s,
      delivery_id |-> d, mode |-> m, symbol |-> y, payload |-> "h" ]

MCModes         == {"SWING", "SCALP"}
MCModeCapacity  == [m \in MCModes |-> 1]
MCSymbols       == {"BTCUSDT", "ETHUSDT"}
MCCanonicalPair == [y \in MCSymbols |-> y]

\* The ledger after two registrations and one entry.
MCPublished ==
    Entered(PrepareAndCommit(
                PrepareAndCommit(EmptyLedger,
                    Request("x1", "r1", "s1", "d1", "SWING", "BTCUSDT")),
                Request("x2", "r2", "s2", "d2", "SCALP", "ETHUSDT")),
            "n1", "s1", "e0")

Ending(id, signal, state) ==
    [id |-> id, signal |-> signal, state |-> state, evidence |-> "e1"]

MCEndings ==
    { Ending("t1", "s1", "CLOSED_PROFIT"), Ending("t2", "s1", "CLOSED_PROFIT"),
      Ending("t2", "s2", "CLOSED_MANUAL"), Ending("t1", "s2", "EXPIRED") }

MCEntry == [id |-> "n2", signal |-> "s2", evidence |-> "e0"]

MCStamp == [second |-> 0, fraction |-> 0]
=============================================================================
