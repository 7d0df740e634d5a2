------------------------------ MODULE MCStores ------------------------------
(***************************************************************************)
(* Stores that share nothing with another: the two SQLite stores of phase  *)
(* 12, the quota file of the Telegram application, and the active ledger   *)
(* with the refill ledger that follows it.  A behaviour is one of any of   *)
(* them.                                                                   *)
(***************************************************************************)
EXTENDS MCReservationStore, ReplayGuard, QuotaSlots, MCTerminalRefill

VARIABLE store      \* the store at work

StoresInit ==
    /\ store \in {"reservations", "approvals", "slots", "endings"}
    /\ ReservationInit
    /\ GuardInit
    /\ QuotaInit
    /\ TerminalInit
    \* one initial state of a store that is not at work
    /\ store # "slots" => <<window, subject>> = CHOOSE x \in Windows \X Subjects : TRUE

StoresNext ==
    \/ store = "reservations" /\ ReservationNext
       /\ UNCHANGED <<store, guardVars, quotaVars, terminalVars>>
    \/ store = "approvals" /\ GuardNext
       /\ UNCHANGED <<store, reservationVars, quotaVars, terminalVars>>
    \/ store = "slots" /\ QuotaNext
       /\ UNCHANGED <<store, reservationVars, guardVars, terminalVars>>
    \/ store = "endings" /\ TerminalNext
       /\ UNCHANGED <<store, reservationVars, guardVars, quotaVars>>

StoresSpec ==
    StoresInit /\ [][StoresNext]_<<store, reservationVars, guardVars, quotaVars, terminalVars>>
=============================================================================
