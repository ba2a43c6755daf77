-------------------------- MODULE MCTradingControl --------------------------
(***************************************************************************)
(* Instance of TradingControl: the limits are one tick each, the clock     *)
(* runs beyond the grace period.                                           *)
(***************************************************************************)
EXTENDS TradingControl

=============================================================================
