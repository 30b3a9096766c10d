---------------------------- MODULE MCBoardTimer ----------------------------
(***************************************************************************)
(* An instance of BoardTimer for TLC: the LoRaWAN task (priority 10) and   *)
(* one application task (tx_thread, 100), a clock of 8 ticks that wraps.   *)
(***************************************************************************)
EXTENDS BoardTimer, TLC

CONSTANTS tx, o1

Tasks    == {Lw, tx}
Priority == (Lw :> 10 @@ tx :> 100)
Timers   == {o1}
=============================================================================
