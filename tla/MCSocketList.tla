---------------------------- MODULE MCSocketList ----------------------------
(***************************************************************************)
(* An instance of SocketList for TLC: the LoRaWAN task (priority 10), two  *)
(* application tasks (100 and 101), and interchangeable cells.             *)
(***************************************************************************)
EXTENDS SocketList, TLC

CONSTANTS tx, rx, c1, c2, c3

Tasks    == {Lw, tx, rx}
Priority == (Lw :> 10 @@ tx :> 100 @@ rx :> 101)
Cells    == {c1, c2, c3}
=============================================================================
