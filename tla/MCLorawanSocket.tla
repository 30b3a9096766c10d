-------------------------- MODULE MCLorawanSocket --------------------------
(***************************************************************************)
(* Instances of LorawanSocket for TLC: one or two application tasks, the   *)
(* first of higher priority (tx_thread.c:53 runs at 100, rx_thread.c:63 at *)
(* 101), and heap cells that are interchangeable.                          *)
(***************************************************************************)
EXTENDS LorawanSocket, TLC

CONSTANTS tx, rx, s1, s2

TwoTasks == {tx, rx}
OneTask  == {rx}
Priority == (tx :> 100 @@ rx :> 101)
RxPriority == (rx :> 101)

Cells == {s1, s2}
CellSymmetry == Permutations(Cells)
=============================================================================
