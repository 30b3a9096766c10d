-------------------------- MODULE MCLorawanRequests --------------------------
(***************************************************************************)
(* Instances of LorawanRequests for TLC: the sending and the receiving     *)
(* thread of the test application, of which the first has priority, and    *)
(* interchangeable heap cells, addresses and arguments.                    *)
(***************************************************************************)
EXTENDS LorawanRequests, TLC

CONSTANTS tx, rx, m1, m2, g1, g2, p1, p2

TwoTasks   == {tx, rx}
OneTask    == {rx}
Priority   == (tx :> 100 @@ rx :> 101)
RxPriority == (rx :> 101)

Cells  == {m1, m2}
Groups == {g1, g2}
Args   == {p1, p2}
DataSymmetry == Permutations(Cells) \cup Permutations(Groups) \cup Permutations(Args)
=============================================================================
