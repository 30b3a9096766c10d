------------------------------ MODULE SocketSet ------------------------------
(***************************************************************************)
(* What the list of sockets promises the functions that use it: a set of   *)
(* open sockets, to which a step adds one or from which it takes one.      *)
(* LorawanSocket is written on it.                                         *)
(***************************************************************************)
CONSTANT SockId

VARIABLE open

Init == open = {}

Add  == \E s \in SockId \ open : open' = open \cup {s}
Drop == \E s \in open : open' = open \ {s}

Spec == Init /\ [][Add \/ Drop]_open
=============================================================================
