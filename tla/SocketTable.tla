---------------------------- MODULE SocketTable ----------------------------
(***************************************************************************)
(* What lorawan_api.h promises the caller of a socket: ids are unique, a   *)
(* couple devAddr/port is bound to at most one socket and a socket to one  *)
(* address, a downlink goes to the socket bound to its address and port,   *)
(* and each socket's downlinks are received once, in order.                *)
(***************************************************************************)
EXTENDS Integers, Sequences

CONSTANTS SockId, Addr, Port, Packet

VARIABLES
    used,   \* ids given so far
    open,   \* ids of the sockets created and not closed
    bound,  \* <<id, devAddr, port>> of the binds in force
    inbox   \* downlinks waiting on each socket

tableVars == <<used, open, bound, inbox>>

Init ==
    /\ used = {}
    /\ open = {}
    /\ bound = {}
    /\ inbox = [i \in SockId |-> <<>>]

Create ==
    \E i \in SockId \ (used \cup {0}) :
        /\ used' = used \cup {i}
        /\ open' = open \cup {i}
        /\ UNCHANGED <<bound, inbox>>

Bind ==
    \E i \in open, a \in Addr, p \in Port \ {0} :
        /\ \A b \in bound : (b[1] = i => b[2] = a) /\ (b[2] = a => b[3] # p)
        /\ bound' = bound \cup {<<i, a, p>>}
        /\ UNCHANGED <<used, open, inbox>>

Deliver ==
    \E pkt \in Packet, b \in bound :
        /\ b[2] = pkt.devAddr /\ b[3] = pkt.port
        /\ inbox' = [inbox EXCEPT ![b[1]] = Append(@, pkt)]
        /\ UNCHANGED <<used, open, bound>>

Receive ==
    \E i \in open :
        /\ inbox[i] # <<>>
        /\ inbox' = [inbox EXCEPT ![i] = Tail(@)]
        /\ UNCHANGED <<used, open, bound>>

Close ==
    \E i \in open :
        /\ open' = open \ {i}
        /\ bound' = {b \in bound : b[1] # i}
        /\ inbox' = [inbox EXCEPT ![i] = <<>>]
        /\ UNCHANGED used

Next == Create \/ Bind \/ Deliver \/ Receive \/ Close

Spec == Init /\ [][Next]_tableVars
=============================================================================
