------------------------------ MODULE SocketList ------------------------------
(***************************************************************************)
(* The list of sockets, pointer by pointer: l_sock_list, walked by         *)
(* _lorawan_find_el and lorawan_find_sock_by_params, linked by             *)
(* lorawan_socket and unlinked by lorawan_close, with no lock, by          *)
(* application tasks that preempt each other and by the LoRaWAN task.      *)
(*                                                                         *)
(* A step reads or writes one pointer of the list.  The id stands for      *)
(* whatever a walk compares; a cell that was freed keeps its contents      *)
(* until malloc gives it again.                                            *)
(***************************************************************************)
EXTENDS Integers

CONSTANTS
    Task,    \* the application tasks and the LoRaWAN task
    Prio,    \* [Task -> Nat], smaller runs first, no two alike
    Lw,      \* the LoRaWAN task, of highest priority, which only walks
    Cell,    \* memory for struct sock_el
    NULL,
    MaxCpt,  \* bound: sockets ever created
    Careful  \* callers' discipline: see Allowed

ASSUME ListAssumption ==
    /\ Lw \in Task /\ Prio \in [Task -> Nat]
    /\ \A t \in Task \ {Lw} : Prio[Lw] < Prio[t]
    /\ \A t, u \in Task : Prio[t] = Prio[u] => t = u
    /\ NULL \notin Cell /\ MaxCpt \in Nat /\ Careful \in BOOLEAN

SockId == 1 .. MaxCpt

VARIABLES
    first,    \* slh_first
    sc_next,  \* [Cell -> Cell \cup {NULL}]
    sock,     \* [Cell -> SockId \cup {0}]
    alloc,    \* cells malloc has given and free has not taken back
    sock_cpt, \* the last id given
    call      \* the call each task is in

vars == <<first, sc_next, sock, alloc, sock_cpt, call>>

\* cur walks; el is what the call links or unlinks; due (history): the
\* socket wanted was open when the walk began.
Call == [pc : {"idle", "walk", "link", "head", "remove", "unhead", "seek", "cut", "free"},
         op : {"socket", "close", "find"}, want : SockId \cup {0},
         cur : Cell \cup {NULL}, el : Cell \cup {NULL}, due : BOOLEAN]

Idle == [pc |-> "idle", op |-> "find", want |-> 0, cur |-> NULL, el |-> NULL, due |-> FALSE]

Init ==
    /\ first = NULL
    /\ sc_next = [c \in Cell |-> NULL]
    /\ sock = [c \in Cell |-> 0]
    /\ alloc = {}
    /\ sock_cpt = 0
    /\ call = [t \in Task |-> Idle]

\* The pointers lead from S to nothing outside it.
Closed(S) == \A c \in S : sc_next[c] \in S \cup {NULL}

\* The cells met from first on: the least closed set that first is in.
Linked == {c \in Cell : \A S \in SUBSET Cell : first \in S \cup {NULL} /\ Closed(S) => c \in S}
Listed == {sock[c] : c \in Linked}

\* Sockets a task has been given and none is closing, in the list or not.
Open == {sock[c] : c \in {d \in alloc : \A t \in Task : call[t].el # d}}

\* Mynewt runs t only when no task of higher priority is ready.
Runs(t) == \A u \in Task : Prio[u] < Prio[t] => call[u].pc = "idle"

At(t, pc) == call[t].pc = pc /\ Runs(t)

Busy(t) == {u \in Task \ {t} : call[u].pc # "idle"}

\* The warning at lorawan_close: no action in progress on that socket.
\* Careful callers change the list one at a time, and close no socket while
\* a task is in a call on any.
Allowed(t, op, id) ==
    /\ op = "close" => \A u \in Busy(t) : call[u].want # id
    /\ Careful /\ op # "find" => \A u \in Busy(t) : call[u].op = "find" /\ op # "close"

-----------------------------------------------------------------------------
(* lorawan_socket.  SLIST_INSERT_HEAD writes two pointers.                 *)

Socket(t) ==
    /\ t # Lw
    /\ At(t, "idle")
    /\ Allowed(t, "socket", 0)
    /\ sock_cpt < MaxCpt
    /\ \E el \in Cell \ alloc :
        /\ alloc' = alloc \cup {el}
        /\ sc_next' = [sc_next EXCEPT ![el] = NULL]
        /\ sock' = [sock EXCEPT ![el] = sock_cpt + 1]
        /\ call' = [call EXCEPT ![t] = [Idle EXCEPT !.pc = "link", !.op = "socket", !.el = el]]
    /\ sock_cpt' = sock_cpt + 1
    /\ UNCHANGED first

\* Mutant: the rest of the list not linked behind the element.
LinkDropsRest(t) ==
    LET el == call[t].el IN
    /\ \/ At(t, "link") /\ UNCHANGED <<first, sc_next>>
          /\ call' = [call EXCEPT ![t].pc = "head"]
       \/ At(t, "head") /\ first' = el /\ UNCHANGED sc_next
          /\ call' = [call EXCEPT ![t] = Idle]
    /\ UNCHANGED <<sock, alloc, sock_cpt>>

\* Mutant: the two writes in the other order.
LinkHeadFirst(t) ==
    LET el == call[t].el IN
    /\ \/ At(t, "link") /\ first' = el /\ UNCHANGED sc_next
          /\ call' = [call EXCEPT ![t].pc = "head"]
       \/ At(t, "head") /\ sc_next' = [sc_next EXCEPT ![el] = first] /\ UNCHANGED first
          /\ call' = [call EXCEPT ![t] = Idle]
    /\ UNCHANGED <<sock, alloc, sock_cpt>>

Link(t) ==
    LET el == call[t].el IN
    /\ \/ At(t, "link") /\ sc_next' = [sc_next EXCEPT ![el] = first] /\ UNCHANGED first
          /\ call' = [call EXCEPT ![t].pc = "head"]
       \/ At(t, "head") /\ first' = el /\ UNCHANGED sc_next
          /\ call' = [call EXCEPT ![t] = Idle]
    /\ UNCHANGED <<sock, alloc, sock_cpt>>

-----------------------------------------------------------------------------
(* The walks.                                                              *)

\* A call that begins with a walk: lorawan_close, and every other one.
Enter(t) ==
    \E op \in {"find", "close"}, id \in 1 .. sock_cpt :
        /\ op = "close" => t # Lw
        /\ At(t, "idle")
        /\ Allowed(t, op, id)
        /\ call' = [call EXCEPT ![t] = [Idle EXCEPT !.pc = "walk", !.op = op, !.want = id,
                                                    !.cur = first, !.due = id \in Open]]
        /\ UNCHANGED <<first, sc_next, sock, alloc, sock_cpt>>

\* Mutant: lorawan_close goes on when the walk has found nothing.
FoundUnchecked(t) ==
    \/ call[t].op = "close" /\ call' = [call EXCEPT ![t].pc = "remove", ![t].el = call[t].cur]
    \/ call' = [call EXCEPT ![t] = Idle]

\* lorawan_close returns when nothing is found, and when the socket has
\* events still to be read.
Found(t) ==
    \/ /\ call[t].op = "close" /\ call[t].cur # NULL
       /\ call' = [call EXCEPT ![t].pc = "remove", ![t].el = call[t].cur]
    \/ call' = [call EXCEPT ![t] = Idle]

_lorawan_find_el(t) ==
    LET cur == call[t].cur IN
    /\ At(t, "walk")
    /\ \/ cur = NULL /\ Found(t)
       \/ cur # NULL /\ sock[cur] = call[t].want /\ Found(t)
       \/ /\ cur # NULL /\ sock[cur] # call[t].want
          /\ call' = [call EXCEPT ![t].cur = sc_next[cur]]
    /\ UNCHANGED <<first, sc_next, sock, alloc, sock_cpt>>

-----------------------------------------------------------------------------
(* lorawan_close.  SLIST_REMOVE walks once more, to the element before.    *)

Remove(t) ==
    /\ At(t, "remove")
    /\ call' = [call EXCEPT ![t].pc = IF first = call[t].el THEN "unhead" ELSE "seek", ![t].cur = first]
    /\ UNCHANGED <<first, sc_next, sock, alloc, sock_cpt>>

Unhead(t) ==
    /\ At(t, "unhead")
    /\ first' = sc_next[first]
    /\ call' = [call EXCEPT ![t].pc = "free"]
    /\ UNCHANGED <<sc_next, sock, alloc, sock_cpt>>

\* Past the end of the list there is nothing to follow.
Seek(t) ==
    LET cur == call[t].cur IN
    /\ At(t, "seek")
    /\ cur # NULL
    /\ call' = [call EXCEPT ![t] = IF sc_next[cur] = @.el THEN [@ EXCEPT !.pc = "cut"]
                                   ELSE [@ EXCEPT !.cur = sc_next[cur]]]
    /\ UNCHANGED <<first, sc_next, sock, alloc, sock_cpt>>

\* Mutant: the element stays linked.
CutForgotten(t) ==
    /\ At(t, "cut")
    /\ call' = [call EXCEPT ![t].pc = "free"]
    /\ UNCHANGED <<first, sc_next, sock, alloc, sock_cpt>>

Cut(t) ==
    /\ At(t, "cut")
    /\ sc_next' = [sc_next EXCEPT ![call[t].cur] = sc_next[call[t].el]]
    /\ call' = [call EXCEPT ![t].pc = "free"]
    /\ UNCHANGED <<first, sock, alloc, sock_cpt>>

Free(t) ==
    /\ At(t, "free")
    /\ alloc' = alloc \ {call[t].el}
    /\ call' = [call EXCEPT ![t] = Idle]
    /\ UNCHANGED <<first, sc_next, sock, sock_cpt>>

-----------------------------------------------------------------------------
Step(t) == Link(t) \/ _lorawan_find_el(t) \/ Remove(t) \/ Unhead(t) \/ Seek(t) \/ Cut(t) \/ Free(t)

Next == \E t \in Task : Socket(t) \/ Enter(t) \/ Step(t)

Spec == Init /\ [][Next]_vars

\* Nothing preempts the LoRaWAN task.
FairSpec == Spec /\ WF_vars(Step(Lw))

-----------------------------------------------------------------------------
(* The variables have their types, and a call that unlinks has an element. *)
TypeOK ==
    /\ first \in Cell \cup {NULL}
    /\ sc_next \in [Cell -> Cell \cup {NULL}]
    /\ sock \in [Cell -> SockId \cup {0}]
    /\ alloc \subseteq Cell
    /\ sock_cpt \in 0 .. MaxCpt
    /\ call \in [Task -> Call]
    /\ \A t \in Task : call[t].pc \notin {"idle", "walk"} => call[t].el \in Cell

(* At every step of every insertion and removal the list ends (no cells of *)
(* it lead only to each other), all its cells are allocated and no two     *)
(* sockets in it have one id.                                              *)
ListWellFormed ==
    /\ \A S \in SUBSET Linked : S # {} => \E c \in S : sc_next[c] \notin S
    /\ Linked \subseteq alloc
    /\ \A c, d \in Linked : sock[c] = sock[d] => c = d

(* A walk only stands on allocated cells: the pointer it kept while other  *)
(* tasks ran is still good.                                                *)
WalksAllocated ==
    \A t \in Task : call[t].pc \in {"walk", "seek", "cut"} /\ call[t].cur # NULL => call[t].cur \in alloc

(* A walk finds a socket that was open when it began, whatever half done   *)
(* insertion or removal it meets or is interrupted by.                     *)
OpenSocketFound ==
    \A t \in Task : call[t].pc = "walk" /\ call[t].due => call[t].cur # NULL

Set == INSTANCE SocketSet WITH open <- Listed

(* Each step leaves the set of sockets alone, adds one or takes one away:  *)
(* what LorawanSocket, which has a set for the list, takes for granted.    *)
ImplementsSet == Set!Spec

(* The LoRaWAN task's walk ends, whatever change it interrupts.            *)
WalkEnds == call[Lw].pc = "walk" ~> call[Lw].pc = "idle"
=============================================================================
