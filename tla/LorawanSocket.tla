---------------------------- MODULE LorawanSocket ----------------------------
(***************************************************************************)
(* The sockets of lorawan_api.c / lorawan_api_private.c: creation, bind,   *)
(* blocking reception and close, called by application tasks, and the      *)
(* dispatch of downlinks (_mcps_indication) by the LoRaWAN task.           *)
(*                                                                         *)
(* Scheduling is Mynewt's: fixed priorities, preemptive, no lock in the    *)
(* API.  A call is a sequence of steps cut where it reads or writes shared *)
(* state; an application task takes a step only while every task of higher *)
(* priority is idle or asleep.  The LoRaWAN task (LORAWAN_TASK_PRIO 10)    *)
(* has the highest priority, so one of its handlers is a single step that  *)
(* may come between any two steps of a call.                               *)
(*                                                                         *)
(* A call that returns an error without changing anything is a stuttering  *)
(* step and has no action.  The list is a set: a lookup returns any        *)
(* matching element, and at most one matches wherever UniqueSockId and     *)
(* BindExclusive hold.                                                     *)
(***************************************************************************)
EXTENDS Integers, Sequences

CONSTANTS
    Task,        \* application tasks that call the API
    Prio,        \* [Task -> Nat], smaller runs first, no two alike
    SockEl,      \* heap cells that malloc can return for a struct sock_el
    Addr,        \* device addresses that binds and downlinks carry
    Port,        \* ports that binds and downlinks carry
    SockMod,     \* 2^32, the range of lorawan_sock_t
    MaxCpt,      \* bound: lorawan_socket is called while sock_cpt < MaxCpt
    MaxRx,       \* bound: number of downlinks the MAC indicates
    Serialised,  \* callers' discipline: no call starts inside another one
    OneReceiver, \* callers' discipline: one lorawan_recv at a time per socket
    None

ASSUME TaskAssumption ==
    /\ Prio \in [Task -> Nat]
    /\ \A t, u \in Task : Prio[t] = Prio[u] => t = u
    /\ None \notin SockEl \cup Task

ASSUME RangeAssumption ==
    /\ Addr \subseteq Nat
    /\ Port \subseteq 0 .. 255
    /\ SockMod \in Nat /\ SockMod > 1
    /\ MaxCpt \in 1 .. SockMod
    /\ MaxRx \in Nat

ASSUME DisciplineAssumption == {Serialised, OneReceiver} \subseteq BOOLEAN

VARIABLES
    sock_cpt,    \* static counter of lorawan_socket
    l_sock_list, \* elements linked in the socket list
    allocated,   \* cells malloc'ed and not freed
    sock_el,     \* contents of the cells
    McpsInd,     \* the MAC's one indication structure, which events point to
    rxCount,     \* downlinks indicated so far
    call,        \* the call each task is in, with its arguments and locals
    granted      \* history: <<el, devAddr, port>> of the binds that returned OK

heapVars == <<sock_cpt, l_sock_list, allocated>>
macVars  == <<McpsInd, rxCount>>
vars     == <<heapVars, sock_el, macVars, call, granted>>

-----------------------------------------------------------------------------
SockId == 0 .. SockMod - 1
Header == [devAddr : Addr, port : Port]
Packet == [devAddr : Addr, port : Port, seq : 1 .. MaxRx]

\* How long lorawan_recv waits: not at all (timeout_ms rounds to no tick),
\* some ticks, or OS_WAIT_FOREVER.
Timo == {"zero", "ticks", "forever"}

\* struct sock_el: an event of sock_eventq is written as the packet it was
\* posted for; evq_task is the task os_eventq_put will wake.
Element == [sock : SockId, devAddr : Addr \cup {0}, ports : SUBSET Port,
            evq : Seq(Packet), evq_task : Task \cup {None}]

Zeroed == [sock |-> 0, devAddr |-> 0, ports |-> {}, evq |-> <<>>, evq_task |-> None]

RecvPc == {"poll", "blocked", "awake", "header", "payload"}
CallPc == {"count", "bind_addr", "bind_check", "bind_port", "close"}

Call == [pc : {"idle"} \cup CallPc \cup RecvPc, id : SockId, el : SockEl \cup {None},
         addr : Addr \cup {0}, port : Port \cup {0}, word : SUBSET Port,
         timo : Timo, ev : Packet \cup {None}, hdr : Header \cup {None}]

Idle == [pc |-> "idle", id |-> 0, el |-> None, addr |-> 0, port |-> 0,
         word |-> {}, timo |-> "zero", ev |-> None, hdr |-> None]

Init ==
    /\ sock_cpt = 1
    /\ l_sock_list = {}
    /\ allocated = {}
    /\ sock_el = [s \in SockEl |-> Zeroed]
    /\ McpsInd = None
    /\ rxCount = 0
    /\ call = [t \in Task |-> Idle]
    /\ granted = {}

-----------------------------------------------------------------------------
(* Scheduling and the callers' disciplines.                                *)

\* Mynewt runs t only when no task of higher priority is ready.
Runs(t) == \A u \in Task : Prio[u] < Prio[t] => call[u].pc \in {"idle", "blocked"}

At(t, pc) == call[t].pc = pc /\ Runs(t)

\* t may enter the API with socket id i: nobody is closing that socket (the
\* warning of lorawan_close) and, in serialised use, nobody is inside a call
\* other than lorawan_recv, which no caller can hold a lock around.
MayCall(t, i) ==
    /\ At(t, "idle")
    /\ \A u \in Task \ {t} : ~(call[u].pc = "close" /\ call[u].id = i)
    /\ Serialised => \A u \in Task \ {t} : call[u].pc \notin CallPc

\* The warning of lorawan_close: no action is in progress on the socket.
Quiet(t, i) == \A u \in Task \ {t} : call[u].pc # "idle" => call[u].id # i

Goto(t, pc) == call' = [call EXCEPT ![t].pc = pc]
Return(t)   == call' = [call EXCEPT ![t] = Idle]

-----------------------------------------------------------------------------
(* Lookups.                                                                *)

lorawan_find_el(i) == {s \in l_sock_list : sock_el[s].sock = i}

Matching(a, p) == {s \in l_sock_list : sock_el[s].devAddr = a /\ p \in sock_el[s].ports}

\* The ids lorawan_find_sock_by_params may return; 0 says that none matches.
lorawan_find_sock_by_params(a, p) ==
    IF Matching(a, p) = {} THEN {0} ELSE {sock_el[s].sock : s \in Matching(a, p)}

-----------------------------------------------------------------------------
(* lorawan_socket: malloc and memset, the read of sock_cpt, its increment, *)
(* the initialisation of the event queue and the insertion in the list.    *)
(* When no cell is left malloc returns NULL and the call returns 0.        *)

SocketAlloc(t) ==
    /\ MayCall(t, 0)
    /\ sock_cpt < MaxCpt
    /\ \E s \in SockEl \ allocated :
        /\ allocated' = allocated \cup {s}
        /\ sock_el' = [sock_el EXCEPT ![s] = [Zeroed EXCEPT !.sock = sock_cpt]]
        /\ call' = [call EXCEPT ![t] = [Idle EXCEPT !.pc = "count", !.el = s]]
    /\ UNCHANGED <<sock_cpt, l_sock_list, macVars, granted>>

\* Mutant: sock_cpt++ forgotten.
SocketInsertUncounted(t) ==
    /\ At(t, "count")
    /\ l_sock_list' = l_sock_list \cup {call[t].el}
    /\ Return(t)
    /\ UNCHANGED <<sock_cpt, allocated, sock_el, macVars, granted>>

SocketInsert(t) ==
    /\ At(t, "count")
    /\ sock_cpt' = (sock_el[call[t].el].sock + 1) % SockMod
    /\ sock_el' = [sock_el EXCEPT ![call[t].el].evq = <<>>, ![call[t].el].evq_task = None]
    /\ l_sock_list' = l_sock_list \cup {call[t].el}
    /\ Return(t)
    /\ UNCHANGED <<allocated, macVars, granted>>

-----------------------------------------------------------------------------
(* lorawan_close: lookup and check that the queue is empty; then unlink    *)
(* and free.  free does not clear the cell.                                *)

CloseCheck(t) ==
    \E i \in SockId :
        /\ MayCall(t, i)
        /\ Quiet(t, i)
        /\ \E s \in lorawan_find_el(i) :
            /\ sock_el[s].evq = <<>>
            /\ call' = [call EXCEPT ![t] = [Idle EXCEPT !.pc = "close", !.id = i, !.el = s]]
        /\ UNCHANGED <<heapVars, sock_el, macVars, granted>>

\* Mutant: SLIST_REMOVE forgotten.
CloseFreeLinked(t) ==
    /\ At(t, "close")
    /\ allocated' = allocated \ {call[t].el}
    /\ Return(t)
    /\ UNCHANGED <<sock_cpt, l_sock_list, sock_el, macVars, granted>>

CloseFree(t) ==
    /\ At(t, "close")
    /\ l_sock_list' = l_sock_list \ {call[t].el}
    /\ allocated' = allocated \ {call[t].el}
    /\ granted' = {g \in granted : g[1] # call[t].el}
    /\ Return(t)
    /\ UNCHANGED <<sock_cpt, sock_el, macVars>>

-----------------------------------------------------------------------------
(* lorawan_bind: the first bind of a socket sets its address; the port is  *)
(* refused when some socket has it on that address; ports[slot] is read,   *)
(* then written back with the bit set.                                     *)

Slot(p) == p \div 32

\* Mutant: the address is assigned whether or not the socket has one.
BindLookupRebinds(t) ==
    \E i \in SockId, a \in Addr, p \in Port :
        /\ MayCall(t, i)
        /\ \E s \in lorawan_find_el(i) :
            call' = [call EXCEPT ![t] = [Idle EXCEPT
                        !.pc = "bind_addr", !.id = i, !.el = s, !.addr = a, !.port = p]]
        /\ UNCHANGED <<heapVars, sock_el, macVars, granted>>

BindLookup(t) ==
    \E i \in SockId, a \in Addr, p \in Port :
        /\ MayCall(t, i)
        /\ \E s \in lorawan_find_el(i) :
            call' = [call EXCEPT ![t] = [Idle EXCEPT
                        !.pc = IF sock_el[s].devAddr = 0 THEN "bind_addr" ELSE "bind_check",
                        !.id = i, !.el = s, !.addr = a, !.port = p]]
        /\ UNCHANGED <<heapVars, sock_el, macVars, granted>>

BindAddr(t) ==
    /\ At(t, "bind_addr")
    /\ sock_el' = [sock_el EXCEPT ![call[t].el].devAddr = call[t].addr]
    /\ Goto(t, "bind_check")
    /\ UNCHANGED <<heapVars, macVars, granted>>

\* Mutant: the devAddr/port couple is not looked up.
BindAcceptedUnchecked(t, i) ==
    sock_el[call[t].el].devAddr = call[t].addr /\ call[t].port # 0

\* The checks that bind makes after the address: it goes on when they pass.
BindAccepted(t, i) ==
    /\ sock_el[call[t].el].devAddr = call[t].addr
    /\ call[t].port # 0
    /\ i = 0

BindCheck(t) ==
    /\ At(t, "bind_check")
    /\ \E i \in lorawan_find_sock_by_params(call[t].addr, call[t].port) :
        IF BindAccepted(t, i)
        THEN call' = [call EXCEPT ![t].pc = "bind_port", ![t].word =
                        {q \in sock_el[call[t].el].ports : Slot(q) = Slot(call[t].port)}]
        ELSE Return(t)
    /\ UNCHANGED <<heapVars, sock_el, macVars, granted>>

\* Mutant: ports[slot] assigned instead of or'ed.
BindPortOverwrites(t) ==
    /\ At(t, "bind_port")
    /\ sock_el' = [sock_el EXCEPT ![call[t].el].ports =
                     {q \in @ : Slot(q) # Slot(call[t].port)} \cup {call[t].port}]
    /\ granted' = granted \cup {<<call[t].el, call[t].addr, call[t].port>>}
    /\ Return(t)
    /\ UNCHANGED <<heapVars, macVars>>

BindPort(t) ==
    /\ At(t, "bind_port")
    /\ sock_el' = [sock_el EXCEPT ![call[t].el].ports =
                     {q \in @ : Slot(q) # Slot(call[t].port)} \cup call[t].word \cup {call[t].port}]
    /\ granted' = granted \cup {<<call[t].el, call[t].addr, call[t].port>>}
    /\ Return(t)
    /\ UNCHANGED <<heapVars, macVars>>

-----------------------------------------------------------------------------
(* lorawan_recv: lookup and checks, os_eventq_poll on the socket's queue   *)
(* (it takes the first event, or registers the task in evq_task and puts   *)
(* it to sleep), and the copy out of the indication the event points to.   *)

RecvLookup(t) ==
    \E i \in SockId, w \in Timo :
        /\ MayCall(t, i)
        /\ OneReceiver => \A u \in Task \ {t} : ~(call[u].pc \in RecvPc /\ call[u].id = i)
        /\ \E s \in lorawan_find_el(i) :
            /\ sock_el[s].devAddr # 0
            /\ sock_el[s].ports # {}
            /\ call' = [call EXCEPT ![t] = [Idle EXCEPT
                          !.pc = "poll", !.id = i, !.el = s, !.timo = w]]
        /\ UNCHANGED <<heapVars, sock_el, macVars, granted>>

\* Mutant: the event is not removed from the queue.
RecvPollPeeks(t) ==
    LET s == call[t].el IN
    /\ At(t, "poll")
    /\ \/ /\ sock_el[s].evq # <<>>
          /\ call' = [call EXCEPT ![t].pc = "header", ![t].ev = Head(sock_el[s].evq)]
          /\ UNCHANGED sock_el
       \/ /\ sock_el[s].evq = <<>>
          /\ call[t].timo = "zero"
          /\ Return(t)
          /\ UNCHANGED sock_el
       \/ /\ sock_el[s].evq = <<>>
          /\ call[t].timo # "zero"
          /\ Goto(t, "blocked")
          /\ sock_el' = [sock_el EXCEPT ![s].evq_task = t]
    /\ UNCHANGED <<heapVars, macVars, granted>>

\* Mutant: the task goes to sleep without looking at the queue.
RecvPollSleeps(t) ==
    /\ At(t, "poll")
    /\ IF call[t].timo = "zero"
       THEN Return(t) /\ UNCHANGED sock_el
       ELSE Goto(t, "blocked") /\ sock_el' = [sock_el EXCEPT ![call[t].el].evq_task = t]
    /\ UNCHANGED <<heapVars, macVars, granted>>

RecvPoll(t) ==
    LET s == call[t].el IN
    /\ At(t, "poll")
    /\ \/ /\ sock_el[s].evq # <<>>
          /\ call' = [call EXCEPT ![t].pc = "header", ![t].ev = Head(sock_el[s].evq)]
          /\ sock_el' = [sock_el EXCEPT ![s].evq = Tail(@)]
       \/ /\ sock_el[s].evq = <<>>
          /\ call[t].timo = "zero"
          /\ Return(t)
          /\ UNCHANGED sock_el
       \/ /\ sock_el[s].evq = <<>>
          /\ call[t].timo # "zero"
          /\ Goto(t, "blocked")
          /\ sock_el' = [sock_el EXCEPT ![s].evq_task = t]
    /\ UNCHANGED <<heapVars, macVars, granted>>

\* The tick interrupt makes a sleeper whose timeout has expired ready; it
\* stays registered in evq_task until it runs.
RecvTimeout(t) ==
    /\ call[t].pc = "blocked"
    /\ call[t].timo = "ticks"
    /\ Goto(t, "awake")
    /\ UNCHANGED <<heapVars, sock_el, macVars, granted>>

\* Mutant: finding the queue empty, the awakened task polls again.
RecvAwakeRetries(t) ==
    LET s == call[t].el IN
    /\ At(t, "awake")
    /\ \/ /\ sock_el[s].evq # <<>>
          /\ call' = [call EXCEPT ![t].pc = "header", ![t].ev = Head(sock_el[s].evq)]
          /\ sock_el' = [sock_el EXCEPT ![s].evq = Tail(@), ![s].evq_task = None]
       \/ /\ sock_el[s].evq = <<>>
          /\ Goto(t, "poll")
          /\ sock_el' = [sock_el EXCEPT ![s].evq_task = None]
    /\ UNCHANGED <<heapVars, macVars, granted>>

RecvAwake(t) ==
    LET s == call[t].el IN
    /\ At(t, "awake")
    /\ \/ /\ sock_el[s].evq # <<>>
          /\ call' = [call EXCEPT ![t].pc = "header", ![t].ev = Head(sock_el[s].evq)]
          /\ sock_el' = [sock_el EXCEPT ![s].evq = Tail(@), ![s].evq_task = None]
       \/ /\ sock_el[s].evq = <<>>
          /\ Return(t)
          /\ sock_el' = [sock_el EXCEPT ![s].evq_task = None]
    /\ UNCHANGED <<heapVars, macVars, granted>>

\* Mutant: the caller gets the address and a port of the socket, not the packet's.
RecvHeaderOfSocket(t) ==
    LET s == call[t].el IN
    /\ At(t, "header")
    /\ call' = [call EXCEPT ![t].pc = "payload", ![t].hdr =
                  [devAddr |-> sock_el[s].devAddr, port |-> CHOOSE p \in sock_el[s].ports : TRUE]]
    /\ UNCHANGED <<heapVars, sock_el, macVars, granted>>

RecvHeader(t) ==
    /\ At(t, "header")
    /\ call' = [call EXCEPT ![t].pc = "payload", ![t].hdr =
                  [devAddr |-> McpsInd.devAddr, port |-> McpsInd.port]]
    /\ UNCHANGED <<heapVars, sock_el, macVars, granted>>

\* The payload is copied from the indication, the event freed; then return.
RecvPayload(t) ==
    /\ At(t, "payload")
    /\ Return(t)
    /\ UNCHANGED <<heapVars, sock_el, macVars, granted>>

-----------------------------------------------------------------------------
(* _mcps_indication, in the LoRaWAN task.  The MAC has filled its          *)
(* indication structure before the callback, whatever the callback does.   *)

Indicate(pkt) ==
    /\ rxCount < MaxRx
    /\ pkt.seq = rxCount + 1
    /\ rxCount' = rxCount + 1
    /\ McpsInd' = pkt

\* Wrong status, no socket for the address and port, or no memory for the event.
IndicationDropped ==
    /\ \E h \in Header : Indicate([devAddr |-> h.devAddr, port |-> h.port, seq |-> rxCount + 1])
    /\ UNCHANGED <<heapVars, sock_el, call, granted>>

\* os_eventq_put: the event goes last, a task asleep in evq_task is made ready.
EventqPut(s, pkt) ==
    /\ sock_el' = [sock_el EXCEPT ![s].evq = Append(@, pkt), ![s].evq_task = None]
    /\ call' = [t \in Task |->
                  IF t = sock_el[s].evq_task /\ call[t].pc = "blocked"
                  THEN [call[t] EXCEPT !.pc = "awake"]
                  ELSE call[t]]

\* Mutant: the event goes to a socket bound to the address, on any port.
IndicationPostedAnyPort ==
    /\ \E h \in Header :
        LET pkt == [devAddr |-> h.devAddr, port |-> h.port, seq |-> rxCount + 1] IN
        /\ Indicate(pkt)
        /\ \E s \in {e \in l_sock_list : sock_el[e].devAddr = h.devAddr} : EventqPut(s, pkt)
    /\ UNCHANGED <<heapVars, granted>>

\* Mutant: the socket's queue is initialised again before each event.
IndicationPostedInitsQueue ==
    /\ \E h \in Header :
        LET pkt == [devAddr |-> h.devAddr, port |-> h.port, seq |-> rxCount + 1] IN
        /\ Indicate(pkt)
        /\ \E i \in lorawan_find_sock_by_params(h.devAddr, h.port) :
            \E s \in lorawan_find_el(i) :
                sock_el' = [sock_el EXCEPT ![s].evq = <<pkt>>, ![s].evq_task = None]
    /\ UNCHANGED <<heapVars, call, granted>>

IndicationPosted ==
    /\ \E h \in Header :
        LET pkt == [devAddr |-> h.devAddr, port |-> h.port, seq |-> rxCount + 1] IN
        /\ Indicate(pkt)
        /\ \E i \in lorawan_find_sock_by_params(h.devAddr, h.port) :
            \E s \in lorawan_find_el(i) : EventqPut(s, pkt)
    /\ UNCHANGED <<heapVars, granted>>

-----------------------------------------------------------------------------
\* A task's own step, in a call it has entered.
Step(t) ==
    \/ SocketInsert(t)
    \/ CloseFree(t)
    \/ BindAddr(t)
    \/ BindCheck(t)
    \/ BindPort(t)
    \/ RecvPoll(t)
    \/ RecvAwake(t)
    \/ RecvHeader(t)
    \/ RecvPayload(t)

Next ==
    \/ \E t \in Task :
        \/ SocketAlloc(t)
        \/ CloseCheck(t)
        \/ BindLookup(t)
        \/ RecvLookup(t)
        \/ RecvTimeout(t)
        \/ Step(t)
    \/ IndicationDropped
    \/ IndicationPosted

Spec == Init /\ [][Next]_vars

\* The tick interrupt always comes.  A task that is ready runs in the end:
\* tasks of higher priority sleep between their calls (tx_thread.c:44), so it
\* finds the CPU free again and again, which is strong fairness.
Fairness == \A t \in Task : WF_vars(RecvTimeout(t)) /\ SF_vars(Step(t))

FairSpec == Spec /\ Fairness

-----------------------------------------------------------------------------
(* Properties.                                                             *)

\* Every variable has its type, and the list links allocated cells only.
TypeOK ==
    /\ sock_cpt \in SockId
    /\ allocated \subseteq SockEl
    /\ l_sock_list \subseteq allocated
    /\ sock_el \in [SockEl -> Element]
    /\ McpsInd \in Packet \cup {None}
    /\ rxCount \in 0 .. MaxRx
    /\ call \in [Task -> Call]
    /\ granted \subseteq SockEl \X Addr \X Port

\* "Create a unique sock id" (lorawan_api.c:66): no two sockets of the list
\* have the same id, so an id names one socket in every later call.
UniqueSockId ==
    \A s, r \in l_sock_list : sock_el[s].sock = sock_el[r].sock => s = r

\* "A devAddr/port couple can be binded to only one socket" (lorawan_api.h:126).
BindExclusive ==
    \A s, r \in l_sock_list :
        /\ s # r
        /\ sock_el[s].devAddr = sock_el[r].devAddr
        => sock_el[s].ports \cap sock_el[r].ports = {}

\* A bind that returned OK stays in force until its socket is closed,
\* whatever binds, closes and receptions other tasks interleave with it.
BindingsKept ==
    \A g \in granted :
        /\ g[1] \in l_sock_list
        /\ sock_el[g[1]].devAddr = g[2]
        /\ g[3] \in sock_el[g[1]].ports

\* An event queued on a socket was posted for the address and one of the
\* ports the socket is bound to, and still is.
QueueMatchesBinding ==
    \A s \in l_sock_list : \A k \in DOMAIN sock_el[s].evq :
        /\ sock_el[s].evq[k].devAddr = sock_el[s].devAddr
        /\ sock_el[s].evq[k].port \in sock_el[s].ports

\* The element a task holds a pointer to while it is in a call, asleep in
\* lorawan_recv included, is not freed under it.
NoUseAfterFree ==
    \A t \in Task : call[t].pc # "idle" => call[t].el \in allocated

\* A task is never left asleep in lorawan_recv with an event in its queue
\* and nobody on the way to take it.
NoLostWakeup ==
    \A t \in Task :
        call[t].pc = "blocked" /\ sock_el[call[t].el].evq # <<>> =>
            \E u \in Task : call[u].pc = "awake" /\ call[u].el = call[t].el

\* "devAddr / port / payload fields will be filled with the received data"
\* (lorawan_api.h:134): the packet the event was posted for.  All events point
\* to one structure, which the LoRaWAN task may fill again at any moment, so
\* the code does not keep this.
RecvReturnsItsPacket ==
    \A t \in Task : call[t].pc = "payload" =>
        /\ call[t].hdr = [devAddr |-> call[t].ev.devAddr, port |-> call[t].ev.port]
        /\ McpsInd.seq = call[t].ev.seq

\* The task is copying out what its event points to.
Reading(t) == call[t].pc \in {"header", "payload"}

\* What lorawan_recv does hand out: about to copy the payload, it has the
\* address, port and payload of its event's packet unless a later downlink
\* was indicated before that, and in no case those of an earlier one.
RecvPacketUnlessOverwritten ==
    \A t \in Task : call[t].pc = "payload" =>
        /\ McpsInd.seq >= call[t].ev.seq
        /\ McpsInd.seq = call[t].ev.seq =>
            /\ call[t].hdr = [devAddr |-> call[t].ev.devAddr, port |-> call[t].ev.port]
            /\ McpsInd = call[t].ev

\* The events in the queues are all different, and each queue is in order.
QueuesInOrder ==
    \A s, r \in l_sock_list : \A j \in DOMAIN sock_el[s].evq, k \in DOMAIN sock_el[r].evq :
        /\ s = r /\ j < k => sock_el[s].evq[j].seq < sock_el[r].evq[k].seq
        /\ s # r => sock_el[s].evq[j].seq # sock_el[r].evq[k].seq

\* An event being read is nobody else's and in no queue, and it is older than
\* those still queued behind it.
ReadsInOrder ==
    \A t \in Task : Reading(t) =>
        /\ \A s \in l_sock_list : \A k \in DOMAIN sock_el[s].evq :
             /\ s = call[t].el => call[t].ev.seq < sock_el[s].evq[k].seq
             /\ s # call[t].el => call[t].ev.seq # sock_el[s].evq[k].seq
        /\ \A u \in Task \ {t} : Reading(u) => call[t].ev.seq # call[u].ev.seq

\* A downlink is handed to one receiver, once, and in the order of arrival on
\* its socket, whatever timeouts, posts, polls, closes and reuses of freed
\* cells come in between.
EventsOnceInOrder == QueuesInOrder /\ ReadsInOrder

\* "Check that the event queue is empty before delete it" (lorawan_api.c:93):
\* a freed socket takes no event with it.
CloseLosesNoEvent == \A s \in SockEl \ allocated : sock_el[s].evq = <<>>

\* A lorawan_recv with a timeout returns, event or not.
TimedRecvReturns ==
    \A t \in Task : call[t].pc \in RecvPc /\ call[t].timo = "ticks" ~> call[t].pc = "idle"

\* A lorawan_recv whose socket has an event returns, wherever it is when the
\* event comes and even if it would have waited forever.
EventEndsRecv ==
    \A t \in Task :
        call[t].pc \in RecvPc /\ sock_el[call[t].el].evq # <<>> ~> call[t].pc = "idle"

-----------------------------------------------------------------------------
(* The sockets implement SocketTable.                                      *)

Ids == {sock_el[s].sock : s \in l_sock_list}

Bound == {b \in SockId \X Addr \X Port :
            \E s \in Matching(b[2], b[3]) : sock_el[s].sock = b[1]}

Inbox == [i \in SockId |->
            IF i \in Ids THEN sock_el[CHOOSE s \in lorawan_find_el(i) : TRUE].evq ELSE <<>>]

Table == INSTANCE SocketTable
            WITH used <- 1 .. sock_cpt - 1, open <- Ids, bound <- Bound, inbox <- Inbox

\* Every behaviour of the sockets is one that the header promises: each step
\* creates, binds, delivers, receives or closes as SocketTable allows, or
\* changes nothing the caller can see.
ImplementsSocketTable == Table!Spec

=============================================================================
