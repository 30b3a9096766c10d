----------------------- MODULE SocketReceptionProofs -----------------------
(***************************************************************************)
(* What lorawan_recv returns and when it wakes up, proved for every value  *)
(* of LorawanSocket's constants.  What it hands out, and in which order,   *)
(* takes no discipline of the callers; that it wakes up takes that a       *)
(* socket has one receiver at a time (OneReceiver).                        *)
(***************************************************************************)
EXTENDS LorawanSocketProofs

USE DEF heapVars, macVars, At, Goto, Return

\* One task at most is in lorawan_recv on a socket; when it sleeps it is the
\* task that os_eventq_put wakes, and the queue is empty.
Registered ==
    /\ \A t, u \in Task : t # u /\ call[t].pc \in RecvPc /\ call[u].pc \in RecvPc =>
         call[t].id # call[u].id
    /\ \A t \in Task : call[t].pc = "blocked" =>
         sock_el[call[t].el].evq_task = t /\ sock_el[call[t].el].evq = <<>>

-----------------------------------------------------------------------------
(* What lorawan_recv hands out.                                            *)

\* The MAC's structure is the downlink indicated last; no event is newer, and
\* one as new as that still reads as it was posted.
Newest ==
    /\ rxCount > 0 => McpsInd.seq = rxCount
    /\ \A s \in l_sock_list : \A k \in DOMAIN sock_el[s].evq :
         /\ sock_el[s].evq[k].seq <= rxCount
         /\ sock_el[s].evq[k].seq = rxCount => sock_el[s].evq[k] = McpsInd
    /\ \A t \in Task : Reading(t) =>
         /\ call[t].ev \in Packet /\ call[t].ev.seq <= rxCount
         /\ call[t].ev.seq = rxCount => call[t].ev = McpsInd
         /\ call[t].pc = "payload" /\ call[t].ev.seq = rxCount =>
              call[t].hdr = [devAddr |-> McpsInd.devAddr, port |-> McpsInd.port]

ReceptionInv == Newest /\ EventsOnceInOrder

\* A step that posts no event and takes none: a queue stays as it is, or is
\* new and empty, and a reader goes on with its event, if at all.
Untouched ==
    /\ UNCHANGED macVars
    /\ \A s \in l_sock_list' :
         \/ sock_el'[s].evq = <<>>
         \/ s \in l_sock_list /\ sock_el'[s].evq = sock_el[s].evq
    /\ \A t \in Task : Reading(t)' =>
         /\ Reading(t) /\ call'[t].ev = call[t].ev /\ call'[t].el = call[t].el
         /\ call'[t].pc = "payload" =>
              \/ call[t].pc = "payload" /\ call'[t].hdr = call[t].hdr
              \/ call'[t].hdr = [devAddr |-> McpsInd.devAddr, port |-> McpsInd.port]

\* The queues hold packets, and the packets have numbers.
LEMMA QueuedPackets ==
    ASSUME TypeInv
    PROVE  /\ rxCount \in Nat /\ l_sock_list \subseteq SockEl
           /\ \A s \in SockEl : /\ sock_el[s].evq \in Seq(Packet)
                                /\ \A k \in DOMAIN sock_el[s].evq : sock_el[s].evq[k] \in Packet
           /\ \A pkt \in Packet : pkt.seq \in Nat
<1>1. rxCount \in Nat /\ l_sock_list \subseteq SockEl /\ \A pkt \in Packet : pkt.seq \in Nat
  BY RangeAssumption DEF TypeInv, TypeOK, Packet
<1>2. \A s \in SockEl : sock_el[s].evq \in Seq(Packet)
  BY DEF TypeInv, TypeOK, Element
<1>3. \A q \in Seq(Packet) : \A k \in DOMAIN q : q[k] \in Packet
  OBVIOUS
<1>4. QED
  BY <1>1, <1>2, <1>3

LEMMA UntouchedKeeps == ASSUME ReceptionInv, Untouched PROVE ReceptionInv'
<1>1. \A s \in l_sock_list' : \A k \in DOMAIN sock_el'[s].evq :
         s \in l_sock_list /\ k \in DOMAIN sock_el[s].evq /\ sock_el'[s].evq[k] = sock_el[s].evq[k]
  <2>1. DOMAIN <<>> = {}
    OBVIOUS
  <2>2. QED
    BY <2>1 DEF Untouched
<1>2. Newest'
  BY <1>1 DEF ReceptionInv, Newest, Untouched, Reading
<1>3. QueuesInOrder'
  BY <1>1 DEF ReceptionInv, EventsOnceInOrder, QueuesInOrder
<1>4. ReadsInOrder'
  BY <1>1 DEF ReceptionInv, EventsOnceInOrder, ReadsInOrder, Untouched, Reading
<1>5. QED
  BY <1>2, <1>3, <1>4 DEF ReceptionInv, EventsOnceInOrder

\* The step of lorawan_recv that looks at the queue: the first event leaves
\* the queue for the task, and those behind it are newer.
LEMMA TakeKeeps ==
    ASSUME TypeInv, ReceptionInv, NEW t \in Task, RecvPoll(t) \/ RecvAwake(t)
    PROVE  ReceptionInv'
<1> DEFINE el == call[t].el
<1>1. /\ UNCHANGED <<heapVars, macVars>> /\ call[t].pc \in {"poll", "awake"}
      /\ el \in l_sock_list /\ el \in SockEl
      /\ \A u \in Task \ {t} : call'[u] = call[u]
      /\ \A s \in SockEl : s # el => sock_el'[s] = sock_el[s]
  BY RecvEffect
<1>2. CASE sock_el'[el].evq = <<>> /\ call'[t].pc \in {"idle", "blocked"}
  <2>1. Untouched
    BY <1>1, <1>2, QueuedPackets DEF Untouched, Reading
  <2>2. QED
    BY <2>1, UntouchedKeeps
<1>3. CASE /\ sock_el[el].evq # <<>> /\ sock_el'[el].evq = Tail(sock_el[el].evq)
           /\ call'[t].pc = "header" /\ call'[t].ev = Head(sock_el[el].evq) /\ call'[t].el = el
  <2>1. /\ 1 \in DOMAIN sock_el[el].evq /\ call'[t].ev = sock_el[el].evq[1]
        /\ \A k \in DOMAIN sock_el'[el].evq :
             k + 1 \in DOMAIN sock_el[el].evq /\ sock_el'[el].evq[k] = sock_el[el].evq[k + 1]
    BY <1>1, <1>3, QueuedPackets, QueueTail
  <2>2. \A k \in DOMAIN sock_el'[el].evq : k \in Nat /\ k >= 1
    BY <1>1, <1>3, QueuedPackets
  <2>3. \A s \in l_sock_list : s # el => sock_el'[s].evq = sock_el[s].evq
    BY <1>1, QueuedPackets
  <2>4. \A u \in Task : Reading(u)' => u = t \/ (Reading(u) /\ call'[u] = call[u])
    BY <1>1 DEF Reading
  <2>5. ~Reading(t) /\ Reading(t)'
    BY <1>1, <1>3 DEF Reading
  <2>6. Newest'
    <3>1. rxCount' > 0 => McpsInd'.seq = rxCount'
      BY <1>1 DEF ReceptionInv, Newest
    <3>2. \A s \in l_sock_list' : \A k \in DOMAIN sock_el'[s].evq :
            /\ sock_el'[s].evq[k].seq <= rxCount'
            /\ sock_el'[s].evq[k].seq = rxCount' => sock_el'[s].evq[k] = McpsInd'
      BY <1>1, <2>1, <2>3 DEF ReceptionInv, Newest
    <3>3. \A u \in Task : Reading(u)' =>
            /\ call'[u].ev \in Packet /\ call'[u].ev.seq <= rxCount'
            /\ call'[u].ev.seq = rxCount' => call'[u].ev = McpsInd'
            /\ call'[u].pc = "payload" /\ call'[u].ev.seq = rxCount' =>
                 call'[u].hdr = [devAddr |-> McpsInd'.devAddr, port |-> McpsInd'.port]
      BY <1>1, <1>3, <2>1, <2>4, QueuedPackets DEF ReceptionInv, Newest
    <3>4. QED
      BY <3>1, <3>2, <3>3 DEF Newest
  <2>7. QueuesInOrder'
    BY <1>1, <2>1, <2>2, <2>3, SMTT(30) DEF ReceptionInv, EventsOnceInOrder, QueuesInOrder
  <2>8. ReadsInOrder'
    <3>1. \A s \in l_sock_list : \A k \in DOMAIN sock_el'[s].evq :
            /\ s = el => call'[t].ev.seq < sock_el'[s].evq[k].seq
            /\ s # el => call'[t].ev.seq # sock_el'[s].evq[k].seq
      BY <1>1, <2>1, <2>2, <2>3 DEF ReceptionInv, EventsOnceInOrder, QueuesInOrder
    <3>2. \A u \in Task \ {t} : Reading(u) => call[u].ev.seq # sock_el[el].evq[1].seq
      <4>1. \A u \in Task : Reading(u) => call[u].ev.seq \in Nat
        BY QueuedPackets DEF ReceptionInv, Newest
      <4>2. sock_el[el].evq[1].seq \in Nat
        BY <1>1, <2>1, QueuedPackets
      <4>3. QED
        BY <1>1, <2>1, <4>1, <4>2 DEF ReceptionInv, EventsOnceInOrder, ReadsInOrder
    <3>3. \A u \in Task \ {t} : Reading(u) => \A s \in l_sock_list : \A k \in DOMAIN sock_el'[s].evq :
            /\ s = call[u].el => call[u].ev.seq < sock_el'[s].evq[k].seq
            /\ s # call[u].el => call[u].ev.seq # sock_el'[s].evq[k].seq
      BY <1>1, <2>1, <2>3 DEF ReceptionInv, EventsOnceInOrder, ReadsInOrder
    <3>4. \A u, v \in Task : u # v /\ Reading(u) /\ Reading(v) => call[u].ev.seq # call[v].ev.seq
      BY DEF ReceptionInv, EventsOnceInOrder, ReadsInOrder
    <3>5. QED
      BY <1>1, <1>3, <2>1, <2>4, <3>1, <3>2, <3>3, <3>4 DEF ReadsInOrder
  <2>9. QED
    BY <2>6, <2>7, <2>8 DEF ReceptionInv, EventsOnceInOrder
<1>4. QED
  <2>1. \/ sock_el'[el].evq = <<>> /\ call'[t].pc \in {"idle", "blocked"}
        \/ /\ sock_el[el].evq # <<>> /\ sock_el'[el].evq = Tail(sock_el[el].evq)
           /\ call'[t].pc = "header" /\ call'[t].ev = Head(sock_el[el].evq) /\ call'[t].el = el
    BY RecvEffect DEF Idle
  <2>2. QED
    BY <1>2, <1>3, <2>1

\* A downlink for no socket makes every event older than the MAC's structure.
LEMMA DropKeeps == ASSUME TypeInv, ReceptionInv, IndicationDropped PROVE ReceptionInv'
<1>1. /\ rxCount' = rxCount + 1 /\ McpsInd'.seq = rxCount'
      /\ UNCHANGED <<heapVars, sock_el, call>>
  BY DEF IndicationDropped, Indicate
<1>2. \A s \in l_sock_list : \A k \in DOMAIN sock_el[s].evq : sock_el[s].evq[k].seq \in Nat
  BY QueuedPackets
<1>3. \A t \in Task : Reading(t) => call[t].ev.seq \in Nat
  BY QueuedPackets DEF ReceptionInv, Newest
<1>4. Newest'
  BY <1>1, <1>2, <1>3, QueuedPackets DEF ReceptionInv, Newest, Reading
<1>5. EventsOnceInOrder'
  BY <1>1 DEF ReceptionInv, EventsOnceInOrder, QueuesInOrder, ReadsInOrder, Reading
<1>6. QED
  BY <1>4, <1>5 DEF ReceptionInv

\* The event of a downlink that is posted is newer than all others.
LEMMA PostKeeps == ASSUME TypeInv, ReceptionInv, IndicationPosted PROVE ReceptionInv'
<1>1. PICK pkt \in Packet, s \in l_sock_list :
        /\ pkt.seq = rxCount + 1 /\ rxCount' = rxCount + 1
        /\ McpsInd' = pkt
        /\ UNCHANGED heapVars
        /\ sock_el' = [sock_el EXCEPT ![s] = [sock_el[s] EXCEPT
                         !.evq = Append(sock_el[s].evq, pkt), !.evq_task = None]]
        /\ \A t \in Task :
             \/ call'[t] = call[t]
             \/ call[t].pc = "blocked" /\ call'[t].pc = "awake"
  BY PostEffect
<1>2. s \in SockEl /\ sock_el[s].evq \in Seq(Packet) /\ sock_el'[s].evq = Append(sock_el[s].evq, pkt)
  BY <1>1, QueuedPackets DEF TypeInv, TypeOK, Element
<1>3. \A r \in l_sock_list : r # s => sock_el'[r].evq = sock_el[r].evq
  BY <1>1, QueuedPackets DEF TypeInv, TypeOK
<1>4. \A k \in DOMAIN sock_el'[s].evq :
        \/ k \in DOMAIN sock_el[s].evq /\ sock_el'[s].evq[k] = sock_el[s].evq[k]
        \/ k \notin DOMAIN sock_el[s].evq /\ sock_el'[s].evq[k] = pkt
  BY <1>2
<1>5. \A j, k \in DOMAIN sock_el'[s].evq : j < k => j \in DOMAIN sock_el[s].evq
  BY <1>2
<1>6. \A t \in Task : Reading(t)' => Reading(t) /\ call'[t] = call[t]
  BY <1>1 DEF Reading
<1>7. \A r \in l_sock_list : \A k \in DOMAIN sock_el[r].evq :
        sock_el[r].evq[k].seq \in Nat /\ sock_el[r].evq[k].seq < pkt.seq
  BY <1>1, QueuedPackets DEF ReceptionInv, Newest
<1>8. \A t \in Task : Reading(t) => call[t].ev.seq \in Nat /\ call[t].ev.seq < pkt.seq
  BY <1>1, QueuedPackets DEF ReceptionInv, Newest
<1>9. \A r \in l_sock_list : \A k \in DOMAIN sock_el'[r].evq :
        \/ k \in DOMAIN sock_el[r].evq /\ sock_el'[r].evq[k] = sock_el[r].evq[k]
        \/ r = s /\ k \notin DOMAIN sock_el[s].evq /\ sock_el'[r].evq[k] = pkt
  BY <1>3, <1>4
<1>10. Newest'
  <2>1. rxCount' > 0 => McpsInd'.seq = rxCount'
    BY <1>1
  <2>2. \A r \in l_sock_list' : \A k \in DOMAIN sock_el'[r].evq :
          /\ sock_el'[r].evq[k].seq <= rxCount'
          /\ sock_el'[r].evq[k].seq = rxCount' => sock_el'[r].evq[k] = McpsInd'
    BY <1>1, <1>7, <1>9, QueuedPackets
  <2>3. \A t \in Task : Reading(t)' =>
          /\ call'[t].ev \in Packet /\ call'[t].ev.seq < rxCount'
    BY <1>1, <1>6, <1>8 DEF ReceptionInv, Newest
  <2>4. \A t \in Task : Reading(t)' => call'[t].ev.seq \in Nat /\ rxCount' \in Nat
    BY <1>1, <1>6, <1>8, QueuedPackets
  <2>5. QED
    BY <2>1, <2>2, <2>3, <2>4 DEF Newest
<1>11. QueuesInOrder'
  <2> SUFFICES ASSUME NEW r \in l_sock_list, NEW q \in l_sock_list,
                      NEW j \in DOMAIN sock_el'[r].evq, NEW k \in DOMAIN sock_el'[q].evq
               PROVE  /\ r = q /\ j < k => sock_el'[r].evq[j].seq < sock_el'[q].evq[k].seq
                      /\ r # q => sock_el'[r].evq[j].seq # sock_el'[q].evq[k].seq
    BY <1>1 DEF QueuesInOrder
  <2>1. CASE /\ j \in DOMAIN sock_el[r].evq /\ sock_el'[r].evq[j] = sock_el[r].evq[j]
             /\ k \in DOMAIN sock_el[q].evq /\ sock_el'[q].evq[k] = sock_el[q].evq[k]
    BY <2>1 DEF ReceptionInv, EventsOnceInOrder, QueuesInOrder
  <2>2. CASE /\ j \in DOMAIN sock_el[r].evq /\ sock_el'[r].evq[j] = sock_el[r].evq[j]
             /\ sock_el'[q].evq[k] = pkt
    BY <1>1, <1>7, <2>2, QueuedPackets
  <2>3. CASE /\ k \in DOMAIN sock_el[q].evq /\ sock_el'[q].evq[k] = sock_el[q].evq[k]
             /\ r = s /\ j \notin DOMAIN sock_el[s].evq /\ sock_el'[r].evq[j] = pkt
    <3>1. ~(r = q /\ j < k)
      BY <1>5, <2>3
    <3>2. sock_el'[q].evq[k].seq \in Nat /\ sock_el'[q].evq[k].seq < sock_el'[r].evq[j].seq
      BY <1>7, <2>3
    <3>3. sock_el'[r].evq[j].seq \in Nat
      BY <2>3, QueuedPackets
    <3>4. QED
      BY <3>1, <3>2, <3>3
  <2>4. CASE /\ r = s /\ j \notin DOMAIN sock_el[s].evq /\ q = s /\ k \notin DOMAIN sock_el[s].evq
    BY <1>5, <2>4
  <2>5. QED
    BY <1>9, <2>1, <2>2, <2>3, <2>4
<1>12. ReadsInOrder'
  <2>1. \A t \in Task : Reading(t) => \A r \in l_sock_list : \A k \in DOMAIN sock_el'[r].evq :
          /\ r = call[t].el => call[t].ev.seq < sock_el'[r].evq[k].seq
          /\ r # call[t].el => call[t].ev.seq # sock_el'[r].evq[k].seq
    BY <1>1, <1>8, <1>9, QueuedPackets DEF ReceptionInv, EventsOnceInOrder, ReadsInOrder
  <2>2. \A t, u \in Task : t # u /\ Reading(t) /\ Reading(u) => call[t].ev.seq # call[u].ev.seq
    BY DEF ReceptionInv, EventsOnceInOrder, ReadsInOrder
  <2>3. QED
    BY <1>1, <1>6, <2>1, <2>2 DEF ReadsInOrder
<1>13. QED
  BY <1>10, <1>11, <1>12 DEF ReceptionInv, EventsOnceInOrder

\* Every step keeps the events in order, whatever the callers do.
LEMMA ReceptionStep == TypeInv /\ ReceptionInv /\ [Next]_vars => ReceptionInv'
<1> SUFFICES ASSUME TypeInv, ReceptionInv, [Next]_vars
             PROVE  ReceptionInv'
  OBVIOUS
<1>0. TypeOK /\ Pointers
  BY DEF TypeInv
<1>1. ASSUME NEW t \in Task, SocketAlloc(t)
      PROVE  Untouched
  BY <1>1, <1>0 DEF SocketAlloc, Idle, TypeOK, Untouched, Reading, Call
<1>2. ASSUME NEW t \in Task, CloseCheck(t) \/ BindLookup(t) \/ RecvLookup(t)
      PROVE  Untouched
  <2>1. CASE CloseCheck(t)
    BY <2>1, <1>0 DEF CloseCheck, Idle, TypeOK, Untouched, Reading, Call
  <2>2. CASE BindLookup(t)
    BY <2>2, <1>0 DEF BindLookup, Idle, TypeOK, Untouched, Reading, Call
  <2>3. CASE RecvLookup(t)
    BY <2>3, <1>0 DEF RecvLookup, Idle, TypeOK, Untouched, Reading, Call
  <2>4. QED
    BY <1>2, <2>1, <2>2, <2>3
<1>3. ASSUME NEW t \in Task, RecvTimeout(t)
      PROVE  Untouched
  BY <1>3, <1>0 DEF RecvTimeout, TypeOK, Untouched, Reading, Call
<1>4. ASSUME NEW t \in Task, SocketInsert(t)
      PROVE  Untouched
  BY <1>4, <1>0 DEF SocketInsert, Idle, TypeOK, Pointers, Untouched, Reading, Call, Element
<1>5. ASSUME NEW t \in Task, CloseFree(t)
      PROVE  Untouched
  BY <1>5, <1>0 DEF CloseFree, Idle, TypeOK, Untouched, Reading, Call
<1>6. ASSUME NEW t \in Task, BindAddr(t)
      PROVE  Untouched
  BY <1>6, <1>0 DEF BindAddr, TypeOK, Untouched, Reading, Call, Element
<1>7. ASSUME NEW t \in Task, BindCheck(t)
      PROVE  Untouched
  BY <1>7, BindCheckEffect DEF Untouched, Reading, Idle
<1>8. ASSUME NEW t \in Task, BindPort(t)
      PROVE  Untouched
  BY <1>8, <1>0 DEF BindPort, Idle, TypeOK, Untouched, Reading, Call, Element
<1>9. ASSUME NEW t \in Task, RecvHeader(t)
      PROVE  Untouched
  BY <1>9, <1>0 DEF RecvHeader, TypeOK, Untouched, Reading, Call
<1>10. ASSUME NEW t \in Task, RecvPayload(t)
       PROVE  Untouched
  BY <1>10, <1>0 DEF RecvPayload, Idle, TypeOK, Untouched, Reading, Call
<1>11. CASE UNCHANGED vars
  <2>1. Untouched
    BY <1>11 DEF vars, Untouched, Reading
  <2>2. QED
    BY <2>1, UntouchedKeeps
<1>12. QED
  BY <1>1, <1>2, <1>3, <1>4, <1>5, <1>6, <1>7, <1>8, <1>9, <1>10, <1>11,
     UntouchedKeeps, TakeKeeps, DropKeeps, PostKeeps DEF Next, Step

LEMMA ReceptionInit == Init => ReceptionInv
  BY DEF Init, ReceptionInv, Newest, EventsOnceInOrder, QueuesInOrder, ReadsInOrder, Reading, Idle

\* lorawan_recv hands out the packet its event was posted for unless a later
\* downlink was indicated meanwhile, for all tasks and sockets, serialised or
\* not, one receiver or many.
THEOREM RecvPacket == Spec => []RecvPacketUnlessOverwritten
<1>1. TypeInv /\ ReceptionInv => RecvPacketUnlessOverwritten
  <2> SUFFICES ASSUME TypeInv, ReceptionInv, NEW t \in Task, call[t].pc = "payload"
               PROVE  /\ McpsInd.seq >= call[t].ev.seq
                      /\ McpsInd.seq = call[t].ev.seq =>
                          /\ call[t].hdr = [devAddr |-> call[t].ev.devAddr, port |-> call[t].ev.port]
                          /\ McpsInd = call[t].ev
    BY DEF RecvPacketUnlessOverwritten
  <2>1. /\ call[t].ev \in Packet /\ call[t].ev.seq <= rxCount
        /\ call[t].ev.seq = rxCount => call[t].ev = McpsInd
        /\ call[t].ev.seq = rxCount => call[t].hdr = [devAddr |-> McpsInd.devAddr, port |-> McpsInd.port]
    BY DEF ReceptionInv, Newest, Reading
  <2>2. call[t].ev.seq \in Nat /\ call[t].ev.seq >= 1 /\ rxCount \in Nat
    BY <2>1, QueuedPackets DEF Packet
  <2>3. McpsInd.seq = rxCount
    BY <2>1, <2>2 DEF ReceptionInv, Newest
  <2>4. QED
    BY <2>1, <2>2, <2>3
<1>2. QED
  BY <1>1, ReceptionInit, ReceptionStep, TypeInvariant, PTL DEF Spec

\* A downlink is handed to one receiver, once, and in the order of arrival on
\* its socket, for all tasks and sockets, serialised or not.
THEOREM EventsInOrder == Spec => []EventsOnceInOrder
<1>1. ReceptionInv => EventsOnceInOrder
  BY DEF ReceptionInv
<1>2. QED
  BY <1>1, ReceptionInit, ReceptionStep, TypeInvariant, PTL DEF Spec

-----------------------------------------------------------------------------
(* The wake-up of lorawan_recv.                                            *)

\* Every step keeps the sleeper of a socket registered.
LEMMA RegisteredStep == OneReceiver /\ TypeInv /\ Registered /\ [Next]_vars => Registered'
<1> SUFFICES ASSUME OneReceiver /\ TypeInv /\ Registered, [Next]_vars
             PROVE  Registered'
  OBVIOUS
<1>0. TypeOK /\ Pointers
  BY DEF TypeInv
<1>1. ASSUME NEW t \in Task, SocketAlloc(t)
      PROVE  Registered'
  BY <1>1, <1>0 DEF SocketAlloc, Zeroed, Idle, TypeOK, Pointers, Registered, Call,
     Element, RecvPc
<1>2. ASSUME NEW t \in Task, CloseCheck(t)
      PROVE  Registered'
  BY <1>2, <1>0 DEF CloseCheck, lorawan_find_el, Idle, TypeOK, Pointers, Registered, Call,
     Element, RecvPc
<1>3. ASSUME NEW t \in Task, BindLookup(t)
      PROVE  Registered'
  BY <1>3, <1>0 DEF BindLookup, lorawan_find_el, Idle, TypeOK, Pointers, Registered, Call,
     Element, RecvPc
<1>4. ASSUME NEW t \in Task, RecvLookup(t)
      PROVE  Registered'
  BY <1>4, <1>0 DEF RecvLookup, lorawan_find_el, Idle, MayCall, TypeOK, Pointers, Registered, Call,
     Element, RecvPc
<1>5. ASSUME NEW t \in Task, RecvTimeout(t)
      PROVE  Registered'
  BY <1>5, <1>0 DEF RecvTimeout, TypeOK, Pointers, Registered, Call,
     Element, RecvPc
<1>6. ASSUME NEW t \in Task, SocketInsert(t)
      PROVE  Registered'
  BY <1>6, <1>0, SMTT(30) DEF SocketInsert, Idle, TypeOK, Pointers, Registered, Call,
     Element, RecvPc
<1>7. ASSUME NEW t \in Task, CloseFree(t)
      PROVE  Registered'
  BY <1>7, <1>0 DEF CloseFree, Idle, TypeOK, Pointers, Registered, Call,
     Element, RecvPc
<1>8. ASSUME NEW t \in Task, BindAddr(t)
      PROVE  Registered'
  BY <1>8, <1>0 DEF BindAddr, TypeOK, Pointers, Registered, Call,
     Element, RecvPc
<1>9. ASSUME NEW t \in Task, BindCheck(t)
      PROVE  Registered'
  <2>1. /\ UNCHANGED sock_el
        /\ \A u \in Task \ {t} : call'[u] = call[u]
        /\ call'[t] = Idle \/ call'[t].pc = "bind_port"
    BY <1>9, BindCheckEffect
  <2>2. QED
    BY <2>1 DEF Registered, Idle, RecvPc
<1>10. ASSUME NEW t \in Task, BindPort(t)
       PROVE  Registered'
  BY <1>10, <1>0 DEF BindPort, Idle, TypeOK, Pointers, Registered, Call,
     Element, RecvPc
<1>11. ASSUME NEW t \in Task, RecvPoll(t)
       PROVE  Registered'
  <2> DEFINE el == call[t].el
  <2>1. /\ call[t].pc \in RecvPc
        /\ el \in l_sock_list /\ el \in SockEl
        /\ \A u \in Task \ {t} : call'[u] = call[u]
        /\ \A s \in SockEl : s # el => sock_el'[s] = sock_el[s]
    BY <1>11, RecvEffect DEF RecvPc
  <2>2. \/ call'[t] = Idle
        \/ /\ call'[t].pc = "blocked" /\ call'[t].el = el /\ call'[t].id = call[t].id
           /\ sock_el'[el].evq = <<>> /\ sock_el'[el].evq_task = t
        \/ call'[t].pc = "header" /\ call'[t].id = call[t].id
    BY <1>11, RecvEffect
  <2>3. \A u \in Task \ {t} : call[u].pc \in RecvPc =>
           call[u].id # call[t].id /\ call[u].el # el /\ call[u].el \in SockEl
    BY <1>0, <2>1 DEF Registered, Pointers, TypeOK, RecvPc
  <2>4. QED
    BY <2>1, <2>2, <2>3 DEF Registered, RecvPc, Idle
<1>12. ASSUME NEW t \in Task, RecvAwake(t)
       PROVE  Registered'
  <2> DEFINE el == call[t].el
  <2>1. /\ call[t].pc \in RecvPc
        /\ el \in l_sock_list /\ el \in SockEl
        /\ \A u \in Task \ {t} : call'[u] = call[u]
        /\ \A s \in SockEl : s # el => sock_el'[s] = sock_el[s]
    BY <1>12, RecvEffect DEF RecvPc
  <2>2. \/ call'[t] = Idle
        \/ /\ call'[t].pc = "blocked" /\ call'[t].el = el /\ call'[t].id = call[t].id
           /\ sock_el'[el].evq = <<>> /\ sock_el'[el].evq_task = t
        \/ call'[t].pc = "header" /\ call'[t].id = call[t].id
    BY <1>12, RecvEffect
  <2>3. \A u \in Task \ {t} : call[u].pc \in RecvPc =>
           call[u].id # call[t].id /\ call[u].el # el /\ call[u].el \in SockEl
    BY <1>0, <2>1 DEF Registered, Pointers, TypeOK, RecvPc
  <2>4. QED
    BY <2>1, <2>2, <2>3 DEF Registered, RecvPc, Idle
<1>13. ASSUME NEW t \in Task, RecvHeader(t)
       PROVE  Registered'
  BY <1>13, <1>0 DEF RecvHeader, TypeOK, Pointers, Registered, Call,
     Element, RecvPc
<1>14. ASSUME NEW t \in Task, RecvPayload(t)
       PROVE  Registered'
  BY <1>14, <1>0 DEF RecvPayload, Idle, TypeOK, Pointers, Registered, Call,
     Element, RecvPc
<1>15. CASE IndicationDropped
  BY <1>15, <1>0 DEF IndicationDropped, Indicate, TypeOK, Pointers, Registered, Call,
     Element, RecvPc
<1>16. CASE IndicationPosted
  <2>1. PICK pkt \in Packet, s \in l_sock_list :
           /\ sock_el' = [sock_el EXCEPT ![s] = [sock_el[s] EXCEPT
                            !.evq = Append(sock_el[s].evq, pkt), !.evq_task = None]]
           /\ \A t \in Task :
                \/ call'[t] = call[t] /\ ~(t = sock_el[s].evq_task /\ call[t].pc = "blocked")
                \/ /\ call[t].pc = "blocked" /\ call'[t].pc = "awake"
                   /\ call'[t].el = call[t].el /\ call'[t].id = call[t].id
    BY <1>16, PostEffect
  <2>2. \A t \in Task : call'[t].pc = "blocked" =>
           call'[t] = call[t] /\ call[t].el \in SockEl \ {s}
    <3>1. \A t \in Task : call'[t].pc = "blocked" => call'[t] = call[t] /\ t # sock_el[s].evq_task
      BY <2>1
    <3>2. QED
      BY <1>0, <3>1 DEF Registered, TypeOK, Pointers
  <2>3. \A t \in Task : call'[t].pc \in RecvPc =>
           call[t].pc \in RecvPc /\ call'[t].id = call[t].id
    BY <1>0, <2>1 DEF TypeOK, Call, RecvPc
  <2>4. \A r \in SockEl \ {s} : sock_el'[r] = sock_el[r]
    BY <1>0, <2>1 DEF TypeOK
  <2>5. QED
    BY <2>2, <2>3, <2>4, SMTT(30) DEF Registered
<1>17. CASE UNCHANGED vars
  BY <1>17 DEF vars, TypeOK, Pointers, Registered, Call,
     Element, RecvPc
<1>18. QED
  BY <1>1, <1>2, <1>3, <1>4, <1>5, <1>6, <1>7, <1>8, <1>9, <1>10, <1>11, <1>12, <1>13,
     <1>14, <1>15, <1>16, <1>17 DEF Next, Step

\* With one receiver at a time, no task is left asleep with an event in its
\* queue, whether or not the other calls are serialised.
THEOREM WakeupKept == ASSUME OneReceiver PROVE Spec => []NoLostWakeup
<1>1. Init => Registered
  BY DEF Init, Registered, Idle, RecvPc
<1>2. Registered => NoLostWakeup
  BY DEF Registered, NoLostWakeup
<1>3. QED
  BY <1>1, <1>2, RegisteredStep, TypeInvariant, PTL DEF Spec
=============================================================================
