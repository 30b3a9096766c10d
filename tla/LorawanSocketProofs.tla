------------------------ MODULE LorawanSocketProofs ------------------------
(***************************************************************************)
(* Proofs about LorawanSocket for every value of its constants.            *)
(***************************************************************************)
EXTENDS LorawanSocket, TLAPS

USE DEF heapVars, macVars, At, Goto, Return

-----------------------------------------------------------------------------
(* The pointers that tasks hold between two steps of a call.  TypeOK is    *)
(* not inductive without them: a freed or reused cell could be linked.     *)

\* A task in lorawan_socket owns its cell; a task in another call holds an
\* element of the list with the id it looked up; the closer of a socket is
\* alone on it.
Pointers ==
    /\ \A t \in Task : call[t].pc = "count" => call[t].el \in allocated \ l_sock_list
    /\ \A t \in Task : call[t].pc \notin {"idle", "count"} =>
         call[t].el \in l_sock_list /\ sock_el[call[t].el].sock = call[t].id
    /\ \A t, u \in Task : t # u /\ call[t].pc = "count" /\ call[u].pc = "count" =>
         call[t].el # call[u].el
    /\ \A t, u \in Task : t # u /\ call[t].pc = "close" /\ call[u].pc # "idle" =>
         call[t].id # call[u].id

\* What lorawan_bind and lorawan_recv keep of their arguments and of the
\* event: an event exists only once the MAC has filled its structure.
Locals ==
    /\ \A t \in Task : call[t].pc \in {"bind_addr", "bind_check", "bind_port"} =>
         call[t].addr \in Addr /\ call[t].port \in Port
    /\ \A t \in Task : call[t].pc \in {"header", "payload"} => McpsInd \in Packet
    /\ \A s \in SockEl : sock_el[s].evq # <<>> => McpsInd \in Packet

TypeInv == TypeOK /\ Pointers /\ Locals

-----------------------------------------------------------------------------
(* Facts about the data types.                                             *)

\* An empty event queue is a queue.
LEMMA EmptyQueue == <<>> \in Seq(Packet)
  OBVIOUS

\* A task outside the API is in a well-formed state.
LEMMA IdleIsCall == Idle \in Call
  BY RangeAssumption DEF Idle, Call, CallPc, RecvPc, SockId, Timo

\* The memset cell with its id is an element.
LEMMA NewElement == ASSUME NEW i \in SockId
                    PROVE  [Zeroed EXCEPT !.sock = i] \in Element
  BY EmptyQueue DEF Zeroed, Element

\* Every way in which a step of a call changes the task's record keeps it a call.
LEMMA CallUpdate ==
    ASSUME NEW c \in Call, NEW pc \in {"idle"} \cup CallPc \cup RecvPc
    PROVE  /\ [c EXCEPT !.pc = pc] \in Call
           /\ \A w \in SUBSET Port : [c EXCEPT !.pc = pc, !.word = w] \in Call
           /\ \A e \in Packet : [c EXCEPT !.pc = pc, !.ev = e] \in Call
           /\ \A h \in Header : [c EXCEPT !.pc = pc, !.hdr = h] \in Call
<1>1. [c EXCEPT !.pc = pc] \in Call
  BY DEF Call
<1>2. ASSUME NEW w \in SUBSET Port PROVE [c EXCEPT !.pc = pc, !.word = w] \in Call
  BY DEF Call
<1>3. ASSUME NEW e \in Packet PROVE [c EXCEPT !.pc = pc, !.ev = e] \in Call
  BY DEF Call
<1>4. ASSUME NEW h \in Header PROVE [c EXCEPT !.pc = pc, !.hdr = h] \in Call
  BY DEF Call
<1> QED
  BY <1>1, <1>2, <1>3, <1>4

\* Every way of entering the API with arguments gives a call.
LEMMA CallEntry ==
    ASSUME NEW pc \in CallPc \cup RecvPc, NEW s \in SockEl, NEW i \in SockId
    PROVE  /\ [Idle EXCEPT !.pc = pc, !.el = s] \in Call
           /\ [Idle EXCEPT !.pc = pc, !.id = i, !.el = s] \in Call
           /\ \A w \in Timo : [Idle EXCEPT !.pc = pc, !.id = i, !.el = s, !.timo = w] \in Call
           /\ \A a \in Addr, p \in Port :
                [Idle EXCEPT !.pc = pc, !.id = i, !.el = s, !.addr = a, !.port = p] \in Call
  BY IdleIsCall DEF Call, Idle

\* Every way in which a step changes a cell keeps it an element.
LEMMA ElementUpdate ==
    ASSUME NEW e \in Element, NEW q \in Seq(Packet), NEW u \in Task \cup {None}
    PROVE  /\ [e EXCEPT !.evq = q] \in Element
           /\ [e EXCEPT !.evq_task = u] \in Element
           /\ [e EXCEPT !.evq = q, !.evq_task = u] \in Element
           /\ \A a \in Addr : [e EXCEPT !.devAddr = a] \in Element
           /\ \A w \in SUBSET Port : [e EXCEPT !.ports = w] \in Element
  BY DEF Element

\* Taking the first event of a queue, or posting one, leaves a queue.
LEMMA QueueOps ==
    ASSUME NEW q \in Seq(Packet), NEW pkt \in Packet
    PROVE  /\ Append(q, pkt) \in Seq(Packet)
           /\ q # <<>> => Head(q) \in Packet /\ Tail(q) \in Seq(Packet)
  OBVIOUS

\* The events of a queue after its first is taken are events it held.
LEMMA QueueTail ==
    ASSUME NEW q \in Seq(Packet), q # <<>>
    PROVE  /\ 1 \in DOMAIN q /\ Head(q) = q[1]
           /\ \A k \in DOMAIN Tail(q) : k + 1 \in DOMAIN q /\ Tail(q)[k] = q[k + 1]
  OBVIOUS

-----------------------------------------------------------------------------
(* Type correctness and the pointers, for every discipline of the callers. *)

\* Every step keeps every variable in its type.
LEMMA TypeStep == TypeInv /\ [Next]_vars => TypeOK'
<1> SUFFICES ASSUME TypeInv, [Next]_vars
             PROVE  TypeOK'
  OBVIOUS
<1> USE RangeAssumption, IdleIsCall DEF TypeInv, TypeOK, Pointers, Locals
<1>1. ASSUME NEW t \in Task, SocketAlloc(t)
      PROVE  TypeOK'
  <2>1. PICK s \in SockEl \ allocated :
           /\ allocated' = allocated \cup {s}
           /\ sock_el' = [sock_el EXCEPT ![s] = [Zeroed EXCEPT !.sock = sock_cpt]]
           /\ call' = [call EXCEPT ![t] = [Idle EXCEPT !.pc = "count", !.el = s]]
    BY <1>1 DEF SocketAlloc
  <2>2. [Zeroed EXCEPT !.sock = sock_cpt] \in Element
    BY NewElement
  <2>3. [Idle EXCEPT !.pc = "count", !.el = s] \in Call
    BY CallEntry, RangeAssumption DEF CallPc
  <2>4. QED
    BY <1>1, <2>1, <2>2, <2>3 DEF SocketAlloc
<1>2. ASSUME NEW t \in Task, CloseCheck(t)
      PROVE  TypeOK'
  <2>1. PICK i \in SockId, s \in l_sock_list :
           call' = [call EXCEPT ![t] = [Idle EXCEPT !.pc = "close", !.id = i, !.el = s]]
    BY <1>2 DEF CloseCheck, lorawan_find_el
  <2>2. [Idle EXCEPT !.pc = "close", !.id = i, !.el = s] \in Call
    BY CallEntry DEF CallPc
  <2>3. QED
    BY <1>2, <2>1, <2>2 DEF CloseCheck
<1>3. ASSUME NEW t \in Task, BindLookup(t)
      PROVE  TypeOK'
  <2>1. PICK i \in SockId, a \in Addr, p \in Port : \E s \in lorawan_find_el(i) :
           call' = [call EXCEPT ![t] = [Idle EXCEPT
                      !.pc = IF sock_el[s].devAddr = 0 THEN "bind_addr" ELSE "bind_check",
                      !.id = i, !.el = s, !.addr = a, !.port = p]]
    <3> HIDE DEF TypeInv, TypeOK, Pointers, Locals
    <3> QED
      BY <1>3 DEF BindLookup
  <2>2. PICK s \in lorawan_find_el(i) :
           call' = [call EXCEPT ![t] = [Idle EXCEPT
                      !.pc = IF sock_el[s].devAddr = 0 THEN "bind_addr" ELSE "bind_check",
                      !.id = i, !.el = s, !.addr = a, !.port = p]]
    BY <2>1
  <2> DEFINE pc == IF sock_el[s].devAddr = 0 THEN "bind_addr" ELSE "bind_check"
  <2>3. s \in SockEl /\ pc \in CallPc
    BY DEF lorawan_find_el, CallPc
  <2>4. [Idle EXCEPT !.pc = pc, !.id = i, !.el = s, !.addr = a, !.port = p] \in Call
    BY <2>3, CallEntry
  <2>5. QED
    BY <1>3, <2>2, <2>4 DEF BindLookup
<1>4. ASSUME NEW t \in Task, RecvLookup(t)
      PROVE  TypeOK'
  <2>1. PICK i \in SockId, w \in Timo : \E s \in lorawan_find_el(i) :
           call' = [call EXCEPT ![t] = [Idle EXCEPT !.pc = "poll", !.id = i, !.el = s,
                                                    !.timo = w]]
    BY <1>4, ZenonT(30) DEF RecvLookup
  <2>2. PICK s \in SockEl :
           call' = [call EXCEPT ![t] = [Idle EXCEPT !.pc = "poll", !.id = i, !.el = s,
                                                    !.timo = w]]
    BY <2>1 DEF lorawan_find_el
  <2>3. [Idle EXCEPT !.pc = "poll", !.id = i, !.el = s, !.timo = w] \in Call
    BY <2>2, CallEntry DEF RecvPc
  <2>4. QED
    BY <1>4, <2>2, <2>3 DEF RecvLookup
<1>5. ASSUME NEW t \in Task, RecvTimeout(t)
      PROVE  TypeOK'
  <2>1. [call[t] EXCEPT !.pc = "awake"] \in Call
    BY CallUpdate DEF RecvPc
  <2>2. QED
    BY <1>5, <2>1 DEF RecvTimeout
<1>6. ASSUME NEW t \in Task, SocketInsert(t)
      PROVE  TypeOK'
  <2> DEFINE el == call[t].el
  <2>1. el \in allocated
    BY <1>6 DEF SocketInsert
  <2>2. sock_cpt' \in SockId
    <3>1. sock_el[el].sock \in Nat
      BY <2>1 DEF Element, SockId
    <3>2. QED
      BY <1>6, <3>1, SMTT(20) DEF SocketInsert, SockId
  <2>3. [sock_el[el] EXCEPT !.evq = <<>>, !.evq_task = None] \in Element
    BY <2>1, EmptyQueue, ElementUpdate
  <2>4. QED
    BY <1>6, <2>1, <2>2, <2>3 DEF SocketInsert
<1>7. ASSUME NEW t \in Task, CloseFree(t)
      PROVE  TypeOK'
  BY <1>7 DEF CloseFree
<1>8. ASSUME NEW t \in Task, BindAddr(t)
      PROVE  TypeOK'
  <2> DEFINE el == call[t].el
  <2>1. el \in SockEl /\ call[t].addr \in Addr
    BY <1>8 DEF BindAddr
  <2>2. [sock_el[el] EXCEPT !.devAddr = call[t].addr] \in Element
    BY <2>1, EmptyQueue, ElementUpdate
  <2>3. [call[t] EXCEPT !.pc = "bind_check"] \in Call
    BY CallUpdate DEF CallPc
  <2>4. QED
    BY <1>8, <2>1, <2>2, <2>3 DEF BindAddr
<1>9. ASSUME NEW t \in Task, BindCheck(t)
      PROVE  TypeOK'
  <2> DEFINE word == {q \in sock_el[call[t].el].ports : Slot(q) = Slot(call[t].port)}
  <2>1. call[t].el \in SockEl
    BY <1>9 DEF BindCheck
  <2>2. word \in SUBSET Port
    BY <2>1 DEF Element
  <2>3. [call[t] EXCEPT !.pc = "bind_port", !.word = word] \in Call
    BY <2>2, CallUpdate DEF CallPc
  <2>4. call' \in [Task -> Call]
    BY <1>9, <2>3 DEF BindCheck
  <2>5. QED
    BY <1>9, <2>4 DEF BindCheck
<1>10. ASSUME NEW t \in Task, BindPort(t)
       PROVE  TypeOK'
  <2> DEFINE el == call[t].el
             ports == {q \in sock_el[el].ports : Slot(q) # Slot(call[t].port)}
                        \cup call[t].word \cup {call[t].port}
  <2>1. el \in SockEl /\ call[t].addr \in Addr /\ call[t].port \in Port
    BY <1>10 DEF BindPort
  <2>2. ports \in SUBSET Port
    BY <2>1 DEF Element, Call
  <2>3. [sock_el[el] EXCEPT !.ports = ports] \in Element
    BY <2>1, <2>2, EmptyQueue, ElementUpdate
  <2>4. granted' \subseteq SockEl \X Addr \X Port
    BY <1>10, <2>1 DEF BindPort
  <2>5. QED
    BY <1>10, <2>1, <2>3, <2>4 DEF BindPort
<1>11. ASSUME NEW t \in Task, RecvPoll(t)
       PROVE  TypeOK'
  <2> DEFINE el == call[t].el
             q == sock_el[el].evq
  <2>1. el \in SockEl /\ q \in Seq(Packet)
    BY <1>11 DEF RecvPoll, Element
  <2>2. CASE q = <<>>
    <3>1. [call[t] EXCEPT !.pc = "blocked"] \in Call
      BY CallUpdate, IdleIsCall DEF RecvPc
    <3>2. [sock_el[el] EXCEPT !.evq_task = t] \in Element
      BY <2>1, ElementUpdate
    <3>3. QED
      BY <1>11, <2>1, <2>2, <3>1, <3>2, SMTT(20) DEF RecvPoll
  <2>3. CASE q # <<>>
    <3>1. Head(q) \in Packet /\ Tail(q) \in Seq(Packet)
      BY <2>1, <2>3
    <3>2. [call[t] EXCEPT !.pc = "header", !.ev = Head(q)] \in Call
      BY <3>1, CallUpdate DEF RecvPc
    <3>3. [sock_el[el] EXCEPT !.evq = Tail(sock_el[el].evq)] \in Element
      BY <2>1, <3>1, ElementUpdate
    <3>4. /\ call' = [call EXCEPT ![t] = [call[t] EXCEPT !.pc = "header", !.ev = Head(q)]]
          /\ sock_el' = [sock_el EXCEPT ![el] = [sock_el[el] EXCEPT !.evq = Tail(sock_el[el].evq)]]
      BY <1>11, <2>1, <2>3 DEF RecvPoll
    <3>5. QED
      BY <1>11, <2>1, <3>2, <3>3, <3>4 DEF RecvPoll
  <2>4. QED
    BY <2>2, <2>3
<1>12. ASSUME NEW t \in Task, RecvAwake(t)
       PROVE  TypeOK'
  <2> DEFINE el == call[t].el
             q == sock_el[el].evq
  <2>1. el \in SockEl /\ q \in Seq(Packet)
    BY <1>12 DEF RecvAwake, Element
  <2>2. CASE q = <<>>
    <3>1. Idle \in Call
      BY CallUpdate, IdleIsCall DEF RecvPc
    <3>2. [sock_el[el] EXCEPT !.evq_task = None] \in Element
      BY <2>1, ElementUpdate
    <3>3. QED
      BY <1>12, <2>1, <2>2, <3>1, <3>2 DEF RecvAwake
  <2>3. CASE q # <<>>
    <3>1. Head(q) \in Packet /\ Tail(q) \in Seq(Packet)
      BY <2>1, <2>3
    <3>2. [call[t] EXCEPT !.pc = "header", !.ev = Head(q)] \in Call
      BY <3>1, CallUpdate DEF RecvPc
    <3>3. [sock_el[el] EXCEPT !.evq = Tail(sock_el[el].evq), !.evq_task = None] \in Element
      BY <2>1, <3>1, ElementUpdate
    <3>4. /\ call' = [call EXCEPT ![t] = [call[t] EXCEPT !.pc = "header", !.ev = Head(q)]]
          /\ sock_el' = [sock_el EXCEPT ![el] = [sock_el[el] EXCEPT !.evq = Tail(sock_el[el].evq), !.evq_task = None]]
      BY <1>12, <2>1, <2>3 DEF RecvAwake
    <3>5. QED
      BY <1>12, <2>1, <3>2, <3>3, <3>4 DEF RecvAwake
  <2>4. QED
    BY <2>2, <2>3
<1>13. ASSUME NEW t \in Task, RecvHeader(t)
       PROVE  TypeOK'
  <2> DEFINE h == [devAddr |-> McpsInd.devAddr, port |-> McpsInd.port]
  <2>1. h \in Header
    BY <1>13 DEF RecvHeader, Packet, Header
  <2>2. [call[t] EXCEPT !.pc = "payload", !.hdr = h] \in Call
    BY <2>1, CallUpdate DEF RecvPc
  <2>3. QED
    BY <1>13, <2>2 DEF RecvHeader
<1>14. ASSUME NEW t \in Task, RecvPayload(t)
       PROVE  TypeOK'
  BY <1>14 DEF RecvPayload
<1>15. CASE IndicationDropped
  <2>1. McpsInd' \in Packet /\ rxCount' \in 0 .. MaxRx
    BY <1>15 DEF IndicationDropped, Indicate, Header, Packet
  <2>2. QED
    BY <1>15, <2>1 DEF IndicationDropped
<1>16. CASE IndicationPosted
  <2>0. PICK h \in Header, i \in SockId \cup {0} :
           LET p == [devAddr |-> h.devAddr, port |-> h.port, seq |-> rxCount + 1] IN
           Indicate(p) /\ \E s \in lorawan_find_el(i) : EventqPut(s, p)
    BY <1>16 DEF IndicationPosted, lorawan_find_sock_by_params, Matching, Element
  <2> DEFINE pkt == [devAddr |-> h.devAddr, port |-> h.port, seq |-> rxCount + 1]
  <2>1. PICK s \in l_sock_list : EventqPut(s, pkt)
    BY <2>0 DEF lorawan_find_el
  <2>2. pkt \in Packet /\ McpsInd' \in Packet /\ rxCount' \in 0 .. MaxRx
    BY <2>0 DEF Indicate, Header, Packet
  <2>3. sock_el' \in [SockEl -> Element]
    <3>1. Append(sock_el[s].evq, pkt) \in Seq(Packet)
      BY <2>2 DEF Element
    <3>2. [sock_el[s] EXCEPT !.evq = Append(sock_el[s].evq, pkt), !.evq_task = None] \in Element
      BY <3>1, ElementUpdate
    <3>3. QED
      BY <2>1, <3>2 DEF EventqPut
  <2>4. call' \in [Task -> Call]
    <3>1. \A t \in Task : [call[t] EXCEPT !.pc = "awake"] \in Call
      BY CallUpdate DEF RecvPc
    <3>2. QED
      BY <2>1, <3>1 DEF EventqPut
  <2>5. QED
    BY <1>16, <2>2, <2>3, <2>4 DEF IndicationPosted
<1>17. CASE UNCHANGED vars
  BY <1>17 DEF vars
<1>18. QED
  BY <1>1, <1>2, <1>3, <1>4, <1>5, <1>6, <1>7, <1>8, <1>9, <1>10, <1>11, <1>12, <1>13,
     <1>14, <1>15, <1>16, <1>17 DEF Next, Step

\* A step inside a call that neither enters nor leaves lorawan_socket or
\* lorawan_close, keeps the element and the id, or returns, keeps the pointers.
LEMMA PointersFrame ==
    ASSUME NEW t \in Task, TypeOK, Pointers,
           UNCHANGED heapVars,
           \A s \in SockEl : sock_el'[s].sock = sock_el[s].sock,
           \A u \in Task \ {t} : call'[u] = call[u],
           call[t].pc \notin {"idle", "count", "close"},
           \/ call'[t].pc = "idle"
           \/ /\ call'[t].pc \notin {"idle", "count", "close"}
              /\ call'[t].el = call[t].el /\ call'[t].id = call[t].id
    PROVE  Pointers'
<1>1. \A u \in Task : call'[u].pc = "count" => call[u].pc = "count" /\ call'[u] = call[u]
  OBVIOUS
<1>2. \A u \in Task : call'[u].pc = "close" => call[u].pc = "close" /\ call'[u] = call[u]
  OBVIOUS
<1>3. \A u \in Task : call'[u].pc # "idle" =>
         call[u].pc # "idle" /\ call'[u].el = call[u].el /\ call'[u].id = call[u].id
  OBVIOUS
<1>4. \A u \in Task : call[u].pc \notin {"idle", "count"} => call[u].el \in SockEl
  BY DEF TypeOK, Pointers
<1>5. \A u \in Task : call'[u].pc \notin {"idle", "count"} => call[u].pc \notin {"idle", "count"}
  OBVIOUS
<1>6. QED
  BY <1>1, <1>2, <1>3, <1>4, <1>5 DEF Pointers

\* Every step keeps the pointers of the calls in progress valid.
LEMMA PointersStep == TypeInv /\ [Next]_vars => Pointers'
<1> SUFFICES ASSUME TypeInv, [Next]_vars
             PROVE  Pointers'
  OBVIOUS
<1> USE DEF TypeInv, TypeOK, Pointers, Call, Element
<1>1. ASSUME NEW t \in Task, SocketAlloc(t)
      PROVE  Pointers'
  BY <1>1 DEF SocketAlloc, MayCall, Idle, Zeroed
<1>2. ASSUME NEW t \in Task, CloseCheck(t)
      PROVE  Pointers'
  BY <1>2 DEF CloseCheck, lorawan_find_el, Quiet, MayCall, Idle
<1>3. ASSUME NEW t \in Task, BindLookup(t)
      PROVE  Pointers'
  BY <1>3 DEF BindLookup, lorawan_find_el, MayCall, Idle
<1>4. ASSUME NEW t \in Task, RecvLookup(t)
      PROVE  Pointers'
  BY <1>4 DEF RecvLookup, lorawan_find_el, MayCall, Idle
<1>5. ASSUME NEW t \in Task, RecvTimeout(t)
      PROVE  Pointers'
  BY <1>5 DEF RecvTimeout
<1>6. ASSUME NEW t \in Task, SocketInsert(t)
      PROVE  Pointers'
  BY <1>6 DEF SocketInsert, Idle
<1>7. ASSUME NEW t \in Task, CloseFree(t)
      PROVE  Pointers'
  BY <1>7 DEF CloseFree, Idle
<1>8. ASSUME NEW t \in Task, BindAddr(t)
      PROVE  Pointers'
  BY <1>8 DEF BindAddr
<1>9. ASSUME NEW t \in Task, BindCheck(t)
      PROVE  Pointers'
  <2>1. /\ call[t].pc = "bind_check"
        /\ UNCHANGED <<heapVars, sock_el>>
        /\ \A u \in Task \ {t} : call'[u] = call[u]
        /\ \/ call'[t] = Idle
           \/ call'[t].pc = "bind_port" /\ call'[t].el = call[t].el /\ call'[t].id = call[t].id
    BY <1>9 DEF BindCheck
  <2>2. QED
    BY <2>1, PointersFrame DEF Idle
<1>10. ASSUME NEW t \in Task, BindPort(t)
       PROVE  Pointers'
  BY <1>10 DEF BindPort, Idle
<1>11. ASSUME NEW t \in Task, RecvPoll(t)
       PROVE  Pointers'
  <2> DEFINE el == call[t].el
  <2>1. /\ call[t].pc = "poll"
        /\ UNCHANGED heapVars
        /\ \A u \in Task \ {t} : call'[u] = call[u]
        /\ \/ call'[t] = Idle
           \/ /\ call'[t].pc \in RecvPc
              /\ call'[t].id = call[t].id /\ call'[t].el = call[t].el
    BY <1>11 DEF RecvPoll, RecvPc
  <2>2. el \in SockEl
    BY <2>1
  <2>3. \A s \in SockEl : sock_el'[s].sock = sock_el[s].sock
    <3>1. \A s \in SockEl \ {el} : sock_el'[s] = sock_el[s]
      BY <1>11, <2>2 DEF RecvPoll
    <3>2. sock_el'[el].sock = sock_el[el].sock
      BY <1>11, <2>2, SMTT(20) DEF RecvPoll
    <3>3. QED
      BY <3>1, <3>2
  <2>4. QED
    BY <2>1, <2>3, PointersFrame DEF Idle, RecvPc
<1>12. ASSUME NEW t \in Task, RecvAwake(t)
       PROVE  Pointers'
  <2> DEFINE el == call[t].el
  <2>1. /\ call[t].pc = "awake"
        /\ UNCHANGED heapVars
        /\ \A u \in Task \ {t} : call'[u] = call[u]
        /\ \/ call'[t] = Idle
           \/ /\ call'[t].pc \in RecvPc
              /\ call'[t].id = call[t].id /\ call'[t].el = call[t].el
    BY <1>12 DEF RecvAwake, RecvPc
  <2>2. el \in SockEl
    BY <2>1
  <2>3. \A s \in SockEl : sock_el'[s].sock = sock_el[s].sock
    <3>1. \A s \in SockEl \ {el} : sock_el'[s] = sock_el[s]
      BY <1>12, <2>2 DEF RecvAwake
    <3>2. sock_el'[el].sock = sock_el[el].sock
      BY <1>12, <2>2 DEF RecvAwake
    <3>3. QED
      BY <3>1, <3>2
  <2>4. QED
    BY <2>1, <2>3, PointersFrame DEF Idle, RecvPc
<1>13. ASSUME NEW t \in Task, RecvHeader(t)
       PROVE  Pointers'
  BY <1>13 DEF RecvHeader
<1>14. ASSUME NEW t \in Task, RecvPayload(t)
       PROVE  Pointers'
  BY <1>14 DEF RecvPayload, Idle
<1>15. CASE IndicationDropped
  BY <1>15 DEF IndicationDropped, Indicate
<1>16. CASE IndicationPosted
  BY <1>16 DEF IndicationPosted, EventqPut, Indicate
<1>17. CASE UNCHANGED vars
  BY <1>17 DEF vars
<1>18. QED
  BY <1>1, <1>2, <1>3, <1>4, <1>5, <1>6, <1>7, <1>8, <1>9, <1>10, <1>11, <1>12, <1>13,
     <1>14, <1>15, <1>16, <1>17 DEF Next, Step

\* Every step keeps the arguments and the events of the calls in progress.
LEMMA LocalsStep == TypeInv /\ [Next]_vars => Locals'
<1> SUFFICES ASSUME TypeInv, [Next]_vars
             PROVE  Locals'
  OBVIOUS
<1> USE DEF TypeInv, TypeOK, Locals, Call, Element
<1>1. ASSUME NEW t \in Task, SocketAlloc(t)
      PROVE  Locals'
  BY <1>1 DEF SocketAlloc, MayCall, Idle, Zeroed
<1>2. ASSUME NEW t \in Task, CloseCheck(t)
      PROVE  Locals'
  BY <1>2 DEF CloseCheck, lorawan_find_el, Quiet, MayCall, Idle
<1>3. ASSUME NEW t \in Task, BindLookup(t)
      PROVE  Locals'
  BY <1>3 DEF BindLookup, lorawan_find_el, MayCall, Idle
<1>4. ASSUME NEW t \in Task, RecvLookup(t)
      PROVE  Locals'
  BY <1>4 DEF RecvLookup, lorawan_find_el, MayCall, Idle
<1>5. ASSUME NEW t \in Task, RecvTimeout(t)
      PROVE  Locals'
  BY <1>5 DEF RecvTimeout
<1>6. ASSUME NEW t \in Task, SocketInsert(t)
      PROVE  Locals'
  BY <1>6 DEF SocketInsert, Idle
<1>7. ASSUME NEW t \in Task, CloseFree(t)
      PROVE  Locals'
  BY <1>7 DEF CloseFree, Idle
<1>8. ASSUME NEW t \in Task, BindAddr(t)
      PROVE  Locals'
  BY <1>8 DEF BindAddr
<1>9. ASSUME NEW t \in Task, BindCheck(t)
      PROVE  Locals'
  <2>1. /\ call[t].pc = "bind_check"
        /\ UNCHANGED <<macVars, sock_el>>
        /\ \A u \in Task \ {t} : call'[u] = call[u]
        /\ \/ call'[t] = Idle
           \/ /\ call'[t].pc = "bind_port"
              /\ call'[t].addr = call[t].addr /\ call'[t].port = call[t].port
    BY <1>9 DEF BindCheck
  <2>2. call[t].addr \in Addr /\ call[t].port \in Port
    BY <2>1
  <2>3. QED
    BY <2>1, <2>2 DEF Idle
<1>10. ASSUME NEW t \in Task, BindPort(t)
       PROVE  Locals'
  BY <1>10 DEF BindPort, Idle
<1>11. ASSUME NEW t \in Task, RecvPoll(t)
       PROVE  Locals'
  <2> DEFINE el == call[t].el
  <2>1. /\ call[t].pc = "poll"
        /\ UNCHANGED macVars
        /\ \A u \in Task \ {t} : call'[u] = call[u]
        /\ \/ call'[t] = Idle
           \/ call'[t].pc = "blocked"
           \/ call'[t].pc = "header" /\ sock_el[el].evq # <<>>
    BY <1>11 DEF RecvPoll
  <2>2. el \in SockEl
    BY <2>1 DEF Pointers
  <2>3. \A s \in SockEl : sock_el'[s].evq # <<>> => sock_el[s].evq # <<>>
    BY <1>11, <2>2, ZenonT(30) DEF RecvPoll
  <2>4. QED
    BY <2>1, <2>2, <2>3 DEF Idle
<1>12. ASSUME NEW t \in Task, RecvAwake(t)
       PROVE  Locals'
  <2> DEFINE el == call[t].el
  <2>1. /\ call[t].pc = "awake"
        /\ UNCHANGED macVars
        /\ \A u \in Task \ {t} : call'[u] = call[u]
        /\ \/ call'[t] = Idle
           \/ call'[t].pc = "blocked"
           \/ call'[t].pc = "header" /\ sock_el[el].evq # <<>>
    BY <1>12 DEF RecvAwake
  <2>2. el \in SockEl
    BY <2>1 DEF Pointers
  <2>3. \A s \in SockEl : sock_el'[s].evq # <<>> => sock_el[s].evq # <<>>
    BY <1>12, <2>2, ZenonT(30) DEF RecvAwake
  <2>4. QED
    BY <2>1, <2>2, <2>3 DEF Idle
<1>13. ASSUME NEW t \in Task, RecvHeader(t)
       PROVE  Locals'
  BY <1>13 DEF RecvHeader
<1>14. ASSUME NEW t \in Task, RecvPayload(t)
       PROVE  Locals'
  BY <1>14 DEF RecvPayload, Idle
<1>15. CASE IndicationDropped
  <2>1. McpsInd' \in Packet
    BY <1>15, RangeAssumption DEF IndicationDropped, Indicate, Header, Packet
  <2>2. UNCHANGED <<call, sock_el>>
    BY <1>15 DEF IndicationDropped
  <2>3. QED
    BY <2>1, <2>2
<1>16. CASE IndicationPosted
  <2>1. McpsInd' \in Packet
    BY <1>16, RangeAssumption DEF IndicationPosted, Indicate, Header, Packet
  <2>2. \A t \in Task : \/ call'[t] = call[t]
                        \/ call'[t] = [call[t] EXCEPT !.pc = "awake"]
    BY <1>16 DEF IndicationPosted, EventqPut
  <2>3. QED
    BY <2>1, <2>2, ZenonT(30)
<1>17. CASE UNCHANGED vars
  BY <1>17 DEF vars
<1>18. QED
  BY <1>1, <1>2, <1>3, <1>4, <1>5, <1>6, <1>7, <1>8, <1>9, <1>10, <1>11, <1>12, <1>13,
     <1>14, <1>15, <1>16, <1>17 DEF Next, Step

\* The types, the pointers and the locals together are inductive.
THEOREM TypeInvariant == Spec => []TypeInv
<1>1. Init => TypeInv
  <2> SUFFICES ASSUME Init PROVE TypeInv
    OBVIOUS
  <2>1. Zeroed \in Element
    BY EmptyQueue, RangeAssumption DEF Zeroed, Element, SockId
  <2>2. TypeOK
    BY <2>1, RangeAssumption, IdleIsCall DEF Init, TypeOK, SockId
  <2>3. Pointers
    BY DEF Init, Pointers, Idle
  <2>4. Locals
    BY DEF Init, Locals, Idle, Zeroed
  <2>5. QED
    BY <2>2, <2>3, <2>4 DEF TypeInv
<1>2. TypeInv /\ [Next]_vars => TypeInv'
  BY TypeStep, PointersStep, LocalsStep DEF TypeInv
<1>3. QED
  BY <1>1, <1>2, PTL DEF Spec

\* Every variable has its type in every reachable state, for any tasks,
\* heap, addresses, ports and bounds, and whatever the callers' discipline.
THEOREM TypeCorrect == Spec => []TypeOK
<1>1. TypeInv => TypeOK
  BY DEF TypeInv
<1>2. QED
  BY <1>1, TypeInvariant, PTL

\* No element is freed under a task that is in a call on it, asleep in
\* lorawan_recv included: the one rule that lorawan_close states, no action in
\* progress on the socket, is enough, serialised calls or not.
THEOREM PointersValid == Spec => []NoUseAfterFree
<1>1. TypeInv => NoUseAfterFree
  BY DEF TypeInv, TypeOK, Pointers, NoUseAfterFree
<1>2. QED
  BY <1>1, TypeInvariant, PTL

-----------------------------------------------------------------------------
(* The effect of the steps with several outcomes, for the invariants that  *)
(* the other proof modules add.                                            *)

\* lorawan_bind's check returns, or goes on with the couple checked.
LEMMA BindCheckEffect ==
    ASSUME TypeInv, NEW t \in Task, BindCheck(t)
    PROVE  /\ call[t].pc = "bind_check"
           /\ UNCHANGED <<heapVars, sock_el, macVars, granted>>
           /\ \A u \in Task \ {t} : call'[u] = call[u]
           /\ \/ call'[t] = Idle
              \/ /\ call'[t].pc = "bind_port"
                 /\ call'[t].el = call[t].el /\ call'[t].id = call[t].id
                 /\ call'[t].addr = call[t].addr /\ call'[t].port = call[t].port
                 /\ call'[t].word = {q \in sock_el[call[t].el].ports :
                                       Slot(q) = Slot(call[t].port)}
                 /\ sock_el[call[t].el].devAddr = call[t].addr
                 /\ call[t].port # 0
                 /\ 0 \in lorawan_find_sock_by_params(call[t].addr, call[t].port)
  BY DEF BindCheck, BindAccepted, TypeInv, TypeOK, Call

\* lorawan_recv takes the first event, gives up on an empty queue, or sleeps
\* on it; it changes nothing else of the element.
LEMMA RecvEffect ==
    ASSUME TypeInv, NEW t \in Task, RecvPoll(t) \/ RecvAwake(t)
    PROVE  LET el == call[t].el IN
           /\ call[t].pc \in {"poll", "awake"}
           /\ UNCHANGED <<heapVars, macVars, granted>>
           /\ el \in l_sock_list /\ el \in SockEl
           /\ \A u \in Task \ {t} : call'[u] = call[u]
           /\ \A s \in SockEl : s # el => sock_el'[s] = sock_el[s]
           /\ /\ sock_el'[el].sock = sock_el[el].sock
              /\ sock_el'[el].devAddr = sock_el[el].devAddr
              /\ sock_el'[el].ports = sock_el[el].ports
           /\ \/ /\ sock_el[el].evq = <<>> /\ sock_el'[el].evq = <<>>
                 /\ call'[t] = Idle
              \/ /\ sock_el[el].evq = <<>> /\ sock_el'[el].evq = <<>>
                 /\ sock_el'[el].evq_task = t
                 /\ call'[t].pc = "blocked"
                 /\ call'[t].el = el /\ call'[t].id = call[t].id
              \/ /\ sock_el[el].evq # <<>> /\ sock_el'[el].evq = Tail(sock_el[el].evq)
                 /\ call'[t].pc = "header" /\ call'[t].ev = Head(sock_el[el].evq)
                 /\ call'[t].el = el /\ call'[t].id = call[t].id
<1> DEFINE el == call[t].el
<1>1. /\ el \in l_sock_list /\ el \in SockEl
      /\ call[t].pc \in {"poll", "awake"}
  BY DEF RecvPoll, RecvAwake, TypeInv, TypeOK, Pointers
<1>2. sock_el[el] \in Element /\ call[t] \in Call
  BY <1>1 DEF TypeInv, TypeOK
<1>3. CASE RecvPoll(t)
  <2>1. /\ UNCHANGED <<heapVars, macVars, granted>>
        /\ \A u \in Task \ {t} : call'[u] = call[u]
        /\ \A s \in SockEl : s # el => sock_el'[s] = sock_el[s]
    BY <1>1, <1>3 DEF RecvPoll, TypeInv, TypeOK
  <2>2. \/ /\ sock_el[el].evq = <<>> /\ call'[t] = Idle
           /\ sock_el'[el] = sock_el[el]
        \/ /\ sock_el[el].evq = <<>> /\ call'[t] = [call[t] EXCEPT !.pc = "blocked"]
           /\ sock_el'[el] = [sock_el[el] EXCEPT !.evq_task = t]
        \/ /\ sock_el[el].evq # <<>>
           /\ call'[t] = [call[t] EXCEPT !.pc = "header", !.ev = Head(sock_el[el].evq)]
           /\ sock_el'[el] = [sock_el[el] EXCEPT !.evq = Tail(sock_el[el].evq)]
    BY <1>1, <1>3 DEF RecvPoll, TypeInv, TypeOK
  <2>3. QED
    BY <1>1, <1>2, <2>1, <2>2, ZenonT(30) DEF Element, Call
<1>4. CASE RecvAwake(t)
  <2>1. /\ UNCHANGED <<heapVars, macVars, granted>>
        /\ \A u \in Task \ {t} : call'[u] = call[u]
        /\ \A s \in SockEl : s # el => sock_el'[s] = sock_el[s]
    BY <1>1, <1>4 DEF RecvAwake, TypeInv, TypeOK
  <2>2. \/ /\ sock_el[el].evq = <<>> /\ call'[t] = Idle
           /\ sock_el'[el] = [sock_el[el] EXCEPT !.evq_task = None]
        \/ /\ sock_el[el].evq # <<>>
           /\ call'[t] = [call[t] EXCEPT !.pc = "header", !.ev = Head(sock_el[el].evq)]
           /\ sock_el'[el] = [sock_el[el] EXCEPT !.evq = Tail(sock_el[el].evq), !.evq_task = None]
    BY <1>1, <1>4 DEF RecvAwake, TypeInv, TypeOK
  <2>3. QED
    BY <1>1, <1>2, <2>1, <2>2, ZenonT(30) DEF Element, Call
<1>5. QED
  BY <1>3, <1>4

\* _mcps_indication posts its packet on an element that lorawan_find_el returns
\* for an id that lorawan_find_sock_by_params returns.
LEMMA PostEffect ==
    ASSUME TypeInv, IndicationPosted
    PROVE  \E pkt \in Packet, s \in l_sock_list :
             /\ sock_el[s].sock \in lorawan_find_sock_by_params(pkt.devAddr, pkt.port)
             /\ pkt.seq = rxCount + 1 /\ rxCount' = rxCount + 1
             /\ McpsInd' = pkt
             /\ UNCHANGED <<heapVars, granted>>
             /\ sock_el' = [sock_el EXCEPT ![s] = [sock_el[s] EXCEPT
                              !.evq = Append(sock_el[s].evq, pkt), !.evq_task = None]]
             /\ \A t \in Task :
                  \/ call'[t] = call[t] /\ ~(t = sock_el[s].evq_task /\ call[t].pc = "blocked")
                  \/ /\ call[t].pc = "blocked" /\ call'[t].pc = "awake"
                     /\ call'[t].el = call[t].el /\ call'[t].id = call[t].id
<1>1. PICK h \in Header :
        LET pkt == [devAddr |-> h.devAddr, port |-> h.port, seq |-> rxCount + 1] IN
        /\ Indicate(pkt)
        /\ \E i \in lorawan_find_sock_by_params(h.devAddr, h.port) :
             \E s \in lorawan_find_el(i) : EventqPut(s, pkt)
  BY DEF IndicationPosted
<1> DEFINE pkt == [devAddr |-> h.devAddr, port |-> h.port, seq |-> rxCount + 1]
<1>2. pkt \in Packet
  BY <1>1, RangeAssumption DEF Indicate, Header, Packet, TypeInv, TypeOK
<1>3. PICK s \in l_sock_list :
        /\ sock_el[s].sock \in lorawan_find_sock_by_params(h.devAddr, h.port)
        /\ EventqPut(s, pkt)
  BY <1>1 DEF lorawan_find_el
<1>4. /\ sock_el' = [sock_el EXCEPT ![s] = [sock_el[s] EXCEPT
                        !.evq = Append(sock_el[s].evq, pkt), !.evq_task = None]]
      /\ \A t \in Task :
            \/ call'[t] = call[t] /\ ~(t = sock_el[s].evq_task /\ call[t].pc = "blocked")
            \/ /\ call[t].pc = "blocked" /\ call'[t].pc = "awake"
               /\ call'[t].el = call[t].el /\ call'[t].id = call[t].id
  BY <1>3 DEF EventqPut, TypeInv, TypeOK, Call
<1>5. /\ pkt.seq = rxCount + 1 /\ rxCount' = rxCount + 1
      /\ McpsInd' = pkt
      /\ UNCHANGED <<heapVars, granted>>
  BY <1>1 DEF Indicate, IndicationPosted
<1>6. QED
  BY <1>2, <1>3, <1>4, <1>5
=============================================================================
