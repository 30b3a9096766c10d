------------------------- MODULE SocketTableProofs -------------------------
(***************************************************************************)
(* What the callers of a socket rely on, proved for every value of         *)
(* LorawanSocket's constants under the discipline that the API needs: no   *)
(* call starts inside another one, no socket is bound to address 0, and    *)
(* the counter of ids has not wrapped.                                     *)
(***************************************************************************)
EXTENDS LorawanSocketProofs

USE DEF heapVars, macVars, At, Goto, Return

Discipline == Serialised /\ 0 \notin Addr /\ MaxCpt < SockMod

\* At most one task is inside a call other than lorawan_recv.
Alone == \A t, u \in Task : t # u => ~(call[t].pc \in CallPc /\ call[u].pc \in CallPc)

\* The ids of the list are below the counter, which is the id of the socket
\* being created.
Counted ==
    /\ sock_cpt \in 1 .. MaxCpt
    /\ \A s \in l_sock_list : 0 < sock_el[s].sock /\ sock_el[s].sock < sock_cpt
    /\ \A t \in Task : call[t].pc = "count" =>
         sock_el[call[t].el].sock = sock_cpt /\ sock_cpt < MaxCpt

IdInv == Alone /\ Counted /\ UniqueSockId

\* A socket has ports only on an address, and the bind in progress has seen
\* what is still true of the socket and of the couple it wants.
Binding ==
    /\ \A s \in l_sock_list : sock_el[s].ports # {} => sock_el[s].devAddr # 0
    /\ \A t \in Task : call[t].pc = "count" =>
         sock_el[call[t].el].devAddr = 0 /\ sock_el[call[t].el].ports = {}
    /\ \A t \in Task : call[t].pc = "bind_addr" => sock_el[call[t].el].devAddr = 0
    /\ \A t \in Task : call[t].pc = "bind_port" =>
         /\ sock_el[call[t].el].devAddr = call[t].addr
         /\ call[t].port # 0
         /\ Matching(call[t].addr, call[t].port) = {}
         /\ call[t].word = {q \in sock_el[call[t].el].ports : Slot(q) = Slot(call[t].port)}

BindInv == Binding /\ BindExclusive /\ BindingsKept /\ QueueMatchesBinding

-----------------------------------------------------------------------------
(* The ids.                                                                *)

\* Every step of serialised calls keeps the ids distinct and counted.
LEMMA IdStep == Discipline /\ TypeInv /\ IdInv /\ [Next]_vars => IdInv'
<1> SUFFICES ASSUME Discipline /\ TypeInv /\ IdInv, [Next]_vars
             PROVE  IdInv'
  OBVIOUS
<1>0. TypeOK /\ Pointers /\ RangeAssumption
  BY RangeAssumption DEF TypeInv
<1>1. ASSUME NEW t \in Task, SocketAlloc(t)
      PROVE  IdInv'
  BY <1>1, <1>0 DEF SocketAlloc, Zeroed, Idle, MayCall, TypeOK, Pointers, IdInv, Alone,
     Counted, UniqueSockId, Discipline, RangeAssumption, Call, CallPc, Element, SockId
<1>2. ASSUME NEW t \in Task, CloseCheck(t)
      PROVE  IdInv'
  BY <1>2, <1>0 DEF CloseCheck, lorawan_find_el, Idle, MayCall, TypeOK, Pointers, IdInv, Alone,
     Counted, UniqueSockId, Discipline, RangeAssumption, Call, CallPc, Element, SockId
<1>3. ASSUME NEW t \in Task, BindLookup(t)
      PROVE  IdInv'
  BY <1>3, <1>0 DEF BindLookup, lorawan_find_el, Idle, MayCall, TypeOK, Pointers, IdInv, Alone,
     Counted, UniqueSockId, Discipline, RangeAssumption, Call, CallPc, Element, SockId
<1>4. ASSUME NEW t \in Task, RecvLookup(t)
      PROVE  IdInv'
  BY <1>4, <1>0 DEF RecvLookup, lorawan_find_el, Idle, MayCall, TypeOK, Pointers, IdInv, Alone,
     Counted, UniqueSockId, Discipline, RangeAssumption, Call, CallPc, Element, SockId
<1>5. ASSUME NEW t \in Task, RecvTimeout(t)
      PROVE  IdInv'
  BY <1>5, <1>0 DEF RecvTimeout, TypeOK, Pointers, IdInv, Alone,
     Counted, UniqueSockId, Discipline, RangeAssumption, Call, CallPc, Element, SockId
<1>6. ASSUME NEW t \in Task, SocketInsert(t)
      PROVE  IdInv'
  <2> DEFINE el == call[t].el
  <2>1. /\ call[t].pc = "count" /\ el \in SockEl /\ el \notin l_sock_list
        /\ sock_el[el].sock = sock_cpt /\ sock_cpt < MaxCpt
        /\ l_sock_list' = l_sock_list \cup {el}
        /\ call' = [call EXCEPT ![t] = Idle]
    BY <1>6, <1>0 DEF SocketInsert, TypeOK, Pointers, IdInv, Counted
  <2>2. sock_cpt' = sock_cpt + 1 /\ sock_cpt \in 1 .. MaxCpt
    <3>1. sock_cpt' = (sock_cpt + 1) % SockMod
      BY <1>6, <2>1 DEF SocketInsert
    <3>2. sock_cpt \in 1 .. MaxCpt /\ sock_cpt + 1 < SockMod
      BY <1>0, <2>1 DEF RangeAssumption, Discipline, IdInv, Counted
    <3>3. QED
      BY <1>0, <3>1, <3>2 DEF RangeAssumption
  <2>3. \A s \in SockEl : sock_el'[s].sock = sock_el[s].sock
    BY <1>6, <1>0, <2>1 DEF SocketInsert, TypeOK, Element
  <2>4. \A u \in Task : call'[u].pc \in CallPc => u # t /\ call'[u] = call[u]
    BY <1>0, <2>1 DEF Idle, CallPc, TypeOK
  <2>5. \A u \in Task : call'[u].pc # "count"
    BY <1>0, <2>1, <2>4 DEF IdInv, Alone, CallPc, Idle, TypeOK
  <2>6. Alone'
    BY <2>4 DEF IdInv, Alone
  <2>7. Counted'
    <3>1. sock_cpt' \in 1 .. MaxCpt
      BY <1>0, <2>1, <2>2 DEF RangeAssumption
    <3>2. \A s \in l_sock_list : s \in SockEl /\ sock_el[s].sock \in Nat
      BY <1>0 DEF TypeOK, Element, SockId
    <3>3. \A s \in l_sock_list' : 0 < sock_el'[s].sock /\ sock_el'[s].sock < sock_cpt'
      BY <2>1, <2>2, <2>3, <3>2 DEF IdInv, Counted
    <3>4. QED
      BY <2>5, <3>1, <3>3 DEF Counted
  <2>8. UniqueSockId'
    BY <1>0, <2>1, <2>3 DEF IdInv, Counted, UniqueSockId, TypeOK
  <2>9. QED
    BY <2>6, <2>7, <2>8 DEF IdInv
<1>7. ASSUME NEW t \in Task, CloseFree(t)
      PROVE  IdInv'
  BY <1>7, <1>0 DEF CloseFree, Idle, TypeOK, Pointers, IdInv, Alone,
     Counted, UniqueSockId, Discipline, RangeAssumption, Call, CallPc, Element, SockId
<1>8. ASSUME NEW t \in Task, BindAddr(t)
      PROVE  IdInv'
  BY <1>8, <1>0 DEF BindAddr, TypeOK, Pointers, IdInv, Alone,
     Counted, UniqueSockId, Discipline, RangeAssumption, Call, CallPc, Element, SockId
<1>9. ASSUME NEW t \in Task, BindCheck(t)
      PROVE  IdInv'
  <2>1. /\ UNCHANGED <<heapVars, sock_el>> /\ call[t].pc = "bind_check"
        /\ \A u \in Task \ {t} : call'[u] = call[u]
        /\ call'[t] = Idle \/ call'[t].pc = "bind_port"
    BY <1>9, BindCheckEffect
  <2>2. QED
    BY <2>1 DEF IdInv, Alone, Counted, UniqueSockId, Idle, CallPc
<1>10. ASSUME NEW t \in Task, BindPort(t)
       PROVE  IdInv'
  BY <1>10, <1>0 DEF BindPort, Idle, TypeOK, Pointers, IdInv, Alone,
     Counted, UniqueSockId, Discipline, RangeAssumption, Call, CallPc, Element, SockId
<1>11. ASSUME NEW t \in Task, RecvPoll(t)
       PROVE  IdInv'
  <2> DEFINE el == call[t].el
  <2>1. /\ UNCHANGED heapVars
        /\ \A u \in Task \ {t} : call'[u] = call[u]
        /\ call'[t] = Idle \/ call'[t].pc \in {"blocked", "header"}
        /\ \A s \in SockEl : s # el => sock_el'[s] = sock_el[s]
        /\ sock_el'[el].sock = sock_el[el].sock
    BY <1>11, RecvEffect
  <2>2. \A s \in SockEl : sock_el'[s].sock = sock_el[s].sock
    BY <2>1
  <2>3. \A u \in Task : call'[u].pc \in CallPc => call'[u] = call[u]
    BY <2>1 DEF Idle, CallPc
  <2>4. QED
    BY <1>0, <2>1, <2>2, <2>3 DEF IdInv, Alone, Counted, UniqueSockId, TypeOK, Pointers, CallPc
<1>12. ASSUME NEW t \in Task, RecvAwake(t)
       PROVE  IdInv'
  <2> DEFINE el == call[t].el
  <2>1. /\ UNCHANGED heapVars
        /\ \A u \in Task \ {t} : call'[u] = call[u]
        /\ call'[t] = Idle \/ call'[t].pc \in {"blocked", "header"}
        /\ \A s \in SockEl : s # el => sock_el'[s] = sock_el[s]
        /\ sock_el'[el].sock = sock_el[el].sock
    BY <1>12, RecvEffect
  <2>2. \A s \in SockEl : sock_el'[s].sock = sock_el[s].sock
    BY <2>1
  <2>3. \A u \in Task : call'[u].pc \in CallPc => call'[u] = call[u]
    BY <2>1 DEF Idle, CallPc
  <2>4. QED
    BY <1>0, <2>1, <2>2, <2>3 DEF IdInv, Alone, Counted, UniqueSockId, TypeOK, Pointers, CallPc
<1>13. ASSUME NEW t \in Task, RecvHeader(t)
       PROVE  IdInv'
  BY <1>13, <1>0 DEF RecvHeader, TypeOK, Pointers, IdInv, Alone,
     Counted, UniqueSockId, Discipline, RangeAssumption, Call, CallPc, Element, SockId
<1>14. ASSUME NEW t \in Task, RecvPayload(t)
       PROVE  IdInv'
  BY <1>14, <1>0 DEF RecvPayload, Idle, TypeOK, Pointers, IdInv, Alone,
     Counted, UniqueSockId, Discipline, RangeAssumption, Call, CallPc, Element, SockId
<1>15. CASE IndicationDropped
  BY <1>15, <1>0 DEF IndicationDropped, Indicate, TypeOK, Pointers, IdInv, Alone,
     Counted, UniqueSockId, Discipline, RangeAssumption, Call, CallPc, Element, SockId
<1>16. CASE IndicationPosted
  <2>1. PICK pkt \in Packet, s \in l_sock_list :
           /\ UNCHANGED heapVars
           /\ sock_el' = [sock_el EXCEPT ![s] = [sock_el[s] EXCEPT
                            !.evq = Append(sock_el[s].evq, pkt), !.evq_task = None]]
           /\ \A t \in Task :
                \/ call'[t] = call[t]
                \/ call[t].pc = "blocked" /\ call'[t].pc = "awake"
    BY <1>16, PostEffect
  <2>2. \A r \in SockEl : sock_el'[r].sock = sock_el[r].sock
    BY <1>0, <2>1 DEF TypeOK, Element
  <2>3. \A u \in Task : call'[u].pc \in CallPc => call'[u] = call[u]
    BY <2>1 DEF CallPc
  <2>4. QED
    BY <1>0, <2>1, <2>2, <2>3 DEF IdInv, Alone, Counted, UniqueSockId, TypeOK, Pointers, CallPc
<1>17. CASE UNCHANGED vars
  BY <1>17 DEF vars, TypeOK, Pointers, IdInv, Alone,
     Counted, UniqueSockId, Discipline, RangeAssumption, Call, CallPc, Element, SockId
<1>18. QED
  BY <1>1, <1>2, <1>3, <1>4, <1>5, <1>6, <1>7, <1>8, <1>9, <1>10, <1>11, <1>12, <1>13,
     <1>14, <1>15, <1>16, <1>17 DEF Next, Step

\* In serialised use and before the counter wraps, lorawan_socket gives every
\* socket an id of its own.
THEOREM UniqueIds == ASSUME Discipline PROVE Spec => []UniqueSockId
<1>1. Init => IdInv
  BY RangeAssumption DEF Init, IdInv, Alone, Counted, UniqueSockId, Idle, CallPc
<1>2. IdInv => UniqueSockId
  BY DEF IdInv
<1>3. QED
  BY <1>1, <1>2, IdStep, TypeInvariant, PTL DEF Spec

-----------------------------------------------------------------------------
(* The binds.                                                              *)

\* A step that changes no list, address or port, and enters or continues no
\* bind, keeps what the bind in progress has seen.
LEMMA BindingFrame ==
    ASSUME TypeInv, Binding,
           l_sock_list' = l_sock_list,
           \A s \in SockEl : /\ sock_el'[s].devAddr = sock_el[s].devAddr
                             /\ sock_el'[s].ports = sock_el[s].ports,
           \A t \in Task : call'[t].pc \in {"count", "bind_addr", "bind_port"} => call'[t] = call[t]
    PROVE  Binding'
<1>1. /\ l_sock_list \subseteq SockEl
      /\ \A t \in Task : call[t].pc # "idle" => call[t].el \in SockEl
  BY DEF TypeInv, TypeOK, Pointers
<1>2. \A a, p : {s \in l_sock_list : sock_el'[s].devAddr = a /\ p \in sock_el'[s].ports}
                = {s \in l_sock_list : sock_el[s].devAddr = a /\ p \in sock_el[s].ports}
  BY <1>1
<1>3. \A s \in l_sock_list' : sock_el'[s].ports # {} => sock_el'[s].devAddr # 0
  BY <1>1 DEF Binding
<1>4. \A t \in Task : call'[t].pc \in {"count", "bind_addr", "bind_port"} =>
        /\ call'[t] = call[t]
        /\ sock_el'[call[t].el].devAddr = sock_el[call[t].el].devAddr
        /\ sock_el'[call[t].el].ports = sock_el[call[t].el].ports
  BY <1>1
<1>5. \A t \in Task : call'[t].pc = "count" =>
        sock_el'[call'[t].el].devAddr = 0 /\ sock_el'[call'[t].el].ports = {}
  BY <1>4 DEF Binding
<1>6. \A t \in Task : call'[t].pc = "bind_addr" => sock_el'[call'[t].el].devAddr = 0
  BY <1>4 DEF Binding
<1>7. ASSUME NEW t \in Task, call'[t].pc = "bind_port"
      PROVE  /\ sock_el'[call'[t].el].devAddr = call'[t].addr
             /\ call'[t].port # 0
             /\ {s \in l_sock_list' : /\ sock_el'[s].devAddr = call'[t].addr
                                      /\ call'[t].port \in sock_el'[s].ports} = {}
             /\ call'[t].word = {q \in sock_el'[call'[t].el].ports : Slot(q) = Slot(call'[t].port)}
  <2>1. call'[t] = call[t] /\ call[t].pc = "bind_port"
    BY <1>4, <1>7
  <2>2. /\ sock_el[call[t].el].devAddr = call[t].addr
        /\ call[t].port # 0
        /\ {s \in l_sock_list : /\ sock_el[s].devAddr = call[t].addr
                                /\ call[t].port \in sock_el[s].ports} = {}
        /\ call[t].word = {q \in sock_el[call[t].el].ports : Slot(q) = Slot(call[t].port)}
    BY <2>1 DEF Binding, Matching
  <2>3. QED
    BY <1>2, <1>4, <1>7, <2>1, <2>2
<1>8. QED
  BY <1>3, <1>5, <1>6, <1>7 DEF Binding, Matching

\* When moreover the step keeps the binds granted and adds no event, it keeps
\* all that is known of the binds.
LEMMA BindFrame ==
    ASSUME TypeInv, BindInv,
           l_sock_list' = l_sock_list, granted' = granted,
           \A s \in SockEl : /\ sock_el'[s].devAddr = sock_el[s].devAddr
                             /\ sock_el'[s].ports = sock_el[s].ports,
           \A s \in SockEl : \A k \in DOMAIN sock_el'[s].evq :
              \E j \in DOMAIN sock_el[s].evq : sock_el'[s].evq[k] = sock_el[s].evq[j],
           \A t \in Task : call'[t].pc \in {"count", "bind_addr", "bind_port"} => call'[t] = call[t]
    PROVE  BindInv'
<1>1. l_sock_list \subseteq SockEl
  BY DEF TypeInv, TypeOK
<1>2. Binding'
  BY BindingFrame DEF BindInv
<1>3. BindExclusive'
  BY <1>1 DEF BindInv, BindExclusive
<1>4. BindingsKept'
  BY <1>1 DEF BindInv, BindingsKept
<1>5. QueueMatchesBinding'
  BY <1>1 DEF BindInv, QueueMatchesBinding
<1>6. QED
  BY <1>2, <1>3, <1>4, <1>5 DEF BindInv

\* Every step of serialised calls keeps the binds exclusive and in force.
LEMMA BindStep == Discipline /\ TypeInv /\ IdInv /\ BindInv /\ [Next]_vars => BindInv'
<1> SUFFICES ASSUME Discipline /\ TypeInv /\ IdInv /\ BindInv, [Next]_vars
             PROVE  BindInv'
  OBVIOUS
<1>0. TypeOK /\ Pointers /\ Locals
  BY DEF TypeInv
<1>1. ASSUME NEW t \in Task, SocketAlloc(t)
      PROVE  BindInv'
  <2>1. PICK s \in SockEl \ allocated :
           /\ sock_el' = [sock_el EXCEPT ![s] = [Zeroed EXCEPT !.sock = sock_cpt]]
           /\ call' = [call EXCEPT ![t] = [Idle EXCEPT !.pc = "count", !.el = s]]
    BY <1>1 DEF SocketAlloc
  <2>2. l_sock_list' = l_sock_list /\ granted' = granted /\ l_sock_list \subseteq SockEl \ {s}
    BY <1>0, <1>1 DEF SocketAlloc, TypeOK
  <2>3. /\ \A r \in SockEl \ {s} : sock_el'[r] = sock_el[r]
        /\ sock_el'[s].devAddr = 0 /\ sock_el'[s].ports = {}
    BY <1>0, <2>1 DEF Zeroed, TypeOK
  <2>4. \A u \in Task \ {t} :
           call'[u] = call[u] /\ (call[u].pc # "idle" => call[u].el \in SockEl \ {s})
    BY <1>0, <2>1 DEF TypeOK, Pointers
  <2>5. call'[t].pc = "count" /\ call'[t].el = s
    BY <1>0, <2>1 DEF Idle, TypeOK
  <2>6. \A a, p : {r \in l_sock_list : sock_el'[r].devAddr = a /\ p \in sock_el'[r].ports}
                  = Matching(a, p)
    BY <2>2, <2>3 DEF Matching
  <2>7. Binding'
    BY <2>2, <2>3, <2>4, <2>5, <2>6 DEF BindInv, Binding, Matching
  <2>8. BindExclusive' /\ QueueMatchesBinding'
    BY <2>2, <2>3 DEF BindInv, BindExclusive, QueueMatchesBinding
  <2>9. BindingsKept'
    BY <2>2, <2>3 DEF BindInv, BindingsKept
  <2>10. QED
    BY <2>7, <2>8, <2>9 DEF BindInv
<1>2. ASSUME NEW t \in Task, CloseCheck(t)
      PROVE  BindInv'
  <2>1. /\ l_sock_list' = l_sock_list /\ granted' = granted
        /\ sock_el' = sock_el
        /\ \A u \in Task : call'[u].pc \in {"count", "bind_addr", "bind_port"} =>
             call'[u] = call[u]
    BY <1>0, <1>2 DEF CloseCheck, lorawan_find_el, Idle, TypeOK
  <2>2. QED
    BY <2>1, BindFrame
<1>3. ASSUME NEW t \in Task, BindLookup(t)
      PROVE  BindInv'
  BY <1>3, <1>0 DEF BindLookup, lorawan_find_el, Idle, MayCall, TypeOK, Pointers, Locals, IdInv,
     Alone, BindInv, Binding, BindExclusive, BindingsKept, QueueMatchesBinding, Matching,
     Discipline, Call, CallPc, Element
<1>4. ASSUME NEW t \in Task, RecvLookup(t)
      PROVE  BindInv'
  <2>1. /\ l_sock_list' = l_sock_list /\ granted' = granted
        /\ sock_el' = sock_el
        /\ \A u \in Task : call'[u].pc \in {"count", "bind_addr", "bind_port"} =>
             call'[u] = call[u]
    BY <1>0, <1>4 DEF RecvLookup, lorawan_find_el, Idle, TypeOK
  <2>2. QED
    BY <2>1, BindFrame
<1>5. ASSUME NEW t \in Task, RecvTimeout(t)
      PROVE  BindInv'
  <2>1. /\ l_sock_list' = l_sock_list /\ granted' = granted
        /\ sock_el' = sock_el
        /\ \A u \in Task : call'[u].pc \in {"count", "bind_addr", "bind_port"} =>
             call'[u] = call[u]
    BY <1>0, <1>5 DEF RecvTimeout, Call, TypeOK
  <2>2. QED
    BY <2>1, BindFrame
<1>6. ASSUME NEW t \in Task, SocketInsert(t)
      PROVE  BindInv'
  <2> DEFINE el == call[t].el
  <2>1. /\ call[t].pc = "count" /\ el \in SockEl /\ el \notin l_sock_list
        /\ sock_el[el].devAddr = 0 /\ sock_el[el].ports = {}
        /\ l_sock_list' = l_sock_list \cup {el} /\ granted' = granted
        /\ l_sock_list \subseteq SockEl
        /\ call' = [call EXCEPT ![t] = Idle]
    BY <1>0, <1>6 DEF SocketInsert, TypeOK, Pointers, BindInv, Binding
  <2>2. /\ \A r \in SockEl \ {el} : sock_el'[r] = sock_el[r]
        /\ sock_el'[el].devAddr = 0 /\ sock_el'[el].ports = {} /\ sock_el'[el].evq = <<>>
    BY <1>0, <1>6, <2>1 DEF SocketInsert, TypeOK, Element
  <2>3. \A u \in Task : call'[u].pc \notin CallPc
    BY <1>0, <2>1 DEF IdInv, Alone, CallPc, Idle, TypeOK
  <2>4. Binding'
    BY <2>1, <2>2, <2>3 DEF BindInv, Binding, CallPc
  <2>5. BindExclusive'
    BY <2>1, <2>2 DEF BindInv, BindExclusive
  <2>6. BindingsKept'
    BY <2>1, <2>2 DEF BindInv, BindingsKept
  <2>7. QueueMatchesBinding'
    BY <2>1, <2>2 DEF BindInv, QueueMatchesBinding
  <2>8. QED
    BY <2>4, <2>5, <2>6, <2>7 DEF BindInv
<1>7. ASSUME NEW t \in Task, CloseFree(t)
      PROVE  BindInv'
  BY <1>7, <1>0 DEF CloseFree, Idle, TypeOK, Pointers, Locals, IdInv,
     Alone, BindInv, Binding, BindExclusive, BindingsKept, QueueMatchesBinding, Matching,
     Discipline, Call, CallPc, Element
<1>8. ASSUME NEW t \in Task, BindAddr(t)
      PROVE  BindInv'
  BY <1>8, <1>0 DEF BindAddr, TypeOK, Pointers, Locals, IdInv,
     Alone, BindInv, Binding, BindExclusive, BindingsKept, QueueMatchesBinding, Matching,
     Discipline, Call, CallPc, Element
<1>9. ASSUME NEW t \in Task, BindCheck(t)
      PROVE  BindInv'
  <2> DEFINE el == call[t].el
  <2>1. /\ call[t].pc = "bind_check"
        /\ UNCHANGED <<l_sock_list, sock_el, granted>>
        /\ \A u \in Task \ {t} : call'[u] = call[u]
    BY <1>9, BindCheckEffect
  <2>2. CASE call'[t] = Idle
    <3>1. \A u \in Task : call'[u].pc \in {"count", "bind_addr", "bind_port"} =>
             call'[u] = call[u]
      BY <2>1, <2>2 DEF Idle
    <3>2. QED
      BY <2>1, <3>1, BindFrame
  <2>3. CASE call'[t].pc = "bind_port"
    <3>1. /\ call'[t].el = el
          /\ call'[t].addr = call[t].addr /\ call'[t].port = call[t].port
          /\ call'[t].word = {q \in sock_el[el].ports : Slot(q) = Slot(call[t].port)}
          /\ sock_el[el].devAddr = call[t].addr
          /\ call[t].port # 0
          /\ 0 \in lorawan_find_sock_by_params(call[t].addr, call[t].port)
      BY <1>9, <2>3, BindCheckEffect DEF Idle
    <3>2. Matching(call[t].addr, call[t].port) = {}
      BY <3>1 DEF lorawan_find_sock_by_params, Matching, IdInv, Counted
    <3>3. Binding'
      BY <2>1, <2>3, <3>1, <3>2 DEF BindInv, Binding, Matching
    <3>4. BindExclusive' /\ BindingsKept' /\ QueueMatchesBinding'
      BY <2>1 DEF BindInv, BindExclusive, BindingsKept, QueueMatchesBinding
    <3>5. QED
      BY <3>3, <3>4 DEF BindInv
  <2>4. QED
    BY <1>9, <2>2, <2>3, BindCheckEffect
<1>10. ASSUME NEW t \in Task, BindPort(t)
       PROVE  BindInv'
  <2> DEFINE el == call[t].el
  <2>1. /\ call[t].pc = "bind_port" /\ el \in SockEl /\ el \in l_sock_list
        /\ l_sock_list' = l_sock_list /\ l_sock_list \subseteq SockEl
        /\ granted' = granted \cup {<<el, call[t].addr, call[t].port>>}
        /\ call' = [call EXCEPT ![t] = Idle]
        /\ call[t].addr \in Addr /\ call[t].port \in Port
    BY <1>0, <1>10 DEF BindPort, TypeOK, Pointers, Locals
  <2>2. /\ \A r \in SockEl \ {el} : sock_el'[r] = sock_el[r]
        /\ sock_el'[el].devAddr = sock_el[el].devAddr /\ sock_el'[el].evq = sock_el[el].evq
        /\ sock_el'[el].ports = {q \in sock_el[el].ports : Slot(q) # Slot(call[t].port)}
                                   \cup call[t].word \cup {call[t].port}
    BY <1>0, <1>10, <2>1 DEF BindPort, TypeOK, Element
  <2>3. /\ sock_el[el].devAddr = call[t].addr
        /\ Matching(call[t].addr, call[t].port) = {}
        /\ call[t].word = {q \in sock_el[el].ports : Slot(q) = Slot(call[t].port)}
    BY <2>1 DEF BindInv, Binding
  <2>4. sock_el'[el].ports = sock_el[el].ports \cup {call[t].port}
    BY <2>2, <2>3
  <2>5. \A u \in Task : call'[u].pc \notin CallPc
    BY <1>0, <2>1 DEF IdInv, Alone, CallPc, Idle, TypeOK
  <2>6. sock_el[el].devAddr # 0
    BY <2>1, <2>3 DEF Discipline
  <2>7. Binding'
    BY <2>1, <2>2, <2>5, <2>6 DEF BindInv, Binding, CallPc
  <2>8. BindExclusive'
    <3>1. \A r \in l_sock_list : sock_el[r].devAddr = call[t].addr => call[t].port \notin sock_el[r].ports
      BY <2>3 DEF Matching
    <3>2. \A r \in l_sock_list \ {el} : sock_el[r].devAddr = sock_el[el].devAddr =>
             sock_el[r].ports \cap (sock_el[el].ports \cup {call[t].port}) = {}
      BY <2>1, <2>3, <3>1 DEF BindInv, BindExclusive
    <3>3. QED
      BY <2>1, <2>2, <2>4, <3>2 DEF BindInv, BindExclusive
  <2>9. BindingsKept'
    <3>1. \A g \in granted : /\ g[1] \in l_sock_list /\ sock_el'[g[1]].devAddr = g[2]
                            /\ g[3] \in sock_el'[g[1]].ports
      BY <2>1, <2>2, <2>4 DEF BindInv, BindingsKept
    <3>2. QED
      BY <2>1, <2>2, <2>3, <2>4, <3>1 DEF BindingsKept
  <2>10. QueueMatchesBinding'
    BY <2>1, <2>2, <2>4 DEF BindInv, QueueMatchesBinding
  <2>11. QED
    BY <2>7, <2>8, <2>9, <2>10 DEF BindInv
<1>11. ASSUME NEW t \in Task, RecvPoll(t)
       PROVE  BindInv'
  <2> DEFINE el == call[t].el
  <2>1. /\ l_sock_list' = l_sock_list /\ granted' = granted
        /\ el \in SockEl
        /\ \A u \in Task \ {t} : call'[u] = call[u]
        /\ call'[t] = Idle \/ call'[t].pc \in {"blocked", "header"}
        /\ \A s \in SockEl : s # el => sock_el'[s] = sock_el[s]
        /\ sock_el'[el].devAddr = sock_el[el].devAddr
        /\ sock_el'[el].ports = sock_el[el].ports
        /\ \/ sock_el'[el].evq = <<>>
           \/ sock_el[el].evq # <<>> /\ sock_el'[el].evq = Tail(sock_el[el].evq)
    BY <1>11, RecvEffect
  <2>2. \A k \in DOMAIN sock_el'[el].evq :
           \E j \in DOMAIN sock_el[el].evq : sock_el'[el].evq[k] = sock_el[el].evq[j]
    <3>1. CASE sock_el'[el].evq = <<>>
      BY <3>1
    <3>2. CASE sock_el[el].evq # <<>> /\ sock_el'[el].evq = Tail(sock_el[el].evq)
      <4>1. sock_el[el].evq \in Seq(Packet)
        BY <1>0, <2>1 DEF TypeOK, Element
      <4>2. QED
        BY <3>2, <4>1, QueueTail
    <3>3. QED
      BY <2>1, <3>1, <3>2
  <2>3. \A u \in Task : call'[u].pc \in {"count", "bind_addr", "bind_port"} => call'[u] = call[u]
    BY <2>1 DEF Idle
  <2>4. \A s \in SockEl : /\ sock_el'[s].devAddr = sock_el[s].devAddr
                          /\ sock_el'[s].ports = sock_el[s].ports
    BY <2>1
  <2>5. \A s \in SockEl : \A k \in DOMAIN sock_el'[s].evq :
           \E j \in DOMAIN sock_el[s].evq : sock_el'[s].evq[k] = sock_el[s].evq[j]
    BY <2>1, <2>2
  <2>6. QED
    BY <2>1, <2>3, <2>4, <2>5, BindFrame
<1>12. ASSUME NEW t \in Task, RecvAwake(t)
       PROVE  BindInv'
  <2> DEFINE el == call[t].el
  <2>1. /\ l_sock_list' = l_sock_list /\ granted' = granted
        /\ el \in SockEl
        /\ \A u \in Task \ {t} : call'[u] = call[u]
        /\ call'[t] = Idle \/ call'[t].pc \in {"blocked", "header"}
        /\ \A s \in SockEl : s # el => sock_el'[s] = sock_el[s]
        /\ sock_el'[el].devAddr = sock_el[el].devAddr
        /\ sock_el'[el].ports = sock_el[el].ports
        /\ \/ sock_el'[el].evq = <<>>
           \/ sock_el[el].evq # <<>> /\ sock_el'[el].evq = Tail(sock_el[el].evq)
    BY <1>12, RecvEffect
  <2>2. \A k \in DOMAIN sock_el'[el].evq :
           \E j \in DOMAIN sock_el[el].evq : sock_el'[el].evq[k] = sock_el[el].evq[j]
    <3>1. CASE sock_el'[el].evq = <<>>
      BY <3>1
    <3>2. CASE sock_el[el].evq # <<>> /\ sock_el'[el].evq = Tail(sock_el[el].evq)
      <4>1. sock_el[el].evq \in Seq(Packet)
        BY <1>0, <2>1 DEF TypeOK, Element
      <4>2. QED
        BY <3>2, <4>1, QueueTail
    <3>3. QED
      BY <2>1, <3>1, <3>2
  <2>3. \A u \in Task : call'[u].pc \in {"count", "bind_addr", "bind_port"} => call'[u] = call[u]
    BY <2>1 DEF Idle
  <2>4. \A s \in SockEl : /\ sock_el'[s].devAddr = sock_el[s].devAddr
                          /\ sock_el'[s].ports = sock_el[s].ports
    BY <2>1
  <2>5. \A s \in SockEl : \A k \in DOMAIN sock_el'[s].evq :
           \E j \in DOMAIN sock_el[s].evq : sock_el'[s].evq[k] = sock_el[s].evq[j]
    BY <2>1, <2>2
  <2>6. QED
    BY <2>1, <2>3, <2>4, <2>5, BindFrame
<1>13. ASSUME NEW t \in Task, RecvHeader(t)
       PROVE  BindInv'
  <2>1. /\ l_sock_list' = l_sock_list /\ granted' = granted
        /\ sock_el' = sock_el
        /\ \A u \in Task : call'[u].pc \in {"count", "bind_addr", "bind_port"} =>
             call'[u] = call[u]
    BY <1>0, <1>13 DEF RecvHeader, Call, TypeOK
  <2>2. QED
    BY <2>1, BindFrame
<1>14. ASSUME NEW t \in Task, RecvPayload(t)
       PROVE  BindInv'
  <2>1. /\ l_sock_list' = l_sock_list /\ granted' = granted
        /\ sock_el' = sock_el
        /\ \A u \in Task : call'[u].pc \in {"count", "bind_addr", "bind_port"} =>
             call'[u] = call[u]
    BY <1>0, <1>14 DEF RecvPayload, Idle, TypeOK
  <2>2. QED
    BY <2>1, BindFrame
<1>15. CASE IndicationDropped
  <2>1. /\ l_sock_list' = l_sock_list /\ granted' = granted
        /\ sock_el' = sock_el
        /\ \A u \in Task : call'[u].pc \in {"count", "bind_addr", "bind_port"} =>
             call'[u] = call[u]
    BY <1>0, <1>15 DEF IndicationDropped, TypeOK
  <2>2. QED
    BY <2>1, BindFrame
<1>16. CASE IndicationPosted
  <2>1. PICK pkt \in Packet, s \in l_sock_list :
           /\ sock_el[s].sock \in lorawan_find_sock_by_params(pkt.devAddr, pkt.port)
           /\ UNCHANGED <<heapVars, granted>>
           /\ sock_el' = [sock_el EXCEPT ![s] = [sock_el[s] EXCEPT
                            !.evq = Append(sock_el[s].evq, pkt), !.evq_task = None]]
           /\ \A t \in Task :
                \/ call'[t] = call[t]
                \/ call[t].pc = "blocked" /\ call'[t].pc = "awake"
    BY <1>16, PostEffect
  <2>2. l_sock_list \subseteq SockEl /\ sock_el[s] \in Element
    BY <1>0 DEF TypeOK
  <2>3. /\ \A r \in SockEl \ {s} : sock_el'[r] = sock_el[r]
        /\ sock_el'[s].devAddr = sock_el[s].devAddr /\ sock_el'[s].ports = sock_el[s].ports
        /\ sock_el'[s].evq = Append(sock_el[s].evq, pkt)
    BY <1>0, <2>1, <2>2 DEF TypeOK, Element
  <2>4. sock_el[s].devAddr = pkt.devAddr /\ pkt.port \in sock_el[s].ports
    <3>1. sock_el[s].sock # 0
      BY DEF IdInv, Counted
    <3>2. PICK r \in Matching(pkt.devAddr, pkt.port) : sock_el[r].sock = sock_el[s].sock
      BY <2>1, <3>1 DEF lorawan_find_sock_by_params
    <3>3. QED
      BY <3>2 DEF IdInv, UniqueSockId, Matching
  <2>5. \A u \in Task : call'[u].pc \in {"count", "bind_addr", "bind_port"} => call'[u] = call[u]
    BY <2>1
  <2>6. Binding'
    <3>1. \A r \in SockEl : /\ sock_el'[r].devAddr = sock_el[r].devAddr
                            /\ sock_el'[r].ports = sock_el[r].ports
      BY <2>3
    <3>2. Binding /\ l_sock_list' = l_sock_list
      BY <2>1 DEF BindInv
    <3>3. QED
      BY <2>5, <3>1, <3>2, BindingFrame
  <2>7. BindExclusive'
    BY <2>1, <2>2, <2>3 DEF BindInv, BindExclusive
  <2>8. BindingsKept'
    BY <2>1, <2>2, <2>3 DEF BindInv, BindingsKept
  <2>9. QueueMatchesBinding'
    <3>1. sock_el[s].evq \in Seq(Packet)
      BY <2>2 DEF Element
    <3>2. \A k \in DOMAIN sock_el'[s].evq :
             sock_el'[s].evq[k] = pkt \/ (k \in DOMAIN sock_el[s].evq /\ sock_el'[s].evq[k] = sock_el[s].evq[k])
      BY <2>3, <3>1
    <3>3. QED
      BY <2>1, <2>2, <2>3, <2>4, <3>2 DEF BindInv, QueueMatchesBinding
  <2>10. QED
    BY <2>6, <2>7, <2>8, <2>9, SMTT(30) DEF BindInv
<1>17. CASE UNCHANGED vars
  BY <1>17 DEF vars, TypeOK, Pointers, Locals, IdInv,
     Alone, BindInv, Binding, BindExclusive, BindingsKept, QueueMatchesBinding, Matching,
     Discipline, Call, CallPc, Element
<1>18. QED
  BY <1>1, <1>2, <1>3, <1>4, <1>5, <1>6, <1>7, <1>8, <1>9, <1>10, <1>11, <1>12, <1>13,
     <1>14, <1>15, <1>16, <1>17 DEF Next, Step

\* In serialised use, with no socket bound to address 0, a couple devAddr/port
\* belongs to one socket, every bind that returned OK stays in force, and a
\* queued event belongs to a couple of its socket.
LEMMA BindInvariant == ASSUME Discipline PROVE Spec => []BindInv
<1>1. Init => IdInv
  BY RangeAssumption DEF Init, IdInv, Alone, Counted, UniqueSockId, Idle, CallPc
<1>2. Init => BindInv
  BY DEF Init, BindInv, Binding, BindExclusive, BindingsKept, QueueMatchesBinding, Idle
<1>3. QED
  BY <1>1, <1>2, IdStep, BindStep, TypeInvariant, PTL DEF Spec

\* "A devAddr/port couple can be binded to only one socket" (lorawan_api.h:126)
\* for any number of tasks, sockets, addresses and ports.
THEOREM BindsExclusive == ASSUME Discipline PROVE Spec => []BindExclusive
<1>1. BindInv => BindExclusive
  BY DEF BindInv
<1>2. QED
  BY <1>1, BindInvariant, PTL

\* A bind that returned OK is in force until its socket is closed.
THEOREM BindsKept == ASSUME Discipline PROVE Spec => []BindingsKept
<1>1. BindInv => BindingsKept
  BY DEF BindInv
<1>2. QED
  BY <1>1, BindInvariant, PTL

\* No event waits on a socket that is not bound to its address and port.
THEOREM QueuesMatch == ASSUME Discipline PROVE Spec => []QueueMatchesBinding
<1>1. BindInv => QueueMatchesBinding
  BY DEF BindInv
<1>2. QED
  BY <1>1, BindInvariant, PTL

-----------------------------------------------------------------------------
(* The refinement of SocketTable.                                          *)

\* What the caller sees of a list L of elements whose contents are el.
IdsOf(L, el) == {el[s].sock : s \in L}

BoundOf(L, el) == {b \in SockId \X Addr \X Port :
                     \E s \in L : el[s].devAddr = b[2] /\ b[3] \in el[s].ports /\ el[s].sock = b[1]}

InboxOf(L, el) == [i \in SockId |->
                     IF i \in IdsOf(L, el) THEN el[CHOOSE s \in {r \in L : el[r].sock = i} : TRUE].evq
                     ELSE <<>>]

LEMMA View ==
    /\ Ids = IdsOf(l_sock_list, sock_el) /\ Ids' = IdsOf(l_sock_list', sock_el')
    /\ Bound = BoundOf(l_sock_list, sock_el) /\ Bound' = BoundOf(l_sock_list', sock_el')
    /\ Inbox = InboxOf(l_sock_list, sock_el) /\ Inbox' = InboxOf(l_sock_list', sock_el')
<1>1. Ids = IdsOf(l_sock_list, sock_el) /\ Ids' = IdsOf(l_sock_list', sock_el')
  BY DEF Ids, IdsOf
<1>2. Bound = BoundOf(l_sock_list, sock_el) /\ Bound' = BoundOf(l_sock_list', sock_el')
  BY DEF Bound, BoundOf, Matching
<1>3. Inbox = InboxOf(l_sock_list, sock_el) /\ Inbox' = InboxOf(l_sock_list', sock_el')
  BY DEF Inbox, InboxOf, IdsOf, Ids, lorawan_find_el
<1> QED
  BY <1>1, <1>2, <1>3

\* A list whose ids name one element each.
Named(L, el) ==
    /\ \A s \in L : el[s].sock \in SockId
    /\ \A s, r \in L : el[s].sock = el[r].sock => s = r

\* The inbox of an id is the queue of its element, and empty when it has none.
LEMMA InboxIs ==
    ASSUME NEW L, NEW el, Named(L, el), NEW F,
           \A s \in L : F[el[s].sock] = el[s].evq,
           \A i \in SockId \ IdsOf(L, el) : F[i] = <<>>
    PROVE  InboxOf(L, el) = [i \in SockId |-> F[i]]
<1>1. ASSUME NEW i \in SockId, i \in IdsOf(L, el)
      PROVE  el[CHOOSE s \in {r \in L : el[r].sock = i} : TRUE].evq = F[i]
  <2>1. PICK s \in L : el[s].sock = i
    BY <1>1 DEF IdsOf
  <2>2. {r \in L : el[r].sock = i} = {s}
    BY <2>1 DEF Named
  <2> QED
    BY <2>1, <2>2
<1> QED
  BY <1>1 DEF InboxOf

LEMMA InboxAt ==
    ASSUME NEW L, NEW el, Named(L, el)
    PROVE  /\ \A s \in L : InboxOf(L, el)[el[s].sock] = el[s].evq
           /\ \A i \in SockId \ IdsOf(L, el) : InboxOf(L, el)[i] = <<>>
           /\ InboxOf(L, el) = [i \in SockId |-> InboxOf(L, el)[i]]
<1>1. ASSUME NEW s \in L PROVE InboxOf(L, el)[el[s].sock] = el[s].evq
  <2>1. {r \in L : el[r].sock = el[s].sock} = {s}
    BY DEF Named
  <2> QED
    BY <2>1 DEF InboxOf, IdsOf, Named
<1>2. \A i \in SockId \ IdsOf(L, el) : InboxOf(L, el)[i] = <<>>
  BY DEF InboxOf
<1>3. InboxOf(L, el) = [i \in SockId |-> InboxOf(L, el)[i]]
  BY DEF InboxOf
<1> QED
  BY <1>1, <1>2, <1>3

LEMMA NamedList == ASSUME TypeInv, IdInv PROVE Named(l_sock_list, sock_el)
  BY DEF TypeInv, TypeOK, Element, IdInv, UniqueSockId, Named

\* A step that changes, of the list and its elements, nothing but evq_task.
LEMMA ViewKept ==
    ASSUME l_sock_list' = l_sock_list, sock_cpt' = sock_cpt,
           \A s \in l_sock_list :
              /\ sock_el'[s].sock = sock_el[s].sock /\ sock_el'[s].evq = sock_el[s].evq
              /\ sock_el'[s].devAddr = sock_el[s].devAddr /\ sock_el'[s].ports = sock_el[s].ports,
           Named(l_sock_list, sock_el)
    PROVE  UNCHANGED <<1 .. sock_cpt - 1, Ids, Bound, Inbox>>
<1> DEFINE L == l_sock_list
<1>1. IdsOf(L, sock_el') = IdsOf(L, sock_el)
  BY DEF IdsOf
<1>2. BoundOf(L, sock_el') = BoundOf(L, sock_el)
  BY DEF BoundOf
<1>3. Named(L, sock_el')
  BY DEF Named
<1>4. InboxOf(L, sock_el') = InboxOf(L, sock_el)
  <2> DEFINE F == InboxOf(L, sock_el)
  <2>1. /\ \A s \in L : F[sock_el[s].sock] = sock_el[s].evq
        /\ \A i \in SockId \ IdsOf(L, sock_el) : F[i] = <<>>
        /\ F = [i \in SockId |-> F[i]]
    BY InboxAt
  <2> HIDE DEF F
  <2>2. \A s \in L : F[sock_el'[s].sock] = sock_el'[s].evq
    BY <2>1
  <2>3. \A i \in SockId \ IdsOf(L, sock_el') : F[i] = <<>>
    BY <1>1, <2>1
  <2> HIDE DEF L
  <2>4. InboxOf(L, sock_el') = [i \in SockId |-> F[i]]
    BY <1>3, <2>2, <2>3, InboxIs
  <2> QED
    BY <2>1, <2>4 DEF F
<1> QED
  BY <1>1, <1>2, <1>4, View

\* lorawan_socket creates a socket of the table.
LEMMA InsertCreates ==
    ASSUME Discipline, TypeInv, IdInv, BindInv, TypeInv', IdInv', NEW t \in Task, SocketInsert(t)
    PROVE  Table!Create
<1> DEFINE el == call[t].el
           F == InboxOf(l_sock_list, sock_el)
<1>0. TypeOK /\ Pointers /\ Named(l_sock_list, sock_el) /\ Named(l_sock_list', sock_el')
  BY NamedList, SMTT(30) DEF TypeInv, TypeOK, Element, IdInv, UniqueSockId, Named
<1>1. /\ el \in SockEl /\ el \notin l_sock_list /\ l_sock_list \subseteq SockEl
      /\ sock_el[el].sock = sock_cpt /\ sock_cpt < MaxCpt
      /\ sock_el[el].devAddr = 0 /\ sock_el[el].ports = {}
      /\ l_sock_list' = l_sock_list \cup {el}
  BY <1>0 DEF SocketInsert, TypeOK, Pointers, IdInv, Counted, BindInv, Binding
<1>2. sock_cpt' = sock_cpt + 1 /\ sock_cpt \in SockId \ ((1 .. sock_cpt - 1) \cup {0})
  <2>1. sock_cpt' = (sock_cpt + 1) % SockMod
    BY <1>1 DEF SocketInsert
  <2>2. sock_cpt \in 1 .. MaxCpt /\ sock_cpt + 1 < SockMod
    BY <1>1, RangeAssumption DEF Discipline, IdInv, Counted
  <2> QED
    BY <2>1, <2>2, RangeAssumption DEF SockId
<1>3. /\ \A s \in SockEl \ {el} : sock_el'[s] = sock_el[s]
      /\ sock_el'[el].sock = sock_cpt /\ sock_el'[el].devAddr = 0
      /\ sock_el'[el].ports = {} /\ sock_el'[el].evq = <<>>
  BY <1>0, <1>1 DEF SocketInsert, TypeOK, Element
<1>4. IdsOf(l_sock_list', sock_el') = IdsOf(l_sock_list, sock_el) \cup {sock_cpt}
  BY <1>1, <1>3 DEF IdsOf
<1>5. BoundOf(l_sock_list', sock_el') = BoundOf(l_sock_list, sock_el)
  BY <1>1, <1>3 DEF BoundOf
<1>6. InboxOf(l_sock_list', sock_el') = F
  <2>1. /\ \A s \in l_sock_list : F[sock_el[s].sock] = sock_el[s].evq
        /\ \A i \in SockId \ IdsOf(l_sock_list, sock_el) : F[i] = <<>>
        /\ F = [i \in SockId |-> F[i]]
    BY <1>0, InboxAt
  <2>2. sock_cpt \notin IdsOf(l_sock_list, sock_el)
    BY <1>1, <1>2 DEF IdsOf, IdInv, Counted
  <2> HIDE DEF F
  <2>3. \A s \in l_sock_list' : F[sock_el'[s].sock] = sock_el'[s].evq
    BY <1>1, <1>2, <1>3, <2>1, <2>2
  <2>4. \A i \in SockId \ IdsOf(l_sock_list', sock_el') : F[i] = <<>>
    BY <1>4, <2>1
  <2>5. InboxOf(l_sock_list', sock_el') = [i \in SockId |-> F[i]]
    BY <1>0, <2>3, <2>4, InboxIs
  <2> QED
    BY <2>1, <2>5
<1>7. 1 .. sock_cpt' - 1 = (1 .. sock_cpt - 1) \cup {sock_cpt}
  BY <1>2, RangeAssumption DEF SockId
<1> QED
  BY <1>2, <1>4, <1>5, <1>6, <1>7, View DEF Table!Create

\* lorawan_close closes one: its socket's binds and events go with it.
LEMMA FreeCloses ==
    ASSUME TypeInv, IdInv, TypeInv', IdInv', NEW t \in Task, CloseFree(t)
    PROVE  Table!Close
<1> DEFINE el == call[t].el
           i == sock_el[el].sock
           F == InboxOf(l_sock_list, sock_el)
           G == [F EXCEPT ![i] = <<>>]
<1>0. Pointers /\ Named(l_sock_list, sock_el) /\ Named(l_sock_list', sock_el')
  BY NamedList DEF TypeInv, TypeOK, Element, IdInv, UniqueSockId, Named
<1>1. /\ el \in l_sock_list /\ l_sock_list' = l_sock_list \ {el}
      /\ sock_el' = sock_el /\ sock_cpt' = sock_cpt
  BY <1>0 DEF CloseFree, Pointers
<1>2. /\ i \in IdsOf(l_sock_list, sock_el) /\ i \in SockId
      /\ \A s \in l_sock_list' : sock_el[s].sock # i
  BY <1>0, <1>1 DEF IdsOf, Named
<1>3. IdsOf(l_sock_list', sock_el') = IdsOf(l_sock_list, sock_el) \ {i}
  BY <1>1, <1>2 DEF IdsOf
<1>4. BoundOf(l_sock_list', sock_el') = {b \in BoundOf(l_sock_list, sock_el) : b[1] # i}
  BY <1>1, <1>2 DEF BoundOf
<1>5. InboxOf(l_sock_list', sock_el') = G
  <2>1. /\ \A s \in l_sock_list : F[sock_el[s].sock] = sock_el[s].evq
        /\ \A j \in SockId \ IdsOf(l_sock_list, sock_el) : F[j] = <<>>
        /\ F = [j \in SockId |-> F[j]]
    BY <1>0, InboxAt
  <2> HIDE DEF F, i
  <2>2. G[i] = <<>> /\ (\A j \in SockId \ {i} : G[j] = F[j]) /\ G = [j \in SockId |-> G[j]]
    BY <1>2, <2>1
  <2> HIDE DEF G
  <2>3. \A s \in l_sock_list' : G[sock_el'[s].sock] = sock_el'[s].evq
    BY <1>0, <1>1, <1>2, <2>1, <2>2 DEF Named
  <2>4. \A j \in SockId \ IdsOf(l_sock_list', sock_el') : G[j] = <<>>
    BY <1>3, <2>1, <2>2
  <2>5. InboxOf(l_sock_list', sock_el') = [j \in SockId |-> G[j]]
    BY <1>0, <2>3, <2>4, InboxIs
  <2> QED
    BY <2>2, <2>5
<1> HIDE DEF i
<1> QED
  BY <1>1, <1>2, <1>3, <1>4, <1>5, View DEF Table!Close

\* lorawan_bind binds: the couple was free and the socket has no other address.
LEMMA PortBinds ==
    ASSUME Discipline, TypeInv, IdInv, BindInv, TypeInv', IdInv', NEW t \in Task, BindPort(t)
    PROVE  Table!Bind
<1> DEFINE el == call[t].el
           i == sock_el[el].sock
           a == call[t].addr
           p == call[t].port
<1>0. TypeOK /\ Pointers /\ Locals /\ Named(l_sock_list, sock_el) /\ Named(l_sock_list', sock_el')
  BY NamedList DEF TypeInv, TypeOK, Element, IdInv, UniqueSockId, Named
<1>1. /\ el \in SockEl /\ el \in l_sock_list /\ l_sock_list \subseteq SockEl
      /\ l_sock_list' = l_sock_list /\ sock_cpt' = sock_cpt
      /\ a \in Addr /\ p \in Port \ {0} /\ i \in SockId
      /\ call[t].pc = "bind_port"
  BY <1>0 DEF BindPort, TypeOK, Pointers, Locals, BindInv, Binding, Named
<1>2. /\ sock_el[el].devAddr = a /\ Matching(a, p) = {}
      /\ call[t].word = {q \in sock_el[el].ports : Slot(q) = Slot(p)}
  BY <1>1 DEF BindInv, Binding
<1>3. /\ \A r \in SockEl \ {el} : sock_el'[r] = sock_el[r]
      /\ sock_el'[el].sock = i /\ sock_el'[el].devAddr = a /\ sock_el'[el].evq = sock_el[el].evq
      /\ sock_el'[el].ports = sock_el[el].ports \cup {p}
  <2>1. /\ \A r \in SockEl \ {el} : sock_el'[r] = sock_el[r]
        /\ sock_el'[el].sock = i /\ sock_el'[el].devAddr = sock_el[el].devAddr
        /\ sock_el'[el].evq = sock_el[el].evq
        /\ sock_el'[el].ports = {q \in sock_el[el].ports : Slot(q) # Slot(p)} \cup call[t].word \cup {p}
    BY <1>0, <1>1 DEF BindPort, TypeOK, Element
  <2> QED
    BY <1>2, <2>1
<1>4. IdsOf(l_sock_list, sock_el') = IdsOf(l_sock_list, sock_el) /\ i \in IdsOf(l_sock_list, sock_el)
  BY <1>1, <1>3 DEF IdsOf
<1>5. BoundOf(l_sock_list, sock_el') = BoundOf(l_sock_list, sock_el) \cup {<<i, a, p>>}
  <2>1. \A b \in BoundOf(l_sock_list, sock_el) \cup {<<i, a, p>>} : b \in BoundOf(l_sock_list, sock_el')
    BY <1>1, <1>2, <1>3 DEF BoundOf
  <2>2. ASSUME NEW b \in BoundOf(l_sock_list, sock_el') PROVE b \in BoundOf(l_sock_list, sock_el) \cup {<<i, a, p>>}
    <3>1. PICK j \in SockId, d \in Addr, q \in Port : b = <<j, d, q>>
      BY <2>2 DEF BoundOf
    <3>2. PICK s \in l_sock_list : sock_el'[s].devAddr = d /\ q \in sock_el'[s].ports /\ sock_el'[s].sock = j
      BY <2>2, <3>1 DEF BoundOf
    <3>3. CASE s = el /\ q = p
      BY <1>3, <3>1, <3>2, <3>3
    <3>4. CASE ~(s = el /\ q = p)
      <4>1. sock_el[s].devAddr = d /\ q \in sock_el[s].ports /\ sock_el[s].sock = j
        BY <1>1, <1>2, <1>3, <3>2, <3>4
      <4> QED
        BY <3>1, <4>1 DEF BoundOf
    <3> QED
      BY <3>3, <3>4
  <2> QED
    BY <2>1, <2>2
<1>6. \A b \in BoundOf(l_sock_list, sock_el) : (b[1] = i => b[2] = a) /\ (b[2] = a => b[3] # p)
  BY <1>0, <1>1, <1>2 DEF BoundOf, Named, Matching
<1>7. InboxOf(l_sock_list, sock_el') = InboxOf(l_sock_list, sock_el)
  <2> DEFINE F == InboxOf(l_sock_list, sock_el)
  <2>1. /\ \A s \in l_sock_list : F[sock_el[s].sock] = sock_el[s].evq
        /\ \A j \in SockId \ IdsOf(l_sock_list, sock_el) : F[j] = <<>>
        /\ F = [j \in SockId |-> F[j]]
    BY <1>0, InboxAt
  <2> HIDE DEF F
  <2>2. \A s \in l_sock_list : F[sock_el'[s].sock] = sock_el'[s].evq
    BY <1>1, <1>3, <2>1
  <2>3. \A j \in SockId \ IdsOf(l_sock_list, sock_el') : F[j] = <<>>
    BY <1>4, <2>1
  <2>4. InboxOf(l_sock_list, sock_el') = [j \in SockId |-> F[j]]
    BY <1>0, <1>1, <2>2, <2>3, InboxIs
  <2> QED
    BY <2>1, <2>4 DEF F
<1> HIDE DEF i, a, p
<1> QED
  BY <1>1, <1>4, <1>5, <1>6, <1>7, View DEF Table!Bind

\* A step that changes the queue of one element of the list, and of no other
\* anything that the caller sees, changes the inbox of its id.
LEMMA QueueSet ==
    ASSUME TypeInv, IdInv, TypeInv', IdInv', NEW el \in l_sock_list,
           l_sock_list' = l_sock_list, sock_cpt' = sock_cpt,
           \A s \in SockEl : s # el => sock_el'[s] = sock_el[s],
           sock_el'[el].sock = sock_el[el].sock, sock_el'[el].devAddr = sock_el[el].devAddr,
           sock_el'[el].ports = sock_el[el].ports
    PROVE  /\ UNCHANGED <<1 .. sock_cpt - 1, Ids, Bound>>
           /\ Inbox' = [Inbox EXCEPT ![sock_el[el].sock] = sock_el'[el].evq]
           /\ Inbox[sock_el[el].sock] = sock_el[el].evq
           /\ sock_el[el].sock \in Ids
<1> DEFINE i == sock_el[el].sock
           F == InboxOf(l_sock_list, sock_el)
           G == [F EXCEPT ![i] = sock_el'[el].evq]
<1>0. /\ Named(l_sock_list, sock_el) /\ Named(l_sock_list', sock_el')
      /\ l_sock_list \subseteq SockEl
  BY NamedList DEF TypeInv, TypeOK, Element, IdInv, UniqueSockId, Named
<1>1. IdsOf(l_sock_list, sock_el') = IdsOf(l_sock_list, sock_el) /\ i \in IdsOf(l_sock_list, sock_el) /\ i \in SockId
  BY <1>0 DEF IdsOf, Named
<1>2. BoundOf(l_sock_list, sock_el') = BoundOf(l_sock_list, sock_el)
  <2>1. \A s \in l_sock_list : /\ sock_el'[s].sock = sock_el[s].sock
                               /\ sock_el'[s].devAddr = sock_el[s].devAddr
                               /\ sock_el'[s].ports = sock_el[s].ports
    BY <1>0
  <2> QED
    BY <2>1 DEF BoundOf
<1>3. /\ \A s \in l_sock_list : F[sock_el[s].sock] = sock_el[s].evq
      /\ \A j \in SockId \ IdsOf(l_sock_list, sock_el) : F[j] = <<>>
      /\ F = [j \in SockId |-> F[j]]
  BY <1>0, InboxAt
<1> HIDE DEF F, i
<1>4. G[i] = sock_el'[el].evq /\ (\A j \in SockId \ {i} : G[j] = F[j]) /\ G = [j \in SockId |-> G[j]]
  BY <1>1, <1>3
<1> HIDE DEF G
<1>5. \A s \in l_sock_list : G[sock_el'[s].sock] = sock_el'[s].evq
  BY <1>0, <1>3, <1>4 DEF Named, i
<1>6. \A j \in SockId \ IdsOf(l_sock_list, sock_el') : G[j] = <<>>
  BY <1>1, <1>3, <1>4
<1>7. InboxOf(l_sock_list, sock_el') = [j \in SockId |-> G[j]]
  BY <1>0, <1>5, <1>6, InboxIs
<1> QED
  BY <1>1, <1>2, <1>3, <1>4, <1>7, View DEF F, G, i

\* lorawan_recv receives the first event, or changes nothing.
LEMMA RecvReceives ==
    ASSUME TypeInv, IdInv, TypeInv', IdInv', NEW t \in Task, RecvPoll(t) \/ RecvAwake(t)
    PROVE  Table!Receive \/ UNCHANGED <<1 .. sock_cpt - 1, Ids, Bound, Inbox>>
<1> DEFINE el == call[t].el
<1>1. /\ l_sock_list' = l_sock_list /\ sock_cpt' = sock_cpt
      /\ el \in l_sock_list
      /\ \A s \in SockEl : s # el => sock_el'[s] = sock_el[s]
      /\ sock_el'[el].sock = sock_el[el].sock /\ sock_el'[el].devAddr = sock_el[el].devAddr
      /\ sock_el'[el].ports = sock_el[el].ports
      /\ \/ sock_el'[el].evq = sock_el[el].evq
         \/ sock_el[el].evq # <<>> /\ sock_el'[el].evq = Tail(sock_el[el].evq)
  BY RecvEffect
<1>2. CASE sock_el'[el].evq = sock_el[el].evq
  <2>1. \A s \in l_sock_list :
          /\ sock_el'[s].sock = sock_el[s].sock /\ sock_el'[s].evq = sock_el[s].evq
          /\ sock_el'[s].devAddr = sock_el[s].devAddr /\ sock_el'[s].ports = sock_el[s].ports
    BY <1>1, <1>2 DEF TypeInv, TypeOK
  <2> QED
    BY <1>1, <2>1, NamedList, ViewKept
<1>3. CASE sock_el[el].evq # <<>> /\ sock_el'[el].evq = Tail(sock_el[el].evq)
  <2>1. /\ UNCHANGED <<1 .. sock_cpt - 1, Ids, Bound>>
        /\ Inbox' = [Inbox EXCEPT ![sock_el[el].sock] = Tail(sock_el[el].evq)]
        /\ Inbox[sock_el[el].sock] = sock_el[el].evq
        /\ sock_el[el].sock \in Ids
    BY <1>1, <1>3, QueueSet
  <2> QED
    BY <1>3, <2>1 DEF Table!Receive
<1> QED
  BY <1>1, <1>2, <1>3

\* _mcps_indication delivers to the socket bound to the address and port.
LEMMA PostDelivers ==
    ASSUME TypeInv, IdInv, TypeInv', IdInv', IndicationPosted
    PROVE  Table!Deliver
<1>1. PICK pkt \in Packet, s \in l_sock_list :
         /\ sock_el[s].sock \in lorawan_find_sock_by_params(pkt.devAddr, pkt.port)
         /\ UNCHANGED heapVars
         /\ sock_el' = [sock_el EXCEPT ![s] = [sock_el[s] EXCEPT
                          !.evq = Append(sock_el[s].evq, pkt), !.evq_task = None]]
  BY PostEffect
<1> DEFINE i == sock_el[s].sock
           b == <<i, pkt.devAddr, pkt.port>>
<1>2. l_sock_list \subseteq SockEl /\ sock_el[s] \in Element
  BY DEF TypeInv, TypeOK
<1>3. /\ \A r \in SockEl : r # s => sock_el'[r] = sock_el[r]
      /\ sock_el'[s].sock = sock_el[s].sock
      /\ sock_el'[s].devAddr = sock_el[s].devAddr /\ sock_el'[s].ports = sock_el[s].ports
      /\ sock_el'[s].evq = Append(sock_el[s].evq, pkt)
  BY <1>1, <1>2 DEF TypeInv, TypeOK, Element
<1>4. sock_el[s].devAddr = pkt.devAddr /\ pkt.port \in sock_el[s].ports
  <2>1. sock_el[s].sock # 0
    BY DEF IdInv, Counted
  <2>2. PICK r \in Matching(pkt.devAddr, pkt.port) : sock_el[r].sock = sock_el[s].sock
    BY <1>1, <2>1 DEF lorawan_find_sock_by_params
  <2> QED
    BY <2>2 DEF IdInv, UniqueSockId, Matching
<1>5. b \in Bound
  BY <1>2, <1>4 DEF Bound, Matching, Packet, Element
<1>6. /\ UNCHANGED <<1 .. sock_cpt - 1, Ids, Bound>>
      /\ Inbox' = [Inbox EXCEPT ![i] = Append(sock_el[s].evq, pkt)]
      /\ Inbox[i] = sock_el[s].evq
  BY <1>1, <1>3, QueueSet
<1>7. b[1] = i /\ b[2] = pkt.devAddr /\ b[3] = pkt.port
  OBVIOUS
<1>8. Inbox' = [Inbox EXCEPT ![b[1]] = Append(Inbox[b[1]], pkt)]
  BY <1>6, <1>7
<1> HIDE DEF b
<1> QED
  BY <1>5, <1>6, <1>7, <1>8 DEF Table!Deliver

\* Every step of the sockets is one of the table, or changes nothing of it.
LEMMA TableStep ==
    ASSUME Discipline, TypeInv, IdInv, BindInv, TypeInv', IdInv', [Next]_vars
    PROVE  Table!Next \/ UNCHANGED <<1 .. sock_cpt - 1, Ids, Bound, Inbox>>
<1> DEFINE Hidden == UNCHANGED <<1 .. sock_cpt - 1, Ids, Bound, Inbox>>
<1>0. l_sock_list \subseteq allocated /\ allocated \subseteq SockEl /\ Named(l_sock_list, sock_el)
  BY NamedList DEF TypeInv, TypeOK
<1>1. ASSUME UNCHANGED <<sock_cpt, l_sock_list, sock_el>> PROVE Hidden
  BY <1>0, <1>1, ViewKept
<1>2. ASSUME NEW t \in Task, SocketAlloc(t) PROVE Hidden
  <2>1. /\ l_sock_list' = l_sock_list /\ sock_cpt' = sock_cpt
        /\ \A s \in l_sock_list : sock_el'[s] = sock_el[s]
    BY <1>0, <1>2 DEF SocketAlloc, TypeInv, TypeOK
  <2> QED
    BY <1>0, <2>1, ViewKept
<1>3. ASSUME NEW t \in Task, BindAddr(t) PROVE Hidden
  <2> DEFINE el == call[t].el
  <2>1. /\ l_sock_list' = l_sock_list /\ sock_cpt' = sock_cpt
        /\ el \in l_sock_list /\ sock_el[el].devAddr = 0
        /\ sock_el' = [sock_el EXCEPT ![el].devAddr = call[t].addr]
    BY <1>3 DEF BindAddr, TypeInv, Pointers, BindInv, Binding
  <2>2. sock_el[el].ports = {}
    BY <2>1 DEF BindInv, Binding
  <2>3. /\ \A s \in SockEl \ {el} : sock_el'[s] = sock_el[s]
        /\ sock_el'[el].sock = sock_el[el].sock /\ sock_el'[el].evq = sock_el[el].evq
        /\ sock_el'[el].ports = {}
    BY <1>0, <2>1, <2>2 DEF TypeInv, TypeOK, Element
  <2>4. IdsOf(l_sock_list, sock_el') = IdsOf(l_sock_list, sock_el)
    BY <1>0, <2>3 DEF IdsOf
  <2>5. BoundOf(l_sock_list, sock_el') = BoundOf(l_sock_list, sock_el)
    BY <1>0, <2>2, <2>3 DEF BoundOf
  <2>6. InboxOf(l_sock_list, sock_el') = InboxOf(l_sock_list, sock_el)
    <3> DEFINE F == InboxOf(l_sock_list, sock_el)
    <3>1. /\ \A s \in l_sock_list : F[sock_el[s].sock] = sock_el[s].evq
          /\ \A j \in SockId \ IdsOf(l_sock_list, sock_el) : F[j] = <<>>
          /\ F = [j \in SockId |-> F[j]]
      BY <1>0, InboxAt
    <3> HIDE DEF F
    <3>2. \A s \in l_sock_list : F[sock_el'[s].sock] = sock_el'[s].evq
      BY <1>0, <2>3, <3>1
    <3>3. \A j \in SockId \ IdsOf(l_sock_list, sock_el') : F[j] = <<>>
      BY <2>4, <3>1
    <3>4. Named(l_sock_list, sock_el')
      BY <1>0, <2>3 DEF Named
    <3>5. InboxOf(l_sock_list, sock_el') = [j \in SockId |-> F[j]]
      BY <3>2, <3>3, <3>4, InboxIs
    <3> QED
      BY <3>1, <3>5 DEF F
  <2> QED
    BY <2>1, <2>4, <2>5, <2>6, View
<1>4. ASSUME NEW t \in Task, BindCheck(t) PROVE Hidden
  BY <1>1, <1>4, BindCheckEffect
<1>5. ASSUME NEW t \in Task, CloseCheck(t) \/ BindLookup(t) \/ RecvLookup(t) \/ RecvTimeout(t)
                             \/ RecvHeader(t) \/ RecvPayload(t)
      PROVE  Hidden
  BY <1>1, <1>5 DEF CloseCheck, BindLookup, RecvLookup, RecvTimeout, RecvHeader, RecvPayload
<1>6. ASSUME IndicationDropped \/ UNCHANGED vars PROVE Hidden
  BY <1>1, <1>6 DEF IndicationDropped, vars
<1> HIDE DEF Hidden
<1>7. ASSUME NEW t \in Task, SocketInsert(t) PROVE Table!Next
  BY <1>7, InsertCreates DEF Table!Next
<1>8. ASSUME NEW t \in Task, CloseFree(t) PROVE Table!Next
  BY <1>8, FreeCloses DEF Table!Next
<1>9. ASSUME NEW t \in Task, BindPort(t) PROVE Table!Next
  BY <1>9, PortBinds DEF Table!Next
<1>10. ASSUME NEW t \in Task, RecvPoll(t) \/ RecvAwake(t) PROVE Table!Next \/ Hidden
  BY <1>10, RecvReceives DEF Table!Next, Hidden
<1>11. ASSUME IndicationPosted PROVE Table!Next
  BY <1>11, PostDelivers DEF Table!Next
<1>12. Table!Next \/ Hidden
  BY <1>2, <1>3, <1>4, <1>5, <1>6, <1>7, <1>8, <1>9, <1>10, <1>11 DEF Next, Step
<1> QED
  BY <1>12 DEF Hidden

\* In serialised use, with no socket bound to address 0 and before the counter
\* wraps, the sockets are those that lorawan_api.h promises: a call creates,
\* binds, receives or closes in one step that the others cannot split, and a
\* downlink goes to the socket bound to its address and port, once.
THEOREM TableImplemented == ASSUME Discipline PROVE Spec => ImplementsSocketTable
<1>1. Init => IdInv /\ BindInv
  BY RangeAssumption DEF Init, IdInv, Alone, Counted, UniqueSockId, Idle, CallPc, BindInv, Binding,
     BindExclusive, BindingsKept, QueueMatchesBinding
<1>2. Init => Table!Init
  BY DEF Init, Table!Init, Ids, Bound, Matching, Inbox
<1>3. TypeInv /\ IdInv /\ BindInv /\ [Next]_vars /\ TypeInv' => [Table!Next]_(Table!tableVars)
  BY IdStep, TableStep DEF Table!tableVars
<1> QED
  BY <1>1, <1>2, <1>3, IdStep, BindStep, TypeInvariant, PTL DEF Spec, ImplementsSocketTable, Table!Spec
=============================================================================
