--------------------------- MODULE SocketListProofs ---------------------------
(***************************************************************************)
(* Proofs about SocketList for every value of its constants, with careful  *)
(* callers.                                                                *)
(***************************************************************************)
EXTENDS SocketList, TLAPS

-----------------------------------------------------------------------------
(* The inductive invariant.                                                *)

Apart == {"link", "head", "free"}

\* The cells of the list: allocated, and no call is about to link one or to
\* free it.  Nothing is said of the order, so that no induction is needed.
InList == {c \in alloc : \A t \in Task : call[t].pc \in Apart => call[t].el # c}

\* A call is at a step of its operation, with the locals it has there.
WellFormed(c) ==
    /\ c.op = "find" => c.pc \in {"idle", "walk"}
    /\ c.op = "socket" => c.pc \in {"link", "head"}
    /\ c.op = "close" => c.pc \in {"walk", "remove", "unhead", "seek", "cut", "free"}
    /\ c.pc \in {"idle", "walk"} => c.el = NULL
    /\ c.pc \notin {"idle", "walk"} => c.el \in Cell

TypeInv == TypeOK /\ \A t \in Task : WellFormed(call[t])

\* Careful callers: one call changes the list at a time, and below a close
\* no call is in progress.
Alone ==
    /\ \A t, u \in Task : t # u => call[t].op = "find" \/ call[u].op = "find"
    /\ \A t, u \in Task : call[t].op = "close" /\ Prio[t] < Prio[u] => call[u].pc = "idle"

\* The list's cells point to each other, each to another, none to the first.
ListInv ==
    /\ first \in InList \cup {NULL}
    /\ \A c \in InList :
        /\ sc_next[c] \in InList \cup {NULL}
        /\ sc_next[c] # NULL => sc_next[c] # first
    /\ \A c, d \in InList : sc_next[c] = sc_next[d] /\ sc_next[c] # NULL => c = d

\* What a call has found is still so when it goes on.
CallInv ==
    \A t \in Task :
        LET c == call[t] IN
        /\ c.pc \in Apart => c.el \in alloc
        /\ c.pc \in {"walk", "seek", "cut"} => c.cur \in InList \cup {NULL}
        /\ c.pc \in {"remove", "unhead", "seek", "cut"} => c.el \in InList
        /\ c.pc = "head" => sc_next[c.el] = first
        /\ c.pc = "unhead" => first = c.el
        /\ c.pc = "cut" => c.cur # NULL /\ sc_next[c.cur] = c.el

IInv == TypeInv /\ Alone /\ ListInv /\ CallInv

-----------------------------------------------------------------------------
(* Calls.                                                                  *)

\* The step of t leaves its call as c, well formed and as careful as before.
Becomes(t, c) ==
    /\ c \in Call /\ WellFormed(c)
    /\ c.op \in {"find", call[t].op}
    /\ call' = [call EXCEPT ![t] = c]

LEMMA IdleCall == Idle \in Call /\ WellFormed(Idle) /\ Idle.pc = "idle" /\ Idle.op = "find"
  BY DEF Idle, Call, WellFormed

LEMMA Update ==
    ASSUME IInv, NEW t \in Task, NEW c, c \in Call, call' = [call EXCEPT ![t] = c]
    PROVE  call' \in [Task -> Call] /\ call'[t] = c /\ \A u \in Task \ {t} : call'[u] = call[u]
  BY DEF IInv, TypeInv, TypeOK

\* The types of the calls, and the callers' care, after a step of a call in
\* progress.
LEMMA StepOfCall ==
    ASSUME IInv, NEW t \in Task, Runs(t), NEW c, Becomes(t, c), call[t].pc # "idle"
    PROVE  call' \in [Task -> Call] /\ (\A u \in Task : WellFormed(call'[u])) /\ Alone'
<1>1. call' \in [Task -> Call] /\ call'[t] = c /\ \A u \in Task \ {t} : call'[u] = call[u]
  BY Update DEF Becomes
<1>2. \A u \in Task : WellFormed(call'[u])
  BY <1>1 DEF IInv, TypeInv, Becomes
<1>3. \A u, v \in Task : u # v => call'[u].op = "find" \/ call'[v].op = "find"
  BY <1>1 DEF IInv, Alone, Becomes
<1>4. ASSUME NEW u \in Task, NEW v \in Task, call'[u].op = "close", Prio[u] < Prio[v]
      PROVE  call'[v].pc = "idle"
  <2>1. call[u].op = "close"
    BY <1>1, <1>4 DEF Becomes
  <2>2. call[v].pc = "idle"
    BY <1>4, <2>1 DEF IInv, Alone
  <2> QED
    BY <1>1, <2>2
<1> QED
  BY <1>1, <1>2, <1>3, <1>4 DEF Alone

\* A close that runs is the only call.
LEMMA CloseRunsAlone ==
    ASSUME IInv, NEW t \in Task, Runs(t), call[t].op = "close"
    PROVE  \A u \in Task \ {t} : call[u].pc = "idle"
<1> SUFFICES ASSUME NEW u \in Task \ {t} PROVE call[u].pc = "idle"
  OBVIOUS
<1>1. Prio[u] \in Nat /\ Prio[t] \in Nat /\ Prio[u] # Prio[t]
  BY ListAssumption
<1>2. CASE Prio[u] < Prio[t]
  BY <1>2 DEF Runs
<1>3. CASE Prio[t] < Prio[u]
  BY <1>3 DEF IInv, Alone
<1> QED
  BY <1>1, <1>2, <1>3

\* While a call changes the list the others only walk it.
LEMMA OthersFind ==
    ASSUME IInv, NEW t \in Task, call[t].op # "find"
    PROVE  \A u \in Task \ {t} : call[u].op = "find" /\ call[u].pc \in {"idle", "walk"}
  BY DEF IInv, Alone, TypeInv, WellFormed

-----------------------------------------------------------------------------
(* The actions, one after the other.                                       *)

LEMMA SocketStep ==
    ASSUME IInv, Careful, NEW t \in Task, Socket(t)
    PROVE  IInv'
<1>1. PICK el \in Cell \ alloc :
        /\ alloc' = alloc \cup {el}
        /\ sc_next' = [sc_next EXCEPT ![el] = NULL]
        /\ sock' = [sock EXCEPT ![el] = sock_cpt + 1]
        /\ call' = [call EXCEPT ![t] = [Idle EXCEPT !.pc = "link", !.op = "socket", !.el = el]]
  BY DEF Socket
<1> DEFINE c == [Idle EXCEPT !.pc = "link", !.op = "socket", !.el = el]
<1>2. c \in Call /\ WellFormed(c) /\ c.pc = "link" /\ c.op = "socket" /\ c.el = el
  BY DEF Idle, Call, WellFormed
<1> HIDE DEF c
<1>3. call' \in [Task -> Call] /\ call'[t] = c /\ \A u \in Task \ {t} : call'[u] = call[u]
  BY <1>1, <1>2, Update DEF c
<1>4. call[t].pc = "idle" /\ Runs(t) /\ first' = first /\ sock_cpt < MaxCpt /\ sock_cpt' = sock_cpt + 1
  BY DEF Socket, At
<1>5. \A u \in Task \ {t} : call[u].op = "find" /\ call[u].pc \in {"idle", "walk"}
  BY <1>4 DEF Socket, Allowed, Busy, IInv, TypeInv, WellFormed, TypeOK, Call
<1>6. TypeInv'
  <2>1. sock' \in [Cell -> SockId \cup {0}] /\ sock_cpt' \in 0 .. MaxCpt
    BY <1>1, <1>4, ListAssumption DEF IInv, TypeInv, TypeOK, SockId
  <2>2. \A u \in Task : WellFormed(call'[u])
    BY <1>2, <1>3 DEF IInv, TypeInv
  <2>3. \A u \in Task : call'[u].pc \notin {"idle", "walk"} => call'[u].el \in Cell
    BY <2>2 DEF WellFormed
  <2> QED
    BY <1>1, <1>3, <1>4, <2>1, <2>2, <2>3 DEF IInv, TypeInv, TypeOK
<1>7. Alone'
  BY <1>2, <1>3, <1>5 DEF Alone
<1>8. InList' = InList
  BY <1>1, <1>2, <1>3, <1>4 DEF InList, Apart
<1>9. ListInv'
  <2>1. \A d \in InList : sc_next'[d] = sc_next[d]
    BY <1>1 DEF InList, IInv, TypeInv, TypeOK
  <2> QED
    BY <1>4, <1>8, <2>1 DEF IInv, ListInv
<1>10. CallInv'
  BY <1>1, <1>2, <1>3, <1>5, <1>8 DEF IInv, CallInv, Apart
<1> QED
  BY <1>6, <1>7, <1>9, <1>10 DEF IInv

\* A call that begins, of a walk: a close only while nobody is in a call.
LEMMA EnterStep ==
    ASSUME IInv, Careful, NEW t \in Task, Enter(t)
    PROVE  IInv'
<1>1. PICK op \in {"find", "close"}, id \in 1 .. sock_cpt :
        /\ Allowed(t, op, id)
        /\ call' = [call EXCEPT ![t] = [Idle EXCEPT !.pc = "walk", !.op = op, !.want = id,
                                                    !.cur = first, !.due = id \in Open]]
  BY DEF Enter
<1> DEFINE due == id \in Open
           c == [Idle EXCEPT !.pc = "walk", !.op = op, !.want = id, !.cur = first, !.due = due]
<1>2. c \in Call /\ WellFormed(c) /\ c.pc = "walk" /\ c.op = op /\ c.cur = first
  <2>1. due \in BOOLEAN
    <3>1. CASE id \in Open
      BY <3>1
    <3>2. CASE id \notin Open
      BY <3>2
    <3> QED
      BY <3>1, <3>2
  <2>2. id \in SockId /\ first \in Cell \cup {NULL}
    BY ListAssumption DEF SockId, IInv, TypeInv, TypeOK
  <2> HIDE DEF due
  <2> QED
    BY <2>1, <2>2 DEF Idle, Call, WellFormed
<1> HIDE DEF c
<1>3. call' \in [Task -> Call] /\ call'[t] = c /\ \A u \in Task \ {t} : call'[u] = call[u]
  BY <1>1, <1>2, Update DEF c
<1>4. call[t].pc = "idle" /\ Runs(t) /\ UNCHANGED <<first, sc_next, sock, alloc, sock_cpt>>
  BY DEF Enter, At
<1>5. op = "close" => \A u \in Task \ {t} : call[u].pc = "idle" /\ call[u].op = "find"
  BY <1>1 DEF Allowed, Busy, IInv, TypeInv, WellFormed, TypeOK, Call
<1>6. TypeInv'
  <2>1. \A u \in Task : WellFormed(call'[u])
    BY <1>2, <1>3 DEF IInv, TypeInv
  <2>2. \A u \in Task : call'[u].pc \notin {"idle", "walk"} => call'[u].el \in Cell
    BY <2>1 DEF WellFormed
  <2> QED
    BY <1>3, <1>4, <2>1, <2>2 DEF IInv, TypeInv, TypeOK
<1>7. Alone'
  <2>1. \A u \in Task : Prio[u] < Prio[t] => call[u].pc = "idle" /\ call[u].op = "find"
    BY <1>4 DEF Runs, IInv, TypeInv, WellFormed, TypeOK, Call
  <2>2. \A u, v \in Task : u # v => call'[u].op = "find" \/ call'[v].op = "find"
    BY <1>2, <1>3, <1>5 DEF IInv, Alone
  <2>3. ASSUME NEW u \in Task, NEW v \in Task, call'[u].op = "close", Prio[u] < Prio[v]
        PROVE  call'[v].pc = "idle"
    <3>1. CASE u = t
      <4>1. v # t
        BY <2>3, <3>1, ListAssumption
      <4> QED
        BY <1>2, <1>3, <1>5, <2>3, <3>1, <4>1
    <3>2. CASE u # t
      BY <1>3, <2>1, <2>3, <3>2 DEF IInv, Alone
    <3> QED
      BY <3>1, <3>2
  <2> QED
    BY <2>2, <2>3 DEF Alone
<1>8. InList' = InList
  BY <1>2, <1>3, <1>4 DEF InList, Apart
<1>9. ListInv'
  BY <1>4, <1>8 DEF IInv, ListInv
<1>10. CallInv'
  BY <1>2, <1>3, <1>4, <1>8 DEF IInv, CallInv, ListInv, Apart
<1> QED
  BY <1>6, <1>7, <1>9, <1>10 DEF IInv

\* The steps of a call that leave the list and its cells alone.
LEMMA WalkingStep ==
    ASSUME IInv, NEW t \in Task, Runs(t), call[t].pc \notin {"idle"} \cup Apart,
           NEW c, Becomes(t, c), c.pc \notin Apart,
           c.pc \in {"walk", "seek", "cut"} => c.cur \in InList \cup {NULL},
           c.pc \in {"remove", "unhead", "seek", "cut"} => c.el \in InList,
           c.pc = "unhead" => first = c.el,
           c.pc = "cut" => c.cur # NULL /\ sc_next[c.cur] = c.el,
           UNCHANGED <<first, sc_next, sock, alloc, sock_cpt>>
    PROVE  IInv'
<1>1. call' \in [Task -> Call] /\ call'[t] = c /\ \A u \in Task \ {t} : call'[u] = call[u]
  BY Update DEF Becomes
<1>2. (\A u \in Task : WellFormed(call'[u])) /\ Alone'
  BY StepOfCall
<1>3. TypeInv'
  BY <1>1, <1>2 DEF IInv, TypeInv, TypeOK, WellFormed
<1>4. InList' = InList
  BY <1>1 DEF InList, Apart
<1>5. ListInv'
  BY <1>4 DEF IInv, ListInv
<1>6. CallInv'
  BY <1>1, <1>4 DEF IInv, CallInv, Apart
<1> QED
  BY <1>2, <1>3, <1>5, <1>6 DEF IInv

LEMMA FindStep ==
    ASSUME IInv, NEW t \in Task, _lorawan_find_el(t)
    PROVE  IInv'
<1> DEFINE cur == call[t].cur
<1>1. /\ call[t].pc = "walk" /\ Runs(t) /\ call[t] \in Call /\ WellFormed(call[t])
      /\ UNCHANGED <<first, sc_next, sock, alloc, sock_cpt>>
  BY DEF _lorawan_find_el, At, IInv, TypeInv, TypeOK
<1>2. cur \in InList \cup {NULL}
  BY <1>1 DEF IInv, CallInv
<1>3. InList \subseteq Cell
  BY DEF InList, IInv, TypeInv, TypeOK
<1>4. CASE call' = [call EXCEPT ![t] = Idle]
  BY <1>1, <1>4, IdleCall, WalkingStep DEF Becomes, Apart
<1>5. CASE /\ call[t].op = "close" /\ cur # NULL
           /\ call' = [call EXCEPT ![t].pc = "remove", ![t].el = call[t].cur]
  <2> DEFINE c == [call[t] EXCEPT !.pc = "remove", !.el = cur]
  <2>1. c \in Call /\ WellFormed(c) /\ c.pc = "remove" /\ c.op = "close" /\ c.el = cur
    BY <1>1, <1>2, <1>3, <1>5 DEF Call, WellFormed
  <2>2. call' = [call EXCEPT ![t] = c]
    BY <1>5 DEF IInv, TypeInv, TypeOK, Call
  <2> HIDE DEF c
  <2> QED
    BY <1>1, <1>2, <1>5, <2>1, <2>2, WalkingStep DEF Becomes, Apart
<1>6. CASE cur # NULL /\ call' = [call EXCEPT ![t].cur = sc_next[cur]]
  <2> DEFINE c == [call[t] EXCEPT !.cur = sc_next[cur]]
  <2>1. sc_next[cur] \in InList \cup {NULL}
    BY <1>2, <1>6 DEF IInv, ListInv
  <2>2. c \in Call /\ WellFormed(c) /\ c.pc = "walk" /\ c.op = call[t].op /\ c.cur = sc_next[cur]
    BY <1>1, <1>3, <2>1 DEF Call, WellFormed
  <2>3. call' = [call EXCEPT ![t] = c]
    BY <1>6 DEF IInv, TypeInv, TypeOK, Call
  <2> HIDE DEF c
  <2> QED
    BY <1>1, <2>1, <2>2, <2>3, WalkingStep DEF Becomes, Apart
<1> QED
  BY <1>4, <1>5, <1>6 DEF _lorawan_find_el, Found

LEMMA RemoveStep ==
    ASSUME IInv, NEW t \in Task, Remove(t)
    PROVE  IInv'
<1> DEFINE c == [call[t] EXCEPT !.pc = IF first = call[t].el THEN "unhead" ELSE "seek", !.cur = first]
<1>1. /\ call[t].pc = "remove" /\ Runs(t) /\ call[t] \in Call /\ WellFormed(call[t])
      /\ UNCHANGED <<first, sc_next, sock, alloc, sock_cpt>>
  BY DEF Remove, At, IInv, TypeInv, TypeOK
<1>2. call[t].op = "close" /\ first \in Cell \cup {NULL}
  BY <1>1 DEF WellFormed, Call, IInv, TypeInv, TypeOK
<1>3. c \in Call /\ WellFormed(c) /\ c.op = call[t].op /\ c.el = call[t].el /\ c.cur = first
  BY <1>1, <1>2 DEF Call, WellFormed
<1>4. c.pc \in {"unhead", "seek"} /\ (c.pc = "unhead" => first = c.el)
  BY <1>1 DEF Call
<1>5. call' = [call EXCEPT ![t] = c]
  BY DEF Remove, IInv, TypeInv, TypeOK, Call
<1>6. call[t].el \in InList /\ first \in InList \cup {NULL}
  BY <1>1 DEF IInv, CallInv, ListInv
<1> HIDE DEF c
<1> QED
  BY <1>1, <1>3, <1>4, <1>5, <1>6, WalkingStep DEF Becomes, Apart

LEMMA SeekStep ==
    ASSUME IInv, NEW t \in Task, Seek(t)
    PROVE  IInv'
<1> DEFINE cur == call[t].cur
           c == IF sc_next[cur] = call[t].el THEN [call[t] EXCEPT !.pc = "cut"]
                ELSE [call[t] EXCEPT !.cur = sc_next[cur]]
<1>1. /\ call[t].pc = "seek" /\ Runs(t) /\ call[t] \in Call /\ WellFormed(call[t]) /\ cur # NULL
      /\ UNCHANGED <<first, sc_next, sock, alloc, sock_cpt>>
  BY DEF Seek, At, IInv, TypeInv, TypeOK
<1>2. call[t].op = "close" /\ cur \in InList /\ call[t].el \in InList
  BY <1>1 DEF WellFormed, Call, IInv, CallInv
<1>3. sc_next[cur] \in InList \cup {NULL} /\ InList \subseteq Cell
  BY <1>2 DEF IInv, ListInv, InList, TypeInv, TypeOK
<1>4. /\ c \in Call /\ WellFormed(c) /\ c.op = call[t].op /\ c.el = call[t].el
      /\ c.pc \in {"seek", "cut"} /\ c.cur \in InList \cup {NULL}
      /\ c.pc = "cut" => c.cur # NULL /\ sc_next[c.cur] = c.el
  BY <1>1, <1>2, <1>3 DEF Call, WellFormed
<1>5. call' = [call EXCEPT ![t] = c]
  BY DEF Seek, IInv, TypeInv, TypeOK, Call
<1> HIDE DEF c
<1> QED
  BY <1>1, <1>2, <1>4, <1>5, WalkingStep DEF Becomes, Apart

-----------------------------------------------------------------------------
(* The steps that change the list.                                         *)

LEMMA LinkStep ==
    ASSUME IInv, NEW t \in Task, Link(t)
    PROVE  IInv'
<1> DEFINE el == call[t].el
<1>1. /\ Runs(t) /\ call[t] \in Call /\ WellFormed(call[t]) /\ UNCHANGED <<sock, alloc, sock_cpt>>
      /\ call[t].pc \in {"link", "head"}
  BY DEF Link, At, IInv, TypeInv, TypeOK
<1>2. call[t].op = "socket" /\ el \in Cell /\ el \in alloc
  BY <1>1 DEF WellFormed, Call, IInv, CallInv, Apart
<1>3. el \notin InList /\ InList \subseteq Cell /\ NULL \notin Cell
  BY <1>1, ListAssumption DEF InList, Apart, IInv, TypeInv, TypeOK
<1>4. \A u \in Task \ {t} : call[u].op = "find" /\ call[u].pc \in {"idle", "walk"}
  BY <1>2, OthersFind
<1>5. CASE /\ call[t].pc = "link" /\ sc_next' = [sc_next EXCEPT ![el] = first] /\ first' = first
           /\ call' = [call EXCEPT ![t].pc = "head"]
  <2> DEFINE c == [call[t] EXCEPT !.pc = "head"]
  <2>1. c \in Call /\ WellFormed(c) /\ c.pc = "head" /\ c.op = "socket" /\ c.el = el
    BY <1>1, <1>2 DEF Call, WellFormed
  <2>2. call' = [call EXCEPT ![t] = c]
    BY <1>5 DEF IInv, TypeInv, TypeOK, Call
  <2> HIDE DEF c
  <2>3. call' \in [Task -> Call] /\ call'[t] = c /\ \A u \in Task \ {t} : call'[u] = call[u]
    BY <2>1, <2>2, Update
  <2>4. (\A u \in Task : WellFormed(call'[u])) /\ Alone'
    BY <1>1, <1>2, <2>1, <2>2, StepOfCall DEF Becomes
  <2>5. /\ sc_next' \in [Cell -> Cell \cup {NULL}] /\ sc_next'[el] = first
        /\ \A d \in InList : sc_next'[d] = sc_next[d]
    BY <1>2, <1>3, <1>5 DEF IInv, TypeInv, TypeOK
  <2>6. TypeInv'
    BY <1>1, <1>5, <2>3, <2>4, <2>5 DEF IInv, TypeInv, TypeOK, WellFormed
  <2>7. InList' = InList
    BY <1>1, <1>5, <2>1, <2>3 DEF InList, Apart
  <2>8. ListInv'
    BY <1>5, <2>5, <2>7 DEF IInv, ListInv
  <2>9. CallInv'
    BY <1>1, <1>2, <1>4, <1>5, <2>1, <2>3, <2>5, <2>7 DEF IInv, CallInv, Apart
  <2> QED
    BY <2>4, <2>6, <2>8, <2>9 DEF IInv
<1>6. CASE /\ call[t].pc = "head" /\ first' = el /\ sc_next' = sc_next
           /\ call' = [call EXCEPT ![t] = Idle]
  <2>1. call' \in [Task -> Call] /\ call'[t] = Idle /\ \A u \in Task \ {t} : call'[u] = call[u]
    BY <1>6, IdleCall, Update
  <2>2. (\A u \in Task : WellFormed(call'[u])) /\ Alone'
    BY <1>1, <1>6, IdleCall, StepOfCall DEF Becomes
  <2>3. TypeInv'
    BY <1>1, <1>2, <1>6, <2>1, <2>2 DEF IInv, TypeInv, TypeOK, WellFormed
  <2>4. InList' = InList \cup {el}
    BY <1>1, <1>2, <1>4, <1>6, <2>1, IdleCall DEF InList, Apart
  <2>5. sc_next[el] = first
    BY <1>6 DEF IInv, CallInv
  <2>6. ListInv'
    BY <1>3, <1>6, <2>4, <2>5 DEF IInv, ListInv
  <2>7. CallInv'
    BY <1>1, <1>4, <2>1, <2>4, IdleCall DEF IInv, CallInv, Apart
  <2> QED
    BY <2>2, <2>3, <2>6, <2>7 DEF IInv
<1> QED
  BY <1>5, <1>6 DEF Link, At

\* The element that a close has unlinked: nobody else is in a call, so no
\* walk stands on it.
LEMMA UnlinkStep ==
    ASSUME IInv, NEW t \in Task, Runs(t), call[t].op = "close", call[t].el \in InList,
           call' = [call EXCEPT ![t].pc = "free"], ListInv',
           first' \in Cell \cup {NULL}, sc_next' \in [Cell -> Cell \cup {NULL}],
           UNCHANGED <<sock, alloc, sock_cpt>>
    PROVE  IInv'
<1> DEFINE c == [call[t] EXCEPT !.pc = "free"]
<1>1. \A u \in Task \ {t} : call[u].pc = "idle"
  BY CloseRunsAlone
<1>2. call[t] \in Call /\ WellFormed(call[t]) /\ call[t].pc # "idle" /\ InList \subseteq alloc /\ alloc \subseteq Cell
  BY DEF IInv, TypeInv, TypeOK, WellFormed, Call, InList, Idle
<1>3. c \in Call /\ WellFormed(c) /\ c.pc = "free" /\ c.op = "close" /\ c.el = call[t].el
  BY <1>2 DEF Call, WellFormed
<1>4. call' = [call EXCEPT ![t] = c]
  BY DEF IInv, TypeInv, TypeOK, Call
<1> HIDE DEF c
<1>5. call' \in [Task -> Call] /\ call'[t] = c /\ \A u \in Task \ {t} : call'[u] = call[u]
  BY <1>3, <1>4, Update
<1>6. (\A u \in Task : WellFormed(call'[u])) /\ Alone'
  BY <1>2, <1>3, <1>4, StepOfCall DEF Becomes
<1>7. TypeInv'
  BY <1>5, <1>6 DEF IInv, TypeInv, TypeOK, WellFormed
<1>8. CallInv'
  BY <1>1, <1>2, <1>3, <1>5 DEF CallInv, Apart
<1> QED
  BY <1>6, <1>7, <1>8 DEF IInv

\* What InList is after it.
LEMMA InListWithout ==
    ASSUME IInv, NEW t \in Task, call[t].pc \in {"unhead", "cut"},
           call' = [call EXCEPT ![t].pc = "free"], alloc' = alloc
    PROVE  InList' = InList \ {call[t].el}
<1> DEFINE c == [call[t] EXCEPT !.pc = "free"]
<1>1. call[t] \in Call /\ c \in Call /\ c.pc = "free" /\ c.el = call[t].el
  BY DEF IInv, TypeInv, TypeOK, Call
<1>2. call' = [call EXCEPT ![t] = c]
  BY DEF IInv, TypeInv, TypeOK, Call
<1> HIDE DEF c
<1>3. call'[t] = c /\ \A u \in Task \ {t} : call'[u] = call[u]
  BY <1>1, <1>2, Update
<1> QED
  BY <1>1, <1>3 DEF InList, Apart

LEMMA UnheadStep ==
    ASSUME IInv, NEW t \in Task, Unhead(t)
    PROVE  IInv'
<1> DEFINE el == call[t].el
<1>1. /\ Runs(t) /\ call[t].pc = "unhead" /\ call[t] \in Call /\ WellFormed(call[t])
      /\ call' = [call EXCEPT ![t].pc = "free"]
      /\ first' = sc_next[first] /\ UNCHANGED <<sc_next, sock, alloc, sock_cpt>>
  BY DEF Unhead, At, IInv, TypeInv, TypeOK
<1>2. call[t].op = "close" /\ el \in InList /\ first = el
  BY <1>1 DEF WellFormed, Call, IInv, CallInv
<1>3. InList' = InList \ {el}
  BY <1>1, InListWithout
<1>4. InList \subseteq Cell /\ NULL \notin Cell /\ sc_next \in [Cell -> Cell \cup {NULL}]
  BY ListAssumption DEF InList, IInv, TypeInv, TypeOK
<1>5. ListInv'
  <2>1. first' \in InList' \cup {NULL}
    BY <1>1, <1>2, <1>3 DEF IInv, ListInv
  <2>2. ASSUME NEW d \in InList' PROVE sc_next[d] \in InList' \cup {NULL} /\ (sc_next[d] # NULL => sc_next[d] # first')
    BY <1>1, <1>2, <1>3 DEF IInv, ListInv
  <2> QED
    BY <1>1, <1>3, <2>1, <2>2 DEF IInv, ListInv
<1> QED
  BY <1>1, <1>2, <1>4, <1>5, UnlinkStep

LEMMA CutStep ==
    ASSUME IInv, NEW t \in Task, Cut(t)
    PROVE  IInv'
<1> DEFINE el == call[t].el
           cur == call[t].cur
<1>1. /\ Runs(t) /\ call[t].pc = "cut" /\ call[t] \in Call /\ WellFormed(call[t])
      /\ call' = [call EXCEPT ![t].pc = "free"]
      /\ sc_next' = [sc_next EXCEPT ![cur] = sc_next[el]]
      /\ UNCHANGED <<first, sock, alloc, sock_cpt>>
  BY DEF Cut, At, IInv, TypeInv, TypeOK
<1>2. call[t].op = "close" /\ el \in InList /\ cur \in InList /\ sc_next[cur] = el
  BY <1>1 DEF WellFormed, Call, IInv, CallInv
<1>3. InList' = InList \ {el}
  BY <1>1, InListWithout
<1>4. InList \subseteq Cell /\ NULL \notin Cell /\ sc_next \in [Cell -> Cell \cup {NULL}]
  BY ListAssumption DEF InList, IInv, TypeInv, TypeOK
<1>5. /\ sc_next' \in [Cell -> Cell \cup {NULL}] /\ sc_next'[cur] = sc_next[el]
      /\ \A d \in Cell \ {cur} : sc_next'[d] = sc_next[d]
  BY <1>1, <1>2, <1>4
<1>6. \A d \in InList : d # cur => sc_next[d] # el
  BY <1>2, <1>4 DEF IInv, ListInv
<1>7. first # el
  BY <1>2, <1>4 DEF IInv, ListInv
<1>8. cur # el => sc_next[el] # el
  BY <1>2, <1>6
<1>9. ListInv'
  <2>1. first' \in InList' \cup {NULL}
    BY <1>1, <1>3, <1>7 DEF IInv, ListInv
  <2>2. ASSUME NEW d \in InList'
        PROVE  sc_next'[d] \in InList' \cup {NULL} /\ (sc_next'[d] # NULL => sc_next'[d] # first')
    BY <1>1, <1>2, <1>3, <1>4, <1>5, <1>6, <1>8 DEF IInv, ListInv
  <2>3. ASSUME NEW d \in InList', NEW e \in InList', sc_next'[d] = sc_next'[e], sc_next'[d] # NULL
        PROVE  d = e
    BY <1>2, <1>3, <1>4, <1>5, <2>3 DEF IInv, ListInv
  <2> QED
    BY <2>1, <2>2, <2>3 DEF ListInv
<1> QED
  BY <1>1, <1>2, <1>4, <1>5, <1>9, UnlinkStep DEF IInv, TypeInv, TypeOK

LEMMA FreeStep ==
    ASSUME IInv, NEW t \in Task, Free(t)
    PROVE  IInv'
<1> DEFINE el == call[t].el
<1>1. /\ Runs(t) /\ call[t].pc = "free" /\ call[t] \in Call /\ WellFormed(call[t])
      /\ call' = [call EXCEPT ![t] = Idle] /\ alloc' = alloc \ {el}
      /\ UNCHANGED <<first, sc_next, sock, sock_cpt>>
  BY DEF Free, At, IInv, TypeInv, TypeOK
<1>2. call[t].op = "close"
  BY <1>1 DEF WellFormed, Call
<1>3. \A u \in Task \ {t} : call[u].pc = "idle"
  BY <1>1, <1>2, CloseRunsAlone
<1>4. call' \in [Task -> Call] /\ call'[t] = Idle /\ \A u \in Task \ {t} : call'[u] = call[u]
  BY <1>1, IdleCall, Update
<1>5. (\A u \in Task : WellFormed(call'[u])) /\ Alone'
  BY <1>1, IdleCall, StepOfCall DEF Becomes
<1>6. TypeInv'
  BY <1>1, <1>4, <1>5 DEF IInv, TypeInv, TypeOK, WellFormed
<1>7. InList' = InList
  BY <1>1, <1>3, <1>4, IdleCall DEF InList, Apart
<1>8. ListInv'
  BY <1>1, <1>7 DEF IInv, ListInv
<1>9. CallInv'
  BY <1>3, <1>4, IdleCall DEF CallInv, Apart
<1> QED
  BY <1>5, <1>6, <1>8, <1>9 DEF IInv

-----------------------------------------------------------------------------
(* How a step changes the list: not, by an element put at its head, or by  *)
(* one taken from the head or from behind another.                         *)

Kept ==
    /\ InList' = InList /\ first' = first
    /\ \A c \in InList : sc_next'[c] = sc_next[c]

Headed(el) ==
    /\ el \in alloc \ InList /\ sc_next[el] = first
    /\ InList' = InList \cup {el} /\ first' = el /\ sc_next' = sc_next

Unheaded(el) ==
    /\ el \in InList /\ first = el
    /\ InList' = InList \ {el} /\ first' = sc_next[el] /\ sc_next' = sc_next

CutOut(cur, el) ==
    /\ cur \in InList /\ el \in InList /\ sc_next[cur] = el
    /\ InList' = InList \ {el} /\ first' = first
    /\ sc_next' = [sc_next EXCEPT ![cur] = sc_next[el]]

Changed ==
    \E cur, el \in Cell : Headed(el) \/ Unheaded(el) \/ CutOut(cur, el)

LEMMA SocketChange ==
    ASSUME IInv, NEW t \in Task, Socket(t)
    PROVE  Kept
<1>1. PICK el \in Cell \ alloc :
        /\ alloc' = alloc \cup {el}
        /\ sc_next' = [sc_next EXCEPT ![el] = NULL]
        /\ call' = [call EXCEPT ![t] = [Idle EXCEPT !.pc = "link", !.op = "socket", !.el = el]]
  BY DEF Socket
<1> DEFINE c == [Idle EXCEPT !.pc = "link", !.op = "socket", !.el = el]
<1>2. c \in Call /\ c.pc = "link" /\ c.el = el
  BY DEF Idle, Call
<1> HIDE DEF c
<1>3. call'[t] = c /\ \A u \in Task \ {t} : call'[u] = call[u]
  BY <1>1, <1>2, Update DEF c
<1>4. call[t].pc = "idle" /\ first' = first
  BY DEF Socket, At
<1>5. InList' = InList
  BY <1>1, <1>2, <1>3, <1>4 DEF InList, Apart
<1>6. \A d \in InList : sc_next'[d] = sc_next[d]
  BY <1>1 DEF InList, IInv, TypeInv, TypeOK
<1> QED
  BY <1>4, <1>5, <1>6 DEF Kept

\* A step of one call that leaves the pointers alone and has nothing apart.
LEMMA WalkingChange ==
    ASSUME IInv, NEW t \in Task, NEW c \in Call, call' = [call EXCEPT ![t] = c],
           call[t].pc \notin Apart, c.pc \notin Apart, UNCHANGED <<first, sc_next, alloc>>
    PROVE  Kept
<1>1. call'[t] = c /\ \A u \in Task \ {t} : call'[u] = call[u]
  BY Update
<1> QED
  BY <1>1 DEF Kept, InList, Apart

LEMMA EnterChange ==
    ASSUME IInv, NEW t \in Task, Enter(t)
    PROVE  Kept
<1>1. PICK op \in {"find", "close"}, id \in 1 .. sock_cpt :
        call' = [call EXCEPT ![t] = [Idle EXCEPT !.pc = "walk", !.op = op, !.want = id,
                                                 !.cur = first, !.due = id \in Open]]
  BY DEF Enter
<1> DEFINE due == id \in Open
           c == [Idle EXCEPT !.pc = "walk", !.op = op, !.want = id, !.cur = first, !.due = due]
<1>2. due \in BOOLEAN
  <2>1. CASE id \in Open
    BY <2>1
  <2>2. CASE id \notin Open
    BY <2>2
  <2> QED
    BY <2>1, <2>2
<1>3. id \in SockId /\ first \in Cell \cup {NULL}
  BY ListAssumption DEF SockId, IInv, TypeInv, TypeOK
<1>4. c \in Call /\ c.pc = "walk"
  <2> HIDE DEF due
  <2> QED
    BY <1>2, <1>3 DEF Idle, Call
<1>5. call[t].pc = "idle" /\ UNCHANGED <<first, sc_next, alloc>>
  BY DEF Enter, At
<1>6. call' = [call EXCEPT ![t] = c]
  BY <1>1
<1> HIDE DEF c
<1> QED
  BY <1>4, <1>5, <1>6, WalkingChange DEF Apart

LEMMA FindChange ==
    ASSUME IInv, NEW t \in Task, _lorawan_find_el(t) \/ Remove(t) \/ Seek(t)
    PROVE  Kept
<1>1. /\ call[t] \in Call /\ call[t].pc \in {"walk", "remove", "seek"}
      /\ UNCHANGED <<first, sc_next, alloc>>
  BY DEF _lorawan_find_el, Remove, Seek, At, IInv, TypeInv, TypeOK
<1>2. /\ call[t].cur \in Cell \cup {NULL} /\ first \in Cell \cup {NULL}
      /\ sc_next \in [Cell -> Cell \cup {NULL}]
  BY <1>1 DEF Call, IInv, TypeInv, TypeOK
<1>3. PICK c : c \in Call /\ c.pc \notin Apart /\ call' = [call EXCEPT ![t] = c]
  <2>1. CASE _lorawan_find_el(t)
    <3>1. \/ call' = [call EXCEPT ![t] = [call[t] EXCEPT !.pc = "remove", !.el = call[t].cur]]
          \/ call' = [call EXCEPT ![t] = Idle]
          \/ call[t].cur # NULL /\ call' = [call EXCEPT ![t] = [call[t] EXCEPT !.cur = sc_next[call[t].cur]]]
      BY <2>1 DEF _lorawan_find_el, Found, IInv, TypeInv, TypeOK, Call
    <3>2. [call[t] EXCEPT !.pc = "remove", !.el = call[t].cur] \in Call
      BY <1>1, <1>2 DEF Call
    <3>3. call[t].cur # NULL => [call[t] EXCEPT !.cur = sc_next[call[t].cur]] \in Call
      BY <1>1, <1>2 DEF Call
    <3>4. /\ [call[t] EXCEPT !.pc = "remove", !.el = call[t].cur].pc = "remove"
          /\ [call[t] EXCEPT !.cur = sc_next[call[t].cur]].pc = call[t].pc
      BY <1>1 DEF Call
    <3> QED
      BY <1>1, <3>1, <3>2, <3>3, <3>4, IdleCall DEF Apart
  <2>2. CASE Remove(t)
    <3> DEFINE c == [call[t] EXCEPT !.pc = IF first = call[t].el THEN "unhead" ELSE "seek", !.cur = first]
    <3>1. c \in Call /\ c.pc \in {"unhead", "seek"} /\ call' = [call EXCEPT ![t] = c]
      BY <1>1, <1>2, <2>2 DEF Remove, IInv, TypeInv, TypeOK, Call
    <3> QED
      BY <3>1 DEF Apart
  <2>3. CASE Seek(t)
    <3> DEFINE c == IF sc_next[call[t].cur] = call[t].el THEN [call[t] EXCEPT !.pc = "cut"]
                    ELSE [call[t] EXCEPT !.cur = sc_next[call[t].cur]]
    <3>1. c \in Call /\ c.pc \in {"cut", "seek", call[t].pc}
      BY <1>1, <1>2, <2>3 DEF Seek, Call
    <3>2. call' = [call EXCEPT ![t] = c]
      BY <2>3 DEF Seek, IInv, TypeInv, TypeOK, Call
    <3> QED
      BY <1>1, <3>1, <3>2 DEF Apart
  <2> QED
    BY <2>1, <2>2, <2>3
<1> QED
  BY <1>1, <1>3, WalkingChange DEF Apart

LEMMA LinkChange ==
    ASSUME IInv, NEW t \in Task, Link(t)
    PROVE  Kept \/ Headed(call[t].el)
<1> DEFINE el == call[t].el
<1>1. /\ call[t] \in Call /\ WellFormed(call[t]) /\ alloc' = alloc /\ call[t].pc \in {"link", "head"}
  BY DEF Link, At, IInv, TypeInv, TypeOK
<1>2. call[t].op = "socket" /\ el \in Cell /\ el \in alloc
  BY <1>1 DEF WellFormed, Call, IInv, CallInv, Apart
<1>3. el \notin InList
  BY <1>1 DEF InList, Apart
<1>4. CASE /\ call[t].pc = "link" /\ sc_next' = [sc_next EXCEPT ![el] = first] /\ first' = first
           /\ call' = [call EXCEPT ![t].pc = "head"]
  <2> DEFINE c == [call[t] EXCEPT !.pc = "head"]
  <2>1. c \in Call /\ c.pc = "head" /\ c.el = el /\ call' = [call EXCEPT ![t] = c]
    BY <1>1, <1>4 DEF IInv, TypeInv, TypeOK, Call
  <2> HIDE DEF c
  <2>2. call'[t] = c /\ \A u \in Task \ {t} : call'[u] = call[u]
    BY <2>1, Update
  <2>3. InList' = InList
    BY <1>1, <1>4, <2>1, <2>2 DEF InList, Apart
  <2>4. \A d \in InList : sc_next'[d] = sc_next[d]
    BY <1>2, <1>3, <1>4 DEF IInv, TypeInv, TypeOK, InList
  <2> QED
    BY <1>4, <2>3, <2>4 DEF Kept
<1>5. CASE /\ call[t].pc = "head" /\ first' = el /\ sc_next' = sc_next
           /\ call' = [call EXCEPT ![t] = Idle]
  <2>1. call'[t] = Idle /\ \A u \in Task \ {t} : call'[u] = call[u]
    BY <1>5, IdleCall, Update
  <2>2. \A u \in Task \ {t} : call[u].pc \in {"idle", "walk"}
    BY <1>2, OthersFind
  <2>3. InList' = InList \cup {el}
    BY <1>1, <1>2, <1>5, <2>1, <2>2, IdleCall DEF InList, Apart
  <2>4. sc_next[el] = first
    BY <1>5 DEF IInv, CallInv
  <2> QED
    BY <1>2, <1>3, <1>5, <2>3, <2>4 DEF Headed
<1> QED
  BY <1>4, <1>5 DEF Link, At

LEMMA UnheadChange ==
    ASSUME IInv, NEW t \in Task, Unhead(t)
    PROVE  Unheaded(call[t].el)
<1>1. /\ call[t].pc = "unhead" /\ call' = [call EXCEPT ![t].pc = "free"]
      /\ first' = sc_next[first] /\ UNCHANGED <<sc_next, alloc>>
  BY DEF Unhead, At
<1>2. call[t].el \in InList /\ first = call[t].el
  BY <1>1 DEF IInv, CallInv
<1>3. InList' = InList \ {call[t].el}
  BY <1>1, InListWithout
<1> QED
  BY <1>1, <1>2, <1>3 DEF Unheaded

LEMMA CutChange ==
    ASSUME IInv, NEW t \in Task, Cut(t)
    PROVE  CutOut(call[t].cur, call[t].el)
<1>1. /\ call[t].pc = "cut" /\ call' = [call EXCEPT ![t].pc = "free"]
      /\ sc_next' = [sc_next EXCEPT ![call[t].cur] = sc_next[call[t].el]]
      /\ UNCHANGED <<first, alloc>>
  BY DEF Cut, At
<1>2. call[t].el \in InList /\ call[t].cur \in InList /\ sc_next[call[t].cur] = call[t].el
  BY <1>1 DEF IInv, CallInv
<1>3. InList' = InList \ {call[t].el}
  BY <1>1, InListWithout
<1> QED
  BY <1>1, <1>2, <1>3 DEF CutOut

LEMMA FreeChange ==
    ASSUME IInv, NEW t \in Task, Free(t)
    PROVE  Kept
<1>1. /\ Runs(t) /\ call[t].pc = "free" /\ call[t] \in Call /\ WellFormed(call[t])
      /\ call' = [call EXCEPT ![t] = Idle] /\ alloc' = alloc \ {call[t].el}
      /\ UNCHANGED <<first, sc_next>>
  BY DEF Free, At, IInv, TypeInv, TypeOK
<1>2. call[t].op = "close"
  BY <1>1 DEF WellFormed, Call
<1>3. \A u \in Task \ {t} : call[u].pc = "idle"
  BY <1>1, <1>2, CloseRunsAlone
<1>4. call'[t] = Idle /\ \A u \in Task \ {t} : call'[u] = call[u]
  BY <1>1, IdleCall, Update
<1>5. InList' = InList
  BY <1>1, <1>3, <1>4, IdleCall DEF InList, Apart
<1> QED
  BY <1>1, <1>5 DEF Kept

LEMMA ListChange ==
    ASSUME IInv, [Next]_vars
    PROVE  Kept \/ Changed
<1>1. \A t \in Task : call[t] \in Call
  BY DEF IInv, TypeInv, TypeOK
<1>2. ASSUME NEW t \in Task, Link(t) PROVE Kept \/ Changed
  <2>1. call[t].el \in Cell
    BY <1>2 DEF Link, At, IInv, TypeInv, WellFormed
  <2> QED
    BY <1>2, <2>1, LinkChange DEF Changed
<1>3. ASSUME NEW t \in Task, Unhead(t) PROVE Changed
  <2>1. call[t].el \in Cell
    BY <1>3 DEF Unhead, At, IInv, TypeInv, WellFormed
  <2> QED
    BY <1>3, <2>1, UnheadChange DEF Changed
<1>4. ASSUME NEW t \in Task, Cut(t) PROVE Changed
  <2>1. call[t].el \in Cell /\ call[t].cur \in Cell
    <3>1. CutOut(call[t].cur, call[t].el)
      BY <1>4, CutChange
    <3> QED
      BY <3>1 DEF CutOut, InList, IInv, TypeInv, TypeOK
  <2> QED
    BY <1>4, <2>1, CutChange DEF Changed
<1>5. ASSUME UNCHANGED vars PROVE Kept
  BY <1>5 DEF vars, Kept, InList
<1> QED
  BY <1>2, <1>3, <1>4, <1>5, SocketChange, EnterChange, FindChange, FreeChange DEF Next, Step

-----------------------------------------------------------------------------
(* The shape of the list: the cells in it are those met from first on, and *)
(* no cells of it lead only to each other.                                 *)

Ends == \A S \in SUBSET InList : S # {} => \E c \in S : sc_next[c] \notin S

Reach == \A S \in SUBSET Cell : first \in S \cup {NULL} /\ Closed(S) => InList \subseteq S

LEMMA CellsOfList == ASSUME IInv PROVE InList \subseteq Cell /\ NULL \notin Cell
  BY ListAssumption DEF InList, IInv, TypeInv, TypeOK

\* What is closed after a step that kept the list is closed in it before.
LEMMA KeptClosed ==
    ASSUME IInv, Kept, NEW S \in SUBSET Cell, Closed(S)'
    PROVE  Closed(S \cap InList) /\ S \cap InList \in SUBSET Cell
<1>1. \A c \in InList : sc_next[c] \in InList \cup {NULL}
  BY DEF IInv, ListInv
<1> QED
  BY <1>1 DEF Closed, Kept

LEMMA EndsStep ==
    ASSUME IInv, Ends, Kept \/ Changed
    PROVE  Ends'
<1> USE CellsOfList
<1>1. SUFFICES ASSUME NEW S \in SUBSET InList', S # {}
               PROVE  \E c \in S : sc_next'[c] \notin S
  BY DEF Ends
<1>2. CASE Kept
  BY <1>1, <1>2 DEF Kept, Ends
<1>3. ASSUME NEW el \in Cell, Headed(el) PROVE \E c \in S : sc_next'[c] \notin S
  <2>1. CASE S \ {el} # {}
    <3>1. S \ {el} \in SUBSET InList
      BY <1>3 DEF Headed
    <3>2. PICK c \in S \ {el} : sc_next[c] \notin S \ {el}
      BY <2>1, <3>1 DEF Ends
    <3>3. sc_next[c] # el
      BY <1>3, <3>1 DEF Headed, IInv, ListInv
    <3> QED
      BY <1>3, <3>2, <3>3 DEF Headed
  <2>2. CASE S \ {el} = {}
    <3>1. S = {el}
      BY <1>1, <2>2
    <3>2. sc_next'[el] = first /\ first # el
      BY <1>3 DEF Headed, IInv, ListInv
    <3> QED
      BY <3>1, <3>2
  <2> QED
    BY <2>1, <2>2
<1>4. ASSUME NEW el \in Cell, Unheaded(el) PROVE \E c \in S : sc_next'[c] \notin S
  BY <1>1, <1>4 DEF Unheaded, Ends
<1>5. ASSUME NEW cur \in Cell, NEW el \in Cell, CutOut(cur, el) PROVE \E c \in S : sc_next'[c] \notin S
  <2>1. S \in SUBSET InList /\ el \notin S /\ sc_next[cur] = el /\ el \in InList
    BY <1>5 DEF CutOut
  <2>2. sc_next'[cur] = sc_next[el] /\ \A c \in S : c # cur => sc_next'[c] = sc_next[c]
    BY <1>5, <2>1 DEF CutOut, IInv, TypeInv, TypeOK
  <2>3. CASE cur \notin S
    BY <1>1, <2>1, <2>2, <2>3 DEF Ends
  <2>4. CASE cur \in S
    <3>1. PICK c \in S \cup {el} : sc_next[c] \notin S \cup {el}
      BY <2>1 DEF Ends
    <3>2. CASE c = el
      BY <2>2, <2>4, <3>1, <3>2
    <3>3. CASE c # el
      BY <2>1, <2>2, <3>1, <3>3
    <3> QED
      BY <3>2, <3>3
  <2> QED
    BY <2>3, <2>4
<1> QED
  BY <1>2, <1>3, <1>4, <1>5 DEF Changed

LEMMA ReachStep ==
    ASSUME IInv, Reach, Kept \/ Changed
    PROVE  Reach'
<1> USE CellsOfList
<1>1. SUFFICES ASSUME NEW S \in SUBSET Cell, first' \in S \cup {NULL}, Closed(S)'
               PROVE  InList' \subseteq S
  BY DEF Reach
<1>2. CASE Kept
  <2>1. first \in (S \cap InList) \cup {NULL}
    BY <1>1, <1>2 DEF Kept, IInv, ListInv
  <2> QED
    BY <1>1, <1>2, <2>1, KeptClosed DEF Kept, Reach
<1>3. ASSUME NEW el \in Cell, Headed(el) PROVE InList' \subseteq S
  <2>1. el \in S /\ Closed(S) /\ first \in S \cup {NULL}
    BY <1>1, <1>3 DEF Headed, Closed
  <2> QED
    BY <1>3, <2>1 DEF Headed, Reach
<1>4. ASSUME NEW el \in Cell, Unheaded(el) PROVE InList' \subseteq S
  <2>1. Closed(S \cup {el}) /\ first \in S \cup {el}
    BY <1>1, <1>4 DEF Unheaded, Closed
  <2> QED
    BY <1>4, <2>1 DEF Unheaded, Reach
<1>5. ASSUME NEW cur \in Cell, NEW el \in Cell, CutOut(cur, el) PROVE InList' \subseteq S
  <2>1. /\ cur \in InList /\ el \in InList /\ sc_next[cur] = el /\ first' = first
        /\ sc_next'[cur] = sc_next[el] /\ \A c \in Cell : c # cur => sc_next'[c] = sc_next[c]
        /\ InList' = InList \ {el}
    BY <1>5 DEF CutOut, IInv, TypeInv, TypeOK
  <2>2. \A c \in InList : sc_next[c] \in InList \cup {NULL} /\ (sc_next[c] = el => c = cur)
    BY <2>1 DEF IInv, ListInv
  <2>3. first \in InList \cup {NULL} /\ first # el
    BY <2>1 DEF IInv, ListInv
  <2>4. el # cur
    <3>1. \E c \in {cur} : sc_next[c] \notin {cur}
      BY <2>1, <2>3, <1>1, <2>2 DEF Reach, Closed
    <3> QED
      BY <2>1, <3>1
  <2>5. CASE cur \in S
    <3> DEFINE T == (S \cap InList) \cup {el}
    <3>1. Closed(T)
      BY <1>1, <2>1, <2>2, <2>4, <2>5 DEF Closed
    <3>2. first \in T \cup {NULL} /\ T \in SUBSET Cell
      BY <1>1, <2>1, <2>3
    <3>3. InList \subseteq T
      BY <3>1, <3>2 DEF Reach
    <3> QED
      BY <2>1, <3>3
  <2>6. CASE cur \notin S
    <3> DEFINE T == (S \cap InList) \ {el}
    <3>1. Closed(T)
      BY <1>1, <2>1, <2>2, <2>6 DEF Closed
    <3>2. first \in T \cup {NULL} /\ T \in SUBSET Cell
      BY <1>1, <2>1, <2>3
    <3>3. InList \subseteq T
      BY <3>1, <3>2 DEF Reach
    <3> QED
      BY <2>1, <2>6, <3>3
  <2> QED
    BY <2>5, <2>6
<1> QED
  BY <1>2, <1>3, <1>4, <1>5 DEF Changed

LEMMA LinkedIsInList == ASSUME IInv, Reach PROVE Linked = InList
<1>1. InList \in SUBSET Cell /\ first \in InList \cup {NULL} /\ Closed(InList)
  BY CellsOfList DEF IInv, ListInv, Closed
<1>2. Linked \subseteq InList
  BY <1>1 DEF Linked
<1>3. InList \subseteq Linked
  BY <1>1, SMTT(30) DEF Reach, Linked
<1> QED
  BY <1>2, <1>3

-----------------------------------------------------------------------------
(* The ids, and what a walk still has before it.                           *)

Ids ==
    /\ \A c, d \in alloc : sock[c] = sock[d] => c = d
    /\ \A c \in alloc : sock[c] \in 1 .. sock_cpt

\* The pointers lead a walk to the cell of a socket that was open when the
\* walk began.
Ahead(c) ==
    /\ c.cur \in InList
    /\ \E d \in InList :
        /\ sock[d] = c.want
        /\ \A S \in SUBSET Cell : c.cur \in S /\ Closed(S) => d \in S

WalkInv == \A t \in Task, c \in Call : call[t] = c /\ c.pc = "walk" /\ c.due => Ahead(c)

Shape == Ends /\ Reach /\ Ids /\ WalkInv

LEMMA IdsStep ==
    ASSUME IInv, Ids, [Next]_vars
    PROVE  Ids' /\ \A c \in InList : sock'[c] = sock[c]
<1>0. InList \subseteq alloc /\ alloc \subseteq Cell /\ sock_cpt \in Nat
  BY ListAssumption DEF InList, IInv, TypeInv, TypeOK
<1>1. ASSUME NEW t \in Task, Socket(t) PROVE Ids' /\ \A c \in InList : sock'[c] = sock[c]
  <2>1. PICK el \in Cell \ alloc :
          /\ alloc' = alloc \cup {el}
          /\ sock' = [sock EXCEPT ![el] = sock_cpt + 1]
    BY <1>1 DEF Socket
  <2>2. sock_cpt' = sock_cpt + 1
    BY <1>1 DEF Socket
  <2>3. sock'[el] = sock_cpt + 1 /\ \A c \in alloc : sock'[c] = sock[c]
    BY <1>0, <2>1 DEF IInv, TypeInv, TypeOK
  <2>4. \A c \in alloc : sock'[c] # sock'[el] /\ sock'[c] \in 1 .. sock_cpt
    BY <1>0, <2>3 DEF Ids
  <2>5. \A c, d \in alloc' : sock'[c] = sock'[d] => c = d
    BY <2>1, <2>3, <2>4 DEF Ids
  <2>6. \A c \in alloc' : sock'[c] \in 1 .. sock_cpt'
    BY <1>0, <2>1, <2>2, <2>3, <2>4
  <2> QED
    BY <1>0, <2>3, <2>5, <2>6 DEF Ids
<1>2. ASSUME NEW t \in Task, Free(t) PROVE Ids' /\ \A c \in InList : sock'[c] = sock[c]
  BY <1>2 DEF Free, Ids
<1>3. ASSUME UNCHANGED <<sock, alloc, sock_cpt>> PROVE Ids' /\ \A c \in InList : sock'[c] = sock[c]
  BY <1>3 DEF Ids
<1> QED
  BY <1>1, <1>2, <1>3 DEF Next, Step, vars, Enter, Link, _lorawan_find_el, Remove, Unhead, Seek, Cut

\* A walk that a step of another call does not unlink under goes on as before.
LEMMA AheadKept ==
    ASSUME IInv, NEW c \in Call, Ahead(c), \A d \in InList : sock'[d] = sock[d],
           Kept \/ \E el \in Cell : Headed(el)
    PROVE  Ahead(c)'
<1> USE CellsOfList
<1>1. PICK d \in InList :
        /\ sock[d] = c.want
        /\ \A S \in SUBSET Cell : c.cur \in S /\ Closed(S) => d \in S
  BY DEF Ahead
<1>2. InList \subseteq InList'
  BY DEF Kept, Headed
<1>3. ASSUME NEW S \in SUBSET Cell, c.cur \in S, Closed(S)' PROVE d \in S
  <2>1. CASE Kept
    <3>1. Closed(S \cap InList) /\ S \cap InList \in SUBSET Cell
      BY <1>3, <2>1, KeptClosed
    <3>2. c.cur \in S \cap InList
      BY <1>3 DEF Ahead
    <3> QED
      BY <1>1, <3>1, <3>2
  <2>2. CASE \E el \in Cell : Headed(el)
    BY <1>1, <1>3, <2>2 DEF Headed, Closed
  <2> QED
    BY <2>1, <2>2
<1> QED
  BY <1>1, <1>2, <1>3 DEF Ahead

LEMMA EnterAhead ==
    ASSUME IInv, Reach, Ids, WalkInv, [Next]_vars, NEW t \in Task, Enter(t)
    PROVE  WalkInv'
<1>1. PICK op \in {"find", "close"}, id \in 1 .. sock_cpt :
        call' = [call EXCEPT ![t] = [Idle EXCEPT !.pc = "walk", !.op = op, !.want = id,
                                                 !.cur = first, !.due = id \in Open]]
  BY DEF Enter
<1> DEFINE due == id \in Open
           c == [Idle EXCEPT !.pc = "walk", !.op = op, !.want = id, !.cur = first, !.due = due]
<1>2. due \in BOOLEAN
  <2>1. CASE id \in Open
    BY <2>1
  <2>2. CASE id \notin Open
    BY <2>2
  <2> QED
    BY <2>1, <2>2
<1>3. id \in SockId /\ first \in Cell \cup {NULL}
  BY ListAssumption DEF SockId, IInv, TypeInv, TypeOK
<1>4. c \in Call /\ c.pc = "walk" /\ c.want = id /\ c.cur = first /\ c.due = due
  <2> HIDE DEF due
  <2> QED
    BY <1>2, <1>3 DEF Idle, Call
<1>5. call' = [call EXCEPT ![t] = c]
  BY <1>1
<1>6. due => Ahead(c)
  <2> SUFFICES ASSUME due PROVE Ahead(c)
    OBVIOUS
  <2>1. PICK d \in alloc : sock[d] = id /\ \A u \in Task : call[u].el # d
    BY DEF Open
  <2>2. d \in InList
    BY <2>1 DEF InList
  <2>3. first \in InList
    <3>1. {} \in SUBSET Cell /\ Closed({})
      BY DEF Closed
    <3> QED
      BY <2>2, <3>1 DEF Reach, IInv, ListInv
  <2>4. \A S \in SUBSET Cell : first \in S /\ Closed(S) => d \in S
    BY <2>2 DEF Reach
  <2> HIDE DEF c
  <2> QED
    BY <1>4, <2>1, <2>2, <2>3, <2>4 DEF Ahead
<1> HIDE DEF c
<1>7. call'[t] = c /\ \A u \in Task \ {t} : call'[u] = call[u]
  BY <1>4, <1>5, Update
<1>8. Kept /\ \A d \in InList : sock'[d] = sock[d]
  BY EnterChange, IdsStep
<1>9. ASSUME NEW u \in Task, NEW v \in Call, call'[u] = v, v.pc = "walk", v.due PROVE Ahead(v)'
  <2>1. Ahead(v)
    BY <1>4, <1>6, <1>7, <1>9 DEF WalkInv
  <2> QED
    BY <1>8, <2>1, AheadKept
<1> QED
  BY <1>9 DEF WalkInv

LEMMA FindAhead ==
    ASSUME IInv, Ids, WalkInv, [Next]_vars, NEW t \in Task, _lorawan_find_el(t)
    PROVE  WalkInv'
<1> DEFINE cur == call[t].cur
<1>1. call[t] \in Call /\ call[t].pc = "walk" /\ Kept /\ (\A d \in InList : sock'[d] = sock[d])
  BY FindChange, IdsStep DEF _lorawan_find_el, At, IInv, TypeInv, TypeOK
<1>2. \A v \in Call : Ahead(v) => Ahead(v)'
  BY <1>1, AheadKept
<1>3. \A u \in Task \ {t} : call'[u] = call[u]
  BY DEF _lorawan_find_el, Found, IInv, TypeInv, TypeOK
<1>4. ASSUME NEW v \in Call, call'[t] = v, v.pc = "walk", v.due PROVE Ahead(v)
  <2>1. cur # NULL /\ sock[cur] # call[t].want /\ call' = [call EXCEPT ![t].cur = sc_next[cur]]
    BY <1>1, <1>4, IdleCall DEF _lorawan_find_el, Found, IInv, TypeInv, TypeOK, Call
  <2>2. v.want = call[t].want /\ v.cur = sc_next[cur] /\ call[t].due
    BY <1>1, <1>4, <2>1 DEF IInv, TypeInv, TypeOK, Call
  <2>3. Ahead(call[t])
    BY <1>1, <2>2 DEF WalkInv
  <2>4. PICK d \in InList :
          /\ sock[d] = call[t].want
          /\ \A S \in SUBSET Cell : cur \in S /\ Closed(S) => d \in S
    BY <2>3 DEF Ahead
  <2>5. cur \in InList /\ cur \in Cell /\ d # cur /\ sc_next[cur] \in InList \cup {NULL}
    BY <2>1, <2>3, <2>4, CellsOfList DEF Ahead, IInv, ListInv
  <2>6. sc_next[cur] \in InList
    <3>1. sc_next[cur] = NULL => Closed({cur})
      BY DEF Closed
    <3> QED
      BY <2>4, <2>5, <3>1
  <2>7. ASSUME NEW S \in SUBSET Cell, sc_next[cur] \in S, Closed(S) PROVE d \in S
    <3>1. Closed(S \cup {cur})
      BY <2>7 DEF Closed
    <3> QED
      BY <2>4, <2>5, <3>1
  <2> QED
    BY <2>2, <2>4, <2>6, <2>7 DEF Ahead
<1>5. ASSUME NEW u \in Task, NEW v \in Call, call'[u] = v, v.pc = "walk", v.due PROVE Ahead(v)'
  BY <1>2, <1>3, <1>4, <1>5 DEF WalkInv
<1> QED
  BY <1>5 DEF WalkInv

LEMMA WalkInvStep ==
    ASSUME IInv, Reach, Ids, WalkInv, [Next]_vars
    PROVE  WalkInv'
<1>0. \A t \in Task : call[t] \in Call /\ WellFormed(call[t])
  BY DEF IInv, TypeInv, TypeOK
<1>1. \A d \in InList : sock'[d] = sock[d]
  BY IdsStep
<1>2. ASSUME NEW t \in Task, Socket(t) \/ Link(t) PROVE WalkInv'
  <2>1. Kept \/ \E el \in Cell : Headed(el)
    <3>1. ASSUME Link(t) PROVE call[t].el \in Cell
      BY <1>0, <3>1 DEF Link, At, WellFormed
    <3> QED
      BY <1>2, <3>1, SocketChange, LinkChange
  <2>2. call'[t].pc # "walk" /\ \A u \in Task \ {t} : call'[u] = call[u]
    <3>1. CASE Link(t)
      BY <1>0, <3>1, IdleCall DEF Link, IInv, TypeInv, TypeOK, Call
    <3>2. CASE Socket(t)
      BY <3>2 DEF Socket, IInv, TypeInv, TypeOK, Idle
    <3> QED
      BY <1>2, <3>1, <3>2
  <2>3. \A v \in Call : Ahead(v) => Ahead(v)'
    BY <1>1, <2>1, AheadKept
  <2> QED
    BY <2>2, <2>3 DEF WalkInv
<1>3. ASSUME NEW t \in Task, Remove(t) \/ Unhead(t) \/ Seek(t) \/ Cut(t) \/ Free(t) PROVE WalkInv'
  <2>1. Runs(t) /\ call[t].pc \in {"remove", "unhead", "seek", "cut", "free"}
    BY <1>3 DEF Remove, Unhead, Seek, Cut, Free, At
  <2>2. call[t].op = "close"
    BY <1>0, <2>1 DEF WellFormed, Call
  <2>3. \A u \in Task \ {t} : call[u].pc = "idle"
    BY <2>1, <2>2, CloseRunsAlone
  <2>4. call'[t].pc # "walk" /\ \A u \in Task \ {t} : call'[u] = call[u]
    BY <1>0, <1>3, <2>1, IdleCall DEF Remove, Unhead, Seek, Cut, Free, IInv, TypeInv, TypeOK, Call
  <2> QED
    BY <2>3, <2>4 DEF WalkInv
<1>4. ASSUME UNCHANGED vars PROVE WalkInv'
  <2>1. Kept
    BY <1>4 DEF vars, Kept, InList
  <2> QED
    BY <1>1, <1>4, <2>1, AheadKept DEF vars, WalkInv
<1> QED
  BY <1>2, <1>3, <1>4, EnterAhead, FindAhead DEF Next, Step

\* Each step leaves the set of listed ids alone, adds one or takes one away.
LEMMA SetStep ==
    ASSUME IInv, Shape, [Next]_vars, IInv', Shape'
    PROVE  [Set!Add \/ Set!Drop]_Listed
<1>1. Listed = {sock[c] : c \in InList} /\ Listed' = {sock'[c] : c \in InList'}
  <2>1. Linked = InList
    BY LinkedIsInList DEF Shape
  <2>2. Linked' = InList'
    <3>1. InList' \in SUBSET Cell /\ NULL \notin Cell
      BY ListAssumption DEF InList, IInv, TypeInv, TypeOK
    <3>2. first' \in InList' \cup {NULL} /\ Closed(InList)'
      BY <3>1 DEF IInv, ListInv, Closed
    <3>3. Linked' \subseteq InList'
      BY <3>1, <3>2 DEF Linked, Closed
    <3>4. InList' \subseteq Linked'
      BY <3>1 DEF Shape, Reach, Linked
    <3> QED
      BY <3>3, <3>4
  <2> QED
    BY <2>1, <2>2 DEF Listed
<1>2. \A c \in InList : sock'[c] = sock[c]
  BY IdsStep DEF Shape
<1>3. \A c, d \in alloc : sock[c] = sock[d] => c = d
  BY DEF Shape, Ids
<1>4. \A c \in alloc : sock[c] \in SockId
  BY ListAssumption DEF Shape, Ids, SockId, IInv, TypeInv, TypeOK
<1>5. InList \subseteq alloc /\ InList' \subseteq alloc'
  BY DEF InList
<1>6. CASE Kept
  <2>1. Listed' = Listed
    BY <1>1, <1>2, <1>6 DEF Kept
  <2> QED
    BY <2>1
<1>7. ASSUME NEW el \in Cell, Headed(el) PROVE Set!Add
  <2>1. alloc' = alloc /\ sock' = sock
    <3>1. ~Kept
      BY <1>7 DEF Kept, Headed
    <3>2. PICK t \in Task : Link(t) \/ Unhead(t) \/ Cut(t)
      BY <1>7, <3>1, SocketChange, EnterChange, FindChange, FreeChange DEF Next, Step, Headed, InList, vars
    <3> QED
      BY <3>2 DEF Link, Unhead, Cut
  <2>2. Listed' = Listed \cup {sock[el]} /\ sock[el] \in SockId \ Listed
    BY <1>1, <1>3, <1>4, <1>5, <1>7, <2>1 DEF Headed
  <2> QED
    BY <2>2 DEF Set!Add
<1>8. ASSUME NEW el \in InList, InList' = InList \ {el} PROVE Set!Drop
  <2>1. Listed' = Listed \ {sock[el]} /\ sock[el] \in Listed
    BY <1>1, <1>2, <1>3, <1>5, <1>8
  <2> QED
    BY <2>1 DEF Set!Drop
<1> QED
  BY <1>6, <1>7, <1>8, ListChange DEF Changed, Unheaded, CutOut

-----------------------------------------------------------------------------
(* The theorems.                                                           *)

LEMMA Initially == Init => IInv
<1> SUFFICES ASSUME Init PROVE IInv
  OBVIOUS
<1>1. \A t \in Task : call[t] = Idle
  BY DEF Init
<1>2. TypeInv
  BY <1>1, IdleCall, ListAssumption DEF Init, TypeInv, TypeOK, SockId
<1>3. InList = {}
  BY DEF Init, InList
<1>4. Alone /\ ListInv /\ CallInv
  BY <1>1, <1>3, IdleCall DEF Init, Alone, ListInv, CallInv, Apart
<1> QED
  BY <1>2, <1>4 DEF IInv

LEMMA CarefulInvariant == ASSUME Careful PROVE Spec => []IInv
<1>1. IInv /\ [Next]_vars => IInv'
  <2> SUFFICES ASSUME IInv, [Next]_vars PROVE IInv'
    OBVIOUS
  <2>1. ASSUME NEW t \in Task, Socket(t) PROVE IInv'
    BY <2>1, SocketStep
  <2>2. ASSUME NEW t \in Task, Enter(t) PROVE IInv'
    BY <2>2, EnterStep
  <2>3. ASSUME NEW t \in Task, Step(t) PROVE IInv'
    BY <2>3, LinkStep, FindStep, RemoveStep, UnheadStep, SeekStep, CutStep, FreeStep DEF Step
  <2>4. CASE UNCHANGED vars
    BY <2>4 DEF vars, IInv, TypeInv, TypeOK, Alone, ListInv, CallInv, InList
  <2> QED
    BY <2>1, <2>2, <2>3, <2>4 DEF Next
<1> QED
  BY Initially, <1>1, PTL DEF Spec

LEMMA CarefulShape == ASSUME Careful PROVE Spec => []Shape
<1>1. Init => Shape
  <2> SUFFICES ASSUME Init PROVE Shape
    OBVIOUS
  <2>1. InList = {} /\ alloc = {} /\ \A t \in Task : call[t].pc = "idle"
    BY IdleCall DEF Init, InList
  <2> QED
    BY <2>1 DEF Shape, Ends, Reach, Ids, WalkInv
<1>2. IInv /\ Shape /\ [Next]_vars => Shape'
  <2> SUFFICES ASSUME IInv, Shape, [Next]_vars PROVE Shape'
    OBVIOUS
  <2> QED
    BY ListChange, EndsStep, ReachStep, IdsStep, WalkInvStep DEF Shape
<1> QED
  BY <1>1, <1>2, CarefulInvariant, PTL DEF Spec

\* With careful callers every variable keeps its type: no function follows
\* the pointer of no cell, whichever tasks preempt it (_lorawan_find_el,
\* lorawan_close).
THEOREM TypeCorrect == Careful => (Spec => []TypeOK)
<1> SUFFICES ASSUME Careful PROVE Spec => []TypeOK
  OBVIOUS
<1>1. IInv => TypeOK
  BY DEF IInv, TypeInv
<1> QED
  BY <1>1, CarefulInvariant, PTL

\* With careful callers no walk of the list stands on an element that was
\* freed, although the tasks that walk it and the task that links or unlinks
\* preempt each other (_lorawan_find_el, lorawan_socket, lorawan_close).
THEOREM WalksSafe == Careful => (Spec => []WalksAllocated)
<1> SUFFICES ASSUME Careful PROVE Spec => []WalksAllocated
  OBVIOUS
<1>1. IInv => WalksAllocated
  BY DEF IInv, CallInv, InList, WalksAllocated
<1> QED
  BY <1>1, CarefulInvariant, PTL

\* With careful callers the list ends, holds only allocated elements and no
\* id twice at every step of every insertion and removal (SLIST_INSERT_HEAD,
\* SLIST_REMOVE).
THEOREM ListStaysWellFormed == Careful => (Spec => []ListWellFormed)
<1> SUFFICES ASSUME Careful PROVE Spec => []ListWellFormed
  OBVIOUS
<1>1. IInv /\ Shape => ListWellFormed
  BY LinkedIsInList DEF Shape, Ends, Ids, InList, ListWellFormed
<1> QED
  BY <1>1, CarefulInvariant, CarefulShape, PTL

\* With careful callers a walk finds the socket it looks for when that was
\* open as the walk began, whatever insertion it preempts or is preempted by
\* (_lorawan_find_el).
THEOREM OpenFound == Careful => (Spec => []OpenSocketFound)
<1> SUFFICES ASSUME Careful PROVE Spec => []OpenSocketFound
  OBVIOUS
<1>1. IInv /\ Shape => OpenSocketFound
  BY CellsOfList DEF Shape, WalkInv, Ahead, OpenSocketFound, IInv, TypeInv, TypeOK
<1> QED
  BY <1>1, CarefulInvariant, CarefulShape, PTL

\* With careful callers the pointers implement a set of sockets, to which a
\* step adds one that is not in it or from which it takes one: what
\* LorawanSocket has in the place of l_sock_list.
THEOREM ListIsSet == Careful => (Spec => ImplementsSet)
<1> SUFFICES ASSUME Careful PROVE Spec => ImplementsSet
  OBVIOUS
<1>1. Init => Set!Init
  <2> SUFFICES ASSUME Init PROVE Listed = {}
    BY DEF Set!Init
  <2>1. {} \in SUBSET Cell /\ Closed({}) /\ first = NULL
    BY DEF Init, Closed
  <2>2. Linked = {}
    BY <2>1 DEF Linked
  <2> QED
    BY <2>2 DEF Listed
<1>2. IInv /\ Shape /\ [Next]_vars /\ IInv' /\ Shape' => [Set!Add \/ Set!Drop]_Listed
  BY SetStep
<1> QED
  BY <1>1, <1>2, CarefulInvariant, CarefulShape, PTL DEF Spec, ImplementsSet, Set!Spec
=============================================================================
