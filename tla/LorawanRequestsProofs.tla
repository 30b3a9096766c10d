------------------------ MODULE LorawanRequestsProofs ------------------------
(***************************************************************************)
(* Proofs about LorawanRequests for every value of its constants.          *)
(***************************************************************************)
EXTENDS LorawanRequests, TLAPS

-----------------------------------------------------------------------------
(* The inductive invariant.                                                *)

SendPc      == {"fill", "request"}
MulticastPc == {"find", "unlink", "free", "link"}

\* A call is at a step of its operation, with the locals it has there.
WellFormed(c) ==
    /\ c.pc \in SendPc => c.op = "send" /\ c.obj \in Sock /\ c.arg \in Arg
    /\ c.pc = "fill" => c.n \in 1 .. 3
    /\ c.pc = "set" => c.op \in Config /\ c.arg \in Arg /\ c.n \in 1 .. Len(Requests(c.op))
    /\ c.pc \in MulticastPc => c.op \in Multicast /\ c.obj \in Group
    /\ c.new # None <=> c.pc \in MulticastPc /\ c.op = "add"
    /\ c.cur # None <=> c.pc \in {"unlink", "free"}
    /\ c.pc = "link" => c.op = "add"

TypeInv == TypeOK /\ \A t \in Task : WellFormed(call[t])

\* Serialised calls: at most one task sends on a socket, configures, or
\* changes the groups.
Alone ==
    \A t, u \in Task : t # u =>
        /\ call[t].pc \in SendPc /\ call[u].pc \in SendPc => call[t].obj # call[u].obj
        /\ call[t].pc = "set" => call[u].pc # "set"
        /\ call[t].pc \in MulticastPc => call[u].pc \notin MulticastPc

\* The fields that a send has written are still its own at the request.
SendInv ==
    /\ RequestUnmixed
    /\ \A t \in Task :
        /\ call[t].pc = "fill" =>
             \A i \in 1 .. call[t].n - 1 : mcps_req[call[t].obj][i] = call[t].arg
        /\ call[t].pc = "request" =>
             \A i \in 1 .. 3 : mcps_req[call[t].obj][i] = call[t].arg

\* The settings that a configuration had accepted, while it had no refusal,
\* are still its own.
ConfigInv ==
    /\ ConfiguredWhole
    /\ \A t \in Task : call[t].pc = "set" =>
        /\ configured = None
        /\ call[t].ok => \A i \in 1 .. call[t].n - 1 :
             LET m == Requests(call[t].op)[i] IN
             mib[m] = Setting(call[t].op, m, call[t].arg)

\* The element that a remove found is linked until it is unlinked, and no
\* group counts as added while a call on it is in progress.
GroupInv ==
    /\ MulticastMemory
    /\ GroupsKept
    /\ \A t \in Task :
        /\ call[t].pc = "unlink" => call[t].cur \in groups /\ heap[call[t].cur] = call[t].obj
        /\ call[t].pc = "free" => call[t].cur # call[t].new
        /\ call[t].new # None => heap[call[t].new] = call[t].obj
        /\ call[t].pc \in MulticastPc => call[t].obj \notin member

-----------------------------------------------------------------------------
(* Types.                                                                  *)

\* The other tasks stay where they are.
Others(t) == \A u \in Task \ {t} : call'[u] = call[u]

\* The step of t leaves its call as c.
Becomes(t, c) ==
    /\ c \in Call /\ WellFormed(c)
    /\ call' = [call EXCEPT ![t] = c]

\* The part of TypeOK that is about calls.
CallsRight ==
    /\ call \in [Task -> Call]
    /\ \A t \in Task : WellFormed(call[t])
    /\ \A t \in Task : /\ call[t].pc \in {"unlink", "free"} => call[t].cur # None
                       /\ call[t].pc = "link" => call[t].new # None

\* A call that is left well formed keeps the types of all calls.
LEMMA Update ==
    ASSUME TypeInv, NEW t \in Task, NEW c, Becomes(t, c)
    PROVE  CallsRight' /\ call'[t] = c /\ Others(t)
<1>1. call' \in [Task -> Call] /\ call'[t] = c /\ Others(t)
  BY DEF Becomes, TypeInv, TypeOK, Others
<1>2. ASSUME NEW u \in Task PROVE WellFormed(call'[u])
  BY <1>1 DEF Becomes, TypeInv, Others
<1>3. ASSUME NEW u \in Task
      PROVE  /\ call'[u].pc \in {"unlink", "free"} => call'[u].cur # None
             /\ call'[u].pc = "link" => call'[u].new # None
  BY <1>2 DEF WellFormed, MulticastPc
<1> QED
  BY <1>1, <1>2, <1>3 DEF CallsRight

\* No call.
LEMMA IdleCall == Idle \in Call /\ WellFormed(Idle)
  BY DEF Idle, Call, WellFormed, SendPc, MulticastPc

\* Each configuration makes its requests for different settings.
LEMMA RequestsDiffer ==
    ASSUME NEW op \in Config
    PROVE  /\ Len(Requests(op)) \in 1 .. 6
           /\ \A i \in 1 .. Len(Requests(op)) : Requests(op)[i] \in Mib
           /\ \A i, j \in 1 .. Len(Requests(op)) : Requests(op)[i] = Requests(op)[j] => i = j
<1>1. CASE op = "ABP"
  BY <1>1 DEF Requests, Mib
<1>2. CASE op = "OTAA"
  BY <1>2 DEF Requests, Mib
<1> QED
  BY <1>1, <1>2 DEF Config

\* A call that returns.
LEMMA ReturnEffect ==
    ASSUME TypeInv, NEW t \in Task, Return(t)
    PROVE  Becomes(t, Idle)
  BY IdleCall DEF Becomes, Return

\* The calls' first steps: the call is what its arguments make it, and in
\* serialised use no other of its kind is in progress.
LEMMA SendEnterEffect ==
    ASSUME TypeInv, NEW t \in Task, NEW s \in Sock, NEW p \in Arg, SendEnter(t, s, p)
    PROVE  /\ Becomes(t, call'[t])
           /\ call[t].pc = "idle" /\ call'[t].pc = "fill"
           /\ call'[t].obj = s /\ call'[t].n = 1
           /\ Serialised => \A u \in Task : call[u].pc \in SendPc => call[u].obj # s
           /\ calls' \in 0 .. MaxCalls
<1> DEFINE c == [Idle EXCEPT !.pc = "fill", !.obj = s, !.arg = p]
<1>1. /\ c \in Call
      /\ c.pc = "fill" /\ c.op = "send" /\ c.obj = s /\ c.arg = p
      /\ c.n = 1 /\ c.new = None /\ c.cur = None
  <2>1. c \in Call
    BY IdleCall DEF Call
  <2> QED
    BY <2>1 DEF Idle
<1>2. call' = [call EXCEPT ![t] = c]
  BY DEF SendEnter, Enter
<1> HIDE DEF c
<1>3. WellFormed(c)
  BY <1>1 DEF WellFormed, SendPc, MulticastPc, Multicast
<1>4. Becomes(t, c)
  BY <1>3, <1>1, <1>2 DEF Becomes
<1>5. call'[t] = c
  BY <1>4, Update
<1>6. Serialised => \A u \in Task : call[u].pc \in SendPc => call[u].obj # s
  BY DEF SendEnter, Enter, TypeInv, WellFormed, SendPc
<1>7. calls' \in 0 .. MaxCalls
  BY BoundAssumption DEF SendEnter, Enter, TypeInv, TypeOK
<1>8. call[t].pc = "idle"
  BY DEF SendEnter, Enter, At
<1> QED
  BY <1>1, <1>4, <1>5, <1>6, <1>7, <1>8

LEMMA ConfigureEnterEffect ==
    ASSUME TypeInv, NEW t \in Task, NEW op \in Config, NEW p \in Arg, ConfigureEnter(t, op, p)
    PROVE  /\ Becomes(t, call'[t])
           /\ call[t].pc = "idle" /\ call'[t].pc = "set" /\ call'[t].n = 1
           /\ Serialised => \A u \in Task : call[u].pc # "set"
           /\ calls' \in 0 .. MaxCalls
<1> DEFINE c == [Idle EXCEPT !.pc = "set", !.op = op, !.arg = p]
<1>1. 1 \in 1 .. Len(Requests(op))
  BY RequestsDiffer
<1>2. /\ c \in Call
      /\ c.pc = "set" /\ c.op = op /\ c.arg = p
      /\ c.n = 1 /\ c.new = None /\ c.cur = None
  <2>1. c \in Call
    BY IdleCall DEF Call, Config
  <2> QED
    BY <2>1 DEF Idle
<1>3. call' = [call EXCEPT ![t] = c]
  BY DEF ConfigureEnter, Enter
<1> HIDE DEF c
<1>4. WellFormed(c)
  BY <1>2, <1>1 DEF WellFormed, SendPc, MulticastPc
<1>5. Becomes(t, c)
  BY <1>4, <1>2, <1>3 DEF Becomes
<1>6. call'[t] = c
  BY <1>5, Update
<1>7. Serialised => \A u \in Task : call[u].pc # "set"
  BY DEF ConfigureEnter, Enter, TypeInv, WellFormed, Config
<1>8. calls' \in 0 .. MaxCalls
  BY BoundAssumption DEF ConfigureEnter, Enter, TypeInv, TypeOK
<1>9. call[t].pc = "idle"
  BY DEF ConfigureEnter, Enter, At
<1> QED
  BY <1>2, <1>5, <1>6, <1>7, <1>8, <1>9

LEMMA AddEnterEffect ==
    ASSUME TypeInv, NEW t \in Task, NEW g \in Group, NEW m \in Cell, AddEnter(t, g, m)
    PROVE  /\ Becomes(t, call'[t])
           /\ call[t].pc = "idle" /\ call'[t].pc = "find"
           /\ call'[t].obj = g /\ call'[t].new = m /\ call'[t].cur = None
           /\ Serialised => \A u \in Task : call[u].pc \notin MulticastPc
           /\ calls' \in 0 .. MaxCalls
<1> DEFINE c == [Idle EXCEPT !.pc = "find", !.op = "add", !.obj = g, !.new = m]
<1>1. /\ c \in Call
      /\ c.pc = "find" /\ c.op = "add" /\ c.obj = g
      /\ c.new = m /\ c.cur = None
  <2>1. c \in Call
    BY IdleCall DEF Call, Multicast
  <2> QED
    BY <2>1 DEF Idle
<1>2. call' = [call EXCEPT ![t] = c]
  BY DEF AddEnter, Enter
<1> HIDE DEF c
<1>3. WellFormed(c)
  BY <1>1, TaskAssumption DEF WellFormed, SendPc, MulticastPc, Multicast, Config
<1>4. Becomes(t, c)
  BY <1>3, <1>1, <1>2 DEF Becomes
<1>5. call'[t] = c
  BY <1>4, Update
<1>6. Serialised => \A u \in Task : call[u].pc \notin MulticastPc
  BY DEF AddEnter, Enter, TypeInv, WellFormed, MulticastPc
<1>7. calls' \in 0 .. MaxCalls
  BY BoundAssumption DEF AddEnter, Enter, TypeInv, TypeOK
<1>8. call[t].pc = "idle"
  BY DEF AddEnter, Enter, At
<1> QED
  BY <1>1, <1>4, <1>5, <1>6, <1>7, <1>8

LEMMA RemoveEnterEffect ==
    ASSUME TypeInv, NEW t \in Task, NEW g \in Group, RemoveEnter(t, g)
    PROVE  /\ Becomes(t, call'[t])
           /\ call[t].pc = "idle" /\ call'[t].pc = "find"
           /\ call'[t].obj = g /\ call'[t].new = None /\ call'[t].cur = None
           /\ Serialised => \A u \in Task : call[u].pc \notin MulticastPc
           /\ calls' \in 0 .. MaxCalls
<1> DEFINE c == [Idle EXCEPT !.pc = "find", !.op = "remove", !.obj = g]
<1>1. /\ c \in Call
      /\ c.pc = "find" /\ c.op = "remove" /\ c.obj = g
      /\ c.new = None /\ c.cur = None
  <2>1. c \in Call
    BY IdleCall DEF Call, Multicast
  <2> QED
    BY <2>1 DEF Idle
<1>2. call' = [call EXCEPT ![t] = c]
  BY DEF RemoveEnter, Enter
<1> HIDE DEF c
<1>3. WellFormed(c)
  BY <1>1 DEF WellFormed, SendPc, MulticastPc, Multicast
<1>4. Becomes(t, c)
  BY <1>3, <1>1, <1>2 DEF Becomes
<1>5. call'[t] = c
  BY <1>4, Update
<1>6. Serialised => \A u \in Task : call[u].pc \notin MulticastPc
  BY DEF RemoveEnter, Enter, TypeInv, WellFormed, MulticastPc
<1>7. calls' \in 0 .. MaxCalls
  BY BoundAssumption DEF RemoveEnter, Enter, TypeInv, TypeOK
<1>8. call[t].pc = "idle"
  BY DEF RemoveEnter, Enter, At
<1> QED
  BY <1>1, <1>4, <1>5, <1>6, <1>7, <1>8

\* A field is written, and the request follows the last.
LEMMA SendFillEffect ==
    ASSUME TypeInv, NEW t \in Task, SendFill(t)
    PROVE  LET n == call[t].n IN
           /\ Becomes(t, call'[t])
           /\ call[t].pc = "fill" /\ n \in 1 .. 3
           /\ call'[t].pc = IF n < 3 THEN "fill" ELSE "request"
           /\ call'[t].n = n + 1
           /\ call'[t].obj = call[t].obj /\ call'[t].arg = call[t].arg
<1> DEFINE n == call[t].n
           k == n + 1
           next == IF n < Len(Field) THEN "fill" ELSE "request"
           c == [call[t] EXCEPT !.pc = next, !.n = k]
<1>1. call[t] \in Call /\ WellFormed(call[t]) /\ call[t].pc = "fill"
  BY DEF SendFill, At, TypeInv, TypeOK
<1>2. Len(Field) = 3
  BY DEF Field
<1>3. n \in 1 .. 3
  BY <1>1 DEF WellFormed
<1>4. /\ c \in Call
      /\ c.pc = (IF n < 3 THEN "fill" ELSE "request") /\ c.n = n + 1
      /\ c.op = call[t].op /\ c.obj = call[t].obj /\ c.arg = call[t].arg
      /\ c.new = call[t].new /\ c.cur = call[t].cur
  <2>1. k \in 1 .. 6 /\ next \in SendPc
    BY <1>2, <1>3 DEF SendPc
  <2>2. k = n + 1 /\ next = IF n < 3 THEN "fill" ELSE "request"
    BY <1>2
  <2>3. call[t] \in Call
    BY <1>1
  <2> HIDE DEF k, next, n
  <2>4. /\ c \in Call /\ c.pc = next /\ c.n = k
        /\ c.op = call[t].op /\ c.obj = call[t].obj /\ c.arg = call[t].arg
        /\ c.new = call[t].new /\ c.cur = call[t].cur
    BY <2>1, <2>3, ZenonT(30) DEF Call, SendPc
  <2> HIDE DEF c
  <2> QED
    BY <2>2, <2>4
<1>5. call' = [call EXCEPT ![t] = c]
  BY DEF SendFill
<1> HIDE DEF c, n
<1>6. WellFormed(c)
  BY <1>1, <1>3, <1>4 DEF WellFormed, SendPc, MulticastPc, n
<1>7. Becomes(t, c)
  BY <1>4, <1>5, <1>6 DEF Becomes
<1>8. call'[t] = c
  BY <1>7, Update
<1> QED
  BY <1>1, <1>3, <1>4, <1>7, <1>8 DEF n

\* A setting is requested, and the call returns after the last.
LEMMA ConfigureSetEffect ==
    ASSUME TypeInv, NEW t \in Task, ConfigureSet(t)
    PROVE  LET n  == call[t].n
               op == call[t].op
               m  == Requests(op)[n]
           IN
           /\ Becomes(t, call'[t])
           /\ call[t].pc = "set" /\ op \in Config /\ call[t].arg \in Arg
           /\ n \in 1 .. Len(Requests(op)) /\ m \in Mib
           /\ \E ok \in BOOLEAN :
               /\ mib' = IF ok THEN [mib EXCEPT ![m] = Setting(op, m, call[t].arg)] ELSE mib
               /\ \/ /\ n < Len(Requests(op))
                     /\ call'[t].pc = "set" /\ call'[t].n = n + 1
                     /\ call'[t].ok = (call[t].ok /\ ok)
                     /\ call'[t].op = op /\ call'[t].arg = call[t].arg
                     /\ configured' = configured
                  \/ /\ n = Len(Requests(op))
                     /\ call'[t].pc = "idle"
                     /\ configured' = IF call[t].ok /\ ok THEN [op |-> op, arg |-> call[t].arg] ELSE None
<1> DEFINE n  == call[t].n
           op == call[t].op
           m  == Requests(op)[n]
<1>1. call[t] \in Call /\ WellFormed(call[t]) /\ call[t].pc = "set"
  BY DEF ConfigureSet, At, TypeInv, TypeOK
<1>2. op \in Config /\ call[t].arg \in Arg /\ n \in 1 .. Len(Requests(op))
  BY <1>1 DEF WellFormed
<1>3. m \in Mib /\ Len(Requests(op)) \in 1 .. 6
  BY <1>2, RequestsDiffer
<1>4. PICK ok \in BOOLEAN :
        /\ mib' = IF ok THEN [mib EXCEPT ![m] = Setting(op, m, call[t].arg)] ELSE mib
        /\ \/ /\ n < Len(Requests(op))
              /\ call' = [call EXCEPT ![t].n = n + 1, ![t].ok = call[t].ok /\ ok]
              /\ UNCHANGED configured
           \/ /\ n = Len(Requests(op))
              /\ ConfigureReturn(t, call[t].ok /\ ok)
  BY DEF ConfigureSet
<1>5. CASE /\ n < Len(Requests(op))
           /\ call' = [call EXCEPT ![t].n = n + 1, ![t].ok = call[t].ok /\ ok]
           /\ UNCHANGED configured
  <2> DEFINE k == n + 1
             sum == call[t].ok /\ ok
             c == [call[t] EXCEPT !.n = k, !.ok = sum]
  <2>1. n + 1 \in 1 .. 6 /\ n + 1 \in 1 .. Len(Requests(op))
    <3>1. n < Len(Requests(op)) /\ n \in 1 .. Len(Requests(op)) /\ Len(Requests(op)) \in 1 .. 6
      BY <1>2, <1>3, <1>5
    <3>2. \A i, l \in Int : i \in 1 .. l /\ l \in 1 .. 6 /\ i < l => i + 1 \in 1 .. 6 /\ i + 1 \in 1 .. l
      OBVIOUS
    <3>3. n \in Int /\ Len(Requests(op)) \in Int
      BY <3>1
    <3> HIDE DEF n, op
    <3> QED
      BY <3>1, <3>2, <3>3
  <2>2. /\ c \in Call
        /\ c.pc = "set" /\ c.n = n + 1 /\ c.ok = (call[t].ok /\ ok)
        /\ c.op = op /\ c.obj = call[t].obj /\ c.arg = call[t].arg
        /\ c.new = call[t].new /\ c.cur = call[t].cur
    <3>1. k \in 1 .. 6 /\ sum \in BOOLEAN
      BY <2>1
    <3>2. call[t] \in Call
      BY <1>1
    <3> HIDE DEF k, sum
    <3>3. /\ c \in Call /\ c.n = k /\ c.ok = sum /\ c.pc = call[t].pc
          /\ c.op = call[t].op /\ c.obj = call[t].obj /\ c.arg = call[t].arg
          /\ c.new = call[t].new /\ c.cur = call[t].cur
      BY <3>1, <3>2, ZenonT(30) DEF Call
    <3> HIDE DEF c
    <3> QED
      BY <1>1, <3>3 DEF k, sum
  <2>3. call' = [call EXCEPT ![t] = c]
    BY <1>5
  <2> HIDE DEF c, n, op
  <2>4. WellFormed(c)
    BY <1>1, <1>2, <2>1, <2>2 DEF WellFormed, SendPc, MulticastPc, op
  <2>5. Becomes(t, c)
    BY <2>2, <2>3, <2>4 DEF Becomes
  <2>6. call'[t] = c
    BY <2>5, Update
  <2> QED
    BY <1>1, <1>2, <1>3, <1>4, <1>5, <2>2, <2>5, <2>6 DEF n, op
<1>6. CASE n = Len(Requests(op)) /\ ConfigureReturn(t, call[t].ok /\ ok)
  <2>1. Becomes(t, Idle)
    BY <1>6, ReturnEffect DEF ConfigureReturn
  <2>2. call'[t] = Idle
    BY <2>1, Update
  <2>3. Idle.pc = "idle"
    BY DEF Idle
  <2> QED
    BY <1>1, <1>2, <1>3, <1>4, <1>6, <2>1, <2>2, <2>3 DEF ConfigureReturn
<1> QED
  BY <1>4, <1>5, <1>6

\* The request is accepted or not, and the call returns.
LEMMA SendRequestEffect ==
    ASSUME TypeInv, NEW t \in Task, SendRequest(t)
    PROVE  /\ Becomes(t, call'[t]) /\ call'[t].pc = "idle"
           /\ call[t].pc = "request" /\ call[t].obj \in Sock /\ call[t].arg \in Arg
<1>1. Becomes(t, Idle)
  BY ReturnEffect DEF SendRequest
<1>2. call'[t] = Idle
  BY <1>1, Update
<1> QED
  BY <1>1, <1>2 DEF SendRequest, At, Idle, TypeInv, WellFormed, SendPc

\* A multicast call that goes on to another step, with element m or none.
LEMMA MulticastGoto ==
    ASSUME TypeInv, NEW t \in Task, call[t].pc \in MulticastPc,
           NEW pc \in MulticastPc, NEW m \in Cell \cup {None},
           m # None <=> pc \in {"unlink", "free"},
           pc = "link" => call[t].op = "add",
           \/ call' = [call EXCEPT ![t].pc = pc, ![t].cur = m]
           \/ Goto(t, pc) /\ m = call[t].cur
    PROVE  /\ Becomes(t, call'[t]) /\ call'[t].pc = pc /\ call'[t].cur = m
           /\ call'[t].op = call[t].op /\ call'[t].obj = call[t].obj /\ call'[t].new = call[t].new
<1> DEFINE c == [call[t] EXCEPT !.pc = pc, !.cur = m]
<1>1. call[t] \in Call /\ WellFormed(call[t])
  BY DEF TypeInv, TypeOK
<1>2. c \in Call
  BY <1>1 DEF Call, MulticastPc
<1>3. /\ c.pc = pc /\ c.cur = m
      /\ c.op = call[t].op /\ c.obj = call[t].obj /\ c.new = call[t].new
  BY <1>1 DEF Call
<1>4. call' = [call EXCEPT ![t] = c]
  <2>1. CASE call' = [call EXCEPT ![t].pc = pc, ![t].cur = m]
    BY <2>1
  <2>2. CASE Goto(t, pc) /\ m = call[t].cur
    <3>1. c = [call[t] EXCEPT !.pc = pc]
      BY <1>1, <2>2 DEF Call
    <3> HIDE DEF c
    <3> QED
      BY <2>2, <3>1 DEF Goto
  <2> QED
    BY <2>1, <2>2
<1> HIDE DEF c
<1>5. WellFormed(c)
  BY <1>1, <1>3 DEF WellFormed, SendPc, MulticastPc
<1>6. Becomes(t, c)
  BY <1>2, <1>4, <1>5 DEF Becomes
<1>7. call'[t] = c
  BY <1>6, Update
<1> QED
  BY <1>3, <1>6, <1>7

\* lorawan_multicast_remove returns: the call ends, or goes on to the link.
LEMMA RemoveReturnEffect ==
    ASSUME TypeInv, NEW t \in Task, call[t].pc \in MulticastPc, RemoveReturn(t)
    PROVE  /\ Becomes(t, call'[t])
           /\ \/ call'[t].pc = "idle" /\ call'[t].new = None /\ call'[t].cur = None
                 /\ call[t].new = None
              \/ /\ call'[t].pc = "link" /\ call'[t].cur = None
                 /\ call'[t].obj = call[t].obj /\ call'[t].new = call[t].new
<1>1. CASE call[t].op = "remove" /\ Return(t)
  <2>1. Becomes(t, Idle)
    BY <1>1, ReturnEffect
  <2>2. call'[t] = Idle
    BY <2>1, Update
  <2> QED
    BY <1>1, <2>1, <2>2 DEF Idle, TypeInv, WellFormed
<1>2. CASE call[t].op = "add" /\ call' = [call EXCEPT ![t].pc = "link", ![t].cur = None]
  BY <1>2, MulticastGoto, ZenonT(30) DEF MulticastPc
<1> QED
  BY <1>1, <1>2 DEF RemoveReturn

LEMMA RemoveFindEffect ==
    ASSUME TypeInv, NEW t \in Task, RemoveFind(t)
    PROVE  /\ Becomes(t, call'[t])
           /\ call[t].pc = "find"
           /\ \/ call'[t].pc = "idle" /\ call'[t].new = None /\ call'[t].cur = None
                 /\ call[t].new = None
              \/ /\ call'[t].pc = "link" /\ call'[t].cur = None
                 /\ call'[t].obj = call[t].obj /\ call'[t].new = call[t].new
              \/ /\ call'[t].pc = "unlink" /\ call'[t].cur \in groups
                 /\ heap[call'[t].cur] = call[t].obj
                 /\ call'[t].obj = call[t].obj /\ call'[t].new = call[t].new
<1>1. call[t].pc = "find" /\ call[t].pc \in MulticastPc
  BY DEF RemoveFind, At, MulticastPc
<1>2. CASE RemoveReturn(t)
  BY <1>1, <1>2, RemoveReturnEffect
<1>3. ASSUME NEW m \in groups, heap[m] = call[t].obj,
             call' = [call EXCEPT ![t].pc = "unlink", ![t].cur = m]
      PROVE  /\ Becomes(t, call'[t])
             /\ call'[t].pc = "unlink" /\ call'[t].cur = m
             /\ call'[t].obj = call[t].obj /\ call'[t].new = call[t].new
  <2>1. m \in Cell \cup {None} /\ m # None
    BY TaskAssumption DEF TypeInv, TypeOK
  <2> QED
    BY <1>1, <1>3, <2>1, MulticastGoto DEF MulticastPc
<1> QED
  BY <1>1, <1>2, <1>3 DEF RemoveFind

LEMMA RemoveUnlinkEffect ==
    ASSUME TypeInv, NEW t \in Task, RemoveUnlink(t)
    PROVE  /\ Becomes(t, call'[t])
           /\ call[t].pc = "unlink" /\ call[t].cur \in Cell
           /\ \/ /\ groups' = groups
                 /\ \/ call'[t].pc = "idle" /\ call'[t].new = None /\ call'[t].cur = None
                       /\ call[t].new = None
                    \/ /\ call'[t].pc = "link" /\ call'[t].cur = None
                       /\ call'[t].obj = call[t].obj /\ call'[t].new = call[t].new
              \/ /\ groups' = groups \ {call[t].cur}
                 /\ call'[t].pc = "free" /\ call'[t].cur = call[t].cur
                 /\ call'[t].obj = call[t].obj /\ call'[t].new = call[t].new
<1>1. /\ call[t].pc = "unlink" /\ call[t].pc \in MulticastPc
      /\ call[t].cur \in Cell /\ call[t].cur # None
  BY TaskAssumption DEF RemoveUnlink, At, MulticastPc, TypeInv, TypeOK, Call, WellFormed
<1>2. CASE groups' = groups /\ RemoveReturn(t)
  BY <1>1, <1>2, RemoveReturnEffect
<1>3. CASE groups' = groups \ {call[t].cur} /\ Goto(t, "free")
  BY <1>1, <1>3, MulticastGoto DEF MulticastPc
<1> QED
  BY <1>2, <1>3 DEF RemoveUnlink

LEMMA RemoveFreeEffect ==
    ASSUME TypeInv, NEW t \in Task, RemoveFree(t)
    PROVE  /\ Becomes(t, call'[t])
           /\ call[t].pc = "free" /\ call[t].cur \in Cell
           /\ \/ call'[t].pc = "idle" /\ call'[t].new = None /\ call'[t].cur = None
                 /\ call[t].new = None
              \/ /\ call'[t].pc = "link" /\ call'[t].cur = None
                 /\ call'[t].obj = call[t].obj /\ call'[t].new = call[t].new
<1>1. /\ call[t].pc = "free" /\ call[t].pc \in MulticastPc /\ call[t].cur \in Cell
  BY TaskAssumption DEF RemoveFree, At, MulticastPc, TypeInv, TypeOK, Call, WellFormed
<1> QED
  BY <1>1, RemoveReturnEffect DEF RemoveFree

LEMMA AddLinkEffect ==
    ASSUME TypeInv, NEW t \in Task, AddLink(t)
    PROVE  /\ Becomes(t, call'[t])
           /\ call'[t].pc = "idle" /\ call'[t].new = None /\ call'[t].cur = None
           /\ call[t].pc = "link" /\ call[t].obj \in Group
           /\ call[t].new \in Cell /\ call[t].cur = None
<1>1. Becomes(t, Idle)
  BY ReturnEffect DEF AddLink
<1>2. call'[t] = Idle
  BY <1>1, Update
<1> QED
  BY <1>1, <1>2 DEF AddLink, At, Idle, TypeInv, TypeOK, Call, WellFormed, MulticastPc

\* Every step keeps the types and the calls well formed.
LEMMA TypeStep == TypeInv /\ [Next]_vars => TypeInv'
<1> SUFFICES ASSUME TypeInv, [Next]_vars PROVE TypeInv'
  OBVIOUS
<1> USE DEF macVars, history
<1>0. ASSUME NEW t \in Task, Becomes(t, call'[t])
      PROVE  CallsRight'
  BY <1>0, Update
<1>1. ASSUME NEW t \in Task, NEW s \in Sock, NEW p \in Arg, SendEnter(t, s, p) PROVE TypeInv'
  <2>1. Becomes(t, call'[t]) /\ calls' \in 0 .. MaxCalls
    BY <1>1, SendEnterEffect
  <2> QED
    BY <1>0, <1>1, <2>1 DEF SendEnter, CallsRight, TypeInv, TypeOK
<1>2. ASSUME NEW t \in Task, NEW op \in Config, NEW p \in Arg, ConfigureEnter(t, op, p) PROVE TypeInv'
  <2>1. Becomes(t, call'[t]) /\ calls' \in 0 .. MaxCalls
    BY <1>2, ConfigureEnterEffect
  <2> QED
    BY <1>0, <1>2, <2>1 DEF ConfigureEnter, CallsRight, TypeInv, TypeOK
<1>3. ASSUME NEW t \in Task, NEW g \in Group, NEW m \in Cell, AddEnter(t, g, m) PROVE TypeInv'
  <2>1. Becomes(t, call'[t]) /\ calls' \in 0 .. MaxCalls
    BY <1>3, AddEnterEffect
  <2> QED
    BY <1>0, <1>3, <2>1 DEF AddEnter, CallsRight, TypeInv, TypeOK
<1>4. ASSUME NEW t \in Task, NEW g \in Group, RemoveEnter(t, g) PROVE TypeInv'
  <2>1. Becomes(t, call'[t]) /\ calls' \in 0 .. MaxCalls
    BY <1>4, RemoveEnterEffect
  <2> QED
    BY <1>0, <1>4, <2>1 DEF RemoveEnter, CallsRight, TypeInv, TypeOK
<1>5. ASSUME NEW t \in Task, SendFill(t) PROVE TypeInv'
  <2>1. Becomes(t, call'[t]) /\ call[t].n \in 1 .. 3 /\ call[t].obj \in Sock /\ call[t].arg \in Arg
    BY <1>5, SendFillEffect DEF TypeInv, WellFormed, SendPc
  <2>2. mcps_req' \in [Sock -> [1 .. 3 -> Arg \cup {None}]]
    BY <1>5, <2>1 DEF SendFill, TypeInv, TypeOK
  <2> QED
    BY <1>0, <1>5, <2>1, <2>2 DEF SendFill, CallsRight, TypeInv, TypeOK
<1>6. ASSUME NEW t \in Task, SendRequest(t) PROVE TypeInv'
  <2>1. Becomes(t, call'[t]) /\ call[t].obj \in Sock /\ call[t].arg \in Arg
    BY <1>6, SendRequestEffect
  <2>2. frame' \in [req : [1 .. 3 -> Arg \cup {None}], payload : Arg] \cup {None}
    BY <1>6, <2>1 DEF SendRequest, TypeInv, TypeOK
  <2> QED
    BY <1>0, <1>6, <2>1, <2>2 DEF SendRequest, CallsRight, TypeInv, TypeOK
<1>7. ASSUME NEW t \in Task, ConfigureSet(t) PROVE TypeInv'
  <2>1. /\ Becomes(t, call'[t])
        /\ mib' \in [Mib -> Arg \cup {None}]
        /\ configured' \in [op : Config, arg : Arg] \cup {None}
    BY <1>7, ConfigureSetEffect DEF Setting, TypeInv, TypeOK
  <2> QED
    BY <1>0, <1>7, <2>1 DEF ConfigureSet, CallsRight, TypeInv, TypeOK
<1>8. ASSUME NEW t \in Task, RemoveFind(t) PROVE TypeInv'
  <2>1. Becomes(t, call'[t])
    BY <1>8, RemoveFindEffect
  <2> QED
    BY <1>0, <1>8, <2>1 DEF RemoveFind, CallsRight, TypeInv, TypeOK
<1>9. ASSUME NEW t \in Task, RemoveUnlink(t) PROVE TypeInv'
  <2>1. Becomes(t, call'[t]) /\ groups' \subseteq Cell
    BY <1>9, RemoveUnlinkEffect DEF TypeInv, TypeOK
  <2> QED
    BY <1>0, <1>9, <2>1 DEF RemoveUnlink, CallsRight, TypeInv, TypeOK
<1>10. ASSUME NEW t \in Task, RemoveFree(t) PROVE TypeInv'
  <2>1. Becomes(t, call'[t])
    BY <1>10, RemoveFreeEffect
  <2>2. heap' \in [Cell -> Group \cup {None}]
    BY <1>10 DEF RemoveFree, TypeInv, TypeOK
  <2> QED
    BY <1>0, <1>10, <2>1, <2>2 DEF RemoveFree, CallsRight, TypeInv, TypeOK
<1>11. ASSUME NEW t \in Task, AddLink(t) PROVE TypeInv'
  <2>1. Becomes(t, call'[t]) /\ call[t].new \in Cell /\ call[t].obj \in Group
    BY <1>11, AddLinkEffect
  <2>2. /\ groups' \subseteq Cell /\ member' \subseteq Group
        /\ heap' \in [Cell -> Group \cup {None}]
    BY <1>11, <2>1 DEF AddLink, TypeInv, TypeOK
  <2> QED
    BY <1>0, <1>11, <2>1, <2>2 DEF AddLink, CallsRight, TypeInv, TypeOK
<1>12. CASE UNCHANGED vars
  BY <1>12 DEF vars, CallsRight, TypeInv, TypeOK
<1> QED
  BY <1>1, <1>2, <1>3, <1>4, <1>5, <1>6, <1>7, <1>8, <1>9, <1>10, <1>11, <1>12 DEF Next, Step

LEMMA InitialTypes == Init => TypeInv
<1>1. 0 \in 0 .. MaxCalls
  BY BoundAssumption
<1>2. Idle.pc = "idle"
  BY DEF Idle
<1> QED
  BY <1>1, <1>2, IdleCall DEF Init, TypeInv, TypeOK

\* Every variable keeps its type whatever the MAC answers, and a call that
\* unlinks, frees or links an element has one.
THEOREM TypeCorrect == Spec => []TypeOK
<1>1. TypeInv => TypeOK
  BY DEF TypeInv
<1> QED
  BY <1>1, InitialTypes, TypeStep, PTL DEF Spec

-----------------------------------------------------------------------------
(* Serialised calls.                                                       *)

\* What has to be shown of a step of t: a call it enters is alone of its
\* kind, and it stays about the same thing.
LEMMA AloneFrame ==
    ASSUME Alone, NEW t \in Task, Others(t),
           call'[t].pc \in SendPc =>
              \/ call[t].pc \in SendPc /\ call'[t].obj = call[t].obj
              \/ \A u \in Task : call[u].pc \in SendPc => call[u].obj # call'[t].obj,
           call'[t].pc = "set" => call[t].pc = "set" \/ \A u \in Task : call[u].pc # "set",
           call'[t].pc \in MulticastPc =>
              call[t].pc \in MulticastPc \/ \A u \in Task : call[u].pc \notin MulticastPc
    PROVE  Alone'
  BY DEF Alone, Others

\* Serialised calls stay alone of their kind.
LEMMA AloneStep == Serialised /\ TypeInv /\ Alone /\ [Next]_vars => Alone'
<1> SUFFICES ASSUME Serialised, TypeInv, Alone, [Next]_vars PROVE Alone'
  OBVIOUS
<1>0. ASSUME NEW t \in Task, Becomes(t, call'[t]) PROVE Others(t)
  BY <1>0, Update
<1>1. ASSUME NEW t \in Task, NEW s \in Sock, NEW p \in Arg, SendEnter(t, s, p) PROVE Alone'
  BY <1>0, <1>1, SendEnterEffect, AloneFrame DEF MulticastPc
<1>2. ASSUME NEW t \in Task, NEW op \in Config, NEW p \in Arg, ConfigureEnter(t, op, p) PROVE Alone'
  BY <1>0, <1>2, ConfigureEnterEffect, AloneFrame DEF SendPc, MulticastPc
<1>3. ASSUME NEW t \in Task, NEW g \in Group, NEW m \in Cell, AddEnter(t, g, m) PROVE Alone'
  BY <1>0, <1>3, AddEnterEffect, AloneFrame DEF SendPc
<1>4. ASSUME NEW t \in Task, NEW g \in Group, RemoveEnter(t, g) PROVE Alone'
  BY <1>0, <1>4, RemoveEnterEffect, AloneFrame DEF SendPc
<1>5. ASSUME NEW t \in Task, SendFill(t) PROVE Alone'
  BY <1>0, <1>5, SendFillEffect, AloneFrame DEF SendPc, MulticastPc
<1>6. ASSUME NEW t \in Task, SendRequest(t) PROVE Alone'
  BY <1>0, <1>6, SendRequestEffect, AloneFrame DEF SendPc, MulticastPc
<1>7. ASSUME NEW t \in Task, ConfigureSet(t) PROVE Alone'
  BY <1>0, <1>7, ConfigureSetEffect, AloneFrame DEF SendPc, MulticastPc
<1>8. ASSUME NEW t \in Task, RemoveFind(t) PROVE Alone'
  BY <1>0, <1>8, RemoveFindEffect, AloneFrame DEF SendPc, MulticastPc
<1>9. ASSUME NEW t \in Task, RemoveUnlink(t) PROVE Alone'
  BY <1>0, <1>9, RemoveUnlinkEffect, AloneFrame DEF SendPc, MulticastPc
<1>10. ASSUME NEW t \in Task, RemoveFree(t) PROVE Alone'
  BY <1>0, <1>10, RemoveFreeEffect, AloneFrame DEF SendPc, MulticastPc
<1>11. ASSUME NEW t \in Task, AddLink(t) PROVE Alone'
  BY <1>0, <1>11, AddLinkEffect, AloneFrame DEF SendPc, MulticastPc
<1>12. CASE UNCHANGED vars
  BY <1>12 DEF vars, Alone
<1> QED
  BY <1>1, <1>2, <1>3, <1>4, <1>5, <1>6, <1>7, <1>8, <1>9, <1>10, <1>11, <1>12 DEF Next, Step

-----------------------------------------------------------------------------
(* Sends.                                                                  *)

LEMMA SendFrame ==
    ASSUME SendInv, NEW t \in Task, Others(t), call'[t].pc \notin SendPc,
           UNCHANGED <<mcps_req, frame>>
    PROVE  SendInv'
  BY DEF SendInv, RequestUnmixed, Others, SendPc

\* While nobody else sends on its socket, a send keeps what it has written.
LEMMA SendStep == TypeInv /\ Alone /\ SendInv /\ [Next]_vars => SendInv'
<1> SUFFICES ASSUME TypeInv, Alone, SendInv, [Next]_vars PROVE SendInv'
  OBVIOUS
<1> USE DEF macVars, history
<1>0. ASSUME NEW t \in Task, Becomes(t, call'[t]) PROVE Others(t)
  BY <1>0, Update
<1>1. ASSUME NEW t \in Task, NEW s \in Sock, NEW p \in Arg, SendEnter(t, s, p) PROVE SendInv'
  <2>1. Others(t) /\ call'[t].pc = "fill" /\ call'[t].n = 1
    BY <1>0, <1>1, SendEnterEffect
  <2>2. UNCHANGED <<mcps_req, frame>>
    BY <1>1 DEF SendEnter
  <2> QED
    BY <2>1, <2>2 DEF SendInv, RequestUnmixed, Others
<1>2. ASSUME NEW t \in Task, SendFill(t) PROVE SendInv'
  <2> DEFINE s == call[t].obj
             n == call[t].n
             p == call[t].arg
  <2>1. /\ call[t].pc = "fill" /\ s \in Sock /\ n \in 1 .. 3 /\ p \in Arg
        /\ Others(t)
        /\ call'[t].pc = IF n < 3 THEN "fill" ELSE "request"
        /\ call'[t].n = n + 1 /\ call'[t].obj = s /\ call'[t].arg = p
    BY <1>0, <1>2, SendFillEffect DEF TypeInv, WellFormed, SendPc
  <2>2. mcps_req' = [mcps_req EXCEPT ![s][n] = p] /\ UNCHANGED frame
    BY <1>2 DEF SendFill
  <2>3. /\ mcps_req'[s][n] = p
        /\ \A i \in 1 .. 3 : i # n => mcps_req'[s][i] = mcps_req[s][i]
        /\ \A r \in Sock : r # s => mcps_req'[r] = mcps_req[r]
    BY <2>1, <2>2 DEF TypeInv, TypeOK
  <2>4. \A i \in 1 .. n - 1 : mcps_req[s][i] = p
    BY <2>1 DEF SendInv
  <2>5. \A u \in Task \ {t} : call[u].pc \in SendPc => call[u].obj \in Sock /\ call[u].obj # s
    BY <2>1 DEF Alone, SendPc, TypeInv, WellFormed
  <2> HIDE DEF s, n, p
  <2>6. \A i \in 1 .. n : mcps_req'[s][i] = p
    BY <2>1, <2>3, <2>4
  <2>7. \A u \in Task \ {t} :
          /\ call'[u].pc = "fill" =>
               \A i \in 1 .. call'[u].n - 1 : mcps_req'[call'[u].obj][i] = call'[u].arg
          /\ call'[u].pc = "request" =>
               \A i \in 1 .. 3 : mcps_req'[call'[u].obj][i] = call'[u].arg
    BY <2>1, <2>3, <2>5 DEF SendInv, Others, SendPc
  <2>8. /\ call'[t].pc = "fill" =>
             \A i \in 1 .. call'[t].n - 1 : mcps_req'[call'[t].obj][i] = call'[t].arg
        /\ call'[t].pc = "request" =>
             \A i \in 1 .. 3 : mcps_req'[call'[t].obj][i] = call'[t].arg
    BY <2>1, <2>6
  <2> QED
    BY <2>2, <2>7, <2>8 DEF SendInv, RequestUnmixed
<1>3. ASSUME NEW t \in Task, SendRequest(t) PROVE SendInv'
  <2>1. /\ call[t].pc = "request" /\ call'[t].pc = "idle" /\ Others(t)
    BY <1>0, <1>3, SendRequestEffect
  <2>2. /\ UNCHANGED mcps_req
        /\ frame' \in {frame, [req |-> mcps_req[call[t].obj], payload |-> call[t].arg]}
    BY <1>3 DEF SendRequest
  <2>3. RequestUnmixed'
    BY <2>1, <2>2 DEF SendInv, RequestUnmixed
  <2> QED
    BY <2>1, <2>2, <2>3 DEF SendInv, Others
<1>4. ASSUME NEW t \in Task, NEW op \in Config, NEW p \in Arg, ConfigureEnter(t, op, p) PROVE SendInv'
  BY <1>0, <1>4, ConfigureEnterEffect, SendFrame DEF ConfigureEnter, SendPc
<1>5. ASSUME NEW t \in Task, NEW g \in Group, NEW m \in Cell, AddEnter(t, g, m) PROVE SendInv'
  BY <1>0, <1>5, AddEnterEffect, SendFrame DEF AddEnter, SendPc
<1>6. ASSUME NEW t \in Task, NEW g \in Group, RemoveEnter(t, g) PROVE SendInv'
  BY <1>0, <1>6, RemoveEnterEffect, SendFrame DEF RemoveEnter, SendPc
<1>7. ASSUME NEW t \in Task, ConfigureSet(t) PROVE SendInv'
  BY <1>0, <1>7, ConfigureSetEffect, SendFrame DEF ConfigureSet, SendPc
<1>8. ASSUME NEW t \in Task, RemoveFind(t) PROVE SendInv'
  BY <1>0, <1>8, RemoveFindEffect, SendFrame DEF RemoveFind, SendPc
<1>9. ASSUME NEW t \in Task, RemoveUnlink(t) PROVE SendInv'
  BY <1>0, <1>9, RemoveUnlinkEffect, SendFrame DEF RemoveUnlink, SendPc
<1>10. ASSUME NEW t \in Task, RemoveFree(t) PROVE SendInv'
  BY <1>0, <1>10, RemoveFreeEffect, SendFrame DEF RemoveFree, SendPc
<1>11. ASSUME NEW t \in Task, AddLink(t) PROVE SendInv'
  BY <1>0, <1>11, AddLinkEffect, SendFrame DEF AddLink, SendPc
<1>12. CASE UNCHANGED vars
  BY <1>12 DEF vars, SendInv, RequestUnmixed
<1> QED
  BY <1>1, <1>2, <1>3, <1>4, <1>5, <1>6, <1>7, <1>8, <1>9, <1>10, <1>11, <1>12 DEF Next, Step

-----------------------------------------------------------------------------
(* Configurations.                                                         *)

LEMMA ConfigFrame ==
    ASSUME ConfigInv, NEW t \in Task, Others(t), call'[t].pc # "set",
           UNCHANGED <<mib, configured>>
    PROVE  ConfigInv'
  BY DEF ConfigInv, ConfiguredWhole, Others

\* While nobody else configures, the settings accepted are the call's own.
LEMMA ConfigStep == TypeInv /\ Alone /\ ConfigInv /\ [Next]_vars => ConfigInv'
<1> SUFFICES ASSUME TypeInv, Alone, ConfigInv, [Next]_vars PROVE ConfigInv'
  OBVIOUS
<1> USE DEF macVars, history
<1>0. ASSUME NEW t \in Task, Becomes(t, call'[t]) PROVE Others(t)
  BY <1>0, Update
<1>1. ASSUME NEW t \in Task, NEW op \in Config, NEW p \in Arg, ConfigureEnter(t, op, p) PROVE ConfigInv'
  <2>1. Others(t) /\ call'[t].pc = "set" /\ call'[t].n = 1
    BY <1>0, <1>1, ConfigureEnterEffect
  <2>2. UNCHANGED mib /\ configured' = None
    BY <1>1 DEF ConfigureEnter
  <2> QED
    BY <2>1, <2>2 DEF ConfigInv, ConfiguredWhole, Others
<1>2. ASSUME NEW t \in Task, ConfigureSet(t) PROVE ConfigInv'
  <2> DEFINE n  == call[t].n
             op == call[t].op
             p  == call[t].arg
             m  == Requests(op)[n]
  <2>1. /\ Others(t)
        /\ call[t].pc = "set" /\ op \in Config /\ p \in Arg
        /\ n \in 1 .. Len(Requests(op)) /\ m \in Mib
    BY <1>0, <1>2, ConfigureSetEffect
  <2>2. PICK ok \in BOOLEAN :
          /\ mib' = IF ok THEN [mib EXCEPT ![m] = Setting(op, m, p)] ELSE mib
          /\ \/ /\ n < Len(Requests(op))
                /\ call'[t].pc = "set" /\ call'[t].n = n + 1
                /\ call'[t].ok = (call[t].ok /\ ok)
                /\ call'[t].op = op /\ call'[t].arg = p
                /\ configured' = configured
             \/ /\ n = Len(Requests(op))
                /\ call'[t].pc = "idle"
                /\ configured' = IF call[t].ok /\ ok THEN [op |-> op, arg |-> p] ELSE None
    BY <1>2, ConfigureSetEffect
  <2>3. /\ Len(Requests(op)) \in 1 .. 6
        /\ \A i \in 1 .. Len(Requests(op)) : Requests(op)[i] \in Mib
        /\ \A i \in 1 .. Len(Requests(op)) : Requests(op)[i] = m => i = n
    BY <2>1, RequestsDiffer
  <2>4. /\ configured = None
        /\ call[t].ok => \A i \in 1 .. n - 1 :
             mib[Requests(op)[i]] = Setting(op, Requests(op)[i], p)
    BY <2>1 DEF ConfigInv
  <2>5. \A u \in Task \ {t} : call'[u].pc # "set"
    BY <2>1 DEF Alone, Others
  <2>6. mib \in [Mib -> Arg \cup {None}]
    BY DEF TypeInv, TypeOK
  <2> HIDE DEF n, op, p, m
  <2>7. ASSUME call[t].ok /\ ok, NEW i \in 1 .. n
        PROVE  mib'[Requests(op)[i]] = Setting(op, Requests(op)[i], p)
    <3>1. mib' = [mib EXCEPT ![m] = Setting(op, m, p)]
      BY <2>2, <2>7
    <3>2. i \in 1 .. Len(Requests(op)) /\ Requests(op)[i] \in Mib
      BY <2>1, <2>3
    <3>3. CASE i = n
      BY <2>6, <3>1, <3>2, <3>3 DEF m
    <3>4. CASE i # n
      <4>1. i \in 1 .. n - 1 /\ Requests(op)[i] # m
        BY <2>1, <2>3, <3>2, <3>4
      <4> QED
        BY <2>4, <2>6, <2>7, <3>1, <3>2, <4>1
    <3> QED
      BY <3>3, <3>4
  <2>8. CASE /\ n < Len(Requests(op))
             /\ call'[t].pc = "set" /\ call'[t].n = n + 1
             /\ call'[t].ok = (call[t].ok /\ ok)
             /\ call'[t].op = op /\ call'[t].arg = p
             /\ configured' = configured
    <3>1. configured' = None /\ ConfiguredWhole'
      BY <2>4, <2>8 DEF ConfiguredWhole
    <3>2. call'[t].ok => \A i \in 1 .. n :
            mib'[Requests(op)[i]] = Setting(op, Requests(op)[i], p)
      BY <2>7, <2>8
    <3>3. call'[t].n - 1 = n
      BY <2>1, <2>3, <2>8
    <3> QED
      BY <2>5, <2>8, <3>1, <3>2, <3>3 DEF ConfigInv
  <2>9. CASE /\ n = Len(Requests(op))
             /\ call'[t].pc = "idle"
             /\ configured' = IF call[t].ok /\ ok THEN [op |-> op, arg |-> p] ELSE None
    <3>1. ConfiguredWhole'
      BY <2>7, <2>9 DEF ConfiguredWhole
    <3> QED
      BY <2>5, <2>9, <3>1 DEF ConfigInv
  <2> QED
    BY <2>2, <2>8, <2>9
<1>3. ASSUME NEW t \in Task, NEW s \in Sock, NEW p \in Arg, SendEnter(t, s, p) PROVE ConfigInv'
  BY <1>0, <1>3, SendEnterEffect, ConfigFrame DEF SendEnter
<1>4. ASSUME NEW t \in Task, SendFill(t) PROVE ConfigInv'
  <2>1. Becomes(t, call'[t]) /\ call'[t].pc # "set"
    BY <1>4, SendFillEffect
  <2>2. UNCHANGED <<mib, configured>>
    BY <1>4 DEF SendFill
  <2> QED
    BY <1>0, <2>1, <2>2, ConfigFrame
<1>5. ASSUME NEW t \in Task, NEW g \in Group, NEW m \in Cell, AddEnter(t, g, m) PROVE ConfigInv'
  BY <1>0, <1>5, AddEnterEffect, ConfigFrame DEF AddEnter
<1>6. ASSUME NEW t \in Task, NEW g \in Group, RemoveEnter(t, g) PROVE ConfigInv'
  BY <1>0, <1>6, RemoveEnterEffect, ConfigFrame DEF RemoveEnter
<1>7. ASSUME NEW t \in Task, SendRequest(t) PROVE ConfigInv'
  BY <1>0, <1>7, SendRequestEffect, ConfigFrame DEF SendRequest
<1>8. ASSUME NEW t \in Task, RemoveFind(t) PROVE ConfigInv'
  BY <1>0, <1>8, RemoveFindEffect, ConfigFrame DEF RemoveFind
<1>9. ASSUME NEW t \in Task, RemoveUnlink(t) PROVE ConfigInv'
  BY <1>0, <1>9, RemoveUnlinkEffect, ConfigFrame DEF RemoveUnlink
<1>10. ASSUME NEW t \in Task, RemoveFree(t) PROVE ConfigInv'
  BY <1>0, <1>10, RemoveFreeEffect, ConfigFrame DEF RemoveFree
<1>11. ASSUME NEW t \in Task, AddLink(t) PROVE ConfigInv'
  BY <1>0, <1>11, AddLinkEffect, ConfigFrame DEF AddLink
<1>12. CASE UNCHANGED vars
  BY <1>12 DEF vars, ConfigInv, ConfiguredWhole
<1> QED
  BY <1>1, <1>2, <1>3, <1>4, <1>5, <1>6, <1>7, <1>8, <1>9, <1>10, <1>11, <1>12 DEF Next, Step

-----------------------------------------------------------------------------
(* Multicast calls.                                                        *)

\* Nobody but t is in a multicast call.
OnlyMulticast(t) == \A u \in Task \ {t} : call[u].pc \notin MulticastPc

\* GroupInv when nobody but the call c is a multicast call.
GroupsRight(c) ==
    /\ \A m \in groups : heap[m] # None
    /\ \A m \in Cell : heap[m] # None => m \in groups \/ m = c.new \/ m = c.cur
    /\ GroupsKept
    /\ c.new # None => c.new \notin groups /\ heap[c.new] # None /\ heap[c.new] = c.obj
    /\ c.pc = "unlink" => c.cur \in groups /\ heap[c.cur] = c.obj
    /\ c.pc = "free" => c.cur \notin groups /\ heap[c.cur] # None /\ c.cur # c.new
    /\ c.pc \in MulticastPc => c.obj \notin member

LEMMA GroupsOfCall ==
    ASSUME TypeInv, GroupInv, NEW t \in Task, OnlyMulticast(t)
    PROVE  GroupsRight(call[t])
<1>1. \A u \in Task \ {t} : call[u].new = None /\ call[u].cur = None
  BY DEF OnlyMulticast, TypeInv, WellFormed, MulticastPc
<1> QED
  BY <1>1, TaskAssumption DEF GroupInv, MulticastMemory, GroupsRight

LEMMA CallOfGroups ==
    ASSUME TypeInv', NEW t \in Task, OnlyMulticast(t)', GroupsRight(call[t])'
    PROVE  GroupInv'
<1>1. \A u \in Task \ {t} : call'[u].new = None /\ call'[u].pc \notin MulticastPc
  BY DEF OnlyMulticast, TypeInv, WellFormed
<1> QED
  BY <1>1 DEF GroupInv, MulticastMemory, GroupsRight, MulticastPc

\* A step of t that is not in a multicast call before or after.
LEMMA GroupFrame ==
    ASSUME TypeInv, TypeInv', GroupInv, NEW t \in Task, Others(t),
           call[t].pc \notin MulticastPc, call'[t].pc \notin MulticastPc,
           UNCHANGED <<heap, groups, member>>
    PROVE  GroupInv'
<1>1. /\ call[t].new = None /\ call[t].cur = None
      /\ call'[t].new = None /\ call'[t].cur = None
  BY DEF TypeInv, WellFormed, MulticastPc
<1>2. \A u \in Task : call'[u].new = call[u].new /\ call'[u].cur = call[u].cur
  BY <1>1 DEF Others
<1>3. MulticastMemory'
  BY <1>2 DEF GroupInv, MulticastMemory, Others, MulticastPc
<1>4. GroupsKept'
  BY DEF GroupInv, GroupsKept
<1>5. ASSUME NEW u \in Task
      PROVE  /\ call'[u].pc = "unlink" => call'[u].cur \in groups /\ heap[call'[u].cur] = call'[u].obj
             /\ call'[u].pc = "free" => call'[u].cur # call'[u].new
             /\ call'[u].new # None => heap[call'[u].new] = call'[u].obj
             /\ call'[u].pc \in MulticastPc => call'[u].obj \notin member
  <2>1. CASE u = t
    BY <1>1, <2>1 DEF MulticastPc
  <2>2. CASE u # t
    BY <2>2 DEF GroupInv, Others
  <2> QED
    BY <2>1, <2>2
<1> QED
  BY <1>3, <1>4, <1>5 DEF GroupInv

\* While nobody else changes the groups, they and their memory are right.
LEMMA GroupStep == Serialised /\ TypeInv /\ Alone /\ GroupInv /\ [Next]_vars => GroupInv'
<1> SUFFICES ASSUME Serialised, TypeInv, Alone, GroupInv, [Next]_vars PROVE GroupInv'
  OBVIOUS
<1> USE DEF macVars, history
<1>0. TypeInv'
  BY TypeStep
<1>a. ASSUME NEW t \in Task, Becomes(t, call'[t]), call[t].pc \in MulticastPc
      PROVE  OnlyMulticast(t) /\ OnlyMulticast(t)' /\ GroupsRight(call[t])
  <2>1. OnlyMulticast(t)
    BY <1>a DEF Alone, OnlyMulticast
  <2>2. OnlyMulticast(t)'
    BY <1>a, <2>1, Update DEF OnlyMulticast, Others
  <2> QED
    BY <2>1, <2>2, GroupsOfCall
<1>b. ASSUME NEW t \in Task, Becomes(t, call'[t]), \A u \in Task : call[u].pc \notin MulticastPc
      PROVE  /\ OnlyMulticast(t) /\ OnlyMulticast(t)' /\ GroupsRight(call[t])
             /\ call[t].new = None /\ call[t].cur = None
  <2>1. OnlyMulticast(t)
    BY <1>b DEF OnlyMulticast
  <2>2. OnlyMulticast(t)'
    BY <1>b, Update DEF OnlyMulticast, Others
  <2>3. call[t].new = None /\ call[t].cur = None
    BY <1>b DEF TypeInv, WellFormed, MulticastPc
  <2> QED
    BY <2>1, <2>2, <2>3, GroupsOfCall
<1>c. /\ groups \subseteq Cell /\ heap \in [Cell -> Group \cup {None}]
      /\ None \notin Cell /\ None \notin Group
  BY TaskAssumption DEF TypeInv, TypeOK
<1>d. ASSUME NEW t \in Task, Becomes(t, call'[t]),
             call[t].pc \notin MulticastPc, call'[t].pc \notin MulticastPc,
             UNCHANGED <<heap, groups, member>>
      PROVE  GroupInv'
  BY <1>0, <1>d, Update, GroupFrame
<1>1. ASSUME NEW t \in Task, NEW s \in Sock, NEW p \in Arg, SendEnter(t, s, p) PROVE GroupInv'
  BY <1>d, <1>1, SendEnterEffect DEF SendEnter, MulticastPc
<1>2. ASSUME NEW t \in Task, NEW op \in Config, NEW p \in Arg, ConfigureEnter(t, op, p) PROVE GroupInv'
  BY <1>d, <1>2, ConfigureEnterEffect DEF ConfigureEnter, MulticastPc
<1>3. ASSUME NEW t \in Task, SendFill(t) PROVE GroupInv'
  <2>1. /\ Becomes(t, call'[t])
        /\ call[t].pc \notin MulticastPc /\ call'[t].pc \notin MulticastPc
    BY <1>3, SendFillEffect DEF MulticastPc
  <2>2. UNCHANGED <<heap, groups, member>>
    BY <1>3 DEF SendFill
  <2> QED
    BY <1>d, <2>1, <2>2
<1>4. ASSUME NEW t \in Task, SendRequest(t) PROVE GroupInv'
  BY <1>d, <1>4, SendRequestEffect DEF SendRequest, MulticastPc
<1>5. ASSUME NEW t \in Task, ConfigureSet(t) PROVE GroupInv'
  BY <1>d, <1>5, ConfigureSetEffect DEF ConfigureSet, MulticastPc
<1>6. ASSUME NEW t \in Task, NEW g \in Group, NEW m \in Cell, AddEnter(t, g, m) PROVE GroupInv'
  <2>1. /\ Becomes(t, call'[t]) /\ call'[t].pc = "find"
        /\ call'[t].obj = g /\ call'[t].new = m /\ call'[t].cur = None
        /\ \A u \in Task : call[u].pc \notin MulticastPc
    BY <1>6, AddEnterEffect
  <2>2. /\ OnlyMulticast(t)' /\ GroupsRight(call[t])
        /\ call[t].new = None /\ call[t].cur = None
    BY <1>b, <2>1
  <2>3. /\ heap[m] = None /\ heap' = [heap EXCEPT ![m] = g]
        /\ member' = member \ {g} /\ groups' = groups
    BY <1>6 DEF AddEnter
  <2>4. m \notin groups /\ heap'[m] = g /\ \A k \in Cell \ {m} : heap'[k] = heap[k]
    BY <1>c, <2>2, <2>3 DEF GroupsRight
  <2>5. GroupsKept'
    BY <1>c, <2>2, <2>3, <2>4 DEF GroupsRight, GroupsKept
  <2>6. GroupsRight(call[t])'
    BY <1>c, <2>1, <2>2, <2>3, <2>4, <2>5 DEF GroupsRight
  <2> QED
    BY <1>0, <2>2, <2>6, CallOfGroups
<1>7. ASSUME NEW t \in Task, NEW g \in Group, RemoveEnter(t, g) PROVE GroupInv'
  <2>1. /\ Becomes(t, call'[t]) /\ call'[t].pc = "find"
        /\ call'[t].obj = g /\ call'[t].new = None /\ call'[t].cur = None
        /\ \A u \in Task : call[u].pc \notin MulticastPc
    BY <1>7, RemoveEnterEffect
  <2>2. /\ OnlyMulticast(t)' /\ GroupsRight(call[t])
        /\ call[t].new = None /\ call[t].cur = None
    BY <1>b, <2>1
  <2>3. heap' = heap /\ member' = member \ {g} /\ groups' = groups
    BY <1>7 DEF RemoveEnter
  <2>4. GroupsKept'
    BY <2>2, <2>3 DEF GroupsRight, GroupsKept
  <2>5. GroupsRight(call[t])'
    BY <2>1, <2>2, <2>3, <2>4 DEF GroupsRight
  <2> QED
    BY <1>0, <2>2, <2>5, CallOfGroups
<1>8. ASSUME NEW t \in Task, RemoveFind(t) PROVE GroupInv'
  <2>1. /\ Becomes(t, call'[t]) /\ call[t].pc = "find" /\ call[t].pc \in MulticastPc
        /\ \/ call'[t].pc = "idle" /\ call'[t].new = None /\ call'[t].cur = None
              /\ call[t].new = None
           \/ /\ call'[t].pc = "link" /\ call'[t].cur = None
              /\ call'[t].obj = call[t].obj /\ call'[t].new = call[t].new
           \/ /\ call'[t].pc = "unlink" /\ call'[t].cur \in groups
              /\ heap[call'[t].cur] = call[t].obj
              /\ call'[t].obj = call[t].obj /\ call'[t].new = call[t].new
    BY <1>8, RemoveFindEffect DEF MulticastPc
  <2>2. OnlyMulticast(t)' /\ GroupsRight(call[t])
    BY <1>a, <2>1
  <2>3. UNCHANGED <<heap, groups, member>> /\ call[t].cur = None
    BY <1>8, <2>1 DEF RemoveFind, TypeInv, WellFormed
  <2>4. GroupsKept'
    BY <2>2, <2>3 DEF GroupsRight, GroupsKept
  <2>5. GroupsRight(call[t])'
    BY <1>c, <2>1, <2>2, <2>3, <2>4 DEF GroupsRight, MulticastPc
  <2> QED
    BY <1>0, <2>2, <2>5, CallOfGroups
<1>9. ASSUME NEW t \in Task, RemoveUnlink(t) PROVE GroupInv'
  <2>1. /\ Becomes(t, call'[t]) /\ call[t].pc = "unlink" /\ call[t].pc \in MulticastPc
        /\ call[t].cur \in Cell
        /\ \/ /\ groups' = groups
              /\ \/ call'[t].pc = "idle" /\ call'[t].new = None /\ call'[t].cur = None
                    /\ call[t].new = None
                 \/ /\ call'[t].pc = "link" /\ call'[t].cur = None
                    /\ call'[t].obj = call[t].obj /\ call'[t].new = call[t].new
           \/ /\ groups' = groups \ {call[t].cur}
              /\ call'[t].pc = "free" /\ call'[t].cur = call[t].cur
              /\ call'[t].obj = call[t].obj /\ call'[t].new = call[t].new
    BY <1>9, RemoveUnlinkEffect DEF MulticastPc
  <2>2. OnlyMulticast(t)' /\ GroupsRight(call[t])
    BY <1>a, <2>1
  <2>3. UNCHANGED <<heap, member>>
    BY <1>9 DEF RemoveUnlink
  <2>4. GroupsKept'
    BY <2>1, <2>2, <2>3 DEF GroupsRight, GroupsKept
  <2>5. GroupsRight(call[t])'
    BY <1>c, <2>1, <2>2, <2>3, <2>4 DEF GroupsRight, MulticastPc
  <2> QED
    BY <1>0, <2>2, <2>5, CallOfGroups
<1>10. ASSUME NEW t \in Task, RemoveFree(t) PROVE GroupInv'
  <2>1. /\ Becomes(t, call'[t]) /\ call[t].pc = "free" /\ call[t].pc \in MulticastPc
        /\ call[t].cur \in Cell
        /\ \/ call'[t].pc = "idle" /\ call'[t].new = None /\ call'[t].cur = None
              /\ call[t].new = None
           \/ /\ call'[t].pc = "link" /\ call'[t].cur = None
              /\ call'[t].obj = call[t].obj /\ call'[t].new = call[t].new
    BY <1>10, RemoveFreeEffect DEF MulticastPc
  <2>2. OnlyMulticast(t)' /\ GroupsRight(call[t])
    BY <1>a, <2>1
  <2>3. heap' = [heap EXCEPT ![call[t].cur] = None] /\ UNCHANGED <<groups, member>>
    BY <1>10 DEF RemoveFree
  <2>4. heap'[call[t].cur] = None /\ \A k \in Cell \ {call[t].cur} : heap'[k] = heap[k]
    BY <1>c, <2>1, <2>3
  <2>5. call[t].new \in Cell \cup {None} /\ call[t].cur \notin groups
    BY <2>1, <2>2 DEF GroupsRight, TypeInv, TypeOK, Call
  <2>6. GroupsKept'
    BY <1>c, <2>2, <2>3, <2>4, <2>5 DEF GroupsRight, GroupsKept
  <2>7. GroupsRight(call[t])'
    BY <1>c, <2>1, <2>2, <2>3, <2>4, <2>5, <2>6 DEF GroupsRight, MulticastPc
  <2> QED
    BY <1>0, <2>2, <2>7, CallOfGroups
<1>11. ASSUME NEW t \in Task, AddLink(t) PROVE GroupInv'
  <2>1. /\ Becomes(t, call'[t]) /\ call[t].pc = "link" /\ call[t].pc \in MulticastPc
        /\ call'[t].pc = "idle" /\ call'[t].new = None /\ call'[t].cur = None
        /\ call[t].new \in Cell /\ call[t].cur = None
    BY <1>11, AddLinkEffect DEF MulticastPc
  <2>2. OnlyMulticast(t)' /\ GroupsRight(call[t])
    BY <1>a, <2>1
  <2>3. CASE /\ groups' = groups \cup {call[t].new}
             /\ member' = member \cup {call[t].obj}
             /\ UNCHANGED heap
    <3>1. GroupsKept'
      BY <1>c, <2>1, <2>2, <2>3 DEF GroupsRight, GroupsKept
    <3>2. GroupsRight(call[t])'
      BY <1>c, <2>1, <2>2, <2>3, <3>1 DEF GroupsRight, MulticastPc
    <3> QED
      BY <1>0, <2>2, <3>2, CallOfGroups
  <2>4. CASE /\ heap' = [heap EXCEPT ![call[t].new] = None]
             /\ UNCHANGED <<groups, member>>
    <3>1. heap'[call[t].new] = None /\ \A k \in Cell \ {call[t].new} : heap'[k] = heap[k]
      BY <1>c, <2>1, <2>4
    <3>2. GroupsKept'
      BY <1>c, <2>1, <2>2, <2>4, <3>1 DEF GroupsRight, GroupsKept
    <3>3. GroupsRight(call[t])'
      BY <1>c, <2>1, <2>2, <2>4, <3>1, <3>2 DEF GroupsRight, MulticastPc
    <3> QED
      BY <1>0, <2>2, <3>3, CallOfGroups
  <2> QED
    BY <1>11, <2>3, <2>4 DEF AddLink
<1>12. CASE UNCHANGED vars
  BY <1>12 DEF vars, GroupInv, MulticastMemory, GroupsKept
<1> QED
  BY <1>1, <1>2, <1>3, <1>4, <1>5, <1>6, <1>7, <1>8, <1>9, <1>10, <1>11, <1>12 DEF Next, Step

-----------------------------------------------------------------------------
(* The theorems of serialised use.                                         *)

LEMMA InitialRequests == Init => Alone /\ SendInv /\ ConfigInv /\ GroupInv
<1> SUFFICES ASSUME Init PROVE Alone /\ SendInv /\ ConfigInv /\ GroupInv
  OBVIOUS
<1>1. \A t \in Task : call[t] = Idle
  BY DEF Init
<1>2. Idle.pc = "idle" /\ Idle.new = None
  BY DEF Idle
<1>3. Alone
  BY <1>1, <1>2 DEF Alone, SendPc, MulticastPc
<1>4. SendInv /\ ConfigInv
  BY <1>1, <1>2 DEF Init, SendInv, RequestUnmixed, ConfigInv, ConfiguredWhole
<1>5. GroupInv
  BY <1>1, <1>2 DEF Init, GroupInv, MulticastMemory, GroupsKept, MulticastPc
<1> QED
  BY <1>3, <1>4, <1>5

LEMMA SerialisedInvariant ==
    ASSUME Serialised
    PROVE  Spec => [](TypeInv /\ Alone /\ SendInv /\ ConfigInv /\ GroupInv)
<1> DEFINE Inv == TypeInv /\ Alone /\ SendInv /\ ConfigInv /\ GroupInv
<1>1. Init => Inv
  BY InitialTypes, InitialRequests
<1>2. Inv /\ [Next]_vars => Inv'
  BY TypeStep, AloneStep, SendStep, ConfigStep, GroupStep
<1> QED
  BY <1>1, <1>2, PTL DEF Spec

\* In serialised use the MAC never accepts a request that mixes two sends,
\* whichever sends it refused before (lorawan_send).
THEOREM RequestsUnmixed == Serialised => (Spec => []RequestUnmixed)
<1> SUFFICES ASSUME Serialised PROVE Spec => []RequestUnmixed
  OBVIOUS
<1>1. SendInv => RequestUnmixed
  BY DEF SendInv
<1> QED
  BY <1>1, SerialisedInvariant, PTL

\* In serialised use a configuration that returns OK has set every one of
\* its settings, whatever was refused before (lorawan_configure_ABP, _OTAA).
THEOREM ConfigurationsWhole == Serialised => (Spec => []ConfiguredWhole)
<1> SUFFICES ASSUME Serialised PROVE Spec => []ConfiguredWhole
  OBVIOUS
<1>1. ConfigInv => ConfiguredWhole
  BY DEF ConfigInv
<1> QED
  BY <1>1, SerialisedInvariant, PTL

\* In serialised use the elements of the MAC's list are allocated, none is
\* lost and none is freed twice, whatever the MAC refuses
\* (lorawan_multicast_add, lorawan_multicast_remove).
THEOREM MulticastMemorySafe == Serialised => (Spec => []MulticastMemory)
<1> SUFFICES ASSUME Serialised PROVE Spec => []MulticastMemory
  OBVIOUS
<1>1. GroupInv => MulticastMemory
  BY DEF GroupInv
<1> QED
  BY <1>1, SerialisedInvariant, PTL

\* In serialised use a group that was added with OK is received until the
\* next call on its address, though others are refused or removed.
THEOREM GroupsStay == Serialised => (Spec => []GroupsKept)
<1> SUFFICES ASSUME Serialised PROVE Spec => []GroupsKept
  OBVIOUS
<1>1. GroupInv => GroupsKept
  BY DEF GroupInv
<1> QED
  BY <1>1, SerialisedInvariant, PTL
=============================================================================
