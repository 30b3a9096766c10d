--------------------------- MODULE LorawanRequests ---------------------------
(***************************************************************************)
(* The calls of lorawan_api.c that hand requests to the MAC: lorawan_send, *)
(* lorawan_configure_ABP and _OTAA, lorawan_multicast_add and _remove.     *)
(*                                                                         *)
(* The MAC answers each request OK or not, whenever it likes: it refuses   *)
(* while it transmits, and the LoRaWAN task may end or start that between  *)
(* any two requests.  A call is cut at its requests and at its accesses to *)
(* the socket's request, and application tasks preempt each other by       *)
(* priority.  What a refused or short call leaves unchanged has no action. *)
(* The list of groups is a set: a search finds any element of the address. *)
(***************************************************************************)
EXTENDS Integers, Sequences

CONSTANTS
    Task,       \* application tasks that call the API
    Prio,       \* [Task -> Nat], smaller runs first, no two alike
    Sock,       \* open sockets
    Cell,       \* heap cells that malloc can return for a MulticastParams_t
    Group,      \* multicast addresses
    Arg,        \* what a send or a configuration is about: payload, keys, ...
    MaxCalls,   \* bound: number of calls
    Serialised, \* callers' discipline: no call starts inside one on the same thing
    None

ASSUME TaskAssumption ==
    /\ Prio \in [Task -> Nat]
    /\ \A t, u \in Task : Prio[t] = Prio[u] => t = u
    /\ None \notin Cell \cup Group \cup Arg \cup Sock

ASSUME BoundAssumption == MaxCalls \in Nat /\ Serialised \in BOOLEAN

VARIABLES
    mcps_req,   \* the request of each socket, a field being the payload it is of
    mib,        \* the MAC's settings, each being the configuration it is of
    groups,     \* elements linked in the MAC's list of multicast groups
    heap,       \* the address in each allocated cell
    call,       \* the call each task is in, with its arguments and locals
    calls,      \* calls so far
    frame,      \* history: the request that the MAC last accepted, and whose
    configured, \* history: the last configuration that returned OK, until another
    member      \* history: addresses last added with OK, until another call on them

macVars == <<mib, groups>>
history == <<calls, frame, configured, member>>
vars    == <<mcps_req, heap, macVars, call, history>>

-----------------------------------------------------------------------------
\* The fields lorawan_send writes, in its order.
Field == <<"fBuffer", "fBufferSize", "fPort">>

\* The settings each configuration requests, in its order.
Requests(op) ==
    IF op = "ABP"
    THEN <<"DEV_ADDR", "NWK_SKEY", "APP_SKEY", "NETWORK_JOINED", "CHANNELS_TX_POWER", "CHANNELS_NB_REP">>
    ELSE <<"NETWORK_JOINED", "CHANNELS_TX_POWER", "CHANNELS_NB_REP">>

Mib == {"DEV_ADDR", "NWK_SKEY", "APP_SKEY", "NETWORK_JOINED", "CHANNELS_TX_POWER", "CHANNELS_NB_REP"}

\* What a configuration sets m to: joined in ABP, and not in OTAA.
Setting(op, m, arg) == IF op = "OTAA" /\ m = "NETWORK_JOINED" THEN None ELSE arg

Config    == {"ABP", "OTAA"}
Multicast == {"add", "remove"}

\* obj is the socket or the address; n counts fields or settings; ok is the
\* status so far; new and cur are the elements of a multicast call.
Call == [pc : {"idle", "fill", "request", "set", "find", "unlink", "free", "link"},
         op : {"send"} \cup Config \cup Multicast, obj : Sock \cup Group \cup {None},
         arg : Arg \cup {None}, n : 1 .. 6, ok : BOOLEAN,
         new : Cell \cup {None}, cur : Cell \cup {None}]

Idle == [pc |-> "idle", op |-> "send", obj |-> None, arg |-> None, n |-> 1, ok |-> TRUE,
         new |-> None, cur |-> None]

Init ==
    /\ mcps_req = [s \in Sock |-> [i \in 1 .. 3 |-> None]]
    /\ mib = [m \in Mib |-> None]
    /\ groups = {}
    /\ heap = [c \in Cell |-> None]
    /\ call = [t \in Task |-> Idle]
    /\ calls = 0
    /\ frame = None
    /\ configured = None
    /\ member = {}

-----------------------------------------------------------------------------
\* Mynewt runs t only when no task of higher priority is ready.
Runs(t) == \A u \in Task : Prio[u] < Prio[t] => call[u].pc = "idle"

At(t, pc) == call[t].pc = pc /\ Runs(t)

Goto(t, pc) == call' = [call EXCEPT ![t].pc = pc]
Return(t)   == call' = [call EXCEPT ![t] = Idle]

\* t calls op about obj; in serialised use nobody else is in a call of the
\* same kind, which for a send is one on the same socket.
Enter(t, kind, op, obj, first) ==
    /\ At(t, "idle")
    /\ calls < MaxCalls
    /\ Serialised => \A u \in Task : call[u].pc # "idle" =>
          call[u].op \notin kind \/ (op = "send" /\ call[u].obj # obj)
    /\ calls' = calls + 1
    /\ call' = [call EXCEPT ![t] = first]

-----------------------------------------------------------------------------
(* lorawan_send.                                                           *)

SendEnter(t, s, p) ==
    /\ Enter(t, {"send"}, "send", s, [Idle EXCEPT !.pc = "fill", !.obj = s, !.arg = p])
    /\ UNCHANGED <<mcps_req, heap, macVars, frame, configured, member>>

\* Mutant: the port is left as it was.
SendFillNoPort(t) ==
    /\ At(t, "fill")
    /\ mcps_req' = [mcps_req EXCEPT ![call[t].obj][call[t].n] = call[t].arg]
    /\ call' = [call EXCEPT ![t].pc = IF call[t].n < 2 THEN "fill" ELSE "request",
                            ![t].n = @ + 1]
    /\ UNCHANGED <<heap, macVars, history>>

\* One field of the socket's request.
SendFill(t) ==
    /\ At(t, "fill")
    /\ mcps_req' = [mcps_req EXCEPT ![call[t].obj][call[t].n] = call[t].arg]
    /\ call' = [call EXCEPT ![t].pc = IF call[t].n < Len(Field) THEN "fill" ELSE "request",
                            ![t].n = @ + 1]
    /\ UNCHANGED <<heap, macVars, history>>

\* LoRaMacMcpsRequest copies the request when it accepts it.
SendRequest(t) ==
    /\ At(t, "request")
    /\ frame' \in {frame, [req |-> mcps_req[call[t].obj], payload |-> call[t].arg]}
    /\ Return(t)
    /\ UNCHANGED <<mcps_req, heap, macVars, calls, configured, member>>

-----------------------------------------------------------------------------
(* lorawan_configure_ABP, lorawan_configure_OTAA.                          *)

ConfigureEnter(t, op, p) ==
    /\ Enter(t, Config, op, None, [Idle EXCEPT !.pc = "set", !.op = op, !.arg = p])
    /\ configured' = None
    /\ UNCHANGED <<mcps_req, heap, macVars, frame, member>>

\* The last request: the call returns OK if all were accepted.
ConfigureReturn(t, ok) ==
    /\ Return(t)
    /\ configured' = IF ok THEN [op |-> call[t].op, arg |-> call[t].arg] ELSE None

\* Mutant: the status of a request replaces that of the ones before.
ConfigureLastStatus(t) ==
    LET request == Requests(call[t].op)
        m       == request[call[t].n]
    IN
    /\ At(t, "set")
    /\ \E ok \in BOOLEAN :
        /\ mib' = IF ok THEN [mib EXCEPT ![m] = Setting(call[t].op, m, call[t].arg)] ELSE mib
        /\ \/ /\ call[t].n < Len(request)
              /\ call' = [call EXCEPT ![t].n = @ + 1, ![t].ok = ok]
              /\ UNCHANGED configured
           \/ /\ call[t].n = Len(request)
              /\ ConfigureReturn(t, ok)
    /\ UNCHANGED <<mcps_req, heap, groups, calls, frame, member>>

\* LoRaMacMibSetRequestConfirm: a request after a refused one is still made.
ConfigureSet(t) ==
    LET request == Requests(call[t].op)
        m       == request[call[t].n]
    IN
    /\ At(t, "set")
    /\ \E ok \in BOOLEAN :
        /\ mib' = IF ok THEN [mib EXCEPT ![m] = Setting(call[t].op, m, call[t].arg)] ELSE mib
        /\ \/ /\ call[t].n < Len(request)
              /\ call' = [call EXCEPT ![t].n = @ + 1, ![t].ok = @ /\ ok]
              /\ UNCHANGED configured
           \/ /\ call[t].n = Len(request)
              /\ ConfigureReturn(t, call[t].ok /\ ok)
    /\ UNCHANGED <<mcps_req, heap, groups, calls, frame, member>>

-----------------------------------------------------------------------------
(* lorawan_multicast_add, which calls lorawan_multicast_remove and does    *)
(* not look at its status.                                                 *)

AddEnter(t, g, c) ==
    /\ heap[c] = None
    /\ Enter(t, Multicast, "add", g,
             [Idle EXCEPT !.pc = "find", !.op = "add", !.obj = g, !.new = c])
    /\ heap' = [heap EXCEPT ![c] = g]
    /\ member' = member \ {g}
    /\ UNCHANGED <<mcps_req, macVars, frame, configured>>

RemoveEnter(t, g) ==
    /\ Enter(t, Multicast, "remove", g,
             [Idle EXCEPT !.pc = "find", !.op = "remove", !.obj = g])
    /\ member' = member \ {g}
    /\ UNCHANGED <<mcps_req, heap, macVars, frame, configured>>

\* lorawan_multicast_remove returns, to its caller or to the add it is in.
RemoveReturn(t) ==
    \/ call[t].op = "remove" /\ Return(t)
    \/ call[t].op = "add" /\ call' = [call EXCEPT ![t].pc = "link", ![t].cur = None]

\* Mutant: the search stops at any element.
RemoveFindAny(t) ==
    /\ At(t, "find")
    /\ \/ RemoveReturn(t)
       \/ \E c \in groups : call' = [call EXCEPT ![t].pc = "unlink", ![t].cur = c]
    /\ UNCHANGED <<mcps_req, heap, macVars, history>>

\* Mutant: an address that is not found is not told from one that is.
RemoveFindUnchecked(t) ==
    /\ At(t, "find")
    /\ \/ \E c \in groups : /\ heap[c] = call[t].obj
                            /\ call' = [call EXCEPT ![t].pc = "unlink", ![t].cur = c]
       \/ Goto(t, "unlink")
    /\ UNCHANGED <<mcps_req, heap, macVars, history>>

\* The search in the list LoRaMacMibGetRequestConfirm gives, if it gives one.
RemoveFind(t) ==
    /\ At(t, "find")
    /\ \/ RemoveReturn(t)
       \/ \E c \in groups : /\ heap[c] = call[t].obj
                            /\ call' = [call EXCEPT ![t].pc = "unlink", ![t].cur = c]
    /\ UNCHANGED <<mcps_req, heap, macVars, history>>

\* Mutant: the status of LoRaMacMulticastChannelUnlink is not looked at.
RemoveUnlinkIgnored(t) ==
    /\ At(t, "unlink")
    /\ groups' \in {groups, groups \ {call[t].cur}}
    /\ Goto(t, "free")
    /\ UNCHANGED <<mcps_req, heap, mib, history>>

RemoveUnlink(t) ==
    /\ At(t, "unlink")
    /\ \/ groups' = groups \ {call[t].cur} /\ Goto(t, "free")
       \/ groups' = groups /\ RemoveReturn(t)
    /\ UNCHANGED <<mcps_req, heap, mib, history>>

RemoveFree(t) ==
    /\ At(t, "free")
    /\ heap' = [heap EXCEPT ![call[t].cur] = None]
    /\ RemoveReturn(t)
    /\ UNCHANGED <<mcps_req, macVars, history>>

AddLink(t) ==
    /\ At(t, "link")
    /\ \/ /\ groups' = groups \cup {call[t].new}
          /\ member' = member \cup {call[t].obj}
          /\ UNCHANGED heap
       \/ /\ heap' = [heap EXCEPT ![call[t].new] = None]
          /\ UNCHANGED <<groups, member>>
    /\ Return(t)
    /\ UNCHANGED <<mcps_req, mib, calls, frame, configured>>

-----------------------------------------------------------------------------
Step(t) ==
    \/ SendFill(t)
    \/ SendRequest(t)
    \/ ConfigureSet(t)
    \/ RemoveFind(t)
    \/ RemoveUnlink(t)
    \/ RemoveFree(t)
    \/ AddLink(t)

Next ==
    \E t \in Task :
        \/ \E s \in Sock, p \in Arg : SendEnter(t, s, p)
        \/ \E op \in Config, p \in Arg : ConfigureEnter(t, op, p)
        \/ \E g \in Group, c \in Cell : AddEnter(t, g, c)
        \/ \E g \in Group : RemoveEnter(t, g)
        \/ Step(t)

Spec == Init /\ [][Next]_vars

-----------------------------------------------------------------------------
(* Properties.                                                             *)

\* Every variable has its type, and a call that unlinks, frees or links an
\* element has one.
TypeOK ==
    /\ mcps_req \in [Sock -> [1 .. 3 -> Arg \cup {None}]]
    /\ mib \in [Mib -> Arg \cup {None}]
    /\ groups \subseteq Cell
    /\ heap \in [Cell -> Group \cup {None}]
    /\ call \in [Task -> Call]
    /\ calls \in 0 .. MaxCalls
    /\ frame \in [req : [1 .. 3 -> Arg \cup {None}], payload : Arg] \cup {None}
    /\ configured \in [op : Config, arg : Arg] \cup {None}
    /\ member \subseteq Group
    /\ \A t \in Task : /\ call[t].pc \in {"unlink", "free"} => call[t].cur # None
                       /\ call[t].pc = "link" => call[t].new # None

\* The request that the MAC accepts is the caller's own: its payload with
\* its size and its port, although a socket has one mcps_req for all senders
\* (lorawan_api.c:123) and a refused send leaves it filled.
RequestUnmixed == frame # None => \A i \in 1 .. 3 : frame.req[i] = frame.payload

\* When the last configuration returned OK, the MAC has all of its settings
\* and none of an earlier one that was refused midway.
ConfiguredWhole ==
    configured # None =>
        \A i \in 1 .. Len(Requests(configured.op)) :
            LET m == Requests(configured.op)[i] IN
            mib[m] = Setting(configured.op, m, configured.arg)

\* An element of the MAC's list is allocated, no other is unless a call has
\* it, and no call frees an element that is linked or freed, whatever the
\* MAC refuses.
MulticastMemory ==
    /\ \A c \in groups : heap[c] # None
    /\ \A t \in Task :
        /\ call[t].new # None => call[t].new \notin groups /\ heap[call[t].new] # None
        /\ call[t].pc = "free" => call[t].cur \notin groups /\ heap[call[t].cur] # None
    /\ \A c \in Cell : heap[c] # None =>
        c \in groups \/ \E t \in Task : c \in {call[t].new, call[t].cur}

\* A group whose add returned OK is received until another call on it.
GroupsKept == \A g \in member : \E c \in groups : heap[c] = g

\* "Remove the devAddr from the list, if it is present" (lorawan_api.c:334):
\* an address that was added is in the list once.
GroupOnce == \A c, d \in groups : heap[c] = heap[d] => c = d
=============================================================================
