-------------------------- MODULE RadioBoardProofs --------------------------
(***************************************************************************)
(* Proofs about the pins, the interrupts, the antenna switch and the bus   *)
(* of RadioBoard, for every board, driver, register set and access size.   *)
(*                                                                         *)
(* What the running function has still to do is part of the state, and the *)
(* invariants speak of it: which call may follow which (Linked), and what  *)
(* the pins, the chip and the flags are at the call it has come to.        *)
(***************************************************************************)
EXTENDS RadioBoard, TLAPS

-----------------------------------------------------------------------------
(* The calls.                                                              *)

\* The objects that the board's IoInit sets.
Wired(r) == {"Nss"} \cup (IF r = "SX126x" THEN {"Busy", "DIO1", "DIO2", "DIO3"} ELSE Dio)

Names ==
    {"init", "write", "store", "irqInit", "enable", "mask", "release", "clear", "byte", "delay", "wait", "check",
     "asleep", "awake", "lowPower", "opMode", "spi", "eventq", "task", "up", "mac", "assert"}

Args == {"", "PIN_INPUT", "PIN_OUTPUT", "PIN_ANALOGIC", "send", "receive"} \cup OpMode \cup {Handler[d] : d \in Dio}

Codes ==
    {"GET_STATUS", "SET_STANDBY", "SET_SLEEP", "SET_RX", "GET_IRQSTATUS", "SET_TXPARAMS",
     "WRITE_REGISTER", "READ_REGISTER", "WRITE_BUFFER", "READ_BUFFER"}

Vals == Int \cup Value \cup Codes

\* The calls that a board makes, each with arguments of its own kind.
Good(r, c) ==
    \/ /\ c.do = "init" /\ c.obj \in Obj /\ c.val \in 0 .. 1
       /\ c.arg \in {"PIN_INPUT", "PIN_OUTPUT", "PIN_ANALOGIC"}
       /\ c.obj = "Nss" /\ c.arg = "PIN_OUTPUT" => c.val = 1
       /\ c.obj = "Ant" /\ c.val = 1 => r = "SX126x"
    \/ c.do = "write" /\ c.obj = (IF r = "SX126x" THEN "Nss" ELSE "Ant") /\ c.val \in 0 .. 1
    \/ c.do = "store" /\ c.obj \in Dio \cap Wired(r) /\ c.arg = Handler[c.obj]
    \/ c.do \in {"irqInit", "release", "clear"} /\ c.obj \in Dio \cap Wired(r)
    \/ c.do \in {"enable", "mask"} /\ c.obj \in Wired(r) \ {"Nss"}
    \/ c.do = "byte" /\ r = "SX126x" /\ c.arg \in {"send", "receive"}
    \/ c.do \in {"wait", "check", "asleep", "awake"} /\ r = "SX126x"
    \/ c.do \in {"lowPower", "opMode"} /\ r # "SX126x" /\ c.arg \in OpMode
    \/ c.do \in {"delay", "spi", "eventq", "task", "up", "mac", "assert"}

Calls(r) == {c \in [do : Names, obj : Obj \cup {""}, arg : Args, val : Vals] : Good(r, c)}

NssFalls(c) == c.do = "write" /\ c.obj = "Nss" /\ c.val = 0
NssRises(c) == c.do = "write" /\ c.obj = "Nss" /\ c.val = 1
InFrame(c)  == c.do = "byte" \/ NssRises(c)

NssRaised(c)  == c.do = "init" /\ c.obj = "Nss" /\ c.arg = "PIN_OUTPUT"
NssDropped(c) == c.do = "init" /\ c.obj = "Nss" /\ c.arg # "PIN_OUTPUT"

AntWrite(c) == c.do = "write" /\ c.obj = "Ant"
AntInit(c)  == c.do = "init" /\ c.obj = "Ant"
AntOn(c)    == AntInit(c) /\ c.arg = "PIN_OUTPUT" /\ c.val = 1

BusyEnabled(c) == c.do = "enable" /\ c.obj = "Busy"

\* Call b may come next after call a.
Link(a, b) ==
    /\ a.do = "store" <=> b.do = "irqInit"
    /\ a.do = "release" <=> b.do = "clear"
    /\ a.do \in {"store", "release"} => a.obj = b.obj
    /\ NssFalls(a) \/ a.do = "byte" <=> InFrame(b)
    /\ NssFalls(b) => a.do \in {"wait", "check", "mask"}
    /\ a.do = "lowPower" => IF a.arg = "sleep" THEN b.do = "opMode" /\ b.arg = "sleep" ELSE AntWrite(b)
    /\ AntWrite(a) => b.do = "opMode" /\ b.arg # "sleep" /\ (a.val = 1 <=> b.arg = "transmitter")
    /\ b.do = "opMode" => a.do = "lowPower" \/ AntInit(a) \/ AntWrite(a)
    /\ AntWrite(b) => a.do = "lowPower" \/ AntInit(a)
    /\ ~NssDropped(b)
    /\ AntInit(b) => AntOn(b)
    /\ a.do # "mac"

\* A call with which a part of a function may begin, and may end.
Opening(c) ==
    /\ c.do \notin {"irqInit", "clear", "byte", "write", "opMode"}
    /\ ~NssDropped(c)
    /\ AntInit(c) => AntOn(c)

Closing(c) == c.do \notin {"store", "release", "byte", "lowPower", "mac"} /\ ~NssFalls(c) /\ ~AntWrite(c)

\* The calls follow one another as they should, to the end of the function.
Linked(r, s) ==
    /\ s \in Seq(Calls(r))
    /\ \A i \in 1 .. Len(s) - 1 : Link(s[i], s[i + 1])
    /\ s # <<>> => Closing(s[Len(s)]) \/ s[Len(s)].do = "mac"

\* A frame that starts right after the masking of the interrupts is the
\* wake-up's: they are still to be enabled.
Awaits(s) ==
    \A i \in 2 .. Len(s) : NssFalls(s[i]) /\ s[i - 1].do = "mask" => \E j \in i + 1 .. Len(s) : BusyEnabled(s[j])

\* A function puts the radio to sleep or wakes it, not both.
OneMode(s) ==
    \A i, j \in 1 .. Len(s) : ~(s[i].do = "asleep" /\ s[j].do = "awake")

TodoInv == Linked(radio, todo) /\ Awaits(todo) /\ OneMode(todo)

-----------------------------------------------------------------------------
(* The state at the call that is next.                                     *)

\* What comes before call j only names the bus and initialises pins.
OnlyInits(j) == \A i \in 1 .. j - 1 : todo[i].do \in {"spi", "init"}

InitPending(o) == \E j \in 1 .. Len(todo) : todo[j].do = "init" /\ todo[j].obj = o /\ OnlyInits(j)

PinsInv == \A o \in Wired(radio) : pin[o] = PinOf[o] \/ InitPending(o)

NssPending(k) == \E j \in k .. Len(todo) : NssRaised(todo[j]) /\ OnlyInits(j)

IoInv ==
    /\ IoUp \/ NssPending(1)
    /\ todo # <<>> /\ NssDropped(todo[1]) => NssPending(2)

IrqInv ==
    /\ irqSet \subseteq {PinOf[d] : d \in Dio \cap Wired(radio)} \ {NC}
    /\ \A d \in Dio : PinOf[d] # NC =>
        LET h == GpioIrq[Line(PinOf[d])]
            at == todo # <<>> /\ todo[1].obj = d
        IN  /\ PinOf[d] \in irqSet => h = Handler[d]
            /\ PinOf[d] \notin irqSet => h = NULL \/ (at /\ todo[1].do \in {"irqInit", "clear"})
            /\ at /\ todo[1].do = "irqInit" => h = Handler[d]
            /\ at /\ todo[1].do = "clear" => PinOf[d] \notin irqSet

BusInv ==
    /\ spiOn \/ (todo # <<>> /\ todo[1].do = "spi")
    /\ mode[PinOf["Reset"]] = "out" => chip = "reset"
    /\ IF todo # <<>> /\ InFrame(todo[1])
       THEN level[PinOf["Nss"]] = 0 /\ (Waking \/ chip = "listening")
       ELSE IoUp => level[PinOf["Nss"]] = 1
    /\ todo # <<>> /\ NssFalls(todo[1]) => Waking \/ chip = "ready"

AntHigh == mode[PinOf["Ant"]] = "out" /\ level[PinOf["Ant"]] = 1

AntMatches(m) ==
    /\ pin["Ant"] = PinOf["Ant"]
    /\ PinOf["Ant"] # NC =>
        /\ AntHigh <=> m = "transmitter"
        /\ m # "sleep" => mode[PinOf["Ant"]] = "out"

Settled == (RadioIsActive <=> opMode = "sleep") /\ AntMatches(opMode)

\* Start-up has not come to the radio's first mode yet, which is sleep.
Fresh ==
    /\ ~RadioIsActive
    /\ \E j \in 1 .. Len(todo) :
        /\ todo[j].do \in {"mac", "assert"} \/ (todo[j].do = "lowPower" /\ todo[j].arg = "sleep")
        /\ \A i \in 1 .. j - 1 : todo[i].do \in {"spi", "init", "eventq", "task", "delay"} /\ ~AntInit(todo[i])

AntInv127x ==
    IF todo = <<>> THEN Settled
    ELSE IF AntInit(todo[1])
    THEN /\ Len(todo) > 1
         /\ IF RadioIsActive THEN todo[2].do = "opMode" /\ todo[2].arg = "sleep" ELSE AntWrite(todo[2])
         /\ todo[1].arg = "PIN_OUTPUT" => todo[1].val = 0
         /\ ~RadioIsActive => todo[1].arg = "PIN_OUTPUT"
    ELSE IF AntWrite(todo[1])
    THEN /\ ~RadioIsActive /\ pin["Ant"] = PinOf["Ant"]
         /\ PinOf["Ant"] # NC => mode[PinOf["Ant"]] = "out"
    ELSE IF todo[1].do = "opMode"
    THEN (RadioIsActive <=> todo[1].arg = "sleep") /\ AntMatches(todo[1].arg)
    ELSE Settled \/ Fresh

Sleeping == \E i \in 1 .. Len(todo) : todo[i].do = "asleep"

AntInv126x ==
    /\ asleep \/ AntHigh \/ Sleeping
    /\ \A i \in 1 .. Len(todo) : todo[i].do = "awake" =>
        \/ AntHigh
        \/ \E j \in 1 .. i - 1 : AntOn(todo[j])
        \/ asleep /\ \E j \in 1 .. i - 1 : todo[j].do = "check"
    /\ \A i \in 1 .. Len(todo) : AntInit(todo[i]) => AntOn(todo[i]) \/ Sleeping

AntInv == IF Is126x THEN PinOf["Ant"] # NC => AntInv126x ELSE AntInv127x

-----------------------------------------------------------------------------
(* The functions of the board are made of such calls.                      *)

\* c is the call with these fields.
Fields(c, d, o, a, v) == c.do = d /\ c.obj = o /\ c.arg = a /\ c.val = v

LEMMA RecordIs ==
    ASSUME NEW D, NEW O, NEW A, NEW V, NEW d \in D, NEW o \in O, NEW a \in A, NEW v \in V, NEW c,
           c = [do |-> d, obj |-> o, arg |-> a, val |-> v]
    PROVE  c \in [do : D, obj : O, arg : A, val : V] /\ Fields(c, d, o, a, v)
  BY DEF Fields

LEMMA CallIs ==
    ASSUME NEW d \in Names, NEW o \in Obj \cup {""}, NEW a \in Args, NEW v \in Vals, NEW r, NEW c,
           c = Call(d, o, a, v), Fields(c, d, o, a, v) => Good(r, c)
    PROVE  c \in Calls(r) /\ Fields(c, d, o, a, v)
<1>1. c = [do |-> d, obj |-> o, arg |-> a, val |-> v]
  BY DEF Call
<1> DEFINE O == Obj \cup {""}
<1>2. o \in O
  OBVIOUS
<1> HIDE DEF O
<1>3. c \in [do : Names, obj : O, arg : Args, val : Vals] /\ Fields(c, d, o, a, v)
  BY <1>1, <1>2, RecordIs
<1> QED
  BY <1>3 DEF Calls, O

\* The levels of a pin.
Level == 0 .. 1

LEMMA LevelIs == 0 \in Level /\ 1 \in Level
  BY DEF Level

LEMMA IntsAreVals == \A v \in Int : v \in Vals
  BY Zenon DEF Vals

LEMMA CodesAreVals == \A v \in Codes : v \in Vals
  BY Zenon DEF Vals

LEMMA InitPinIs ==
    ASSUME NEW r, NEW o \in Obj, NEW m \in {"PIN_INPUT", "PIN_OUTPUT", "PIN_ANALOGIC"}, NEW v \in Level,
           o = "Nss" /\ m = "PIN_OUTPUT" => v = 1,
           o = "Ant" /\ v = 1 => r = "SX126x"
    PROVE  InitPin(o, m, v) \in Calls(r) /\ Fields(InitPin(o, m, v), "init", o, m, v)
<1>1. "init" \in Names /\ o \in Obj \cup {""}
  BY DEF Names
<1>2. m \in Args
  BY Zenon DEF Args
<1>4. v \in Vals
  BY IntsAreVals DEF Level
<1>3. ASSUME NEW c, Fields(c, "init", o, m, v) PROVE Good(r, c)
  BY <1>3 DEF Fields, Good, Level
<1> QED
  BY <1>1, <1>2, <1>3, <1>4, CallIs DEF InitPin

LEMMA WriteIs ==
    ASSUME NEW r, NEW o \in {"Nss", "Ant"}, o = (IF r = "SX126x" THEN "Nss" ELSE "Ant"), NEW v \in Level
    PROVE  Write(o, v) \in Calls(r) /\ Fields(Write(o, v), "write", o, "", v)
<1>1. "write" \in Names /\ o \in Obj \cup {""}
  BY DEF Names, Obj
<1>2. "" \in Args
  BY Zenon DEF Args
<1>3. v \in Vals
  BY IntsAreVals DEF Level
<1>4. ASSUME NEW c, Fields(c, "write", o, "", v) PROVE Good(r, c)
  BY <1>4 DEF Fields, Good, Level
<1> QED
  BY <1>1, <1>2, <1>3, <1>4, CallIs DEF Write

LEMMA NssWriteIs ==
    \A v \in Level : Write("Nss", v) \in Calls("SX126x") /\ Fields(Write("Nss", v), "write", "Nss", "", v)
<1> SUFFICES ASSUME NEW v \in Level
             PROVE  Write("Nss", v) \in Calls("SX126x") /\ Fields(Write("Nss", v), "write", "Nss", "", v)
  OBVIOUS
<1>1. "Nss" = (IF "SX126x" = "SX126x" THEN "Nss" ELSE "Ant") /\ "Nss" \in {"Nss", "Ant"}
  OBVIOUS
<1> QED
  BY <1>1, WriteIs, Zenon

LEMMA NssLevels ==
    /\ Write("Nss", 0) \in Calls("SX126x") /\ Fields(Write("Nss", 0), "write", "Nss", "", 0)
    /\ Write("Nss", 1) \in Calls("SX126x") /\ Fields(Write("Nss", 1), "write", "Nss", "", 1)
  BY LevelIs, NssWriteIs

LEMMA AntWriteIs ==
    ASSUME NEW r, r # "SX126x", NEW v \in Level
    PROVE  Write("Ant", v) \in Calls(r) /\ Fields(Write("Ant", v), "write", "Ant", "", v)
<1>1. "Ant" = (IF r = "SX126x" THEN "Nss" ELSE "Ant") /\ "Ant" \in {"Nss", "Ant"}
  OBVIOUS
<1> QED
  BY <1>1, WriteIs, Zenon

\* The calls about an object's interrupt.
LEMMA IrqCallIs ==
    ASSUME NEW r, NEW d \in {"irqInit", "release", "clear", "enable", "mask"}, NEW o \in Wired(r) \ {"Nss"},
           d \in {"irqInit", "release", "clear"} => o \in Dio
    PROVE  Call(d, o, "", 0) \in Calls(r) /\ Fields(Call(d, o, "", 0), d, o, "", 0)
<1>1. d \in Names /\ o \in Obj \cup {""}
  BY DEF Names, Obj, Wired, Dio
<1>2. "" \in Args
  BY Zenon DEF Args
<1>3. 0 \in Vals
  BY IntsAreVals
<1>4. ASSUME NEW c, Fields(c, d, o, "", 0) PROVE Good(r, c)
  BY <1>4 DEF Fields, Good
<1> QED
  BY <1>1, <1>2, <1>3, <1>4, CallIs

LEMMA StoreIs ==
    ASSUME NEW r, NEW o \in Dio \cap Wired(r)
    PROVE  Call("store", o, Handler[o], 0) \in Calls(r)
           /\ Fields(Call("store", o, Handler[o], 0), "store", o, Handler[o], 0)
<1>1. "store" \in Names /\ o \in Obj \cup {""}
  BY DEF Names, Obj
<1>2. Handler[o] \in Args
  BY Zenon DEF Args
<1>3. 0 \in Vals
  BY IntsAreVals
<1>4. ASSUME NEW c, Fields(c, "store", o, Handler[o], 0) PROVE Good(r, c)
  BY <1>4 DEF Fields, Good
<1> QED
  BY <1>1, <1>2, <1>3, <1>4, CallIs

\* The calls that are about no object.
LEMMA PlainCallIs ==
    ASSUME NEW r, NEW ms \in Vals,
           NEW d \in {"delay", "spi", "eventq", "task", "up", "mac", "assert", "wait", "check", "asleep", "awake"},
           d \in {"wait", "check", "asleep", "awake"} => r = "SX126x"
    PROVE  Call(d, "", "", ms) \in Calls(r) /\ Fields(Call(d, "", "", ms), d, "", "", ms)
<1>1. d \in Names /\ "" \in Obj \cup {""}
  BY DEF Names
<1>2. "" \in Args
  BY Zenon DEF Args
<1>3. ASSUME NEW c, Fields(c, d, "", "", ms) PROVE Good(r, c)
  BY <1>3 DEF Fields, Good
<1> QED
  BY <1>1, <1>2, <1>3, CallIs

LEMMA DoIs ==
    ASSUME NEW r,
           NEW d \in {"spi", "eventq", "task", "up", "mac", "assert", "wait", "check", "asleep", "awake"},
           d \in {"wait", "check", "asleep", "awake"} => r = "SX126x"
    PROVE  Do(d) \in Calls(r) /\ Fields(Do(d), d, "", "", 0)
<1>1. Do(d) = Call(d, "", "", 0) /\ 0 \in Vals
  BY IntsAreVals DEF Do
<1>2. Call(d, "", "", 0) \in Calls(r) /\ Fields(Call(d, "", "", 0), d, "", "", 0)
  BY <1>1, PlainCallIs
<1> QED
  BY <1>1, <1>2

LEMMA ModeCallIs ==
    ASSUME NEW r, r # "SX126x", NEW d \in {"lowPower", "opMode"}, NEW m \in OpMode
    PROVE  Call(d, "", m, 0) \in Calls(r) /\ Fields(Call(d, "", m, 0), d, "", m, 0)
<1>1. d \in Names /\ "" \in Obj \cup {""}
  BY DEF Names
<1>2. m \in Args
  BY Zenon DEF Args
<1>3. 0 \in Vals
  BY IntsAreVals
<1>4. ASSUME NEW c, Fields(c, d, "", m, 0) PROVE Good(r, c)
  BY <1>4 DEF Fields, Good
<1> QED
  BY <1>1, <1>2, <1>3, <1>4, CallIs

LEMMA ByteIs ==
    ASSUME NEW b \in Vals
    PROVE  Byte(b) \in Calls("SX126x") /\ Fields(Byte(b), "byte", "Nss", "send", b)
<1>1. "byte" \in Names /\ "Nss" \in Obj \cup {""}
  BY DEF Names, Obj
<1>2. "send" \in Args
  BY Zenon DEF Args
<1>3. ASSUME NEW c, Fields(c, "byte", "Nss", "send", b) PROVE Good("SX126x", c)
  BY <1>3 DEF Fields, Good
<1> QED
  BY <1>1, <1>2, <1>3, CallIs DEF Byte

LEMMA FetchIs == Fetch \in Calls("SX126x") /\ Fields(Fetch, "byte", "Nss", "receive", 0)
<1>1. "byte" \in Names /\ "Nss" \in Obj \cup {""}
  BY DEF Names, Obj
<1>2. "receive" \in Args
  BY Zenon DEF Args
<1>3. 0 \in Vals
  BY IntsAreVals
<1>4. ASSUME NEW c, Fields(c, "byte", "Nss", "receive", 0) PROVE Good("SX126x", c)
  BY <1>4 DEF Fields, Good
<1> QED
  BY <1>1, <1>2, <1>3, <1>4, CallIs DEF Fetch

-----------------------------------------------------------------------------
(* The functions of the board are linked calls.                            *)

\* s is whole functions, one after another, that make no call w.
Part(r, s, w) ==
    /\ Linked(r, s)
    /\ s # <<>> /\ Opening(s[1]) /\ Closing(s[Len(s)])
    /\ Awaits(s)
    /\ \A i \in 1 .. Len(s) : s[i].do # w

LEMMA GlueIs == \A a, b : Closing(a) /\ Opening(b) => Link(a, b)
  BY DEF Closing, Opening, Link, InFrame, NssFalls, NssRises, AntWrite

LEMMA Concat ==
    ASSUME NEW S, NEW p \in Seq(S), NEW q \in Seq(S)
    PROVE  /\ p \o q \in Seq(S) /\ Len(p \o q) = Len(p) + Len(q) /\ Len(p) \in Nat /\ Len(q) \in Nat
           /\ \A i \in 1 .. Len(p) : (p \o q)[i] = p[i]
           /\ \A i \in 1 .. Len(q) : (p \o q)[Len(p) + i] = q[i]
           /\ \A i \in Len(p) + 1 .. Len(p) + Len(q) : i - Len(p) \in 1 .. Len(q) /\ (p \o q)[i] = q[i - Len(p)]
  OBVIOUS

LEMMA LinkedConcat ==
    ASSUME NEW r, NEW p, NEW q, Linked(r, p), Linked(r, q), p # <<>>, q # <<>> => Link(p[Len(p)], q[1]),
           q = <<>> => Closing(p[Len(p)])
    PROVE  Linked(r, p \o q)
<1> DEFINE s == p \o q
<1>1. p \in Seq(Calls(r)) /\ q \in Seq(Calls(r))
  BY DEF Linked
<1>2. /\ s \in Seq(Calls(r)) /\ Len(s) = Len(p) + Len(q) /\ Len(p) \in Nat \ {0} /\ Len(q) \in Nat
      /\ \A i \in 1 .. Len(p) : s[i] = p[i]
      /\ \A i \in Len(p) + 1 .. Len(s) : i - Len(p) \in 1 .. Len(q) /\ s[i] = q[i - Len(p)]
      /\ q # <<>> => Len(q) # 0
  BY <1>1, Concat
<1> HIDE DEF s
<1>3. ASSUME NEW i \in 1 .. Len(s) - 1 PROVE Link(s[i], s[i + 1])
  <2>1. CASE i < Len(p)
    BY <1>2, <2>1 DEF Linked
  <2>2. CASE i = Len(p)
    <3>1. Len(p) + 1 \in Len(p) + 1 .. Len(s) /\ q # <<>> /\ i \in 1 .. Len(p)
      BY <1>1, <1>2, <2>2
    <3> QED
      BY <1>2, <2>2, <3>1
  <2>3. CASE i > Len(p)
    <3>1. i \in Len(p) + 1 .. Len(s) /\ i + 1 \in Len(p) + 1 .. Len(s) /\ i - Len(p) \in 1 .. Len(q) - 1
      BY <1>2, <2>3
    <3>2. s[i] = q[i - Len(p)] /\ s[i + 1] = q[i - Len(p) + 1]
      BY <1>2, <3>1
    <3> QED
      BY <3>1, <3>2 DEF Linked
  <2> QED
    BY <1>2, <2>1, <2>2, <2>3
<1>4. Closing(s[Len(s)]) \/ s[Len(s)].do = "mac"
  <2>1. CASE q = <<>>
    <3>1. Len(q) = 0
      BY <2>1
    <3>2. s[Len(s)] = p[Len(p)]
      BY <1>2, <3>1
    <3> QED
      BY <2>1, <3>2
  <2>2. CASE q # <<>>
    <3>1. Len(s) - Len(p) = Len(q) /\ s[Len(s)] = q[Len(q)]
      BY <1>2, <2>2
    <3> QED
      BY <2>2, <3>1 DEF Linked
  <2> QED
    BY <2>1, <2>2
<1> QED
  BY <1>2, <1>3, <1>4 DEF Linked, s

\* A frame that starts in the second of two parts is not after the first.
LEMMA AwaitsConcat ==
    ASSUME NEW r, NEW p \in Seq(Calls(r)), NEW q \in Seq(Calls(r)), Awaits(p), Awaits(q), p # <<>>,
           q # <<>> => ~NssFalls(q[1]) \/ p[Len(p)].do # "mask"
    PROVE  Awaits(p \o q)
<1> DEFINE s == p \o q
<1>1. /\ Len(s) = Len(p) + Len(q) /\ Len(p) \in Nat /\ Len(q) \in Nat
      /\ \A i \in 1 .. Len(p) : s[i] = p[i]
      /\ \A i \in 1 .. Len(q) : s[Len(p) + i] = q[i]
      /\ \A i \in Len(p) + 1 .. Len(s) : i - Len(p) \in 1 .. Len(q) /\ s[i] = q[i - Len(p)]
      /\ Len(q) > 0 => q # <<>>
      /\ Len(p) > 0
  BY Concat
<1> HIDE DEF s
<1> SUFFICES ASSUME NEW i \in 2 .. Len(s), NssFalls(s[i]), s[i - 1].do = "mask"
             PROVE  \E j \in i + 1 .. Len(s) : BusyEnabled(s[j])
  BY DEF Awaits, s
<1>2. CASE i <= Len(p)
  <2>0. i \in 2 .. Len(p) /\ i \in 1 .. Len(p) /\ i - 1 \in 1 .. Len(p)
    BY <1>1, <1>2
  <2>1. s[i] = p[i] /\ s[i - 1] = p[i - 1]
    BY <1>1, <2>0
  <2>2. PICK j \in i + 1 .. Len(p) : BusyEnabled(p[j])
    BY <2>0, <2>1 DEF Awaits
  <2>3. j \in 1 .. Len(p) /\ j \in i + 1 .. Len(s)
    BY <1>1, <2>0, <2>2
  <2> QED
    BY <1>1, <2>2, <2>3
<1>3. CASE i > Len(p)
  <2> DEFINE k == i - Len(p)
  <2>1. k \in 1 .. Len(q) /\ s[i] = q[k] /\ q # <<>>
    BY <1>1, <1>3
  <2>2. k # 1
    <3>1. k = 1 => i - 1 = Len(p) /\ i - 1 \in 1 .. Len(p)
      BY <1>1, <1>3
    <3> QED
      BY <1>1, <2>1, <3>1
  <2>3. k \in 2 .. Len(q) /\ s[i - 1] = q[k - 1]
    <3>1. k \in 2 .. Len(q) /\ k - 1 \in 1 .. Len(q) /\ Len(p) + (k - 1) = i - 1
      BY <1>1, <2>1, <2>2
    <3>2. s[Len(p) + (k - 1)] = q[k - 1]
      BY <1>1, <3>1
    <3> QED
      BY <3>1, <3>2
  <2>4. PICK j \in k + 1 .. Len(q) : BusyEnabled(q[j])
    BY <2>1, <2>3 DEF Awaits
  <2>5. Len(p) + j \in i + 1 .. Len(s) /\ s[Len(p) + j] = q[j]
    BY <1>1, <2>1, <2>4
  <2> QED
    BY <2>4, <2>5
<1> QED
  BY <1>1, <1>2, <1>3

LEMMA PartConcat ==
    ASSUME NEW r, NEW w, NEW p, NEW q, Part(r, p, w), Part(r, q, w)
    PROVE  Part(r, p \o q, w)
<1>1. p \in Seq(Calls(r)) /\ q \in Seq(Calls(r)) /\ p # <<>> /\ q # <<>>
  BY DEF Part, Linked
<1>2. Linked(r, p \o q)
  BY <1>1, GlueIs, LinkedConcat DEF Part
<1>3. ~NssFalls(q[1])
  BY DEF Part, Opening, NssFalls
<1>4. Awaits(p \o q)
  BY <1>1, <1>3, AwaitsConcat DEF Part
<1> DEFINE s == p \o q
<1>5. /\ s # <<>> /\ s[1] = p[1] /\ s[Len(s)] = q[Len(q)]
      /\ \A i \in 1 .. Len(s) : (s[i] = p[i] /\ i \in 1 .. Len(p)) \/ (s[i] = q[i - Len(p)] /\ i - Len(p) \in 1 .. Len(q))
  <2>1. /\ Len(s) = Len(p) + Len(q) /\ Len(p) \in Nat \ {0} /\ Len(q) \in Nat \ {0}
        /\ \A i \in 1 .. Len(p) : s[i] = p[i]
        /\ \A i \in Len(p) + 1 .. Len(p) + Len(q) : i - Len(p) \in 1 .. Len(q) /\ s[i] = q[i - Len(p)]
        /\ s \in Seq(Calls(r))
    BY <1>1, Concat
  <2> HIDE DEF s
  <2>2. Len(s) - Len(p) = Len(q) /\ s # <<>>
    BY <2>1
  <2> QED
    BY <2>1, <2>2
<1>6. ASSUME NEW i \in 1 .. Len(s) PROVE s[i].do # w
  BY <1>5 DEF Part
<1>7. s # <<>> /\ Opening(s[1]) /\ Closing(s[Len(s)])
  BY <1>5 DEF Part
<1> QED
  BY <1>2, <1>4, <1>6, <1>7 DEF Part

\* Calls with none of which another call must go.
LEMMA SimplePart ==
    ASSUME NEW r, NEW w, NEW s \in Seq(Calls(r)), s # <<>>,
           \A i \in 1 .. Len(s) : Opening(s[i]) /\ Closing(s[i]) /\ s[i].do # w
    PROVE  Part(r, s, w)
<1>1. Len(s) \in Nat \ {0}
  OBVIOUS
<1>2. \A i \in 1 .. Len(s) - 1 : Link(s[i], s[i + 1])
  BY <1>1, GlueIs
<1>3. Linked(r, s)
  BY <1>1, <1>2 DEF Linked
<1>4. Awaits(s)
  BY <1>1 DEF Awaits, Opening, NssFalls
<1> QED
  BY <1>1, <1>3, <1>4 DEF Part

LEMMA OneCallPart ==
    ASSUME NEW r, NEW w, NEW c \in Calls(r), Opening(c), Closing(c), c.do # w
    PROVE  Part(r, <<c>>, w)
<1> DEFINE s == <<c>>
<1>1. s \in Seq(Calls(r)) /\ s # <<>> /\ \A i \in 1 .. Len(s) : s[i] = c
  OBVIOUS
<1> HIDE DEF s
<1>2. Part(r, s, w)
  BY <1>1, SimplePart
<1> QED
  BY <1>2 DEF s

\* The frame that a call may lead to.
LEMMA FramedIs ==
    ASSUME NEW bytes \in Seq(Calls("SX126x"))
    PROVE  /\ Framed(bytes) \in Seq(Calls("SX126x")) /\ Len(Framed(bytes)) = Len(bytes) + 2
           /\ Framed(bytes)[1] = Write("Nss", 0)
           /\ \A i \in 1 .. Len(bytes) : Framed(bytes)[i + 1] = bytes[i]
           /\ Framed(bytes)[Len(bytes) + 2] = Write("Nss", 1)
<1>1. Write("Nss", 0) \in Calls("SX126x") /\ Write("Nss", 1) \in Calls("SX126x")
  BY NssLevels
<1> QED
  BY <1>1 DEF Framed

LEMMA FramedLinked ==
    ASSUME NEW bytes \in Seq(Calls("SX126x")), \A i \in 1 .. Len(bytes) : bytes[i].do = "byte"
    PROVE  /\ Linked("SX126x", Framed(bytes)) /\ NssFalls(Framed(bytes)[1])
           /\ Framed(bytes) # <<>> /\ Closing(Framed(bytes)[Len(Framed(bytes))])
           /\ \A i \in 2 .. Len(Framed(bytes)) : ~NssFalls(Framed(bytes)[i])
           /\ \A i \in 1 .. Len(Framed(bytes)) : Framed(bytes)[i].do \in {"write", "byte"}
<1> DEFINE s == Framed(bytes)
<1>1. /\ s \in Seq(Calls("SX126x")) /\ Len(s) = Len(bytes) + 2 /\ Len(bytes) \in Nat
      /\ \A i \in 1 .. Len(bytes) : s[i + 1] = bytes[i]
  BY FramedIs
<1>2. NssFalls(s[1]) /\ NssRises(s[Len(s)])
  <2>1. s[1] = Write("Nss", 0) /\ s[Len(s)] = Write("Nss", 1)
    BY <1>1, FramedIs
  <2>2. \A c : Fields(c, "write", "Nss", "", 0) => NssFalls(c)
    BY DEF Fields, NssFalls
  <2>3. \A c : Fields(c, "write", "Nss", "", 1) => NssRises(c)
    BY DEF Fields, NssRises
  <2> QED
    BY <2>1, <2>2, <2>3, NssLevels
<1>3. \A i \in 2 .. Len(s) - 1 : s[i].do = "byte"
  <2>1. \A i \in 2 .. Len(s) - 1 : i - 1 \in 1 .. Len(bytes) /\ s[i] = bytes[i - 1]
    BY <1>1
  <2> QED
    BY <2>1
<1> HIDE DEF s
<1>4. \A i \in 1 .. Len(s) - 1 : (NssFalls(s[i]) \/ s[i].do = "byte") /\ InFrame(s[i + 1])
  BY <1>1, <1>2, <1>3 DEF InFrame
<1>5. \A a, b : (NssFalls(a) \/ a.do = "byte") /\ InFrame(b) => Link(a, b)
  BY DEF Link, InFrame, NssFalls, NssRises, AntWrite, AntInit, NssDropped
<1>6. Closing(s[Len(s)])
  BY <1>2 DEF Closing, NssRises, NssFalls, AntWrite
<1>7. s # <<>>
  BY <1>1
<1>8. Linked("SX126x", s)
  BY <1>1, <1>4, <1>5, <1>6 DEF Linked
<1>9. \A i \in 2 .. Len(s) : ~NssFalls(s[i])
  BY <1>1, <1>2, <1>3 DEF NssFalls, NssRises
<1>10. \A i \in 1 .. Len(s) : s[i].do \in {"write", "byte"}
  BY <1>1, <1>2, <1>3 DEF NssFalls, NssRises
<1> QED
  BY <1>2, <1>6, <1>7, <1>8, <1>9, <1>10 DEF s

\* A frame after the test that the chip is ready.
LEMMA CheckedFrame ==
    ASSUME NEW w, w \in {"asleep", "awake"}, NEW bytes \in Seq(Calls("SX126x")),
           \A i \in 1 .. Len(bytes) : bytes[i].do = "byte"
    PROVE  Part("SX126x", SX126xCheckDeviceReady \o Framed(bytes), w)
<1> DEFINE f == Framed(bytes)
           p == SX126xCheckDeviceReady
           s == p \o f
<1>1. p = <<Do("check")>> /\ Do("check") \in Calls("SX126x") /\ Do("check").do = "check"
  BY DoIs DEF SX126xCheckDeviceReady, Fields
<1>2. /\ Linked("SX126x", f) /\ NssFalls(f[1]) /\ f # <<>> /\ Closing(f[Len(f)])
      /\ \A i \in 2 .. Len(f) : ~NssFalls(f[i])
      /\ \A i \in 1 .. Len(f) : f[i].do \in {"write", "byte"}
  BY FramedLinked
<1>3. p \in Seq(Calls("SX126x")) /\ Len(p) = 1 /\ p[1].do = "check" /\ p # <<>>
  BY <1>1
<1>4. Opening(p[1]) /\ Closing(p[1])
  BY <1>3 DEF Opening, Closing, NssDropped, AntInit, NssFalls, AntWrite
<1>5. Linked("SX126x", p)
  BY <1>3, <1>4 DEF Linked
<1>6. Link(p[1], f[1])
  BY <1>2, <1>3 DEF Link, InFrame, NssFalls, NssRises, AntWrite, AntInit, NssDropped
<1> HIDE DEF f, p
<1>7. Linked("SX126x", s)
  BY <1>2, <1>3, <1>5, <1>6, LinkedConcat
<1>8. f \in Seq(Calls("SX126x"))
  BY <1>2 DEF Linked
<1>9. /\ Len(s) = 1 + Len(f) /\ s[1] = p[1] /\ s[Len(s)] = f[Len(f)] /\ Len(f) \in Nat \ {0}
      /\ \A i \in 2 .. Len(s) : s[i] = f[i - 1] /\ i - 1 \in 1 .. Len(f)
  BY <1>2, <1>3, <1>8, Concat, SMTT(30)
<1> HIDE DEF s
<1>10. Awaits(s)
  <2> SUFFICES ASSUME NEW i \in 2 .. Len(s), NssFalls(s[i]), s[i - 1].do = "mask" PROVE FALSE
    BY DEF Awaits
  <2>1. CASE i = 2
    BY <1>3, <1>9, <2>1
  <2>2. CASE i # 2
    <3>1. i - 1 \in 2 .. Len(f) /\ s[i] = f[i - 1]
      BY <1>9, <2>2
    <3> QED
      BY <1>2, <3>1
  <2> QED
    BY <2>1, <2>2
<1>11. \A i \in 1 .. Len(s) : s[i].do # w
  <2> SUFFICES ASSUME NEW i \in 1 .. Len(s) PROVE s[i].do # w
    OBVIOUS
  <2>1. CASE i = 1
    BY <1>3, <1>9, <2>1
  <2>2. CASE i # 1
    BY <1>2, <1>9, <2>2
  <2> QED
    BY <2>1, <2>2
<1>12. s # <<>> /\ Opening(s[1]) /\ Closing(s[Len(s)])
  BY <1>2, <1>4, <1>9
<1>13. Part("SX126x", s, w)
  BY <1>7, <1>10, <1>11, <1>12 DEF Part
<1> QED
  BY <1>13 DEF s, p, f

Modes == {"asleep", "awake"}

LEMMA SimpleInit ==
    ASSUME NEW r, NEW w \in Modes, NEW o \in Obj, NEW m \in {"PIN_INPUT", "PIN_OUTPUT", "PIN_ANALOGIC"}, NEW v \in Level,
           o = "Nss" => m = "PIN_OUTPUT" /\ v = 1,
           o = "Ant" => m = "PIN_OUTPUT" /\ v = 1 /\ r = "SX126x"
    PROVE  /\ InitPin(o, m, v) \in Calls(r)
           /\ Opening(InitPin(o, m, v)) /\ Closing(InitPin(o, m, v)) /\ InitPin(o, m, v).do # w
<1>1. InitPin(o, m, v) \in Calls(r) /\ Fields(InitPin(o, m, v), "init", o, m, v)
  BY InitPinIs
<1>2. ASSUME NEW c, Fields(c, "init", o, m, v) PROVE Opening(c) /\ Closing(c) /\ c.do # w
  BY <1>2 DEF Fields, Opening, Closing, NssDropped, AntInit, AntOn, NssFalls, AntWrite, Modes
<1> QED
  BY <1>1, <1>2

LEMMA SimpleDo ==
    ASSUME NEW r, NEW w \in Modes, NEW d \in {"spi", "eventq", "task", "up", "assert", "wait", "check"},
           d \in {"wait", "check"} => r = "SX126x"
    PROVE  Part(r, <<Do(d)>>, w)
<1>1. Do(d) \in Calls(r) /\ Fields(Do(d), d, "", "", 0)
  BY DoIs
<1>2. ASSUME NEW c, Fields(c, d, "", "", 0) PROVE Opening(c) /\ Closing(c) /\ c.do # w
  BY <1>2 DEF Fields, Opening, Closing, NssDropped, AntInit, AntOn, NssFalls, AntWrite, Modes
<1> QED
  BY <1>1, <1>2, OneCallPart

LEMMA SimpleDelayCall ==
    ASSUME NEW r, NEW w \in Modes, NEW ms \in Vals
    PROVE  LET c == Call("delay", "", "", ms) IN c \in Calls(r) /\ Opening(c) /\ Closing(c) /\ c.do # w
<1>1. Call("delay", "", "", ms) \in Calls(r) /\ Fields(Call("delay", "", "", ms), "delay", "", "", ms)
  BY PlainCallIs
<1>2. ASSUME NEW c, Fields(c, "delay", "", "", ms) PROVE Opening(c) /\ Closing(c) /\ c.do # w
  BY <1>2 DEF Fields, Opening, Closing, NssDropped, AntInit, AntOn, NssFalls, AntWrite, Modes
<1> QED
  BY <1>1, <1>2

LEMMA SimpleDelay ==
    ASSUME NEW r, NEW w \in Modes, NEW ms \in Vals
    PROVE  Part(r, <<Call("delay", "", "", ms)>>, w)
  BY SimpleDelayCall, OneCallPart

LEMMA OneInitPart ==
    ASSUME NEW r, NEW w \in Modes, NEW o \in Obj, NEW m \in {"PIN_INPUT", "PIN_OUTPUT", "PIN_ANALOGIC"}, NEW v \in Level,
           o = "Nss" => m = "PIN_OUTPUT" /\ v = 1,
           o = "Ant" => m = "PIN_OUTPUT" /\ v = 1 /\ r = "SX126x"
    PROVE  Part(r, <<InitPin(o, m, v)>>, w)
  BY SimpleInit, OneCallPart

\* The initialisation of several pins that are not Nss or the antenna's.
LEMMA InitsPart ==
    ASSUME NEW r, NEW w \in Modes, NEW m \in {"PIN_INPUT", "PIN_ANALOGIC"}, NEW s, s # <<>>,
           s \in Seq({InitPin(o, m, 0) : o \in Obj \ {"Nss", "Ant"}})
    PROVE  Part(r, s, w)
<1> DEFINE S == {InitPin(o, m, 0) : o \in Obj \ {"Nss", "Ant"}}
<1>1. \A o \in Obj \ {"Nss", "Ant"} :
        /\ InitPin(o, m, 0) \in Calls(r)
        /\ Opening(InitPin(o, m, 0)) /\ Closing(InitPin(o, m, 0)) /\ InitPin(o, m, 0).do # w
  BY LevelIs, SimpleInit
<1>2. S \subseteq Calls(r) /\ \A c \in S : Opening(c) /\ Closing(c) /\ c.do # w
  BY <1>1
<1> HIDE DEF S
<1>3. s \in Seq(Calls(r)) /\ \A i \in 1 .. Len(s) : Opening(s[i]) /\ Closing(s[i]) /\ s[i].do # w
  BY <1>2 DEF S
<1> QED
  BY <1>3, SimplePart

LEMMA NssInitPart == ASSUME NEW r, NEW w \in Modes PROVE Part(r, <<InitPin("Nss", "PIN_OUTPUT", 1)>>, w)
  BY LevelIs, OneInitPart DEF Obj

LEMMA IoInit126xPart ==
    ASSUME NEW w \in Modes
    PROVE  Part("SX126x", SX126xIoInit, w)
<1> DEFINE pins == <<"Busy", "DIO1", "DIO2", "DIO3">>
           s == [i \in 1 .. 4 |-> InitPin(pins[i], "PIN_INPUT", 0)]
<1>1. \A i \in 1 .. 4 : pins[i] \in Obj \ {"Nss", "Ant"}
  BY DEF Obj, Dio
<1> HIDE DEF pins
<1>2. s # <<>> /\ s \in Seq({InitPin(o, "PIN_INPUT", 0) : o \in Obj \ {"Nss", "Ant"}})
  BY <1>1
<1> HIDE DEF s
<1>3. Part("SX126x", s, w)
  BY <1>2, InitsPart
<1> QED
  BY <1>3, NssInitPart, PartConcat DEF SX126xIoInit, pins, s

LEMMA IoInit127xPart ==
    ASSUME NEW r, NEW w \in Modes
    PROVE  Part(r, IoInit127x, w)
<1> DEFINE s == [i \in 1 .. 6 |-> InitPin(Dios[i], "PIN_INPUT", 0)]
<1>1. \A i \in 1 .. 6 : Dios[i] \in Obj \ {"Nss", "Ant"}
  BY DEF Dios, Obj, Dio
<1>2. s # <<>> /\ s \in Seq({InitPin(o, "PIN_INPUT", 0) : o \in Obj \ {"Nss", "Ant"}})
  BY <1>1
<1> HIDE DEF s
<1>3. Part(r, s, w)
  BY <1>2, InitsPart
<1> QED
  BY <1>3, NssInitPart, PartConcat DEF IoInit127x, s

LEMMA IoInitPart ==
    ASSUME NEW r \in Radio, NEW w \in Modes
    PROVE  Part(r, IoInit(r), w) /\ Part(r, lorawan_init(r), w)
<1>1. r \in {"SX126x", "SX1272", "SX1276"}
  BY RadioAssumption
<1>2. Part(r, IoInit(r), w)
  BY <1>1, IoInit126xPart, IoInit127xPart DEF IoInit, SX1272IoInit, SX1276IoInit
<1>3. Part(r, <<Do("spi")>>, w)
  BY SimpleDo
<1> QED
  BY <1>2, <1>3, PartConcat DEF lorawan_init

LEMMA FourCallsPart ==
    ASSUME NEW r, NEW w, NEW a \in Calls(r), NEW b \in Calls(r), NEW c \in Calls(r), NEW d \in Calls(r),
           \A x \in {a, b, c, d} : Opening(x) /\ Closing(x) /\ x.do # w
    PROVE  Part(r, <<a, b, c, d>>, w)
<1> DEFINE s == <<a, b, c, d>>
<1>1. s \in Seq(Calls(r)) /\ s # <<>> /\ \A i \in 1 .. Len(s) : s[i] \in {a, b, c, d}
  OBVIOUS
<1> HIDE DEF s
<1>2. Part(r, s, w)
  BY <1>1, SimplePart
<1> QED
  BY <1>2 DEF s

LEMMA ResetPart ==
    ASSUME NEW r, NEW w \in Modes, NEW held \in Level
    PROVE  Part(r, SX126xReset, w) /\ Part(r, Reset127x(held), w)
<1>1. 10 \in Vals /\ 20 \in Vals /\ 1 \in Vals /\ 6 \in Vals
  BY IntsAreVals
<1>2. Part(r, DelayMs(10), w) /\ Part(r, DelayMs(20), w)
  BY <1>1, SimpleDelay DEF DelayMs
<1>3. Part(r, <<InitPin("Reset", "PIN_OUTPUT", 0)>>, w) /\ Part(r, <<InitPin("Reset", "PIN_ANALOGIC", 0)>>, w)
  BY LevelIs, OneInitPart DEF Obj
<1>4. Part(r, SX126xReset, w)
  BY <1>2, <1>3, PartConcat DEF SX126xReset
<1>5. \A ms \in Vals : LET c == Call("delay", "", "", ms) IN c \in Calls(r) /\ Opening(c) /\ Closing(c) /\ c.do # w
  BY SimpleDelayCall
<1>6. \A m \in {"PIN_OUTPUT", "PIN_INPUT"}, v \in Level :
        LET c == InitPin("Reset", m, v) IN c \in Calls(r) /\ Opening(c) /\ Closing(c) /\ c.do # w
  BY SimpleInit DEF Obj
<1> DEFINE a == InitPin("Reset", "PIN_OUTPUT", held)
           b == Call("delay", "", "", 1)
           c == InitPin("Reset", "PIN_INPUT", 1)
           d == Call("delay", "", "", 6)
<1>7. a \in Calls(r) /\ Opening(a) /\ Closing(a) /\ a.do # w
  BY <1>6
<1>8. b \in Calls(r) /\ Opening(b) /\ Closing(b) /\ b.do # w
  BY <1>1, <1>5
<1>9. c \in Calls(r) /\ Opening(c) /\ Closing(c) /\ c.do # w
  BY <1>6, LevelIs
<1>10. d \in Calls(r) /\ Opening(d) /\ Closing(d) /\ d.do # w
  BY <1>1, <1>5
<1>11. Reset127x(held) = <<a, b, c, d>>
  BY DEF Reset127x
<1> HIDE DEF a, b, c, d
<1>12. Part(r, <<a, b, c, d>>, w)
  BY <1>7, <1>8, <1>9, <1>10, FourCallsPart
<1> QED
  BY <1>4, <1>11, <1>12

LEMMA FunctionIs ==
    ASSUME NEW S, NEW n \in Nat, NEW f, f = [i \in 1 .. n |-> f[i]], \A i \in 1 .. n : f[i] \in S
    PROVE  f \in Seq(S) /\ Len(f) = n
  OBVIOUS

LEMMA TwoIs ==
    ASSUME NEW S, NEW a \in S, NEW b \in S, NEW s, s = <<a, b>>
    PROVE  s \in Seq(S) /\ Len(s) = 2 /\ s # <<>> /\ s[1] = a /\ s[2] = b
  OBVIOUS

LEMMA ThreeIs ==
    ASSUME NEW S, NEW a \in S, NEW b \in S, NEW c \in S, NEW s, s = <<a, b, c>>
    PROVE  s \in Seq(S) /\ Len(s) = 3 /\ s # <<>> /\ s[1] = a /\ s[2] = b /\ s[3] = c
  OBVIOUS

LEMMA SetInterruptPart ==
    ASSUME NEW r, NEW w \in Modes, NEW o \in Dio \cap Wired(r)
    PROVE  Part(r, GpioSetInterrupt(o, Handler[o]), w)
<1> DEFINE a == Call("store", o, Handler[o], 0)
           b == Call("irqInit", o, "", 0)
           c == Call("enable", o, "", 0)
           s == <<a, b, c>>
<1>1. o \in Wired(r) \ {"Nss"}
  BY DEF Dio
<1>2. a \in Calls(r) /\ Fields(a, "store", o, Handler[o], 0)
  BY StoreIs
<1>3. b \in Calls(r) /\ Fields(b, "irqInit", o, "", 0) /\ c \in Calls(r) /\ Fields(c, "enable", o, "", 0)
  BY <1>1, IrqCallIs
<1>4. s = GpioSetInterrupt(o, Handler[o])
  BY DEF GpioSetInterrupt
<1> HIDE DEF a, b, c
<1>5. Link(a, b) /\ Link(b, c)
  BY <1>2, <1>3 DEF Fields, Link, InFrame, NssFalls, NssRises, AntWrite, AntInit, NssDropped
<1>6. Opening(a) /\ Closing(c) /\ \A x \in {a, b, c} : x.do # w /\ x.do # "mask"
  BY <1>2, <1>3 DEF Fields, Opening, Closing, NssFalls, AntWrite, AntInit, NssDropped, Modes
<1>7. s \in Seq(Calls(r)) /\ Len(s) = 3 /\ s # <<>> /\ s[1] = a /\ s[2] = b /\ s[3] = c
  BY <1>2, <1>3, ThreeIs
<1> HIDE DEF s
<1>8. Linked(r, s)
  BY <1>5, <1>6, <1>7 DEF Linked
<1>9. \A i \in 1 .. Len(s) : s[i] \in {a, b, c}
  BY <1>7
<1>10. Awaits(s)
  BY <1>6, <1>7, <1>9 DEF Awaits
<1>11. Part(r, s, w)
  BY <1>6, <1>7, <1>8, <1>9, <1>10 DEF Part
<1> QED
  BY <1>4, <1>11

LEMMA RemoveInterruptPart ==
    ASSUME NEW r, NEW w \in Modes, NEW o \in Dio \cap Wired(r)
    PROVE  Part(r, GpioRemoveInterrupt(o), w)
<1> DEFINE a == Call("release", o, "", 0)
           b == Call("clear", o, "", 0)
           s == <<a, b>>
<1>1. o \in Wired(r) \ {"Nss"}
  BY DEF Dio
<1>2. a \in Calls(r) /\ Fields(a, "release", o, "", 0) /\ b \in Calls(r) /\ Fields(b, "clear", o, "", 0)
  BY <1>1, IrqCallIs
<1>3. s = GpioRemoveInterrupt(o)
  BY DEF GpioRemoveInterrupt
<1> HIDE DEF a, b
<1>4. Link(a, b)
  BY <1>2 DEF Fields, Link, InFrame, NssFalls, NssRises, AntWrite, AntInit, NssDropped
<1>5. Opening(a) /\ Closing(b) /\ \A x \in {a, b} : x.do # w /\ x.do # "mask"
  BY <1>2 DEF Fields, Opening, Closing, NssFalls, AntWrite, AntInit, NssDropped, Modes
<1>6. s \in Seq(Calls(r)) /\ Len(s) = 2 /\ s # <<>> /\ s[1] = a /\ s[2] = b
  BY <1>2, TwoIs
<1> HIDE DEF s
<1>7. Linked(r, s)
  BY <1>4, <1>5, <1>6 DEF Linked
<1>8. \A i \in 1 .. Len(s) : s[i] \in {a, b}
  BY <1>6
<1>9. Awaits(s)
  BY <1>5, <1>6, <1>8 DEF Awaits
<1>10. Part(r, s, w)
  BY <1>5, <1>6, <1>7, <1>8, <1>9 DEF Part
<1> QED
  BY <1>3, <1>10

LEMMA IoIrqInitPart ==
    ASSUME NEW r, NEW w \in Modes
    PROVE  /\ r = "SX126x" => Part(r, SX126xIoIrqInit, w)
           /\ r # "SX126x" => Part(r, IoIrqInit127x(Handler), w)
<1>1. CASE r = "SX126x"
  <2>1. "DIO1" \in Dio \cap Wired(r)
    BY <1>1 DEF Dio, Wired
  <2> QED
    BY <1>1, <2>1, SetInterruptPart DEF SX126xIoIrqInit
<1>2. CASE r # "SX126x"
  <2>1. \A o \in Dio : o \in Dio \cap Wired(r)
    BY <1>2 DEF Wired
  <2> DEFINE Set(o) == GpioSetInterrupt(o, Handler[o])
  <2>2. \A o \in Dio : Part(r, Set(o), w)
    BY <2>1, SetInterruptPart
  <2>3. IoIrqInit127x(Handler) = Set("DIO0") \o Set("DIO1") \o Set("DIO2") \o Set("DIO3") \o Set("DIO4") \o Set("DIO5")
    BY DEF IoIrqInit127x
  <2> HIDE DEF Set
  <2>4. Part(r, Set("DIO0") \o Set("DIO1") \o Set("DIO2") \o Set("DIO3") \o Set("DIO4") \o Set("DIO5"), w)
    BY <2>2, PartConcat DEF Dio
  <2> QED
    BY <1>2, <2>3, <2>4
<1> QED
  BY <1>1, <1>2

\* What board.c masks: BUSY first, on the SX126x.
LEMMA MaskedIs ==
    ASSUME NEW r
    PROVE  /\ DOMAIN Masked(r) = 1 .. Len(Masked(r)) /\ Len(Masked(r)) = IF r = "SX126x" THEN 4 ELSE 6
           /\ \A i \in 1 .. Len(Masked(r)) : Masked(r)[i] \in Wired(r) \ {"Nss"}
           /\ r = "SX126x" => Masked(r)[1] = "Busy"
<1>1. CASE r = "SX126x"
  BY <1>1 DEF Masked, Wired
<1>2. CASE r # "SX126x"
  BY <1>2 DEF Masked, Wired, Dio
<1> QED
  BY <1>1, <1>2

LEMMA MaskPart ==
    ASSUME NEW r, NEW w \in Modes
    PROVE  /\ Part(r, BoardDisableIrq(r), w) /\ Part(r, BoardEnableIrq(r), w)
           /\ \A i \in 1 .. Len(BoardDisableIrq(r)) : BoardDisableIrq(r)[i].do = "mask"
           /\ \A i \in 1 .. Len(BoardEnableIrq(r)) : BoardEnableIrq(r)[i].do = "enable"
           /\ r = "SX126x" => BusyEnabled(BoardEnableIrq(r)[1])
<1> DEFINE n == Len(Masked(r))
<1>1. n \in Nat \ {0} /\ DOMAIN Masked(r) = 1 .. n
  BY MaskedIs
<1>2. \A o \in Wired(r) \ {"Nss"} : \A d \in {"mask", "enable"} :
        Call(d, o, "", 0) \in Calls(r) /\ Fields(Call(d, o, "", 0), d, o, "", 0)
  BY IrqCallIs
<1>3. \A i \in 1 .. n : Masked(r)[i] \in Wired(r) \ {"Nss"}
  BY MaskedIs
<1> DEFINE p == BoardDisableIrq(r)
           q == BoardEnableIrq(r)
<1> HIDE DEF n
<1>4. /\ p = [i \in 1 .. n |-> Call("mask", Masked(r)[i], "", 0)]
      /\ q = [i \in 1 .. n |-> Call("enable", Masked(r)[i], "", 0)]
  BY <1>1 DEF BoardDisableIrq, BoardEnableIrq
<1> HIDE DEF p, q
<1>5. /\ p \in Seq(Calls(r)) /\ Len(p) = n /\ q \in Seq(Calls(r)) /\ Len(q) = n
      /\ \A i \in 1 .. n : Fields(p[i], "mask", Masked(r)[i], "", 0) /\ Fields(q[i], "enable", Masked(r)[i], "", 0)
  <2>1. \A i \in 1 .. n : /\ Call("mask", Masked(r)[i], "", 0) \in Calls(r)
                          /\ Fields(Call("mask", Masked(r)[i], "", 0), "mask", Masked(r)[i], "", 0)
                          /\ Call("enable", Masked(r)[i], "", 0) \in Calls(r)
                          /\ Fields(Call("enable", Masked(r)[i], "", 0), "enable", Masked(r)[i], "", 0)
    BY <1>2, <1>3
  <2>2. p \in Seq(Calls(r)) /\ Len(p) = n /\ \A i \in 1 .. n : p[i] = Call("mask", Masked(r)[i], "", 0)
    <3>1. p = [i \in 1 .. n |-> p[i]] /\ \A i \in 1 .. n : p[i] = Call("mask", Masked(r)[i], "", 0)
      BY <1>4
    <3>2. \A i \in 1 .. n : p[i] \in Calls(r)
      BY <2>1, <3>1
    <3> QED
      BY <1>1, <3>1, <3>2, FunctionIs
  <2>3. q \in Seq(Calls(r)) /\ Len(q) = n /\ \A i \in 1 .. n : q[i] = Call("enable", Masked(r)[i], "", 0)
    <3>1. q = [i \in 1 .. n |-> q[i]] /\ \A i \in 1 .. n : q[i] = Call("enable", Masked(r)[i], "", 0)
      BY <1>4
    <3>2. \A i \in 1 .. n : q[i] \in Calls(r)
      BY <2>1, <3>1
    <3> QED
      BY <1>1, <3>1, <3>2, FunctionIs
  <2> QED
    BY <2>1, <2>2, <2>3
<1>6. p # <<>> /\ q # <<>>
  BY <1>1, <1>5
<1>7. \A i \in 1 .. n : /\ Opening(p[i]) /\ Closing(p[i]) /\ p[i].do # w /\ p[i].do = "mask"
                        /\ Opening(q[i]) /\ Closing(q[i]) /\ q[i].do # w /\ q[i].do = "enable"
  BY <1>5 DEF Fields, Opening, Closing, NssFalls, AntWrite, AntInit, NssDropped, Modes
<1>8. Part(r, p, w) /\ Part(r, q, w)
  BY <1>5, <1>6, <1>7, SimplePart
<1>9. r = "SX126x" => BusyEnabled(q[1])
  <2>1. 1 \in 1 .. n /\ (r = "SX126x" => Masked(r)[1] = "Busy")
    BY <1>1, MaskedIs
  <2> QED
    BY <1>5, <2>1 DEF Fields, BusyEnabled
<1> QED
  BY <1>5, <1>7, <1>8, <1>9 DEF p, q

\* The bytes that a frame sends, and fetches.
LEMMA BytesIs ==
    ASSUME NEW buffer \in Seq(Vals)
    PROVE  /\ Bytes(buffer) \in Seq(Calls("SX126x")) /\ Len(Bytes(buffer)) = Len(buffer)
           /\ \A i \in 1 .. Len(buffer) : Fields(Bytes(buffer)[i], "byte", "Nss", "send", buffer[i])
<1> DEFINE p == Bytes(buffer)
           n == Len(buffer)
<1>1. n \in Nat /\ DOMAIN buffer = 1 .. n /\ \A i \in 1 .. n : buffer[i] \in Vals
  OBVIOUS
<1>2. \A i \in 1 .. n : Byte(buffer[i]) \in Calls("SX126x") /\ Fields(Byte(buffer[i]), "byte", "Nss", "send", buffer[i])
  BY <1>1, ByteIs
<1>3. p = [i \in 1 .. n |-> p[i]] /\ \A i \in 1 .. n : p[i] = Byte(buffer[i])
  BY <1>1 DEF Bytes
<1> HIDE DEF p, n
<1>4. \A i \in 1 .. n : p[i] \in Calls("SX126x")
  BY <1>2, <1>3
<1>5. p \in Seq(Calls("SX126x")) /\ Len(p) = n
  BY <1>1, <1>3, <1>4, FunctionIs
<1> QED
  BY <1>2, <1>3, <1>5 DEF p, n

LEMMA FetchesIs ==
    ASSUME NEW size \in Nat
    PROVE  /\ Fetches(size) \in Seq(Calls("SX126x")) /\ Len(Fetches(size)) = size
           /\ \A i \in 1 .. size : Fields(Fetches(size)[i], "byte", "Nss", "receive", 0)
<1> DEFINE p == Fetches(size)
<1>1. p = [i \in 1 .. size |-> p[i]] /\ \A i \in 1 .. size : p[i] = Fetch
  BY DEF Fetches
<1> HIDE DEF p
<1>2. p \in Seq(Calls("SX126x")) /\ Len(p) = size
  BY <1>1, FetchIs, FunctionIs
<1> QED
  BY <1>1, <1>2, FetchIs DEF p

LEMMA StatusBytes ==
    /\ Bytes(<<"GET_STATUS", 0>>) \in Seq(Calls("SX126x")) /\ Len(Bytes(<<"GET_STATUS", 0>>)) = 2
    /\ \A i \in 1 .. 2 : Bytes(<<"GET_STATUS", 0>>)[i].do = "byte"
<1> DEFINE buffer == <<"GET_STATUS", 0>>
<1>1. "GET_STATUS" \in Vals /\ 0 \in Vals
  BY IntsAreVals, CodesAreVals DEF Codes
<1>2. buffer \in Seq(Vals) /\ Len(buffer) = 2
  BY <1>1, TwoIs
<1> HIDE DEF buffer
<1>3. Bytes(buffer) \in Seq(Calls("SX126x")) /\ Len(Bytes(buffer)) = 2
  BY <1>2, BytesIs
<1>4. \A i \in 1 .. 2 : Bytes(buffer)[i].do = "byte"
  BY <1>2, BytesIs DEF Fields
<1> QED
  BY <1>3, <1>4 DEF buffer

LEMMA WakeupPart == ASSUME NEW w \in Modes PROVE Part("SX126x", SX126xWakeup, w)
<1> DEFINE r == "SX126x"
           m == BoardDisableIrq(r)
           f == Framed(Bytes(<<"GET_STATUS", 0>>))
           e == BoardEnableIrq(r)
           a == m \o f
           b == a \o SX126xWaitOnBusy
           s == b \o e
<1>1. /\ Part(r, m, w) /\ Part(r, e, w) /\ BusyEnabled(e[1])
      /\ \A i \in 1 .. Len(m) : m[i].do = "mask"
      /\ \A i \in 1 .. Len(e) : e[i].do = "enable"
  BY MaskPart
<1>2. /\ Linked(r, f) /\ NssFalls(f[1]) /\ f # <<>> /\ Closing(f[Len(f)])
      /\ \A i \in 1 .. Len(f) : f[i].do \in {"write", "byte"}
  BY StatusBytes, FramedLinked
<1>3. Part(r, SX126xWaitOnBusy, w)
  BY SimpleDo DEF SX126xWaitOnBusy
<1>4. SX126xWakeup = s
  BY DEF SX126xWakeup
<1> HIDE DEF m, f, e, r
<1>5. m \in Seq(Calls(r)) /\ f \in Seq(Calls(r)) /\ e \in Seq(Calls(r)) /\ SX126xWaitOnBusy \in Seq(Calls(r))
  BY <1>1, <1>2, <1>3 DEF Part, Linked
<1>6. m # <<>> /\ e # <<>> /\ SX126xWaitOnBusy # <<>>
  BY <1>1, <1>3 DEF Part
<1>7. Link(m[Len(m)], f[1])
  <2>1. m[Len(m)].do = "mask"
    BY <1>1, <1>5, <1>6
  <2> QED
    BY <1>2, <2>1 DEF Link, InFrame, NssFalls, NssRises, AntWrite, AntInit, NssDropped
<1>8. Linked(r, a) /\ a # <<>> /\ a[Len(a)] = f[Len(f)] /\ a[1] = m[1]
  <2>1. Linked(r, a)
    BY <1>1, <1>2, <1>6, <1>7, LinkedConcat DEF Part
  <2>2. a # <<>> /\ a[Len(a)] = f[Len(f)] /\ a[1] = m[1]
    BY <1>2, <1>5, <1>6
  <2> QED
    BY <2>1, <2>2
<1> HIDE DEF a
<1>9. Linked(r, b) /\ b # <<>> /\ b[Len(b)] = SX126xWaitOnBusy[Len(SX126xWaitOnBusy)] /\ b[1] = a[1]
  <2>1. a \in Seq(Calls(r))
    BY <1>8 DEF Linked
  <2>2. Linked(r, b)
    BY <1>2, <1>3, <1>6, <1>8, GlueIs, LinkedConcat DEF Part
  <2>3. b # <<>> /\ b[Len(b)] = SX126xWaitOnBusy[Len(SX126xWaitOnBusy)] /\ b[1] = a[1]
    BY <1>5, <1>6, <1>8, <2>1
  <2> QED
    BY <2>2, <2>3
<1>10. Closing(b[Len(b)])
  BY <1>3, <1>9 DEF Part
<1>11. \A i \in 1 .. Len(b) : b[i].do # w
  <2>1. a \in Seq(Calls(r))
    BY <1>8 DEF Linked
  <2>2. \A i \in 1 .. Len(a) : a[i].do # w
    <3> SUFFICES ASSUME NEW i \in 1 .. Len(a) PROVE a[i].do # w
      OBVIOUS
    <3>1. /\ Len(a) = Len(m) + Len(f) /\ Len(m) \in Nat /\ Len(f) \in Nat
          /\ \A k \in 1 .. Len(m) : a[k] = m[k]
          /\ \A k \in Len(m) + 1 .. Len(m) + Len(f) : k - Len(m) \in 1 .. Len(f) /\ a[k] = f[k - Len(m)]
      BY <1>5, Concat DEF a
    <3>2. CASE i <= Len(m)
      BY <1>1, <3>1, <3>2 DEF Part
    <3>3. CASE i > Len(m)
      <4>1. a[i].do \in {"write", "byte"}
        BY <1>2, <3>1, <3>3
      <4> QED
        BY <4>1 DEF Modes
    <3> QED
      BY <3>1, <3>2, <3>3
  <2> SUFFICES ASSUME NEW i \in 1 .. Len(b) PROVE b[i].do # w
    OBVIOUS
  <2>3. /\ Len(b) = Len(a) + Len(SX126xWaitOnBusy) /\ Len(a) \in Nat /\ Len(SX126xWaitOnBusy) \in Nat
        /\ \A k \in 1 .. Len(a) : b[k] = a[k]
        /\ \A k \in Len(a) + 1 .. Len(a) + Len(SX126xWaitOnBusy) :
              k - Len(a) \in 1 .. Len(SX126xWaitOnBusy) /\ b[k] = SX126xWaitOnBusy[k - Len(a)]
    BY <1>5, <2>1, Concat
  <2>4. CASE i <= Len(a)
    BY <2>2, <2>3, <2>4
  <2>5. CASE i > Len(a)
    BY <1>3, <2>3, <2>5 DEF Part
  <2> QED
    BY <2>3, <2>4, <2>5
<1> HIDE DEF b
<1>12. b \in Seq(Calls(r))
  BY <1>9 DEF Linked
<1>13. /\ s \in Seq(Calls(r)) /\ Len(s) = Len(b) + Len(e) /\ Len(b) \in Nat \ {0} /\ Len(e) \in Nat \ {0}
       /\ \A i \in 1 .. Len(b) : s[i] = b[i]
       /\ \A i \in Len(b) + 1 .. Len(s) : i - Len(b) \in 1 .. Len(e) /\ s[i] = e[i - Len(b)]
  BY <1>5, <1>6, <1>9, <1>12, Concat
<1>14. Linked(r, s)
  BY <1>1, <1>9, <1>10, GlueIs, LinkedConcat DEF Part
<1> HIDE DEF s
<1>15. Awaits(s)
  <2> SUFFICES ASSUME NEW i \in 2 .. Len(s), NssFalls(s[i]) PROVE \E j \in i + 1 .. Len(s) : BusyEnabled(s[j])
    BY DEF Awaits
  <2>1. i <= Len(b)
    <3>1. ASSUME i > Len(b) PROVE FALSE
      <4>1. i - Len(b) \in 1 .. Len(e) /\ s[i] = e[i - Len(b)]
        BY <1>13, <3>1
      <4> QED
        BY <1>1, <4>1 DEF NssFalls
    <3> QED
      BY <1>13, <3>1
  <2>2. Len(b) + 1 \in i + 1 .. Len(s) /\ Len(b) + 1 - Len(b) = 1 /\ s[Len(b) + 1] = e[1]
    BY <1>13, <2>1
  <2> QED
    BY <1>1, <2>2
<1>16. \A i \in 1 .. Len(s) : s[i].do # w
  <2> SUFFICES ASSUME NEW i \in 1 .. Len(s) PROVE s[i].do # w
    OBVIOUS
  <2>1. CASE i <= Len(b)
    BY <1>11, <1>13, <2>1
  <2>2. CASE i > Len(b)
    BY <1>1, <1>13, <2>2, SMTT(30) DEF Part
  <2> QED
    BY <1>13, <2>1, <2>2
<1>17. s # <<>> /\ s[1] = m[1] /\ s[Len(s)] = e[Len(e)]
  <2>1. Len(s) - Len(b) = Len(e) /\ Len(s) \in Len(b) + 1 .. Len(s) /\ 1 \in 1 .. Len(b)
    BY <1>13
  <2> QED
    BY <1>8, <1>9, <1>13, <2>1, SMTT(30)
<1>18. Part(r, s, w)
  BY <1>1, <1>14, <1>15, <1>16, <1>17 DEF Part
<1> QED
  BY <1>4, <1>18 DEF r

AllBytes(b) == b \in Seq(Calls("SX126x")) /\ \A i \in 1 .. Len(b) : b[i].do = "byte"

LEMMA BytesAre ==
    /\ \A buffer \in Seq(Vals) : AllBytes(Bytes(buffer))
    /\ \A size \in Nat : AllBytes(Fetches(size))
    /\ \A p, q : AllBytes(p) /\ AllBytes(q) => AllBytes(p \o q)
<1>1. ASSUME NEW buffer \in Seq(Vals) PROVE AllBytes(Bytes(buffer))
  BY BytesIs DEF AllBytes, Fields
<1>2. ASSUME NEW size \in Nat PROVE AllBytes(Fetches(size))
  BY FetchesIs DEF AllBytes, Fields
<1>3. ASSUME NEW p, NEW q, AllBytes(p), AllBytes(q) PROVE AllBytes(p \o q)
  <2>1. p \in Seq(Calls("SX126x")) /\ q \in Seq(Calls("SX126x"))
    BY <1>3 DEF AllBytes
  <2> DEFINE s == p \o q
  <2>2. /\ s \in Seq(Calls("SX126x")) /\ Len(s) = Len(p) + Len(q) /\ Len(p) \in Nat /\ Len(q) \in Nat
        /\ \A i \in 1 .. Len(p) : s[i] = p[i]
        /\ \A i \in Len(p) + 1 .. Len(p) + Len(q) : i - Len(p) \in 1 .. Len(q) /\ s[i] = q[i - Len(p)]
    BY <2>1, Concat
  <2> HIDE DEF s
  <2>3. ASSUME NEW i \in 1 .. Len(s) PROVE s[i].do = "byte"
    <3>1. CASE i <= Len(p)
      BY <1>3, <2>2, <3>1 DEF AllBytes
    <3>2. CASE i > Len(p)
      BY <1>3, <2>2, <3>2, SMTT(30) DEF AllBytes
    <3> QED
      BY <2>2, <3>1, <3>2
  <2> QED
    BY <2>2, <2>3 DEF AllBytes, s
<1> QED
  BY <1>1, <1>2, <1>3

LEMMA CommandPart ==
    ASSUME NEW w \in Modes, NEW bytes, AllBytes(bytes)
    PROVE  Part("SX126x", SX126xCheckDeviceReady \o Framed(bytes) \o SX126xWaitOnBusy, w)
<1>1. Part("SX126x", SX126xCheckDeviceReady \o Framed(bytes), w)
  BY CheckedFrame DEF AllBytes, Modes
<1>2. Part("SX126x", SX126xWaitOnBusy, w)
  BY SimpleDo DEF SX126xWaitOnBusy
<1> QED
  BY <1>1, <1>2, PartConcat

LEMMA WriteCommandPart ==
    ASSUME NEW w \in Modes, NEW command \in Codes, NEW buffer \in Seq(Vals)
    PROVE  Part("SX126x", SX126xWriteCommand(command, buffer), w)
<1> DEFINE bytes == Bytes(<<command>> \o buffer)
<1>1. AllBytes(bytes)
  <2>1. command \in Vals
    BY CodesAreVals
  <2>2. <<command>> \in Seq(Vals)
    BY <2>1
  <2>3. <<command>> \o buffer \in Seq(Vals)
    BY <2>2
  <2> QED
    BY <2>3, BytesAre
<1> HIDE DEF bytes
<1>2. Part("SX126x", SX126xCheckDeviceReady \o Framed(bytes), w)
  BY <1>1, CheckedFrame DEF AllBytes, Modes
<1>3. Part("SX126x", SX126xCheckDeviceReady \o Framed(bytes) \o SX126xWaitOnBusy, w)
  BY <1>1, CommandPart
<1>4. (SX126xCheckDeviceReady \o Framed(bytes)) \o <<>> = SX126xCheckDeviceReady \o Framed(bytes)
  <2>1. SX126xCheckDeviceReady \o Framed(bytes) \in Seq(Calls("SX126x"))
    BY <1>2 DEF Part, Linked
  <2> QED
    BY <2>1
<1>5. CASE command = "SET_SLEEP"
  BY <1>2, <1>4, <1>5 DEF SX126xWriteCommand, bytes
<1>6. CASE command # "SET_SLEEP"
  BY <1>3, <1>6 DEF SX126xWriteCommand, bytes
<1> QED
  BY <1>5, <1>6

LEMMA ReadCommandPart ==
    ASSUME NEW w \in Modes, NEW command \in Codes, NEW size \in Nat
    PROVE  Part("SX126x", SX126xReadCommand(command, size), w)
<1>1. <<command, 0>> \in Seq(Vals)
  <2>1. command \in Vals /\ 0 \in Vals
    BY CodesAreVals, IntsAreVals
  <2> QED
    BY <2>1
<1>2. AllBytes(Bytes(<<command, 0>>) \o Fetches(size))
  BY <1>1, BytesAre
<1> QED
  BY <1>2, CommandPart DEF SX126xReadCommand

LEMMA RegisterPart ==
    ASSUME NEW w \in Modes, NEW a \in RegAddr, NEW buffer \in Seq(Vals), NEW size \in Nat
    PROVE  /\ Part("SX126x", SX126xWriteRegisters(a, buffer), w)
           /\ Part("SX126x", SX126xReadRegisters(a, size), w)
<1>1. a \div 256 \in Int /\ a % 256 \in Int
  <2>1. a \in Int
    BY Sx126xAssumption, SMTT(30)
  <2>2. \A x \in Int : x \div 256 \in Int /\ x % 256 \in Int
    OBVIOUS
  <2> QED
    BY <2>1, <2>2, SMTT(30)
<1>2. a \div 256 \in Vals /\ a % 256 \in Vals /\ 0 \in Vals /\ "WRITE_REGISTER" \in Vals /\ "READ_REGISTER" \in Vals
  BY <1>1, IntsAreVals, CodesAreVals DEF Codes
<1>3. Address(a) \in Seq(Vals)
  BY <1>2, TwoIs DEF Address
<1>4. <<"WRITE_REGISTER">> \in Seq(Vals) /\ <<"READ_REGISTER">> \in Seq(Vals) /\ <<0>> \in Seq(Vals)
  BY <1>2
<1>5. /\ <<"WRITE_REGISTER">> \o Address(a) \o buffer \in Seq(Vals)
      /\ <<"READ_REGISTER">> \o Address(a) \o <<0>> \in Seq(Vals)
  BY <1>3, <1>4
<1>6. AllBytes(Bytes(<<"WRITE_REGISTER">> \o Address(a) \o buffer))
  BY <1>5, BytesAre
<1>7. AllBytes(Bytes(<<"READ_REGISTER">> \o Address(a) \o <<0>>) \o Fetches(size))
  BY <1>5, BytesAre
<1>8. Part("SX126x", SX126xWriteRegisters(a, buffer), w)
  BY <1>6, CommandPart DEF SX126xWriteRegisters
<1>9. Part("SX126x", SX126xReadRegisters(a, size), w)
  BY <1>7, CommandPart DEF SX126xReadRegisters
<1> QED
  BY <1>8, <1>9

LEMMA BufferPart ==
    ASSUME NEW w \in Modes, NEW offset \in BufAddr, NEW buffer \in Seq(Vals), NEW size \in Nat
    PROVE  /\ Part("SX126x", SX126xWriteBuffer(offset, buffer), w)
           /\ Part("SX126x", SX126xReadBuffer(offset, size), w)
<1> offset \in Int
  BY Sx126xAssumption, SMTT(30)
<1>1. offset \in Vals /\ 0 \in Vals /\ "WRITE_BUFFER" \in Vals /\ "READ_BUFFER" \in Vals
  BY IntsAreVals, CodesAreVals DEF Codes
<1>2. <<"WRITE_BUFFER", offset>> \in Seq(Vals) /\ <<"READ_BUFFER", offset, 0>> \in Seq(Vals)
  BY <1>1
<1>3. <<"WRITE_BUFFER", offset>> \o buffer \in Seq(Vals)
  BY <1>2
<1>4. AllBytes(Bytes(<<"WRITE_BUFFER", offset>> \o buffer))
  BY <1>3, BytesAre
<1>5. AllBytes(Bytes(<<"READ_BUFFER", offset, 0>>) \o Fetches(size))
  BY <1>2, BytesAre
<1>6. Part("SX126x", SX126xWriteBuffer(offset, buffer), w)
  BY <1>4, CommandPart DEF SX126xWriteBuffer
<1>7. Part("SX126x", SX126xReadBuffer(offset, size), w)
  BY <1>5, CommandPart DEF SX126xReadBuffer
<1> QED
  BY <1>6, <1>7, SMTT(30)

LEMMA AwakePart == Part("SX126x", <<Do("awake")>>, "asleep") /\ Part("SX126x", <<Do("asleep")>>, "awake")
<1>1. ASSUME NEW d \in Modes, NEW w \in Modes, d # w PROVE Part("SX126x", <<Do(d)>>, w)
  <2>1. Do(d) \in Calls("SX126x") /\ Fields(Do(d), d, "", "", 0)
    BY DoIs DEF Modes
  <2>2. ASSUME NEW c, Fields(c, d, "", "", 0) PROVE Opening(c) /\ Closing(c) /\ c.do # w
    BY <1>1, <2>2 DEF Fields, Opening, Closing, NssDropped, AntInit, AntOn, NssFalls, AntWrite, Modes
  <2> QED
    BY <2>1, <2>2, OneCallPart
<1> QED
  BY <1>1 DEF Modes

LEMMA StandbyPart == Part("SX126x", SX126xSetStandby, "asleep") /\ Part("SX126x", SX126xInit, "asleep")
<1>1. 0 \in Vals
  BY IntsAreVals
<1>2. <<0>> \in Seq(Vals) /\ "asleep" \in Modes /\ "SET_STANDBY" \in Codes
  BY <1>1 DEF Modes, Codes
<1>3. Part("SX126x", SX126xWriteCommand("SET_STANDBY", <<0>>), "asleep")
  BY <1>2, WriteCommandPart
<1>4. Part("SX126x", SX126xSetStandby, "asleep")
  BY <1>3, AwakePart, PartConcat DEF SX126xSetStandby
<1>5. Part("SX126x", SX126xReset, "asleep") /\ Part("SX126x", SX126xIoIrqInit, "asleep") /\ Part("SX126x", SX126xWakeup, "asleep")
  BY <1>2, LevelIs, ResetPart, IoIrqInitPart, WakeupPart
<1> QED
  BY <1>4, <1>5, PartConcat DEF SX126xInit

\* What a function that the driver calls has to do.
Program(r, s) == Linked(r, s) /\ Awaits(s) /\ OneMode(s)

LEMMA PartIsProgram == ASSUME NEW r, NEW w \in Modes, NEW s, Part(r, s, w) PROVE Program(r, s)
  BY DEF Part, Program, OneMode, Modes

\* A function may begin with a call that no other may precede.
LEMMA FirstCall ==
    ASSUME NEW r, NEW w \in Modes, NEW c \in Calls(r), Closing(c), c.do # w, c.do # "mask", NEW q, Part(r, q, w)
    PROVE  Program(r, <<c>> \o q)
<1> DEFINE p == <<c>>
           s == p \o q
<1>1. p \in Seq(Calls(r)) /\ Len(p) = 1 /\ p[1] = c /\ p # <<>>
  OBVIOUS
<1> HIDE DEF p
<1>2. Linked(r, p)
  BY <1>1 DEF Linked
<1>3. q \in Seq(Calls(r)) /\ q # <<>> /\ ~NssFalls(q[1])
  BY DEF Part, Linked, Opening, NssFalls
<1>4. Linked(r, s)
  BY <1>1, <1>2, <1>3, GlueIs, LinkedConcat DEF Part
<1>5. Awaits(s)
  <2>1. Awaits(p)
    BY <1>1 DEF Awaits
  <2> QED
    BY <1>1, <1>3, <2>1, AwaitsConcat DEF Part
<1>6. \A i \in 1 .. Len(s) : s[i].do # w
  <2>1. /\ Len(s) = 1 + Len(q) /\ Len(q) \in Nat /\ s[1] = c
        /\ \A i \in 2 .. 1 + Len(q) : i - 1 \in 1 .. Len(q) /\ s[i] = q[i - 1]
    <3>1. /\ Len(s) = Len(p) + Len(q) /\ Len(q) \in Nat
          /\ \A i \in 1 .. Len(p) : s[i] = p[i]
          /\ \A i \in Len(p) + 1 .. Len(p) + Len(q) : i - Len(p) \in 1 .. Len(q) /\ s[i] = q[i - Len(p)]
      BY <1>1, <1>3, Concat
    <3> HIDE DEF s
    <3> QED
      BY <1>1, <3>1
  <2> HIDE DEF s
  <2> SUFFICES ASSUME NEW i \in 1 .. Len(s) PROVE s[i].do # w
    OBVIOUS
  <2>2. CASE i = 1
    BY <2>1, <2>2
  <2>3. CASE i # 1
    BY <2>1, <2>3 DEF Part
  <2> QED
    BY <2>2, <2>3
<1> QED
  BY <1>4, <1>5, <1>6 DEF Program, OneMode, Modes, p

LEMMA OneMore ==
    ASSUME NEW S, NEW p \in Seq(S), NEW c \in S, NEW s, s = p \o <<c>>
    PROVE  /\ s \in Seq(S) /\ Len(s) = Len(p) + 1 /\ Len(p) \in Nat
           /\ \A i \in 1 .. Len(p) : s[i] = p[i]
           /\ s[Len(p) + 1] = c
  OBVIOUS

LEMMA JoinTwo ==
    ASSUME NEW S, NEW a \in S, NEW c \in S, NEW s, s = (<<a>> \o <<>>) \o <<c>>
    PROVE  s \in Seq(S) /\ Len(s) = 2 /\ s # <<>> /\ s[1] = a /\ s[2] = c
<1> DEFINE p == <<a>>
<1>1. p \in Seq(S) /\ Len(p) = 1 /\ p[1] = a
  OBVIOUS
<1> HIDE DEF p
<1>2. p \o <<>> = p
  BY <1>1
<1>3. s = p \o <<c>>
  BY <1>2 DEF p
<1>4. s \in Seq(S) /\ Len(s) = 2 /\ s[1] = p[1] /\ s[2] = c
  BY <1>1, <1>3, OneMore
<1> QED
  BY <1>1, <1>4

LEMMA JoinPair ==
    ASSUME NEW S, NEW a \in S, NEW c \in S, NEW s, s = <<a>> \o <<c>>
    PROVE  s \in Seq(S) /\ Len(s) = 2 /\ s[1] = a /\ s[2] = c
<1> DEFINE p == <<a>>
<1>1. p \in Seq(S) /\ Len(p) = 1 /\ p[1] = a
  OBVIOUS
<1>2. s = p \o <<c>>
  OBVIOUS
<1> HIDE DEF p
<1>3. s \in Seq(S) /\ Len(s) = 2 /\ s[1] = p[1] /\ s[2] = c
  BY <1>1, <1>2, OneMore
<1> QED
  BY <1>1, <1>3

LEMMA JoinThree ==
    ASSUME NEW S, NEW a \in S, NEW b \in S, NEW c \in S, NEW q, q = <<a>> \o <<b>>, NEW s, s = q \o <<c>>
    PROVE  s \in Seq(S) /\ Len(s) = 3 /\ s[1] = a /\ s[2] = b /\ s[3] = c
<1>1. q \in Seq(S) /\ Len(q) = 2 /\ q[1] = a /\ q[2] = b
  BY JoinPair
<1>2. s \in Seq(S) /\ Len(s) = 3 /\ s[1] = q[1] /\ s[2] = q[2] /\ s[3] = c
  BY <1>1, OneMore
<1> QED
  BY <1>1, <1>2

\* SetOpMode.
LEMMA SetOpModePart ==
    ASSUME NEW w \in Modes, NEW m \in OpMode, ~Is126x
    PROVE  Part(radio, SetOpMode(m), w)
<1> DEFINE a == Call("lowPower", "", m, 0)
           v == IF m = "transmitter" THEN 1 ELSE 0
           b == Write("Ant", v)
           c == Call("opMode", "", m, 0)
           s == SetOpMode(m)
<1>1. radio # "SX126x" /\ v \in Level
  BY DEF Is126x, Level
<1>2. /\ a \in Calls(radio) /\ Fields(a, "lowPower", "", m, 0)
      /\ c \in Calls(radio) /\ Fields(c, "opMode", "", m, 0)
  BY <1>1, ModeCallIs
<1>3. b \in Calls(radio) /\ Fields(b, "write", "Ant", "", v)
  BY <1>1, AntWriteIs
<1>4. AntSwOf(m) = <<b>>
  BY DEF AntSwOf, SX1272SetAntSw, SX1276SetAntSw, SetAntSw
<1>5. v = 1 <=> m = "transmitter"
  OBVIOUS
<1>6. s = (<<a>> \o (IF m = "sleep" THEN <<>> ELSE <<b>>)) \o <<c>>
  BY <1>4 DEF SetOpMode
<1> HIDE DEF a, b, c, s, v
<1>7. CASE m = "sleep"
  <2>1. s \in Seq(Calls(radio)) /\ Len(s) = 2 /\ s # <<>> /\ s[1] = a /\ s[2] = c
    <3>1. s = (<<a>> \o <<>>) \o <<c>>
      BY <1>6, <1>7
    <3>2. a \in Calls(radio) /\ c \in Calls(radio)
      BY <1>2
    <3> QED
      BY <3>1, <3>2, JoinTwo
  <2>2. Link(a, c)
    BY <1>2, <1>7 DEF Fields, Link, InFrame, NssFalls, NssRises, AntWrite, AntInit, NssDropped
  <2>3. Opening(a) /\ Closing(c) /\ \A x \in {a, c} : x.do # w /\ x.do # "mask"
    BY <1>2 DEF Fields, Opening, Closing, NssFalls, AntWrite, AntInit, NssDropped, Modes
  <2>4. Linked(radio, s)
    BY <2>1, <2>2, <2>3 DEF Linked
  <2>5. \A i \in 1 .. Len(s) : s[i] \in {a, c}
    BY <2>1
  <2>6. Awaits(s)
    BY <2>1, <2>3, <2>5 DEF Awaits
  <2> QED
    BY <2>1, <2>3, <2>4, <2>5, <2>6 DEF Part, s
<1>8. CASE m # "sleep"
  <2>1. s \in Seq(Calls(radio)) /\ Len(s) = 3 /\ s # <<>> /\ s[1] = a /\ s[2] = b /\ s[3] = c
    <3>1. s = (<<a>> \o <<b>>) \o <<c>>
      BY <1>6, <1>8
    <3>2. a \in Calls(radio) /\ b \in Calls(radio) /\ c \in Calls(radio)
      BY <1>2, <1>3
    <3> DEFINE q == <<a>> \o <<b>>
    <3>3. q = <<a>> \o <<b>> /\ s = q \o <<c>>
      BY <3>1
    <3> HIDE DEF q
    <3>4. s \in Seq(Calls(radio)) /\ Len(s) = 3 /\ s[1] = a /\ s[2] = b /\ s[3] = c
      BY <3>2, <3>3, JoinThree
    <3> QED
      BY <3>4
  <2>2. Link(a, b) /\ Link(b, c)
    BY <1>2, <1>3, <1>5, <1>8 DEF Fields, Link, InFrame, NssFalls, NssRises, AntWrite, AntInit, NssDropped
  <2>3. Opening(a) /\ Closing(c) /\ \A x \in {a, b, c} : x.do # w /\ x.do # "mask"
    BY <1>2, <1>3 DEF Fields, Opening, Closing, NssFalls, AntWrite, AntInit, NssDropped, Modes
  <2>4. Linked(radio, s)
    BY <2>1, <2>2, <2>3 DEF Linked
  <2>5. \A i \in 1 .. Len(s) : s[i] \in {a, b, c}
    BY <2>1
  <2>6. Awaits(s)
    BY <2>1, <2>3, <2>5 DEF Awaits
  <2> QED
    BY <2>1, <2>3, <2>4, <2>5, <2>6 DEF Part, s
<1> QED
  BY <1>7, <1>8

\* RadioInit, and the rest of the MAC's start.
LEMMA RadioInitPart ==
    ASSUME radio \in Radio
    PROVE  Part(radio, RadioInit, "asleep") /\ Part(radio, RadioInit \o <<Do("up")>>, "asleep")
<1>1. radio \in {"SX126x", "SX1272", "SX1276"} /\ "asleep" \in Modes /\ "sleep" \in OpMode
  BY RadioAssumption DEF Modes, OpMode
<1>2. Part(radio, RadioInit, "asleep")
  <2>1. CASE radio = "SX126x"
    BY <2>1, StandbyPart DEF RadioInit
  <2>2. CASE radio \in {"SX1272", "SX1276"}
    <3>1. ~Is126x
      BY <2>2 DEF Is126x
    <3>2. Part(radio, SetOpMode("sleep"), "asleep")
      BY <1>1, <3>1, SetOpModePart
    <3>3. Part(radio, IoIrqInit127x(Handler), "asleep")
      BY <1>1, <2>2, IoIrqInitPart
    <3>4. Part(radio, Reset127x(0), "asleep") /\ Part(radio, Reset127x(1), "asleep")
      BY <1>1, LevelIs, ResetPart
    <3> QED
      BY <2>2, <3>2, <3>3, <3>4, PartConcat DEF RadioInit, SX1272Reset, SX1276Reset, SX1272IoIrqInit, SX1276IoIrqInit
  <2> QED
    BY <1>1, <2>1, <2>2
<1>3. Part(radio, <<Do("up")>>, "asleep")
  BY <1>1, SimpleDo
<1> QED
  BY <1>2, <1>3, PartConcat

-----------------------------------------------------------------------------
(* What is still to do stays linked.                                       *)

LEMMA EmptyIs == ASSUME NEW S, NEW s \in Seq(S) PROVE s = <<>> <=> Len(s) = 0
  OBVIOUS

LEMMA TailIs ==
    ASSUME NEW r, NEW s \in Seq(Calls(r)), s # <<>>
    PROVE  /\ Tail(s) \in Seq(Calls(r)) /\ Len(s) \in Nat \ {0} /\ Len(Tail(s)) = Len(s) - 1
           /\ \A i \in 1 .. Len(s) - 1 : Tail(s)[i] = s[i + 1]
           /\ Head(s) = s[1]
           /\ Tail(s) = <<>> <=> Len(s) = 1
<1> DEFINE t == Tail(s)
<1>1. t \in Seq(Calls(r)) /\ Len(s) \in Nat \ {0} /\ Len(t) = Len(s) - 1
  OBVIOUS
<1>2. \A i \in 1 .. Len(s) - 1 : t[i] = s[i + 1]
  OBVIOUS
<1>3. Head(s) = s[1]
  OBVIOUS
<1> HIDE DEF t
<1>4. t = <<>> <=> Len(t) = 0
  BY <1>1, EmptyIs
<1>5. Len(t) = 0 <=> Len(s) = 1
  BY <1>1
<1> QED
  BY <1>1, <1>2, <1>3, <1>4, <1>5 DEF t

LEMMA TailProgram == ASSUME NEW r, NEW s, Program(r, s), s # <<>> PROVE Program(r, Tail(s))
<1> DEFINE t == Tail(s)
           n == Len(s)
<1>1. /\ t \in Seq(Calls(r)) /\ n \in Nat \ {0} /\ Len(t) = n - 1
      /\ \A i \in 1 .. n - 1 : t[i] = s[i + 1]
      /\ t = <<>> <=> n = 1
  BY TailIs DEF Program, Linked
<1> HIDE DEF t
<1>2. \A i \in 1 .. Len(t) - 1 : Link(t[i], t[i + 1])
  <2> SUFFICES ASSUME NEW i \in 1 .. Len(t) - 1 PROVE Link(t[i], t[i + 1])
    OBVIOUS
  <2>1. i + 1 \in 1 .. n - 1 /\ i \in 1 .. n - 1
    BY <1>1
  <2>2. t[i] = s[i + 1] /\ t[i + 1] = s[(i + 1) + 1]
    BY <1>1, <2>1
  <2> QED
    BY <2>1, <2>2 DEF Program, Linked
<1>3. t # <<>> => t[Len(t)] = s[n]
  BY <1>1
<1>4. Linked(r, t)
  BY <1>1, <1>2, <1>3 DEF Program, Linked
<1>5. Awaits(t)
  <2> SUFFICES ASSUME NEW i \in 2 .. Len(t), NssFalls(t[i]), t[i - 1].do = "mask"
               PROVE  \E j \in i + 1 .. Len(t) : BusyEnabled(t[j])
    BY DEF Awaits
  <2>1. i + 1 \in 2 .. n /\ t[i] = s[i + 1] /\ t[i - 1] = s[(i + 1) - 1]
    BY <1>1
  <2>2. PICK j \in (i + 1) + 1 .. n : BusyEnabled(s[j])
    BY <2>1 DEF Program, Awaits
  <2>3. j - 1 \in i + 1 .. Len(t) /\ j - 1 \in 1 .. n - 1 /\ t[j - 1] = s[j]
    BY <1>1, <2>1, <2>2
  <2> QED
    BY <2>2, <2>3
<1>6. OneMode(t)
  <2> SUFFICES ASSUME NEW i \in 1 .. Len(t), NEW j \in 1 .. Len(t), t[i].do = "asleep", t[j].do = "awake" PROVE FALSE
    BY DEF OneMode
  <2>1. i + 1 \in 1 .. n /\ j + 1 \in 1 .. n /\ t[i] = s[i + 1] /\ t[j] = s[j + 1]
    BY <1>1
  <2> QED
    BY <2>1 DEF Program, OneMode
<1> QED
  BY <1>4, <1>5, <1>6 DEF Program, t

\* The calls of p come before those of t.
LEMMA PrependProgram ==
    ASSUME NEW r, NEW p, NEW t, Linked(r, p), Awaits(p), p # <<>>, Program(r, t),
           \A i \in 1 .. Len(p) : p[i].do \notin Modes,
           t # <<>> => Link(p[Len(p)], t[1]) /\ (~NssFalls(t[1]) \/ p[Len(p)].do # "mask"),
           t = <<>> => Closing(p[Len(p)])
    PROVE  Program(r, p \o t)
<1>1. p \in Seq(Calls(r)) /\ t \in Seq(Calls(r))
  BY DEF Program, Linked
<1>2. Linked(r, p \o t)
  BY LinkedConcat DEF Program
<1>3. Awaits(p \o t)
  BY <1>1, AwaitsConcat DEF Program
<1> DEFINE s == p \o t
<1>4. /\ Len(s) = Len(p) + Len(t) /\ Len(p) \in Nat /\ Len(t) \in Nat
      /\ \A i \in 1 .. Len(p) : s[i] = p[i]
      /\ \A i \in Len(p) + 1 .. Len(p) + Len(t) : i - Len(p) \in 1 .. Len(t) /\ s[i] = t[i - Len(p)]
  BY <1>1, Concat
<1> HIDE DEF s
<1>5. \A i \in 1 .. Len(s) : s[i].do \in Modes => i - Len(p) \in 1 .. Len(t) /\ s[i] = t[i - Len(p)]
  <2> SUFFICES ASSUME NEW i \in 1 .. Len(s), s[i].do \in Modes PROVE i - Len(p) \in 1 .. Len(t) /\ s[i] = t[i - Len(p)]
    OBVIOUS
  <2>1. ~(i <= Len(p))
    BY <1>4
  <2> QED
    BY <1>4, <2>1
<1>6. OneMode(s)
  BY <1>5 DEF Program, OneMode, Modes
<1> QED
  BY <1>2, <1>3, <1>6 DEF Program, s

\* One more call before those of t.
LEMMA PrependCall ==
    ASSUME NEW r, NEW c \in Calls(r), NEW t, Program(r, t), c.do \notin Modes, c.do # "mask",
           t # <<>> => Link(c, t[1]), Closing(c)
    PROVE  Program(r, <<c>> \o t)
<1> DEFINE p == <<c>>
<1>1. p \in Seq(Calls(r)) /\ Len(p) = 1 /\ p[1] = c /\ p # <<>>
  OBVIOUS
<1> HIDE DEF p
<1>2. Linked(r, p)
  BY <1>1 DEF Linked
<1>3. Awaits(p)
  BY <1>1 DEF Awaits
<1>4. \A i \in 1 .. Len(p) : p[i].do \notin Modes
  BY <1>1
<1>5. Program(r, p \o t)
  BY <1>1, <1>2, <1>3, <1>4, PrependProgram
<1> QED
  BY <1>5 DEF p

-----------------------------------------------------------------------------
(* How a function that the driver calls begins.                            *)

\* The driver tests the chip before it notes that the chip is awake.
Checked(s) == \A i \in 1 .. Len(s) : s[i].do = "awake" => \E j \in 1 .. i - 1 : s[j].do = "check"

Begins(r, s) ==
    /\ Program(r, s) /\ s # <<>> /\ Checked(s)
    /\ s[1].do \notin {"irqInit", "clear", "byte", "write", "opMode"}
    /\ NssDropped(s[1]) =>
        \E j \in 2 .. Len(s) : NssRaised(s[j]) /\ \A i \in 1 .. j - 1 : s[i].do \in {"spi", "init"}
    /\ AntInit(s[1]) => AntOn(s[1]) \/ \E i \in 1 .. Len(s) : s[i].do = "asleep"

LEMMA CheckedConcat ==
    ASSUME NEW r, NEW p \in Seq(Calls(r)), NEW q \in Seq(Calls(r)), Checked(p),
           Checked(q) \/ \E j \in 1 .. Len(p) : p[j].do = "check"
    PROVE  Checked(p \o q)
<1> DEFINE s == p \o q
<1>1. /\ Len(s) = Len(p) + Len(q) /\ Len(p) \in Nat /\ Len(q) \in Nat
      /\ \A i \in 1 .. Len(p) : s[i] = p[i]
      /\ \A i \in Len(p) + 1 .. Len(s) : i - Len(p) \in 1 .. Len(q) /\ s[i] = q[i - Len(p)]
      /\ \A i \in 1 .. Len(q) : s[Len(p) + i] = q[i]
  BY Concat
<1> HIDE DEF s
<1> SUFFICES ASSUME NEW i \in 1 .. Len(s), s[i].do = "awake" PROVE \E j \in 1 .. i - 1 : s[j].do = "check"
  BY DEF Checked, s
<1>2. CASE i <= Len(p)
  <2>1. i \in 1 .. Len(p) /\ s[i] = p[i]
    BY <1>1, <1>2
  <2>2. PICK j \in 1 .. i - 1 : p[j].do = "check"
    BY <2>1 DEF Checked
  <2>3. s[j] = p[j]
    BY <1>1, <2>1
  <2> QED
    BY <2>2, <2>3
<1>3. CASE i > Len(p)
  <2>1. i - Len(p) \in 1 .. Len(q) /\ s[i] = q[i - Len(p)]
    BY <1>1, <1>3
  <2>2. CASE Checked(q)
    <3>1. PICK j \in 1 .. (i - Len(p)) - 1 : q[j].do = "check"
      BY <2>1, <2>2 DEF Checked
    <3>2. j \in 1 .. Len(q) /\ Len(p) + j \in 1 .. i - 1 /\ s[Len(p) + j] = q[j]
      BY <1>1, <2>1
    <3> QED
      BY <3>1, <3>2
  <2>3. ASSUME NEW j \in 1 .. Len(p), p[j].do = "check" PROVE j \in 1 .. i - 1 /\ s[j].do = "check"
    BY <1>1, <1>3, <2>3
  <2> QED
    BY <2>2, <2>3
<1> QED
  BY <1>1, <1>2, <1>3

LEMMA PartChecked == ASSUME NEW r, NEW s, Part(r, s, "awake") PROVE Checked(s)
  BY DEF Part, Checked

LEMMA PartBegins == ASSUME NEW r, NEW w \in Modes, NEW s, Part(r, s, w), Checked(s) PROVE Begins(r, s)
  BY PartIsProgram DEF Begins, Part, Opening

LEMMA CommandChecks ==
    ASSUME NEW command \in Codes, NEW buffer \in Seq(Vals)
    PROVE  /\ SX126xWriteCommand(command, buffer) \in Seq(Calls("SX126x"))
           /\ Checked(SX126xWriteCommand(command, buffer))
           /\ \E j \in 1 .. Len(SX126xWriteCommand(command, buffer)) : SX126xWriteCommand(command, buffer)[j].do = "check"
<1> DEFINE f == Framed(Bytes(<<command>> \o buffer))
           e == IF command # "SET_SLEEP" THEN SX126xWaitOnBusy ELSE <<>>
           p == <<Do("check")>>
           s == SX126xWriteCommand(command, buffer)
<1>1. "awake" \in Modes
  BY DEF Modes
<1>2. Part("SX126x", s, "awake")
  BY <1>1, WriteCommandPart
<1>3. s = (p \o f) \o e
  BY DEF SX126xWriteCommand, SX126xCheckDeviceReady
<1>4. Do("check") \in Calls("SX126x") /\ Do("check").do = "check"
  BY DoIs DEF Fields
<1>5. f \in Seq(Calls("SX126x")) /\ e \in Seq(Calls("SX126x"))
  <2>1. command \in Vals
    BY CodesAreVals
  <2>2. <<command>> \in Seq(Vals)
    BY <2>1
  <2>3. <<command>> \o buffer \in Seq(Vals)
    BY <2>2
  <2>4. Bytes(<<command>> \o buffer) \in Seq(Calls("SX126x"))
    BY <2>3, BytesAre DEF AllBytes
  <2>5. Do("wait") \in Calls("SX126x")
    BY DoIs
  <2>6. e \in Seq(Calls("SX126x"))
    BY <2>5 DEF SX126xWaitOnBusy
  <2> QED
    BY <2>4, <2>6, FramedIs
<1>6. p \in Seq(Calls("SX126x")) /\ Len(p) = 1 /\ p[1].do = "check"
  BY <1>4
<1> HIDE DEF f, e, p, s
<1>7. s[1].do = "check" /\ Len(s) >= 1
  <2> DEFINE t == p \o f
  <2>1. t \in Seq(Calls("SX126x")) /\ Len(t) = 1 + Len(f) /\ Len(f) \in Nat /\ t[1] = p[1]
    BY <1>5, <1>6, Concat
  <2>2. s = t \o e
    BY <1>3
  <2> HIDE DEF t
  <2>5. t \in Seq(Calls("SX126x"))
    BY <2>1
  <2>6. Len(t \o e) = Len(t) + Len(e) /\ Len(e) \in Nat /\ \A i \in 1 .. Len(t) : (t \o e)[i] = t[i]
    BY <1>5, <2>5, Concat
  <2>3. Len(s) = Len(t) + Len(e) /\ Len(e) \in Nat /\ \A i \in 1 .. Len(t) : s[i] = t[i]
    BY <2>2, <2>6
  <2>4. Len(t) \in Nat /\ Len(t) >= 1 /\ 1 \in 1 .. Len(t)
    BY <2>1
  <2> QED
    BY <1>6, <2>1, <2>3, <2>4
<1>8. s \in Seq(Calls("SX126x")) /\ Checked(s)
  BY <1>2, PartChecked DEF Part, Linked
<1>9. 1 \in 1 .. Len(s)
  BY <1>7, <1>8
<1> QED
  BY <1>7, <1>8, <1>9 DEF s

LEMMA StandbyChecked == Checked(SX126xSetStandby) /\ Checked(SX126xInit)
<1> DEFINE p == SX126xWriteCommand("SET_STANDBY", <<0>>)
           a == <<Do("awake")>>
<1>1. 0 \in Vals
  BY IntsAreVals
<1>2. <<0>> \in Seq(Vals) /\ "awake" \in Modes /\ "SET_STANDBY" \in Codes
  BY <1>1 DEF Modes, Codes
<1>3. p \in Seq(Calls("SX126x")) /\ Checked(p) /\ \E j \in 1 .. Len(p) : p[j].do = "check"
  BY <1>2, CommandChecks
<1>4. a \in Seq(Calls("SX126x"))
  BY AwakePart DEF Part, Linked
<1>5. SX126xSetStandby = p \o a
  BY DEF SX126xSetStandby
<1> HIDE DEF p, a
<1>6. Checked(SX126xSetStandby) /\ SX126xSetStandby \in Seq(Calls("SX126x"))
  BY <1>3, <1>4, <1>5, CheckedConcat, Concat
<1>7. Part("SX126x", SX126xReset, "awake") /\ Part("SX126x", SX126xIoIrqInit, "awake") /\ Part("SX126x", SX126xWakeup, "awake")
  BY <1>2, LevelIs, ResetPart, IoIrqInitPart, WakeupPart
<1>8. Part("SX126x", SX126xReset \o SX126xIoIrqInit \o SX126xWakeup, "awake")
  BY <1>7, PartConcat
<1>9. /\ Checked(SX126xReset \o SX126xIoIrqInit \o SX126xWakeup)
      /\ SX126xReset \o SX126xIoIrqInit \o SX126xWakeup \in Seq(Calls("SX126x"))
  BY <1>8, PartChecked DEF Part, Linked
<1> QED
  BY <1>6, <1>9, CheckedConcat DEF SX126xInit

LEMMA RadioInitBegins ==
    ASSUME radio \in Radio
    PROVE  Begins(radio, RadioInit) /\ Begins(radio, RadioInit \o <<Do("up")>>)
<1>1. radio \in {"SX126x", "SX1272", "SX1276"} /\ "asleep" \in Modes /\ "awake" \in Modes
  BY RadioAssumption DEF Modes
<1>2. Part(radio, RadioInit, "asleep") /\ Part(radio, RadioInit \o <<Do("up")>>, "asleep")
  BY RadioInitPart
<1>3. /\ RadioInit \in Seq(Calls(radio)) /\ RadioInit \o <<Do("up")>> \in Seq(Calls(radio))
      /\ <<Do("up")>> \in Seq(Calls(radio)) /\ Checked(<<Do("up")>>)
  <2>1. Part(radio, <<Do("up")>>, "awake")
    BY <1>1, SimpleDo
  <2> QED
    BY <1>2, <2>1, PartChecked DEF Part, Linked
<1>4. Checked(RadioInit) /\ Checked(RadioInit \o <<Do("up")>>)
  <2>1. CASE radio = "SX126x"
    <3>1. Checked(RadioInit)
      BY <2>1, StandbyChecked DEF RadioInit
    <3> QED
      BY <1>3, <3>1, CheckedConcat
  <2>2. CASE radio # "SX126x"
    <3>1. ASSUME NEW s \in Seq(Calls(radio)) PROVE Checked(s)
      <4>1. \A i \in 1 .. Len(s) : s[i] \in Calls(radio)
        OBVIOUS
      <4>2. \A c \in Calls(radio) : c.do # "awake"
        BY <2>2 DEF Calls, Good
      <4> QED
        BY <4>1, <4>2 DEF Checked
    <3> QED
      BY <1>3, <3>1
  <2> QED
    BY <2>1, <2>2
<1> QED
  BY <1>1, <1>2, <1>4, PartBegins

LEMMA ConsIs ==
    ASSUME NEW S, NEW c \in S, NEW q \in Seq(S), NEW s, s = <<c>> \o q
    PROVE  /\ s \in Seq(S) /\ Len(s) = Len(q) + 1 /\ Len(q) \in Nat /\ s # <<>> /\ s[1] = c
           /\ \A i \in 1 .. Len(q) : s[i + 1] = q[i]
           /\ \A i \in 2 .. Len(s) : i - 1 \in 1 .. Len(q) /\ s[i] = q[i - 1]
<1> DEFINE p == <<c>>
<1>1. p \in Seq(S) /\ Len(p) = 1 /\ p[1] = c
  OBVIOUS
<1>2. s = p \o q
  OBVIOUS
<1> HIDE DEF p
<1>3. /\ s \in Seq(S) /\ Len(s) = Len(p) + Len(q) /\ Len(q) \in Nat
      /\ \A i \in 1 .. Len(p) : s[i] = p[i]
      /\ \A i \in 1 .. Len(q) : s[Len(p) + i] = q[i]
      /\ \A i \in Len(p) + 1 .. Len(p) + Len(q) : i - Len(p) \in 1 .. Len(q) /\ s[i] = q[i - Len(p)]
  BY <1>1, <1>2, Concat
<1>4. Len(s) = Len(q) + 1 /\ s[1] = c
  BY <1>1, <1>3
<1>5. s # <<>>
  BY <1>3, <1>4, EmptyIs
<1>6. \A i \in 1 .. Len(q) : s[i + 1] = q[i]
  BY <1>1, <1>3
<1>7. \A i \in 2 .. Len(s) : i - 1 \in 1 .. Len(q) /\ s[i] = q[i - 1]
  BY <1>1, <1>3
<1> QED
  BY <1>3, <1>4, <1>5, <1>6, <1>7

\* A function may begin with a pin given back.
LEMMA FirstInit ==
    ASSUME NEW r, NEW c \in Calls(r), NEW q, Part(r, q, "awake"), c.do = "init", NEW s, s = <<c>> \o q,
           NssDropped(c) => \E j \in 1 .. Len(q) : NssRaised(q[j]) /\ \A i \in 1 .. j - 1 : q[i].do \in {"spi", "init"},
           AntInit(c) => \E i \in 1 .. Len(q) : q[i].do = "asleep"
    PROVE  Begins(r, s)
<1>1. Closing(c) /\ c.do # "awake" /\ c.do # "mask" /\ "awake" \in Modes
  BY DEF Closing, NssFalls, AntWrite, Modes
<1>2. Program(r, s)
  BY <1>1, FirstCall
<1>3. q \in Seq(Calls(r))
  BY DEF Part, Linked
<1>4. /\ s \in Seq(Calls(r)) /\ Len(s) = Len(q) + 1 /\ Len(q) \in Nat /\ s # <<>> /\ s[1] = c
      /\ \A i \in 1 .. Len(q) : s[i + 1] = q[i]
      /\ \A i \in 2 .. Len(s) : i - 1 \in 1 .. Len(q) /\ s[i] = q[i - 1]
  BY <1>3, ConsIs
<1>5. Checked(s)
  <2> SUFFICES ASSUME NEW i \in 1 .. Len(s) PROVE s[i].do # "awake"
    BY DEF Checked
  <2>1. CASE i = 1
    BY <1>1, <1>4, <2>1
  <2>2. CASE i # 1
    BY <1>4, <2>2 DEF Part
  <2> QED
    BY <2>1, <2>2
<1>6. NssDropped(s[1]) => \E j \in 2 .. Len(s) : NssRaised(s[j]) /\ \A i \in 1 .. j - 1 : s[i].do \in {"spi", "init"}
  <2> SUFFICES ASSUME NssDropped(c)
               PROVE  \E j \in 2 .. Len(s) : NssRaised(s[j]) /\ \A i \in 1 .. j - 1 : s[i].do \in {"spi", "init"}
    BY <1>4
  <2>1. PICK j \in 1 .. Len(q) : NssRaised(q[j]) /\ \A i \in 1 .. j - 1 : q[i].do \in {"spi", "init"}
    OBVIOUS
  <2>2. j + 1 \in 2 .. Len(s) /\ s[j + 1] = q[j]
    BY <1>4
  <2>3. ASSUME NEW i \in 1 .. (j + 1) - 1 PROVE s[i].do \in {"spi", "init"}
    <3>1. CASE i = 1
      BY <1>4, <3>1
    <3>2. CASE i # 1
      <4>1. i \in 2 .. Len(s) /\ i - 1 \in 1 .. j - 1
        BY <1>4, <3>2
      <4> QED
        BY <1>4, <2>1, <4>1
    <3> QED
      BY <3>1, <3>2
  <2> QED
    BY <2>1, <2>2, <2>3
<1>7. AntInit(s[1]) => \E i \in 1 .. Len(s) : s[i].do = "asleep"
  <2> SUFFICES ASSUME NEW i \in 1 .. Len(q), q[i].do = "asleep" PROVE \E k \in 1 .. Len(s) : s[k].do = "asleep"
    BY <1>4
  <2>1. i + 1 \in 1 .. Len(s) /\ s[i + 1] = q[i]
    BY <1>4
  <2> QED
    BY <2>1
<1> QED
  BY <1>2, <1>4, <1>5, <1>6, <1>7 DEF Begins

LEMMA SleepBegins == Begins("SX126x", SX126xSetSleep)
<1>1. 0 \in Vals
  BY IntsAreVals
<1>2. <<0>> \in Seq(Vals) /\ "awake" \in Modes /\ "SET_SLEEP" \in Codes
  BY <1>1 DEF Modes, Codes
<1> DEFINE p == SX126xWriteCommand("SET_SLEEP", <<0>>)
           q == p \o <<Do("asleep")>>
           c == InitPin("Ant", "PIN_ANALOGIC", 0)
<1>3. Part("SX126x", p, "awake")
  BY <1>2, WriteCommandPart
<1>4. Part("SX126x", q, "awake")
  BY <1>3, AwakePart, PartConcat
<1>5. c \in Calls("SX126x") /\ Fields(c, "init", "Ant", "PIN_ANALOGIC", 0)
  BY LevelIs, InitPinIs DEF Obj
<1>6. SX126xSetSleep = <<c>> \o q
  <2>1. p \in Seq(Calls("SX126x")) /\ <<c>> \in Seq(Calls("SX126x")) /\ <<Do("asleep")>> \in Seq(Calls("SX126x"))
    BY <1>3, <1>5, AwakePart DEF Part, Linked
  <2>2. \A S : \A x, y, z \in Seq(S) : (x \o y) \o z = x \o (y \o z)
    OBVIOUS
  <2> HIDE DEF p, c
  <2>3. SX126xSetSleep = (<<c>> \o p) \o <<Do("asleep")>>
    BY DEF SX126xSetSleep, SX126xAntSwOff, p, c
  <2> QED
    BY <2>1, <2>2, <2>3
<1>7. \E i \in 1 .. Len(q) : q[i].do = "asleep"
  <2>1. Do("asleep") \in Calls("SX126x") /\ Do("asleep").do = "asleep"
    BY DoIs DEF Fields
  <2>2. p \in Seq(Calls("SX126x"))
    BY <1>3 DEF Part, Linked
  <2> HIDE DEF p
  <2>3. Len(q) = Len(p) + 1 /\ Len(p) \in Nat /\ q[Len(p) + 1] = Do("asleep")
    BY <2>1, <2>2, OneMore
  <2>4. Len(p) + 1 \in 1 .. Len(q)
    BY <2>3
  <2> QED
    BY <2>1, <2>3, <2>4
<1> HIDE DEF c, q
<1>8. c.do = "init" /\ ~NssDropped(c)
  BY <1>5 DEF Fields, NssDropped
<1> QED
  BY <1>4, <1>5, <1>6, <1>7, <1>8, FirstInit

\* The pins given back and taken again.
LEMMA IoCycleBegins ==
    ASSUME radio \in Radio
    PROVE  Begins(radio, IoDeInit \o IoInit(radio))
<1>1. radio \in {"SX126x", "SX1272", "SX1276"} /\ "awake" \in Modes
  BY RadioAssumption DEF Modes
<1>2. Part(radio, IoInit(radio), "awake")
  BY <1>1, IoInitPart
<1>3. CASE radio # "SX126x"
  <2>1. Part(radio, IoDeInit, "awake")
    BY <1>1, <1>3, IoInit127xPart DEF IoDeInit, SX1272IoDeInit, SX1276IoDeInit
  <2> QED
    BY <1>1, <1>2, <2>1, PartConcat, PartChecked, PartBegins
<1>4. CASE radio = "SX126x"
  <2> DEFINE pins == <<"Busy", "DIO1", "DIO2", "DIO3">>
             s == [i \in 1 .. 4 |-> InitPin(pins[i], "PIN_ANALOGIC", 0)]
             c == InitPin("Nss", "PIN_ANALOGIC", 1)
             n == InitPin("Nss", "PIN_OUTPUT", 1)
             up == IoInit(radio)
             q == s \o up
  <2>1. \A i \in 1 .. 4 : pins[i] \in Obj \ {"Nss", "Ant"}
    BY DEF Obj, Dio
  <2> HIDE DEF pins
  <2>2. s # <<>> /\ s \in Seq({InitPin(o, "PIN_ANALOGIC", 0) : o \in Obj \ {"Nss", "Ant"}})
    BY <2>1
  <2>3. Len(s) = 4 /\ \A i \in 1 .. 4 : s[i].do = "init"
    BY DEF InitPin, Call
  <2>4. IoDeInit = <<c>> \o s
    BY <1>4 DEF IoDeInit, SX126xIoDeInit, pins
  <2>5. up = <<n>> \o [i \in 1 .. 4 |-> InitPin(pins[i], "PIN_INPUT", 0)]
    BY <1>4 DEF IoInit, SX126xIoInit, pins
  <2> HIDE DEF s
  <2>6. Part(radio, s, "awake")
    BY <1>1, <2>2, InitsPart
  <2>7. Part(radio, q, "awake")
    BY <1>2, <2>6, PartConcat
  <2>8. c \in Calls(radio) /\ Fields(c, "init", "Nss", "PIN_ANALOGIC", 1)
    BY LevelIs, InitPinIs DEF Obj
  <2>9. n \in Calls(radio) /\ Fields(n, "init", "Nss", "PIN_OUTPUT", 1)
    BY LevelIs, InitPinIs DEF Obj
  <2>10. up[1] = n
    <3> DEFINE t == [i \in 1 .. 4 |-> InitPin(pins[i], "PIN_INPUT", 0)]
    <3>1. t \in Seq({InitPin(pins[i], "PIN_INPUT", 0) : i \in 1 .. 4})
      OBVIOUS
    <3> HIDE DEF t, n
    <3>2. \A S : \A x \in Seq(S) : \A y : (<<y>> \o x)[1] = y
      OBVIOUS
    <3> QED
      BY <2>5, <3>1, <3>2 DEF t
  <2> HIDE DEF c, n, up
  <2>11. s \in Seq(Calls(radio)) /\ up \in Seq(Calls(radio)) /\ up # <<>> /\ <<c>> \in Seq(Calls(radio))
    BY <1>2, <2>6, <2>8 DEF Part, Linked, up
  <2>12. NssRaised(q[5]) /\ 5 \in 1 .. Len(q) /\ \A i \in 1 .. 5 - 1 : q[i].do \in {"spi", "init"}
    <3>1. /\ Len(q) = Len(s) + Len(up) /\ Len(up) \in Nat
          /\ \A i \in 1 .. Len(s) : q[i] = s[i]
          /\ \A i \in 1 .. Len(up) : q[Len(s) + i] = up[i]
      BY <2>11, Concat
    <3>2. Len(up) # 0
      BY <2>11, EmptyIs
    <3> HIDE DEF q
    <3>3. 1 \in 1 .. Len(up) /\ q[5] = up[1] /\ 5 \in 1 .. Len(q)
      BY <2>3, <3>1, <3>2
    <3>4. \A i \in 1 .. 5 - 1 : q[i].do \in {"spi", "init"}
      BY <2>3, <3>1
    <3>5. NssRaised(n)
      BY <2>9 DEF Fields, NssRaised
    <3> QED
      BY <2>10, <3>3, <3>4, <3>5
  <2>13. IoDeInit \o up = <<c>> \o q
    <3>1. \A S : \A x, y, z \in Seq(S) : (x \o y) \o z = x \o (y \o z)
      OBVIOUS
    <3> QED
      BY <2>4, <2>11, <3>1
  <2> HIDE DEF q
  <2>14. c.do = "init" /\ ~AntInit(c)
    BY <2>8 DEF Fields, AntInit
  <2> DEFINE whole == <<c>> \o q
  <2>15. whole = <<c>> \o q
    OBVIOUS
  <2> HIDE DEF whole
  <2>16. \E j \in 1 .. Len(q) : NssRaised(q[j]) /\ \A i \in 1 .. j - 1 : q[i].do \in {"spi", "init"}
    BY <2>12
  <2>17. Begins(radio, whole)
    BY <2>7, <2>8, <2>14, <2>15, <2>16, FirstInit
  <2> QED
    BY <2>13, <2>15, <2>17 DEF up
<1> QED
  BY <1>3, <1>4

\* The driver has called a function of the board.
Starts ==
    /\ todo = <<>> /\ Begins(radio, todo')
    /\ ran' = NotRan /\ request' = NoRequest
    /\ UNCHANGED <<gpioVars, spiOn, chip, frame, mem, asleep, RadioIsActive, opMode, paDac, radio, started>>

LEMMA StartIs ==
    ASSUME NEW s, NEW o, Begins(radio, s), Start(s, o)
    PROVE  Starts /\ op' = o
  BY DEF Start, Starts, Idle

LEMMA PartStarts ==
    ASSUME NEW s, NEW o, Part(radio, s, "awake"), Start(s, o)
    PROVE  Starts /\ op' = o
<1>1. "awake" \in Modes
  BY DEF Modes
<1>2. Begins(radio, s)
  BY <1>1, PartChecked, PartBegins
<1> QED
  BY <1>2, StartIs

LEMMA CommandStarts == ASSUME radio \in Radio, Command PROVE Starts /\ op' = NoOp
<1>1. radio = "SX126x" /\ "awake" \in Modes
  BY DEF Command, Is126x, Modes
<1>2. 0 \in Vals /\ 14 \in Vals
  BY IntsAreVals
<1>3. <<0>> \in Seq(Vals) /\ <<14, 0>> \in Seq(Vals)
  BY <1>2
<1>4. "SET_RX" \in Codes /\ "GET_IRQSTATUS" \in Codes /\ "SET_TXPARAMS" \in Codes /\ 1 \in Nat
  BY DEF Codes
<1>5. CASE Drive(SX126xWriteCommand("SET_RX", <<0>>))
  BY <1>1, <1>3, <1>4, <1>5, WriteCommandPart, PartStarts DEF Drive
<1>6. CASE Drive(SX126xReadCommand("GET_IRQSTATUS", 1))
  <2> DEFINE size == 1
  <2>1. size \in Nat /\ Drive(SX126xReadCommand("GET_IRQSTATUS", size))
    BY <1>6
  <2> HIDE DEF size
  <2>2. Part(radio, SX126xReadCommand("GET_IRQSTATUS", size), "awake")
    BY <1>1, <1>4, <2>1, ReadCommandPart
  <2> QED
    BY <2>1, <2>2, PartStarts DEF Drive
<1>7. CASE Drive(SX126xSetRfTxPower(14))
  BY <1>1, <1>3, <1>4, <1>7, WriteCommandPart, PartStarts DEF Drive, SX126xSetRfTxPower
<1>8. CASE Drive(SX126xSetStandby)
  <2>1. Begins(radio, SX126xSetStandby)
    BY <1>1, StandbyPart, StandbyChecked, PartBegins DEF Modes
  <2> QED
    BY <1>8, <2>1, StartIs DEF Drive
<1>9. CASE Drive(SX126xSetSleep)
  BY <1>1, <1>9, SleepBegins, StartIs DEF Drive
<1> QED
  BY <1>5, <1>6, <1>7, <1>8, <1>9 DEF Command

LEMMA CellIs == \A cell \in Cell : (cell[1] = "reg" => cell[2] \in RegAddr) /\ (cell[1] = "buf" => cell[2] \in BufAddr)
  BY DEF Cell

LEMMA WriteStarts == ASSUME radio \in Radio, WriteMemory PROVE Starts /\ op'.kind \in {"read", "write"}
<1>1. radio = "SX126x" /\ "awake" \in Modes
  BY DEF WriteMemory, Is126x, Modes
<1>2. PICK cell \in Cell, n \in 0 .. Size : \E data \in [1 .. n -> Value] :
        LET a == cell[2]
            o == Access("write", cell[1], a, data)
        IN  \/ cell[1] = "reg" /\ n # 1 /\ Start(SX126xWriteRegisters(a, data), o)
            \/ cell[1] = "reg" /\ n = 1 /\ Start(SX126xWriteRegister(a, data[1]), o)
            \/ cell[1] = "buf" /\ Start(SX126xWriteBuffer(a, data), o)
  BY DEF WriteMemory
<1>3. n \in Nat
  BY RadioAssumption
<1> DEFINE a == cell[2]
           o(data) == Access("write", cell[1], a, data)
<1>4. PICK data \in [1 .. n -> Value] :
        \/ cell[1] = "reg" /\ n # 1 /\ Start(SX126xWriteRegisters(a, data), o(data))
        \/ cell[1] = "reg" /\ n = 1 /\ Start(SX126xWriteRegister(a, data[1]), o(data))
        \/ cell[1] = "buf" /\ Start(SX126xWriteBuffer(a, data), o(data))
  BY <1>2
<1>5. data \in Seq(Vals)
  <2>1. \A i \in 1 .. n : data[i] \in Vals
    BY DEF Vals
  <2>2. data = [i \in 1 .. n |-> data[i]]
    OBVIOUS
  <2> QED
    BY <1>3, <2>1, <2>2, FunctionIs
<1>6. o(data).kind = "write"
  BY DEF Access
<1> HIDE DEF o
<1>7. (cell[1] = "reg" => a \in RegAddr) /\ (cell[1] = "buf" => a \in BufAddr)
  BY CellIs
<1> HIDE DEF a
<1>8. CASE cell[1] = "reg" /\ n # 1 /\ Start(SX126xWriteRegisters(a, data), o(data))
  <2>1. Part(radio, SX126xWriteRegisters(a, data), "awake")
    BY <1>1, <1>5, <1>7, <1>8, RegisterPart
  <2> QED
    BY <1>6, <1>8, <2>1, PartStarts
<1>9. CASE cell[1] = "reg" /\ n = 1 /\ Start(SX126xWriteRegister(a, data[1]), o(data))
  <2> DEFINE one == <<data[1]>>
  <2>1. one \in Seq(Vals)
    <3>1. data[1] \in Vals
      BY <1>9 DEF Vals
    <3> QED
      BY <3>1
  <2> HIDE DEF one
  <2>2. Part(radio, SX126xWriteRegisters(a, one), "awake")
    BY <1>1, <1>7, <1>9, <2>1, RegisterPart
  <2>3. Start(SX126xWriteRegisters(a, one), o(data))
    BY <1>9 DEF SX126xWriteRegister, one
  <2> QED
    BY <1>6, <2>2, <2>3, PartStarts
<1>10. CASE cell[1] = "buf" /\ Start(SX126xWriteBuffer(a, data), o(data))
  <2>1. Part(radio, SX126xWriteBuffer(a, data), "awake")
    BY <1>1, <1>5, <1>7, <1>10, BufferPart
  <2> QED
    BY <1>6, <1>10, <2>1, PartStarts
<1> QED
  BY <1>4, <1>8, <1>9, <1>10

LEMMA ReadStarts == ASSUME radio \in Radio, ReadMemory PROVE Starts /\ op'.kind \in {"read", "write"}
<1>1. radio = "SX126x" /\ "awake" \in Modes
  BY DEF ReadMemory, Is126x, Modes
<1>2. PICK cell \in Cell, n \in 0 .. Size :
        LET a == cell[2]
            o == Access("read", cell[1], a, <<>>)
        IN  \/ cell[1] = "reg" /\ n # 1 /\ Start(SX126xReadRegisters(a, n), o)
            \/ cell[1] = "reg" /\ n = 1 /\ Start(SX126xReadRegister(a), o)
            \/ cell[1] = "buf" /\ Start(SX126xReadBuffer(a, n), o)
  BY DEF ReadMemory
<1>3. n \in Nat
  BY RadioAssumption
<1> DEFINE a == cell[2]
           o == Access("read", cell[1], a, <<>>)
<1>4. \/ cell[1] = "reg" /\ Start(SX126xReadRegisters(a, n), o)
      \/ cell[1] = "buf" /\ Start(SX126xReadBuffer(a, n), o)
  BY <1>2 DEF SX126xReadRegister
<1>5. o.kind = "read" /\ <<>> \in Seq(Vals)
  BY DEF Access
<1>6. (cell[1] = "reg" => a \in RegAddr) /\ (cell[1] = "buf" => a \in BufAddr)
  BY CellIs
<1> HIDE DEF a, o
<1>7. CASE cell[1] = "reg" /\ Start(SX126xReadRegisters(a, n), o)
  <2>1. Part(radio, SX126xReadRegisters(a, n), "awake")
    BY <1>1, <1>3, <1>5, <1>6, <1>7, RegisterPart
  <2> QED
    BY <1>5, <1>7, <2>1, PartStarts
<1>8. CASE cell[1] = "buf" /\ Start(SX126xReadBuffer(a, n), o)
  <2>1. Part(radio, SX126xReadBuffer(a, n), "awake")
    BY <1>1, <1>3, <1>5, <1>6, <1>8, BufferPart
  <2> QED
    BY <1>5, <1>8, <2>1, PartStarts
<1> QED
  BY <1>4, <1>7, <1>8

\* Every function of the driver begins as it should, or is at once done.
LEMMA DriverStarts ==
    ASSUME radio \in Radio, IrqInv, DriverCalls
    PROVE  (Starts /\ (op' = NoOp \/ op'.kind \in {"read", "write"})) \/ SetPower
<1>1. radio \in {"SX126x", "SX1272", "SX1276"} /\ "awake" \in Modes
  BY RadioAssumption DEF Modes
<1>2. CASE Reinit
  BY <1>2, RadioInitBegins, StartIs DEF Reinit, Drive
<1>3. CASE IoCycle
  BY <1>3, IoCycleBegins, StartIs DEF IoCycle, Drive
<1>4. CASE Ignore
  <2>1. PICK d \in Dio : PinOf[d] \in irqSet /\ Start(GpioRemoveInterrupt(d), NoOp)
    BY <1>4 DEF Ignore, Drive
  <2>2. d \in Dio \cap Wired(radio)
    <3>1. PICK e \in Dio \cap Wired(radio) : PinOf[e] = PinOf[d] /\ PinOf[d] # NC
      BY <2>1 DEF IrqInv
    <3> QED
      BY <2>1, <3>1, PinAssumption DEF Obj
  <2>3. Part(radio, GpioRemoveInterrupt(d), "awake")
    BY <1>1, <2>2, RemoveInterruptPart
  <2> QED
    BY <2>1, <2>3, PartStarts
<1>5. CASE Listen
  <2>1. CASE radio = "SX126x"
    BY <1>1, <1>5, <2>1, IoIrqInitPart, PartStarts DEF Listen, Drive, Is126x
  <2>2. CASE radio # "SX126x"
    BY <1>1, <1>5, <2>2, IoIrqInitPart, PartStarts DEF Listen, Drive, Is126x, SX1272IoIrqInit, SX1276IoIrqInit
  <2> QED
    BY <2>1, <2>2
<1>6. CASE SetMode
  BY <1>1, <1>6, SetOpModePart, PartStarts DEF SetMode, Drive
<1>7. CASE Critical
  BY <1>1, <1>7, MaskPart, PartConcat, PartStarts DEF Critical, Drive
<1>8. CASE Command
  BY <1>8, CommandStarts
<1>9. CASE WriteMemory
  BY <1>9, WriteStarts
<1>10. CASE ReadMemory
  BY <1>10, ReadStarts
<1> QED
  BY <1>2, <1>3, <1>4, <1>5, <1>6, <1>7, <1>8, <1>9, <1>10 DEF DriverCalls

-----------------------------------------------------------------------------
(* What the steps leave to do.                                             *)

LEMMA TodoIs ==
    ASSUME TodoInv, todo # <<>>
    PROVE  /\ todo \in Seq(Calls(radio)) /\ Len(todo) \in Nat \ {0}
           /\ Head(todo) = todo[1] /\ todo[1] \in Calls(radio) /\ Good(radio, todo[1])
           /\ Tail(todo) \in Seq(Calls(radio)) /\ Len(Tail(todo)) = Len(todo) - 1
           /\ \A i \in 1 .. Len(todo) - 1 : Tail(todo)[i] = todo[i + 1]
           /\ Len(todo) > 1 => Tail(todo) # <<>> /\ Tail(todo)[1] = todo[2] /\ Link(todo[1], todo[2])
           /\ Len(todo) = 1 => Tail(todo) = <<>> /\ (Closing(todo[1]) \/ todo[1].do = "mac")
           /\ Program(radio, Tail(todo))
           /\ <<>> \o Tail(todo) = Tail(todo)
<1>1. Program(radio, todo) /\ todo \in Seq(Calls(radio))
  BY DEF TodoInv, Program, Linked
<1>2. /\ Len(todo) \in Nat \ {0} /\ Head(todo) = todo[1]
      /\ Tail(todo) \in Seq(Calls(radio)) /\ Len(Tail(todo)) = Len(todo) - 1
      /\ \A i \in 1 .. Len(todo) - 1 : Tail(todo)[i] = todo[i + 1]
      /\ Tail(todo) = <<>> <=> Len(todo) = 1
  BY <1>1, TailIs
<1>3. Program(radio, Tail(todo))
  BY <1>1, TailProgram
<1>4. 1 \in 1 .. Len(todo)
  BY <1>2
<1>5. todo[1] \in Calls(radio) /\ Good(radio, todo[1])
  <2>1. todo[1] \in Calls(radio)
    BY <1>1, <1>4
  <2>2. \A c \in Calls(radio) : Good(radio, c)
    BY DEF Calls
  <2> QED
    BY <2>1, <2>2
<1>6. Len(todo) > 1 => Tail(todo) # <<>> /\ Tail(todo)[1] = todo[2] /\ Link(todo[1], todo[2])
  <2> SUFFICES ASSUME Len(todo) > 1 PROVE Tail(todo) # <<>> /\ Tail(todo)[1] = todo[2] /\ Link(todo[1], todo[2])
    OBVIOUS
  <2>1. 1 \in 1 .. Len(todo) - 1 /\ 1 + 1 = 2 /\ Len(todo) # 1
    BY <1>2
  <2>2. Link(todo[1], todo[1 + 1])
    BY <2>1 DEF TodoInv, Linked
  <2> QED
    BY <1>2, <2>1, <2>2
<1>7. Len(todo) = 1 => Closing(todo[1]) \/ todo[1].do = "mac"
  BY DEF TodoInv, Linked
<1>8. <<>> \o Tail(todo) = Tail(todo)
  <2>1. \A S : \A x \in Seq(S) : <<>> \o x = x
    OBVIOUS
  <2> QED
    BY <1>2, <2>1
<1> QED
  BY <1>1, <1>2, <1>3, <1>5, <1>6, <1>7, <1>8

\* The steps that make the first call and leave the others.
Runs == StepGpio \/ StepByte \/ StepWait \/ StepSleep \/ StepOpMode \/ StepStart

LEMMA RunsOn == ASSUME TodoInv, Runs PROVE todo # <<>> /\ todo' = Tail(todo) /\ radio' = radio
<1>1. todo # <<>> /\ todo' = <<>> \o Tail(todo) /\ radio' = radio
  BY DEF Runs, StepGpio, StepByte, StepWait, StepSleep, StepOpMode, StepStart, Then, Now
<1> QED
  BY <1>1, TodoIs

\* The driver's test puts its wait, and maybe a wake-up, before the rest.
CheckTodo(n) ==
    /\ Len(todo') = Len(todo) - 1 + n
    /\ \A i \in 1 .. n : todo'[i].do \notin Modes
    /\ \A i \in n + 1 .. Len(todo') : todo'[i] = todo[i - n + 1]
    /\ asleep => \E j \in 1 .. n : AntOn(todo'[j])
    /\ ~asleep => n = 1

LEMMA OneIs == ASSUME NEW S, NEW c \in S PROVE <<c>> \in Seq(S)
  OBVIOUS

LEMMA WakeupFirst == SX126xWakeup[1].do = "mask"
<1> DEFINE r == "SX126x"
           m == BoardDisableIrq(r)
           f == Framed(Bytes(<<"GET_STATUS", 0>>))
           e == BoardEnableIrq(r)
<1>1. Part(r, m, "asleep") /\ Part(r, e, "asleep") /\ \A i \in 1 .. Len(m) : m[i].do = "mask"
  BY MaskPart DEF Modes
<1>2. f \in Seq(Calls(r)) /\ SX126xWaitOnBusy \in Seq(Calls(r))
  <2>1. Part(r, SX126xWaitOnBusy, "asleep")
    BY SimpleDo DEF SX126xWaitOnBusy, Modes
  <2> QED
    BY <2>1, StatusBytes, FramedIs DEF Part, Linked
<1>3. m \in Seq(Calls(r)) /\ e \in Seq(Calls(r)) /\ m # <<>>
  BY <1>1 DEF Part, Linked
<1>4. SX126xWakeup = ((m \o f) \o SX126xWaitOnBusy) \o e
  BY DEF SX126xWakeup
<1>5. Len(m) \in Nat \ {0} /\ m[1].do = "mask"
  BY <1>1, <1>3
<1> HIDE DEF m, f, e, r
<1>6. \A S : \A x, y \in Seq(S) : Len(x) > 0 => x \o y \in Seq(S) /\ (x \o y)[1] = x[1] /\ Len(x \o y) > 0
  OBVIOUS
<1>7. m \o f \in Seq(Calls(r)) /\ (m \o f)[1] = m[1] /\ Len(m \o f) > 0
  BY <1>2, <1>3, <1>5, <1>6
<1> DEFINE a == m \o f
           b == a \o SX126xWaitOnBusy
<1> HIDE DEF a
<1>8. b \in Seq(Calls(r)) /\ b[1] = a[1] /\ Len(b) > 0
  BY <1>2, <1>6, <1>7 DEF a
<1> HIDE DEF b
<1>9. (b \o e)[1] = b[1]
  BY <1>3, <1>6, <1>8
<1> QED
  BY <1>4, <1>5, <1>7, <1>8, <1>9 DEF a, b

LEMMA CheckGrows ==
    ASSUME TodoInv, StepCheck
    PROVE  /\ todo # <<>> /\ todo[1].do = "check" /\ radio = "SX126x" /\ radio' = radio
           /\ Program(radio, todo') /\ todo' # <<>> /\ todo'[1].do \in {"mask", "wait"}
           /\ \E n \in Nat \ {0} : CheckTodo(n)
<1> DEFINE t == Tail(todo)
           c == Do("wait")
           q == <<c>> \o t
           p == SX126xWakeup \o SX126xAntSwOn
<1>1. todo # <<>> /\ todo[1].do = "check" /\ radio' = radio
  BY TodoIs DEF StepCheck, Now, Then
<1>2. radio = "SX126x"
  BY <1>1, TodoIs DEF Good
<1>3. /\ t \in Seq(Calls(radio)) /\ Program(radio, t) /\ Len(t) = Len(todo) - 1 /\ Len(todo) \in Nat \ {0}
      /\ \A i \in 1 .. Len(t) : t[i] = todo[i + 1]
      /\ t # <<>> => Link(todo[1], t[1])
  BY <1>1, TodoIs
<1>4. c \in Calls(radio) /\ Fields(c, "wait", "", "", 0)
  BY <1>2, DoIs
<1>5. c.do \notin Modes /\ c.do # "mask" /\ Closing(c) /\ Opening(c) /\ c.do = "wait"
  BY <1>4 DEF Fields, Modes, Closing, Opening, NssFalls, AntWrite, NssDropped, AntInit, AntOn
<1>6. t # <<>> => Link(c, t[1])
  BY <1>1, <1>3, <1>5 DEF Link, NssFalls, AntWrite, AntInit
<1> HIDE DEF c
<1>7. Program(radio, q)
  BY <1>3, <1>4, <1>5, <1>6, PrependCall
<1> HIDE DEF t
<1>8. /\ q \in Seq(Calls(radio)) /\ Len(q) = Len(t) + 1 /\ Len(t) \in Nat /\ q # <<>> /\ q[1] = c
      /\ \A i \in 1 .. Len(t) : q[i + 1] = t[i]
      /\ \A i \in 2 .. Len(q) : i - 1 \in 1 .. Len(t) /\ q[i] = t[i - 1]
  <2>1. q = <<c>> \o t /\ c \in Calls(radio) /\ t \in Seq(Calls(radio))
    BY <1>3, <1>4
  <2> HIDE DEF q
  <2> QED
    BY <2>1, ConsIs
<1>9. CASE ~asleep
  <2>1. todo' = q
    <3>1. todo' = (<<>> \o <<c>>) \o t
      BY <1>9 DEF StepCheck, Then, SX126xWaitOnBusy, c, t
    <3>2. <<>> \o <<c>> = <<c>>
      OBVIOUS
    <3> QED
      BY <3>1, <3>2
  <2> HIDE DEF q
  <2>2. todo' # <<>> /\ todo'[1].do = "wait"
    BY <1>5, <1>8, <2>1
  <2>3. CheckTodo(1)
    <3>1. \A i \in 1 + 1 .. Len(q) : q[i] = todo[i - 1 + 1]
      BY <1>3, <1>8
    <3>2. Len(q) = Len(todo) - 1 + 1
      BY <1>3, <1>8
    <3>3. \A i \in 1 .. 1 : q[i].do \notin Modes
      BY <1>5, <1>8
    <3> QED
      BY <1>9, <2>1, <3>1, <3>2, <3>3 DEF CheckTodo
  <2>4. 1 \in Nat \ {0}
    OBVIOUS
  <2> QED
    BY <1>1, <1>2, <1>7, <2>1, <2>2, <2>3, <2>4
<1>10. CASE asleep
  <2> DEFINE a == InitPin("Ant", "PIN_OUTPUT", 1)
  <2>1. Part(radio, p, "asleep") /\ Part(radio, p, "awake")
    <3>1. ASSUME NEW w \in Modes PROVE Part(radio, p, w)
      <4>1. Part(radio, SX126xAntSwOn, w)
        BY <1>2, LevelIs, OneInitPart DEF SX126xAntSwOn, Obj
      <4> QED
        BY <1>2, <4>1, WakeupPart, PartConcat
    <3> QED
      BY <3>1 DEF Modes
  <2>2. a \in Calls(radio) /\ Fields(a, "init", "Ant", "PIN_OUTPUT", 1)
    BY <1>2, LevelIs, InitPinIs DEF Obj
  <2>3. p = SX126xWakeup \o <<a>>
    BY DEF SX126xAntSwOn
  <2>4. /\ SX126xWakeup \in Seq(Calls(radio)) /\ SX126xWakeup # <<>>
        /\ SX126xWakeup[1].do = "mask"
    <3>1. Part("SX126x", SX126xWakeup, "asleep")
      BY WakeupPart DEF Modes
    <3>2. SX126xWakeup[1].do = "mask"
      BY WakeupFirst
    <3> QED
      BY <1>2, <3>1, <3>2 DEF Part, Linked
  <2> HIDE DEF a, p
  <2>5. /\ p \in Seq(Calls(radio)) /\ Len(p) = Len(SX126xWakeup) + 1 /\ Len(SX126xWakeup) \in Nat
        /\ \A i \in 1 .. Len(SX126xWakeup) : p[i] = SX126xWakeup[i]
        /\ p[Len(SX126xWakeup) + 1] = a
    BY <2>2, <2>3, <2>4, OneMore
  <2>6. Len(SX126xWakeup) # 0
    BY <2>4, EmptyIs
  <2>7. p[1].do = "mask" /\ p # <<>> /\ Len(p) \in Nat \ {0}
    BY <2>1, <2>4, <2>5, <2>6 DEF Part
  <2>8. AntOn(p[Len(p)])
    BY <2>2, <2>5 DEF Fields, AntOn, AntInit
  <2>9. todo' = p \o q
    <3>1. todo' = (p \o <<c>>) \o t
      BY <1>10 DEF StepCheck, Then, SX126xWaitOnBusy, c, t, p
    <3>2. <<c>> \in Seq(Calls(radio))
      BY <1>4, OneIs
    <3>3. \A S : \A x, y, z \in Seq(S) : (x \o y) \o z = x \o (y \o z)
      OBVIOUS
    <3> QED
      BY <1>3, <2>5, <3>1, <3>2, <3>3, SMTT(30)
  <2> HIDE DEF q
  <2>10. Program(radio, p \o q)
    <3>1. Link(p[Len(p)], q[1]) /\ ~NssFalls(q[1])
      BY <1>5, <1>8, <2>1, GlueIs DEF Part, NssFalls
    <3>2. \A i \in 1 .. Len(p) : p[i].do \notin Modes
      BY <2>1 DEF Part, Modes
    <3> QED
      BY <1>7, <1>8, <2>1, <3>1, <3>2, PrependProgram DEF Part
  <2> DEFINE s == p \o q
  <2>11. /\ Len(s) = Len(p) + Len(q) /\ Len(q) \in Nat
         /\ \A i \in 1 .. Len(p) : s[i] = p[i]
         /\ \A i \in 1 .. Len(q) : s[Len(p) + i] = q[i]
         /\ \A i \in Len(p) + 1 .. Len(p) + Len(q) : i - Len(p) \in 1 .. Len(q) /\ s[i] = q[i - Len(p)]
         /\ s \in Seq(Calls(radio))
    <3>1. p \in Seq(Calls(radio)) /\ q \in Seq(Calls(radio))
      BY <1>8, <2>5
    <3> QED
      BY <3>1, Concat
  <2>12. todo' = s
    BY <2>9
  <2> HIDE DEF s
  <2> DEFINE n == Len(p) + 1
  <2>13. Len(s) = Len(todo) - 1 + n
    BY <1>3, <1>8, <2>11
  <2>14. \A i \in 1 .. n : s[i].do \notin Modes
    <3> SUFFICES ASSUME NEW i \in 1 .. n PROVE s[i].do \notin Modes
      OBVIOUS
    <3>1. CASE i <= Len(p)
      BY <2>1, <2>7, <2>11, <3>1 DEF Part, Modes
    <3>2. CASE i = Len(p) + 1
      <4>1. s[i] = q[1]
        BY <1>8, <2>11, <3>2
      <4> QED
        BY <1>5, <1>8, <4>1
    <3> QED
      BY <2>7, <3>1, <3>2
  <2>15. ASSUME NEW i \in n + 1 .. Len(s) PROVE s[i] = todo[i - n + 1]
    <3>1. i - Len(p) \in 2 .. Len(q) /\ s[i] = q[i - Len(p)]
      BY <2>7, <2>11
    <3>2. (i - Len(p)) - 1 \in 1 .. Len(t) /\ s[i] = t[(i - Len(p)) - 1]
      BY <1>8, <3>1
    <3>3. s[i] = todo[((i - Len(p)) - 1) + 1]
      BY <1>3, <3>2
    <3>4. ((i - Len(p)) - 1) + 1 = i - n + 1
      BY <2>7
    <3> QED
      BY <3>3, <3>4
  <2>16. \E j \in 1 .. n : AntOn(s[j])
    <3>1. Len(p) \in 1 .. n /\ s[Len(p)] = p[Len(p)]
      BY <2>7, <2>11
    <3> QED
      BY <2>8, <3>1
  <2>17. n \in Nat \ {0} /\ s[1].do = "mask" /\ s # <<>>
    BY <2>7, <2>11
  <2> HIDE DEF n
  <2>18. CheckTodo(n)
    BY <1>10, <2>12, <2>13, <2>14, <2>15, <2>16 DEF CheckTodo
  <2> QED
    BY <1>1, <1>2, <2>9, <2>10, <2>12, <2>17, <2>18
<1> QED
  BY <1>9, <1>10

\* The antenna switch is initialised before the rest when its state is news.
LEMMA LowPowerGrows ==
    ASSUME radio \in Radio, TodoInv, StepLowPower
    PROVE  /\ todo # <<>> /\ todo[1].do = "lowPower" /\ todo[1].arg \in OpMode /\ radio # "SX126x" /\ radio' = radio
           /\ Len(todo) > 1 /\ Link(todo[1], todo[2])
           /\ Program(radio, todo')
           /\ IF RadioIsActive = (todo[1].arg = "sleep")
              THEN todo' = Tail(todo)
              ELSE /\ Len(todo') = Len(todo)
                   /\ \E m \in {"PIN_OUTPUT", "PIN_ANALOGIC"} :
                        (todo[1].arg # "sleep" => m = "PIN_OUTPUT") /\ Fields(todo'[1], "init", "Ant", m, 0)
                   /\ \A i \in 2 .. Len(todo) : todo'[i] = todo[i]
<1> DEFINE t == Tail(todo)
           status == todo[1].arg = "sleep"
<1>1. todo # <<>> /\ todo[1].do = "lowPower" /\ radio' = radio /\ todo' = SetAntSwLowPowerOf(status) \o t
  BY TodoIs DEF StepLowPower, Now, Then
<1>2. radio # "SX126x" /\ todo[1].arg \in OpMode
  BY <1>1, TodoIs DEF Good
<1>3. radio \in {"SX1272", "SX1276"}
  BY <1>2, RadioAssumption
<1>4. Len(todo) > 1 /\ Link(todo[1], todo[2]) /\ t[1] = todo[2] /\ t # <<>>
  <2>1. ~Closing(todo[1]) /\ todo[1].do # "mac"
    BY <1>1 DEF Closing
  <2> QED
    BY <1>1, <2>1, TodoIs
<1>5. /\ t \in Seq(Calls(radio)) /\ Program(radio, t) /\ <<>> \o t = t /\ Len(t) = Len(todo) - 1
      /\ Len(todo) \in Nat \ {0} /\ \A i \in 1 .. Len(t) : t[i] = todo[i + 1]
  BY <1>1, TodoIs, SMTT(30)
<1>6. CASE RadioIsActive = status
  <2>1. SetAntSwLowPowerOf(status) = <<>>
    BY <1>6, SMTT(30) DEF SetAntSwLowPowerOf, SX1272SetAntSwLowPower, SX1276SetAntSwLowPower, SetAntSwLowPower
  <2>2. todo' = t
    BY <1>1, <1>5, <2>1
  <2> QED
    BY <1>1, <1>2, <1>4, <1>5, <1>6, <2>2
<1>7. CASE RadioIsActive # status
  <2>1. PICK m \in {"PIN_OUTPUT", "PIN_ANALOGIC"} :
          (~status => m = "PIN_OUTPUT") /\ SetAntSwLowPowerOf(status) = <<InitPin("Ant", m, 0)>>
    BY <1>3, <1>7 DEF SetAntSwLowPowerOf, SX1272SetAntSwLowPower, SX1276SetAntSwLowPower, SetAntSwLowPower,
                      SX1272AntSwInit, SX1276AntSwInit, SX1272AntSwDeInit, SX1276AntSwDeInit
  <2> DEFINE c == InitPin("Ant", m, 0)
  <2>2. c \in Calls(radio) /\ Fields(c, "init", "Ant", m, 0)
    <3>1. m \in {"PIN_INPUT", "PIN_OUTPUT", "PIN_ANALOGIC"}
      OBVIOUS
    <3>2. 0 \in Level /\ "Ant" \in Obj
      BY LevelIs DEF Obj
    <3> QED
      BY <3>1, <3>2, InitPinIs
  <2> HIDE DEF c
  <2>3. Link(c, todo[2]) /\ Closing(c) /\ c.do \notin Modes /\ c.do # "mask"
    BY <1>1, <1>4, <2>2 DEF Fields, Link, Closing, Modes, InFrame, NssFalls, NssRises, AntWrite, AntInit, AntOn, NssDropped
  <2>4. todo' = <<c>> \o t
    BY <1>1, <2>1 DEF c
  <2>5. Program(radio, todo')
    BY <1>4, <1>5, <2>2, <2>3, <2>4, PrependCall
  <2>6. /\ Len(todo') = Len(t) + 1 /\ todo'[1] = c
        /\ \A i \in 2 .. Len(todo') : i - 1 \in 1 .. Len(t) /\ todo'[i] = t[i - 1]
    <3>1. c \in Calls(radio) /\ t \in Seq(Calls(radio))
      BY <1>5, <2>2
    <3> HIDE DEF t
    <3> QED
      BY <2>4, <3>1, ConsIs
  <2>7. Len(todo') = Len(todo) /\ \A i \in 2 .. Len(todo) : todo'[i] = todo[i]
    <3>1. Len(todo') = Len(todo)
      BY <1>5, <2>6
    <3>2. ASSUME NEW i \in 2 .. Len(todo) PROVE todo'[i] = todo[i]
      <4>1. i - 1 \in 1 .. Len(t) /\ todo'[i] = t[i - 1]
        BY <2>6, <3>1, <3>2
      <4>2. t[i - 1] = todo[(i - 1) + 1] /\ (i - 1) + 1 = i
        BY <1>5, <4>1
      <4> QED
        BY <4>1, <4>2
    <3> QED
      BY <3>1, <3>2
  <2>8. \E k \in {"PIN_OUTPUT", "PIN_ANALOGIC"} :
          (todo[1].arg # "sleep" => k = "PIN_OUTPUT") /\ Fields(todo'[1], "init", "Ant", k, 0)
    BY <2>1, <2>2, <2>6
  <2> QED
    BY <1>1, <1>2, <1>4, <1>7, <2>5, <2>7, <2>8
<1> QED
  BY <1>6, <1>7

\* The MAC's start initialises the radio, or the assertion stops the program.
LEMMA MacGrows ==
    ASSUME radio \in Radio, TodoInv, StepMac
    PROVE  /\ todo # <<>> /\ todo[1].do = "mac" /\ Len(todo) = 1 /\ radio' = radio
           /\ Begins(radio, todo')
           /\ todo' = RadioInit \o <<Do("up")>> \/ todo' = <<Do("assert")>>
<1>1. todo # <<>> /\ todo[1].do = "mac" /\ radio' = radio /\ todo' = LoRaMacInitialization \o Tail(todo)
  BY TodoIs DEF StepMac, Now, Then
<1>2. Len(todo) = 1 /\ Tail(todo) = <<>>
  <2> DEFINE n == Len(todo)
  <2>1. n \in Nat \ {0} /\ ~(n > 1)
    BY <1>1, TodoIs DEF Link
  <2> HIDE DEF n
  <2>2. n = 1
    BY <2>1
  <2> QED
    BY <1>1, <2>2, TodoIs DEF n
<1>3. \A S : \A x \in Seq(S) : x \o <<>> = x
  OBVIOUS
<1>4. Begins(radio, RadioInit \o <<Do("up")>>)
  BY RadioInitBegins
<1>5. Begins(radio, <<Do("assert")>>)
  BY SimpleDo, PartChecked, PartBegins DEF Modes
<1>6. LoRaMacInitialization \in Seq(Calls(radio)) /\ Begins(radio, LoRaMacInitialization)
  <2>1. Begins(radio, LoRaMacInitialization)
    BY <1>4, <1>5 DEF LoRaMacInitialization
  <2> QED
    BY <2>1 DEF Begins, Program, Linked
<1>7. todo' = LoRaMacInitialization
  BY <1>1, <1>2, <1>3, <1>6
<1> QED
  BY <1>1, <1>2, <1>6, <1>7 DEF LoRaMacInitialization

-----------------------------------------------------------------------------
(* Start-up.                                                               *)

LEMMA PrivateInitIs ==
    ASSUME NEW r
    PROVE  /\ lorawan_api_private_init \in Seq(Calls(r)) /\ Len(lorawan_api_private_init) = 3
           /\ lorawan_api_private_init[1].do = "eventq" /\ lorawan_api_private_init[2].do = "task"
           /\ lorawan_api_private_init[3].do = "mac"
           /\ Program(r, lorawan_api_private_init) /\ lorawan_api_private_init # <<>>
<1> DEFINE s == lorawan_api_private_init
           a == Do("eventq")
           b == Do("task")
           c == Do("mac")
<1>1. /\ a \in Calls(r) /\ b \in Calls(r) /\ c \in Calls(r)
      /\ a.do = "eventq" /\ b.do = "task" /\ c.do = "mac"
  BY DoIs DEF Fields
<1>2. s = <<a, b, c>>
  BY DEF lorawan_api_private_init
<1> HIDE DEF s, a, b, c
<1>3. s \in Seq(Calls(r)) /\ Len(s) = 3 /\ s # <<>> /\ s[1] = a /\ s[2] = b /\ s[3] = c
  BY <1>1, <1>2, ThreeIs
<1>4. Link(a, b) /\ Link(b, c)
  BY <1>1 DEF Link, InFrame, NssFalls, NssRises, AntWrite, AntInit, NssDropped
<1>5. Linked(r, s)
  BY <1>1, <1>3, <1>4 DEF Linked
<1>6. \A i \in 1 .. Len(s) : s[i].do \notin {"mask", "asleep", "awake", "write"}
  BY <1>1, <1>3
<1>7. Awaits(s) /\ OneMode(s)
  BY <1>6 DEF Awaits, OneMode, NssFalls
<1> QED
  BY <1>1, <1>3, <1>5, <1>7 DEF Program, s

LEMMA InitTodo ==
    ASSUME NEW r \in Radio
    PROVE  Program(r, lorawan_init(r) \o lorawan_api_private_init)
<1> DEFINE p == lorawan_init(r)
           t == lorawan_api_private_init
<1>1. Part(r, p, "asleep") /\ Part(r, p, "awake")
  BY IoInitPart DEF Modes
<1>2. Program(r, t) /\ t # <<>> /\ t[1].do = "eventq"
  BY PrivateInitIs
<1> HIDE DEF p, t
<1>3. \A i \in 1 .. Len(p) : p[i].do \notin Modes
  BY <1>1 DEF Part, Modes
<1>4. Link(p[Len(p)], t[1]) /\ ~NssFalls(t[1])
  <2>1. Opening(t[1])
    BY <1>2 DEF Opening, NssDropped, AntInit
  <2> QED
    BY <1>1, <2>1, GlueIs DEF Part, Opening, NssFalls
<1>5. Program(r, p \o t)
  BY <1>1, <1>2, <1>3, <1>4, PrependProgram DEF Part
<1> QED
  BY <1>5 DEF p, t

LEMMA TodoInit == ASSUME Init PROVE radio \in Radio /\ TodoInv
<1>1. radio \in Radio /\ todo = lorawan_init(radio) \o lorawan_api_private_init
  BY DEF Init
<1> QED
  BY <1>1, InitTodo DEF TodoInv, Program

LEMMA TodoNext ==
    ASSUME radio \in Radio, TodoInv, IrqInv, [Next]_vars
    PROVE  radio' \in Radio /\ radio' = radio /\ TodoInv'
<1>1. CASE DriverCalls
  <2>1. CASE Starts
    BY <2>1 DEF Starts, Begins, TodoInv, Program
  <2>2. CASE SetPower
    BY <2>2 DEF SetPower, TodoInv
  <2> QED
    BY <1>1, <2>1, <2>2, DriverStarts
<1>2. CASE Runs
  <2>1. todo # <<>> /\ todo' = Tail(todo) /\ radio' = radio
    BY <1>2, RunsOn
  <2>2. Program(radio, todo')
    BY <2>1, TodoIs
  <2> QED
    BY <2>1, <2>2 DEF TodoInv, Program
<1>3. CASE StepCheck
  BY <1>3, CheckGrows DEF TodoInv, Program
<1>4. CASE StepLowPower
  BY <1>4, LowPowerGrows DEF TodoInv, Program
<1>5. CASE StepMac
  BY <1>5, MacGrows DEF TodoInv, Program, Begins
<1>6. CASE Interrupt \/ LorawanTask \/ Chip \/ UNCHANGED vars
  BY <1>6 DEF Interrupt, LorawanTask, Chip, vars, others, TodoInv
<1> QED
  BY <1>1, <1>2, <1>3, <1>4, <1>5, <1>6 DEF Next, Step, Runs

-----------------------------------------------------------------------------
(* Pins and lines.                                                         *)

LEMMA PinIs ==
    /\ \A o \in Obj : PinOf[o] < IOE_0 /\ PinOf[o] \in Pin \cup {NC} /\ (PinOf[o] # NC => PinOf[o] \in Pin)
    /\ 0 \in Pin /\ NC \notin Pin
    /\ \A p \in Pin : p \in Nat /\ Line(p) \in 0 .. 15
<1>1. \A o \in Obj : PinOf[o] \in {NC} \cup 0 .. IOE_0 - 1
  BY PinAssumption
<1>2. \A o \in Obj : PinOf[o] < IOE_0 /\ PinOf[o] \in Pin \cup {NC} /\ (PinOf[o] # NC => PinOf[o] \in Pin)
  BY <1>1 DEF Pin, NC, IOE_0
<1>3. 0 \in Pin /\ NC \notin Pin
  BY DEF Pin, NC
<1>4. \A p \in Pin : p \in Nat
  BY <1>1 DEF Pin, NC, IOE_0
<1>5. \A p \in Nat : p % 16 \in 0 .. 15
  OBVIOUS
<1> QED
  BY <1>2, <1>3, <1>4, <1>5 DEF Line

Token == [line : 0 .. 15, pin : Pin]

Handlers == {Handler[d] : d \in Dio} \cup {NULL}

PinType ==
    /\ pin \in [Obj -> Pin \cup {NC}]
    /\ mode \in [Pin -> {"reset", "in", "out", "af"}]
    /\ level \in [Pin -> 0 .. 1]

IrqType ==
    /\ GpioIrq \in [0 .. 15 -> Handlers]
    /\ irqSet \in SUBSET Pin /\ irqOn \in SUBSET Pin /\ latched \in SUBSET irqSet
    /\ queue \in Seq(Token)
    /\ ran \in [pin : Pin \cup {NC}, handler : Handlers]

LEMMA GoodIs ==
    ASSUME NEW r, NEW c, Good(r, c)
    PROVE  /\ c.do = "init" => c.obj \in Obj /\ c.val \in 0 .. 1 /\ HalMode(c.arg) \in {"in", "out"}
                               /\ (HalMode(c.arg) = "out" <=> c.arg = "PIN_OUTPUT")
           /\ c.do \in {"write", "store", "irqInit", "enable", "mask", "release", "clear"} => c.obj \in Obj
           /\ c.do = "write" => c.val \in 0 .. 1
           /\ c.do \in {"store", "irqInit", "release", "clear"} => c.obj \in Dio \cap Wired(r)
           /\ c.do = "store" => c.arg \in Handlers
           /\ c.do \in {"enable", "mask"} => c.obj \in Wired(r) \ {"Nss"}
           /\ c.do \in {"lowPower", "opMode"} => c.arg \in OpMode
<1>1. Wired(r) \subseteq Obj /\ Dio \subseteq Obj
  BY DEF Wired, Obj, Dio
<1>2. c.do = "init" => c.obj \in Obj /\ c.val \in 0 .. 1 /\ c.arg \in {"PIN_INPUT", "PIN_OUTPUT", "PIN_ANALOGIC"}
  BY DEF Good
<1>3. c.arg \in {"PIN_INPUT", "PIN_OUTPUT", "PIN_ANALOGIC"} =>
        HalMode(c.arg) \in {"in", "out"} /\ (HalMode(c.arg) = "out" <=> c.arg = "PIN_OUTPUT")
  BY DEF HalMode
<1>4. c.do = "write" => c.obj \in {"Nss", "Ant"} /\ c.val \in 0 .. 1
  BY DEF Good
<1>5. c.do \in {"store", "irqInit", "release", "clear"} => c.obj \in Dio \cap Wired(r)
  BY DEF Good
<1>6. c.do = "store" => c.arg \in Handlers
  BY <1>5 DEF Good, Handlers
<1>7. c.do \in {"enable", "mask"} => c.obj \in Wired(r) \ {"Nss"}
  BY DEF Good
<1>8. c.do \in {"lowPower", "opMode"} => c.arg \in OpMode
  BY DEF Good
<1>9. {"Nss", "Ant"} \subseteq Obj
  BY DEF Obj
<1> QED
  BY <1>1, <1>2, <1>3, <1>4, <1>5, <1>6, <1>7, <1>8, <1>9

\* What the first call of the running function does to the pins.
LEMMA GpioPins ==
    ASSUME TodoInv, PinType, StepGpio, NEW c, c = todo[1]
    PROVE  /\ PinType'
           /\ \/ c.do = "init" /\ GpioInit(c.obj, c.arg, c.val)
              \/ c.do = "write" /\ GpioWrite(c.obj, c.val)
              \/ c.do \notin {"init", "write"} /\ UNCHANGED pinVars
<1>1. todo # <<>> /\ Head(todo) = c /\ Good(radio, c)
  BY TodoIs DEF StepGpio
<1>2. GpioCall(c)
  BY <1>1 DEF StepGpio
<1>3. CASE c.do = "init"
  <2>1. GpioInit(c.obj, c.arg, c.val)
    BY <1>2, <1>3 DEF GpioCall
  <2>2. c.obj \in Obj /\ c.val \in 0 .. 1 /\ HalMode(c.arg) \in {"in", "out"}
    BY <1>1, <1>3, GoodIs
  <2>3. PinType'
    BY <2>1, <2>2, PinIs DEF GpioInit, PinType
  <2> QED
    BY <1>3, <2>1, <2>3
<1>4. CASE c.do = "write"
  <2>1. GpioWrite(c.obj, c.val)
    BY <1>2, <1>4 DEF GpioCall
  <2>2. c.obj \in Obj /\ c.val \in 0 .. 1
    BY <1>1, <1>4, GoodIs
  <2>3. PinType'
    BY <2>1, <2>2, PinIs DEF GpioWrite, PinType
  <2> QED
    BY <1>4, <2>1, <2>3
<1>5. CASE c.do \notin {"init", "write"}
  <2>1. UNCHANGED pinVars
    BY <1>2, <1>5 DEF GpioCall, IrqStore, IrqInit, IrqEnable, IrqDisable, IrqRelease, IrqClear, pinVars
  <2> QED
    BY <1>5, <2>1 DEF PinType, pinVars
<1> QED
  BY <1>3, <1>4, <1>5

\* What it does to the interrupts.
LEMMA GpioIrqs ==
    ASSUME TodoInv, PinType, IrqType, StepGpio, NEW c, c = todo[1]
    PROVE  /\ IrqType'
           /\ \/ c.do = "store" /\ IrqStore(c.obj, c.arg)
              \/ c.do = "irqInit" /\ IrqInit(c.obj)
              \/ c.do = "release" /\ IrqRelease(c.obj)
              \/ c.do = "clear" /\ IrqClear(c.obj)
              \/ c.do \notin {"store", "irqInit", "release", "clear"} /\ UNCHANGED <<GpioIrq, irqSet>>
<1>1. todo # <<>> /\ Head(todo) = c /\ Good(radio, c)
  BY TodoIs DEF StepGpio
<1>2. GpioCall(c) /\ ran' = NotRan
  BY <1>1 DEF StepGpio, Then
<1>3. ran' \in [pin : Pin \cup {NC}, handler : Handlers]
  BY <1>2 DEF NotRan, Handlers
<1>4. c.do \notin {"init", "write"} => c.do \in {"store", "irqInit", "enable", "mask", "release", "clear"}
  BY <1>2 DEF GpioCall
<1>5. CASE c.do \in {"init", "write"}
  <2>1. UNCHANGED irqVars
    BY <1>2, <1>5 DEF GpioCall, GpioInit, GpioWrite
  <2> QED
    BY <1>3, <1>5, <2>1 DEF IrqType, irqVars
<1>6. CASE c.do \notin {"init", "write"}
  <2>1. c.obj \in Obj /\ (c.do = "store" => c.arg \in Handlers)
    BY <1>1, <1>4, <1>6, GoodIs
  <2>2. pin[c.obj] \in Pin \cup {NC} /\ (pin[c.obj] # NC => pin[c.obj] \in Pin /\ Line(pin[c.obj]) \in 0 .. 15)
    BY <2>1, PinIs DEF PinType
  <2>3. CASE c.do = "store"
    <3>1. IrqStore(c.obj, c.arg)
      BY <1>2, <2>3 DEF GpioCall
    <3> QED
      BY <1>3, <2>1, <2>2, <2>3, <3>1 DEF IrqStore, IrqType
  <2>4. CASE c.do = "irqInit"
    <3>1. IrqInit(c.obj)
      BY <1>2, <2>4 DEF GpioCall
    <3> QED
      BY <1>3, <2>2, <2>4, <3>1 DEF IrqInit, IrqType
  <2>5. CASE c.do = "enable"
    <3>1. IrqEnable(c.obj)
      BY <1>2, <2>5 DEF GpioCall
    <3>2. queue' \in Seq(Token)
      <4>1. CASE pin[c.obj] \in latched
        <5>1. pin[c.obj] \in Pin /\ Line(pin[c.obj]) \in 0 .. 15
          BY <4>1, PinIs DEF IrqType
        <5>2. [line |-> Line(pin[c.obj]), pin |-> pin[c.obj]] \in Token
          BY <5>1 DEF Token
        <5>3. queue' = Append(queue, [line |-> Line(pin[c.obj]), pin |-> pin[c.obj]])
          BY <3>1, <4>1 DEF IrqEnable, Post
        <5> QED
          BY <5>2, <5>3 DEF IrqType
      <4>2. CASE pin[c.obj] \notin latched
        BY <3>1, <4>2 DEF IrqEnable, IrqType
      <4> QED
        BY <4>1, <4>2
    <3> QED
      BY <1>3, <2>2, <2>5, <3>1, <3>2 DEF IrqEnable, IrqType
  <2>6. CASE c.do = "mask"
    <3>1. IrqDisable(c.obj)
      BY <1>2, <2>6 DEF GpioCall
    <3> QED
      BY <1>3, <2>6, <3>1 DEF IrqDisable, IrqType
  <2>7. CASE c.do = "release"
    <3>1. IrqRelease(c.obj)
      BY <1>2, <2>7 DEF GpioCall
    <3> QED
      BY <1>3, <2>7, <3>1 DEF IrqRelease, IrqType
  <2>8. CASE c.do = "clear"
    <3>1. IrqClear(c.obj)
      BY <1>2, <2>8 DEF GpioCall
    <3> QED
      BY <1>3, <2>2, <2>8, <3>1 DEF IrqClear, IrqType, Handlers
  <2> QED
    BY <1>4, <1>6, <2>3, <2>4, <2>5, <2>6, <2>7, <2>8
<1> QED
  BY <1>5, <1>6

\* The steps that make a call other than one about a pin.
Others ==
    StepByte \/ StepWait \/ StepCheck \/ StepSleep \/ StepLowPower \/ StepOpMode \/ StepStart \/ StepMac

LEMMA OthersKeep ==
    ASSUME Others
    PROVE  UNCHANGED <<pinVars, GpioIrq, irqSet, irqOn, latched, paDac, request>> /\ queue' \in {queue, <<>>} /\ ran' = NotRan
  BY DEF Others, StepByte, StepWait, StepCheck, StepSleep, StepLowPower, StepOpMode, StepStart, StepMac,
         Then, gpioVars, irqVars, radioVars

\* What happens while the running function waits.
Meanwhile == Interrupt \/ LorawanTask \/ Chip \/ SetPower \/ UNCHANGED vars

LEMMA MeanwhileKeeps ==
    ASSUME Meanwhile
    PROVE  /\ UNCHANGED <<pinVars, GpioIrq, irqSet, todo, radio, RadioIsActive, opMode, spiOn, asleep, started, mem>>
           /\ chip' = chip \/ (chip = "busy" /\ chip' = "ready")
  BY DEF Meanwhile, Interrupt, LorawanTask, Chip, SetPower, vars, others, gpioVars, irqVars, chipVars, radioVars,
         Edge, RunToken, ChipReady, SX1272SetRfTxPower, SX1276SetRfTxPower, SetRfTxPower

\* Next, as the invariants see it.
LEMMA NextIs ==
    ASSUME radio \in Radio, IrqInv, [Next]_vars
    PROVE  Starts \/ StepGpio \/ Others \/ Meanwhile
  BY DriverStarts DEF Next, Step, Others, Meanwhile

LEMMA TypesInit == ASSUME Init PROVE PinType /\ IrqType
  BY PinIs DEF Init, GpioInitial, PinType, IrqType, Handlers, NotRan

LEMMA TypesNext ==
    ASSUME radio \in Radio, TodoInv, IrqInv, PinType, IrqType, [Next]_vars
    PROVE  PinType' /\ IrqType'
<1>1. CASE Starts
  BY <1>1 DEF Starts, PinType, IrqType, Handlers, NotRan, gpioVars, pinVars, irqVars
<1>2. CASE StepGpio
  <2> DEFINE c == todo[1]
  <2>1. c = todo[1]
    OBVIOUS
  <2> HIDE DEF c
  <2> QED
    BY <1>2, <2>1, GpioPins, GpioIrqs
<1>3. CASE Others
  <2>1. /\ UNCHANGED <<pinVars, GpioIrq, irqSet, irqOn, latched>>
        /\ queue' \in {queue, <<>>} /\ ran' = NotRan
    BY <1>3, OthersKeep
  <2>4. <<>> \in Seq(Token) /\ queue \in Seq(Token)
    BY DEF IrqType
  <2>2. queue' \in Seq(Token)
    BY <2>1, <2>4
  <2>3. NotRan \in [pin : Pin \cup {NC}, handler : Handlers]
    BY DEF NotRan, Handlers
  <2> QED
    BY <2>1, <2>2, <2>3 DEF PinType, IrqType, pinVars
<1>4. CASE Interrupt
  <2>1. PICK d \in Dio : Edge(d)
    BY <1>4 DEF Interrupt
  <2>2. UNCHANGED <<pinVars, GpioIrq, irqSet, irqOn>> /\ ran' = NotRan
    BY <1>4, <2>1 DEF Interrupt, Edge
  <2> DEFINE p == PinOf[d]
  <2>3. p \in Pin /\ p \in irqSet /\ Line(p) \in 0 .. 15
    BY <2>1, PinIs DEF Edge, IrqType
  <2>4. \/ queue' = Append(queue, [line |-> Line(p), pin |-> p]) /\ latched' = latched
        \/ latched' = latched \cup {p} /\ queue' = queue
    BY <2>1 DEF Edge, Post
  <2> HIDE DEF p
  <2>5. [line |-> Line(p), pin |-> p] \in Token
    BY <2>3 DEF Token
  <2>7. Append(queue, [line |-> Line(p), pin |-> p]) \in Seq(Token) /\ queue \in Seq(Token)
    BY <2>5 DEF IrqType
  <2>8. latched \cup {p} \in SUBSET irqSet /\ latched \in SUBSET irqSet
    BY <2>3 DEF IrqType
  <2>6. queue' \in Seq(Token) /\ latched' \in SUBSET irqSet
    BY <2>4, <2>7, <2>8
  <2> QED
    BY <2>2, <2>6 DEF PinType, IrqType, Handlers, NotRan, pinVars
<1>5. CASE LorawanTask
  <2>1. /\ UNCHANGED <<pinVars, GpioIrq, irqSet, irqOn, latched>> /\ queue # <<>> /\ queue' = Tail(queue)
        /\ ran' = [pin |-> Head(queue).pin, handler |-> GpioIrq[Head(queue).line]]
    BY <1>5 DEF LorawanTask, RunToken
  <2>2. queue' \in Seq(Token) /\ Head(queue) \in Token
    BY <2>1 DEF IrqType
  <2>3. Head(queue).pin \in Pin /\ GpioIrq[Head(queue).line] \in Handlers
    BY <2>2 DEF Token, IrqType
  <2>4. ran' \in [pin : Pin \cup {NC}, handler : Handlers]
    BY <2>1, <2>3
  <2> QED
    BY <2>1, <2>2, <2>4 DEF PinType, IrqType, pinVars
<1>6. CASE Chip \/ SetPower \/ UNCHANGED vars
  <2>1. UNCHANGED gpioVars /\ ran' \in {ran, NotRan}
    BY <1>6 DEF Chip, SetPower, vars
  <2> QED
    BY <2>1 DEF PinType, IrqType, Handlers, NotRan, gpioVars, pinVars, irqVars
<1> QED
  BY <1>1, <1>2, <1>3, <1>4, <1>5, <1>6, NextIs DEF Meanwhile

-----------------------------------------------------------------------------
(* Objects point to their pins, and Nss is an output, once initialised.    *)

\* Call j of what is to do is one of those that are left, one place earlier.
LEMMA LeftOver ==
    ASSUME TodoInv, todo # <<>>, todo' = Tail(todo), NEW j \in 2 .. Len(todo)
    PROVE  /\ j - 1 \in 1 .. Len(todo') /\ todo'[j - 1] = todo[j]
           /\ OnlyInits(j) => OnlyInits(j - 1)'
<1>1. /\ Len(todo) \in Nat \ {0} /\ Len(todo') = Len(todo) - 1
      /\ \A i \in 1 .. Len(todo) - 1 : todo'[i] = todo[i + 1]
  BY TodoIs
<1>2. j - 1 \in 1 .. Len(todo) - 1 /\ (j - 1) + 1 = j
  BY <1>1
<1>3. ASSUME OnlyInits(j), NEW i \in 1 .. (j - 1) - 1 PROVE todo'[i].do \in {"spi", "init"}
  <2>1. i + 1 \in 1 .. j - 1 /\ i \in 1 .. Len(todo) - 1
    BY <1>1
  <2> QED
    BY <1>1, <1>3, <2>1 DEF OnlyInits
<1> QED
  BY <1>1, <1>2, <1>3 DEF OnlyInits

\* Before a call that initialises nothing no initialisation is awaited.
LEMMA NonePending ==
    ASSUME TodoInv, todo = <<>> \/ todo[1].do \notin {"spi", "init"}
    PROVE  (\A o \in Obj : ~InitPending(o)) /\ ~NssPending(1) /\ ~NssPending(2)
<1>1. ASSUME NEW j \in 1 .. Len(todo), OnlyInits(j) PROVE j = 1 /\ todo[1].do # "init"
  <2>1. Len(todo) \in Nat /\ todo # <<>>
    BY DEF TodoInv, Linked
  <2>2. j # 1 => 1 \in 1 .. j - 1
    BY <2>1
  <2> QED
    BY <1>1, <2>1, <2>2 DEF OnlyInits
<1>2. ASSUME NEW o \in Obj, InitPending(o) PROVE FALSE
  BY <1>1, <1>2 DEF InitPending
<1>3. ASSUME NEW k \in {1, 2}, NssPending(k) PROVE FALSE
  <2>1. Len(todo) \in Nat
    BY DEF TodoInv, Linked
  <2>2. PICK j \in k .. Len(todo) : NssRaised(todo[j]) /\ OnlyInits(j)
    BY <1>3 DEF NssPending
  <2>3. j \in 1 .. Len(todo)
    BY <2>1
  <2> QED
    BY <1>1, <2>2, <2>3 DEF NssRaised
<1> QED
  BY <1>2, <1>3

\* An object that is not about to be initialised points to its pin.
LEMMA PinsSet ==
    ASSUME TodoInv, PinsInv, todo = <<>> \/ todo[1].do \notin {"spi", "init"}, NEW o \in Wired(radio)
    PROVE  pin[o] = PinOf[o]
<1>1. o \in Obj
  BY DEF Wired, Obj, Dio
<1> QED
  BY <1>1, NonePending DEF PinsInv

LEMMA PinsNext ==
    ASSUME radio \in Radio, TodoInv, IrqInv, PinType, PinsInv, [Next]_vars
    PROVE  PinsInv'
<1>0. Wired(radio) \subseteq Obj
  BY DEF Wired, Obj, Dio
<1>1. CASE Starts
  <2>1. UNCHANGED <<pin, radio>> /\ todo = <<>>
    BY <1>1 DEF Starts, gpioVars, pinVars
  <2> QED
    BY <2>1, PinsSet DEF PinsInv
<1>2. CASE StepGpio
  <2> DEFINE c == todo[1]
  <2>1. todo # <<>> /\ todo' = Tail(todo) /\ radio' = radio
    BY <1>2, RunsOn DEF Runs
  <2>2. Good(radio, c) /\ Len(todo) \in Nat \ {0}
    BY <2>1, TodoIs
  <2>3. c = todo[1]
    OBVIOUS
  <2> HIDE DEF c
  <2>4. \/ c.do = "init" /\ GpioInit(c.obj, c.arg, c.val)
        \/ c.do = "write" /\ GpioWrite(c.obj, c.val)
        \/ c.do \notin {"init", "write"} /\ UNCHANGED pinVars
    BY <1>2, <2>3, GpioPins
  <2>5. SUFFICES ASSUME NEW o \in Wired(radio) PROVE pin'[o] = PinOf[o] \/ InitPending(o)'
    BY <2>1 DEF PinsInv
  <2>6. CASE c.do = "init"
    <3>1. pin' = [pin EXCEPT ![c.obj] = PinOf[c.obj]]
      <4>1. c.obj \in Obj /\ GpioInit(c.obj, c.arg, c.val)
        BY <2>2, <2>4, <2>6, GoodIs
      <4> QED
        BY <4>1, PinIs DEF GpioInit
    <3>2. CASE o = c.obj
      BY <1>0, <3>1, <3>2 DEF PinType
    <3>3. CASE o # c.obj
      <4>1. pin'[o] = pin[o]
        BY <1>0, <3>1, <3>3 DEF PinType
      <4>2. ASSUME InitPending(o) PROVE InitPending(o)'
        <5>1. PICK j \in 1 .. Len(todo) : todo[j].do = "init" /\ todo[j].obj = o /\ OnlyInits(j)
          BY <4>2 DEF InitPending
        <5>2. j \in 2 .. Len(todo)
          BY <2>2, <2>3, <3>3, <5>1
        <5> QED
          BY <2>1, <5>1, <5>2, LeftOver DEF InitPending
      <4> QED
        BY <4>1, <4>2 DEF PinsInv
    <3> QED
      BY <3>2, <3>3
  <2>7. CASE c.do # "init"
    <3>1. c.do # "spi"
      BY <1>2, <2>1, <2>3, TodoIs DEF StepGpio, GpioCall
    <3>2. pin' = pin
      BY <2>4, <2>7 DEF GpioWrite, pinVars
    <3> QED
      BY <2>3, <2>7, <3>1, <3>2, PinsSet
  <2> QED
    BY <2>6, <2>7
<1>3. CASE Others
  <2>1. pin' = pin
    BY <1>3, OthersKeep DEF pinVars
  <2>2. CASE StepStart
    <3>1. todo # <<>> /\ todo' = Tail(todo) /\ radio' = radio /\ Len(todo) \in Nat \ {0} /\ todo[1].do # "init"
      BY <2>2, RunsOn, TodoIs DEF Runs, StepStart, Now
    <3>2. SUFFICES ASSUME NEW o \in Wired(radio), InitPending(o) PROVE InitPending(o)'
      BY <2>1, <3>1 DEF PinsInv
    <3>3. PICK j \in 1 .. Len(todo) : todo[j].do = "init" /\ todo[j].obj = o /\ OnlyInits(j)
      BY <3>2 DEF InitPending
    <3>4. j \in 2 .. Len(todo)
      BY <3>1, <3>3
    <3> QED
      BY <3>1, <3>3, <3>4, LeftOver DEF InitPending
  <2>3. CASE ~StepStart
    <3>1. todo # <<>> /\ todo[1].do \notin {"spi", "init"} /\ radio' = radio
      BY <1>3, <2>3, TodoIs DEF Others, StepByte, StepWait, StepCheck, StepSleep, StepLowPower, StepOpMode, StepMac, Now, Then
    <3> QED
      BY <2>1, <3>1, PinsSet DEF PinsInv
  <2> QED
    BY <2>2, <2>3
<1>4. CASE Meanwhile
  BY <1>4, MeanwhileKeeps DEF PinsInv, InitPending, OnlyInits, pinVars
<1> QED
  BY <1>1, <1>2, <1>3, <1>4, NextIs

\* IoInit raises Nss, then makes inputs of the other objects.
InitsAll(r, s, n) ==
    /\ s \in Seq(Calls(r)) /\ Len(s) = n
    /\ NssRaised(s[1])
    /\ \A i \in 1 .. n : s[i].do = "init" /\ s[i].obj # "Ant"
    /\ \A o \in Wired(r) : \E i \in 1 .. n : s[i].obj = o

LEMMA InitsAre ==
    ASSUME NEW r, NEW k \in Nat, NEW pins, \A i \in 1 .. k : pins[i] \in Obj \ {"Nss", "Ant"},
           \A o \in Wired(r) : o = "Nss" \/ \E i \in 1 .. k : pins[i] = o,
           NEW f, f = [i \in 1 .. k |-> InitPin(pins[i], "PIN_INPUT", 0)],
           NEW s, s = <<InitPin("Nss", "PIN_OUTPUT", 1)>> \o f
    PROVE  InitsAll(r, s, k + 1)
<1> DEFINE c == InitPin("Nss", "PIN_OUTPUT", 1)
<1>1. c \in Calls(r) /\ Fields(c, "init", "Nss", "PIN_OUTPUT", 1)
  BY LevelIs, InitPinIs DEF Obj
<1>2. \A o \in Obj \ {"Nss", "Ant"} :
        InitPin(o, "PIN_INPUT", 0) \in Calls(r) /\ Fields(InitPin(o, "PIN_INPUT", 0), "init", o, "PIN_INPUT", 0)
  BY LevelIs, InitPinIs
<1>3. \A i \in 1 .. k : f[i] \in Calls(r) /\ f[i].do = "init" /\ f[i].obj = pins[i]
  BY <1>2 DEF Fields
<1>4. f \in Seq(Calls(r)) /\ Len(f) = k
  <2>1. f = [i \in 1 .. k |-> f[i]]
    OBVIOUS
  <2> QED
    BY <1>3, <2>1, FunctionIs
<1>5. s = <<c>> \o f
  OBVIOUS
<1> HIDE DEF c
<1>6. /\ s \in Seq(Calls(r)) /\ Len(s) = k + 1 /\ s[1] = c
      /\ \A i \in 1 .. k : s[i + 1] = f[i]
      /\ \A i \in 2 .. Len(s) : i - 1 \in 1 .. k /\ s[i] = f[i - 1]
  BY <1>1, <1>4, <1>5, ConsIs
<1>7. NssRaised(s[1]) /\ s[1].do = "init" /\ s[1].obj = "Nss"
  BY <1>1, <1>6 DEF Fields, NssRaised
<1>8. ASSUME NEW i \in 1 .. k + 1 PROVE s[i].do = "init" /\ s[i].obj # "Ant"
  <2>1. CASE i = 1
    BY <1>7, <2>1
  <2>2. CASE i # 1
    <3>1. i - 1 \in 1 .. k /\ s[i] = f[i - 1]
      BY <1>6, <2>2
    <3> QED
      BY <1>3, <3>1
  <2> QED
    BY <2>1, <2>2
<1>9. ASSUME NEW o \in Wired(r) PROVE \E i \in 1 .. k + 1 : s[i].obj = o
  <2>1. CASE o = "Nss"
    BY <1>7, <2>1
  <2>2. CASE o # "Nss"
    <3>1. PICK i \in 1 .. k : pins[i] = o
      BY <2>2
    <3>2. i + 1 \in 1 .. k + 1 /\ s[i + 1].obj = o
      BY <1>3, <1>6, <3>1
    <3> QED
      BY <3>2
  <2> QED
    BY <2>1, <2>2
<1> QED
  BY <1>6, <1>7, <1>8, <1>9 DEF InitsAll

LEMMA IoInitAll == ASSUME NEW r \in Radio PROVE \E n \in Nat \ {0} : InitsAll(r, IoInit(r), n)
<1>1. r \in {"SX126x", "SX1272", "SX1276"}
  BY RadioAssumption
<1>2. CASE r = "SX126x"
  <2> DEFINE pins == <<"Busy", "DIO1", "DIO2", "DIO3">>
             f == [i \in 1 .. 4 |-> InitPin(pins[i], "PIN_INPUT", 0)]
  <2>1. \A i \in 1 .. 4 : pins[i] \in Obj \ {"Nss", "Ant"}
    BY DEF Obj, Dio
  <2>2. \A o \in Wired(r) : o = "Nss" \/ \E i \in 1 .. 4 : pins[i] = o
    <3>1. pins[1] = "Busy" /\ pins[2] = "DIO1" /\ pins[3] = "DIO2" /\ pins[4] = "DIO3"
      OBVIOUS
    <3>2. {1, 2, 3, 4} \subseteq 1 .. 4
      OBVIOUS
    <3> HIDE DEF pins
    <3> QED
      BY <1>2, <3>1, <3>2 DEF Wired
  <2>3. IoInit(r) = <<InitPin("Nss", "PIN_OUTPUT", 1)>> \o f
    BY <1>2 DEF IoInit, SX126xIoInit
  <2> HIDE DEF pins
  <2> DEFINE k == 4
  <2>4. k \in Nat /\ k + 1 \in Nat \ {0} /\ f = [i \in 1 .. k |-> InitPin(pins[i], "PIN_INPUT", 0)]
    OBVIOUS
  <2>5. /\ \A i \in 1 .. k : pins[i] \in Obj \ {"Nss", "Ant"}
        /\ \A o \in Wired(r) : o = "Nss" \/ \E i \in 1 .. k : pins[i] = o
    BY <2>1, <2>2
  <2> HIDE DEF f, k
  <2>6. InitsAll(r, IoInit(r), k + 1)
    BY <2>3, <2>4, <2>5, InitsAre
  <2> QED
    BY <2>4, <2>6
<1>3. CASE r # "SX126x"
  <2> DEFINE f == [i \in 1 .. 6 |-> InitPin(Dios[i], "PIN_INPUT", 0)]
  <2>1. \A i \in 1 .. 6 : Dios[i] \in Obj \ {"Nss", "Ant"}
    BY DEF Dios, Obj, Dio
  <2>2. \A o \in Wired(r) : o = "Nss" \/ \E i \in 1 .. 6 : Dios[i] = o
    <3>1. /\ Dios[1] = "DIO0" /\ Dios[2] = "DIO1" /\ Dios[3] = "DIO2"
          /\ Dios[4] = "DIO3" /\ Dios[5] = "DIO4" /\ Dios[6] = "DIO5"
      BY DEF Dios
    <3>2. {1, 2, 3, 4, 5, 6} \subseteq 1 .. 6
      OBVIOUS
    <3> QED
      BY <1>3, <3>1, <3>2 DEF Wired, Dio
  <2>3. IoInit(r) = <<InitPin("Nss", "PIN_OUTPUT", 1)>> \o f
    BY <1>1, <1>3 DEF IoInit, SX1272IoInit, SX1276IoInit, IoInit127x
  <2> DEFINE k == 6
  <2>4. k \in Nat /\ k + 1 \in Nat \ {0} /\ f = [i \in 1 .. k |-> InitPin(Dios[i], "PIN_INPUT", 0)]
    OBVIOUS
  <2>5. /\ \A i \in 1 .. k : Dios[i] \in Obj \ {"Nss", "Ant"}
        /\ \A o \in Wired(r) : o = "Nss" \/ \E i \in 1 .. k : Dios[i] = o
    BY <2>1, <2>2
  <2> HIDE DEF f, k
  <2>6. InitsAll(r, IoInit(r), k + 1)
    BY <2>3, <2>4, <2>5, InitsAre
  <2> QED
    BY <2>4, <2>6
<1> QED
  BY <1>2, <1>3

\* What start-up has to do.
StartsUp(r, s, n) ==
    /\ s # <<>> /\ Len(s) = n + 4
    /\ s[1].do = "spi" /\ NssRaised(s[2])
    /\ \A i \in 2 .. n + 1 : s[i].do = "init" /\ s[i].obj # "Ant"
    /\ \A o \in Wired(r) : \E i \in 2 .. n + 1 : s[i].obj = o
    /\ s[n + 2].do = "eventq" /\ s[n + 3].do = "task" /\ s[n + 4].do = "mac"

LEMMA InitTodoIs ==
    ASSUME NEW r \in Radio, NEW s, s = lorawan_init(r) \o lorawan_api_private_init
    PROVE  \E n \in Nat \ {0} : StartsUp(r, s, n)
<1> DEFINE f == IoInit(r)
           p == lorawan_init(r)
           q == lorawan_api_private_init
           c == Do("spi")
<1>1. PICK n \in Nat \ {0} : InitsAll(r, f, n)
  BY IoInitAll
<1>2. c \in Calls(r) /\ c.do = "spi"
  BY DoIs DEF Fields
<1>3. p = <<c>> \o f /\ f \in Seq(Calls(r))
  BY <1>1 DEF lorawan_init, InitsAll
<1>4. /\ q \in Seq(Calls(r)) /\ Len(q) = 3
      /\ q[1].do = "eventq" /\ q[2].do = "task" /\ q[3].do = "mac"
  BY PrivateInitIs
<1>5. s = p \o q
  OBVIOUS
<1> HIDE DEF f, p, q, c
<1>6. /\ p \in Seq(Calls(r)) /\ Len(p) = n + 1 /\ p[1] = c
      /\ \A i \in 1 .. n : p[i + 1] = f[i]
  BY <1>1, <1>2, <1>3, ConsIs DEF InitsAll
<1>7. /\ s \in Seq(Calls(r)) /\ Len(s) = Len(p) + Len(q)
      /\ \A i \in 1 .. Len(p) : s[i] = p[i]
      /\ \A i \in 1 .. Len(q) : s[Len(p) + i] = q[i]
  <2>1. p \in Seq(Calls(r)) /\ q \in Seq(Calls(r))
    BY <1>4, <1>6
  <2>2. /\ p \o q \in Seq(Calls(r)) /\ Len(p \o q) = Len(p) + Len(q)
        /\ \A i \in 1 .. Len(p) : (p \o q)[i] = p[i]
        /\ \A i \in 1 .. Len(q) : (p \o q)[Len(p) + i] = q[i]
    BY <2>1, Concat
  <2> QED
    BY <1>5, <2>2
<1>8. Len(s) = n + 4 /\ s # <<>>
  <2>1. Len(s) = n + 4
    BY <1>4, <1>6, <1>7
  <2> QED
    BY <1>7, <2>1, EmptyIs
<1>9. s[n + 2].do = "eventq" /\ s[n + 3].do = "task" /\ s[n + 4].do = "mac"
  <2>1. {1, 2, 3} \subseteq 1 .. Len(q) /\ Len(p) + 1 = n + 2 /\ Len(p) + 2 = n + 3 /\ Len(p) + 3 = n + 4
    BY <1>4, <1>6
  <2>2. s[Len(p) + 1] = q[1] /\ s[Len(p) + 2] = q[2] /\ s[Len(p) + 3] = q[3]
    BY <1>7, <2>1
  <2> QED
    BY <1>4, <2>1, <2>2
<1>10. s[1].do = "spi"
  BY <1>2, <1>6, <1>7
<1>11. \A i \in 1 .. n : i + 1 \in 2 .. n + 1 /\ s[i + 1] = f[i]
  BY <1>6, <1>7
<1>12. NssRaised(s[2])
  <2>1. 1 \in 1 .. n /\ 1 + 1 = 2
    OBVIOUS
  <2>2. s[1 + 1] = f[1]
    BY <1>11, <2>1
  <2> QED
    BY <1>1, <2>1, <2>2 DEF InitsAll
<1>13. ASSUME NEW i \in 2 .. n + 1 PROVE s[i].do = "init" /\ s[i].obj # "Ant"
  <2>1. i - 1 \in 1 .. n /\ (i - 1) + 1 = i
    OBVIOUS
  <2>2. s[(i - 1) + 1] = f[i - 1]
    BY <1>11, <2>1
  <2>3. f[i - 1].do = "init" /\ f[i - 1].obj # "Ant"
    BY <1>1, <2>1 DEF InitsAll
  <2> QED
    BY <2>1, <2>2, <2>3
<1>14. ASSUME NEW o \in Wired(r) PROVE \E i \in 2 .. n + 1 : s[i].obj = o
  <2>1. PICK i \in 1 .. n : f[i].obj = o
    BY <1>1 DEF InitsAll
  <2> QED
    BY <1>11, <2>1
<1> QED
  BY <1>8, <1>9, <1>10, <1>12, <1>13, <1>14 DEF StartsUp

LEMMA PinsInit == ASSUME Init PROVE PinsInv /\ IrqInv /\ IoInv
<1>1. radio \in Radio /\ todo = lorawan_init(radio) \o lorawan_api_private_init
  BY DEF Init
<1>0. PICK n \in Nat \ {0} : StartsUp(radio, todo, n)
  BY <1>1, InitTodoIs
<1>2. /\ todo # <<>> /\ Len(todo) = n + 4
      /\ todo[1].do = "spi" /\ NssRaised(todo[2])
      /\ \A i \in 2 .. n + 1 : todo[i].do = "init"
      /\ \A o \in Wired(radio) : \E i \in 2 .. n + 1 : todo[i].obj = o
  BY <1>0 DEF StartsUp
<1>3. \A j \in 2 .. n + 1 : OnlyInits(j)
  <2> SUFFICES ASSUME NEW j \in 2 .. n + 1, NEW i \in 1 .. j - 1 PROVE todo[i].do \in {"spi", "init"}
    BY DEF OnlyInits
  <2>1. i = 1 \/ i \in 2 .. n + 1
    OBVIOUS
  <2> QED
    BY <1>2, <2>1
<1>4. PinsInv
  <2> SUFFICES ASSUME NEW o \in Wired(radio) PROVE InitPending(o)
    BY DEF PinsInv
  <2>1. PICK i \in 2 .. n + 1 : todo[i].obj = o
    BY <1>2
  <2>2. i \in 1 .. Len(todo)
    BY <1>2
  <2> QED
    BY <1>2, <1>3, <2>1, <2>2 DEF InitPending
<1>5. IoInv
  <2>1. 2 \in 1 .. Len(todo) /\ 2 \in 2 .. n + 1
    BY <1>2
  <2> QED
    BY <1>2, <1>3, <2>1 DEF IoInv, NssPending, NssDropped
<1>6. IrqInv
  <2>1. irqSet = {} /\ \A l \in 0 .. 15 : GpioIrq[l] = NULL
    BY DEF Init, GpioInitial
  <2>2. \A d \in Dio : PinOf[d] # NC => Line(PinOf[d]) \in 0 .. 15
    BY PinIs DEF Obj
  <2> QED
    BY <1>2, <2>1, <2>2 DEF IrqInv
<1> QED
  BY <1>4, <1>5, <1>6

-----------------------------------------------------------------------------
(* The handlers.                                                           *)

\* What comes after the call that a step makes.
LEMMA NextCall ==
    ASSUME TodoInv, Runs
    PROVE  /\ todo' # <<>> => Link(todo[1], todo'[1])
           /\ todo' = <<>> => Closing(todo[1]) \/ todo[1].do = "mac"
<1>1. todo # <<>> /\ todo' = Tail(todo)
  BY RunsOn
<1>2. Len(todo) \in Nat \ {0} /\ Len(todo') = Len(todo) - 1
  BY <1>1, TodoIs
<1>3. CASE Len(todo) = 1
  BY <1>1, <1>3, TodoIs
<1>4. CASE Len(todo) > 1
  BY <1>1, <1>4, TodoIs
<1> QED
  BY <1>2, <1>3, <1>4

LEMMA IrqQuiet ==
    ASSUME IrqInv, UNCHANGED <<GpioIrq, irqSet, radio>>,
           todo = <<>> \/ todo[1].do \notin {"irqInit", "clear"},
           todo' = <<>> \/ todo'[1].do \notin {"irqInit", "clear"}
    PROVE  IrqInv'
  BY DEF IrqInv

\* The same for the line of one object.
LineOk(d) ==
    PinOf[d] # NC =>
        LET h == GpioIrq[Line(PinOf[d])]
            at == todo # <<>> /\ todo[1].obj = d
        IN  /\ PinOf[d] \in irqSet => h = Handler[d]
            /\ PinOf[d] \notin irqSet => h = NULL \/ (at /\ todo[1].do \in {"irqInit", "clear"})
            /\ at /\ todo[1].do = "irqInit" => h = Handler[d]
            /\ at /\ todo[1].do = "clear" => PinOf[d] \notin irqSet

\* A step of the pins touches the line of the call's object only.
LEMMA OtherLine ==
    ASSUME TodoInv, IrqType, NEW o \in Dio, NEW d \in Dio, d # o, LineOk(d), todo # <<>>, todo[1].obj = o,
           todo' # <<>> /\ todo'[1].do \in {"irqInit", "clear"} => todo'[1].obj = o,
           irqSet' \in {irqSet, irqSet \cup ({PinOf[o]} \ {NC}), irqSet \ {PinOf[o]}},
           \E h \in Handlers : GpioIrq' \in {GpioIrq, IF PinOf[o] # NC THEN [GpioIrq EXCEPT ![Line(PinOf[o])] = h] ELSE GpioIrq}
    PROVE  LineOk(d)'
<1> SUFFICES ASSUME PinOf[d] # NC PROVE LineOk(d)'
  BY DEF LineOk
<1>1. PinOf[o] # NC => Line(PinOf[o]) # Line(PinOf[d]) /\ PinOf[o] # PinOf[d]
  BY PinAssumption
<1>2. Line(PinOf[d]) \in 0 .. 15 /\ d \in Obj /\ (PinOf[o] # NC => Line(PinOf[o]) \in 0 .. 15)
  BY PinIs DEF Obj
<1>3. GpioIrq'[Line(PinOf[d])] = GpioIrq[Line(PinOf[d])]
  BY <1>1, <1>2 DEF IrqType
<1>4. PinOf[d] \in irqSet' <=> PinOf[d] \in irqSet
  BY <1>1
<1> QED
  BY <1>3, <1>4 DEF LineOk

LEMMA IrqNext ==
    ASSUME radio \in Radio, TodoInv, IrqInv, PinType, IrqType, PinsInv, [Next]_vars
    PROVE  IrqInv'
<1>1. CASE Starts
  <2>1. UNCHANGED <<GpioIrq, irqSet, radio>> /\ todo = <<>> /\ todo'[1].do \notin {"irqInit", "clear"}
    BY <1>1 DEF Starts, Begins, gpioVars, irqVars
  <2> QED
    BY <2>1, IrqQuiet
<1>2. CASE StepGpio
  <2>0. PICK c : c = todo[1]
    OBVIOUS
  <2>00. PICK o : o = c.obj
    OBVIOUS
  <2>1. todo # <<>> /\ todo' = Tail(todo) /\ radio' = radio /\ Good(radio, c)
    BY <1>2, <2>0, RunsOn, TodoIs DEF Runs
  <2>2. /\ todo' # <<>> => Link(c, todo'[1])
        /\ todo' = <<>> => Closing(c) \/ c.do = "mac"
    BY <1>2, <2>0, NextCall DEF Runs
  <2>3. c = todo[1] /\ o = c.obj
    BY <2>0, <2>00
  <2>4. \/ c.do = "store" /\ IrqStore(o, c.arg)
        \/ c.do = "irqInit" /\ IrqInit(o)
        \/ c.do = "release" /\ IrqRelease(o)
        \/ c.do = "clear" /\ IrqClear(o)
        \/ c.do \notin {"store", "irqInit", "release", "clear"} /\ UNCHANGED <<GpioIrq, irqSet>>
    BY <1>2, <2>3, GpioIrqs
  <2>5. CASE c.do \notin {"store", "irqInit", "release", "clear"}
    <3>1. todo' = <<>> \/ todo'[1].do \notin {"irqInit", "clear"}
      BY <2>2, <2>5 DEF Link
    <3> QED
      BY <2>1, <2>3, <2>4, <2>5, <3>1, IrqQuiet
  <2>6. CASE c.do \in {"store", "irqInit", "release", "clear"}
    <3>1. o \in Dio \cap Wired(radio) /\ (c.do = "store" => c.arg \in Handlers /\ c.arg = Handler[o])
      BY <2>1, <2>3, <2>6, GoodIs DEF Good
    <3>2. pin[o] = PinOf[o]
      BY <2>1, <2>3, <2>6, <3>1, PinsSet
    <3>3. todo' # <<>> =>
            /\ todo'[1].do = "irqInit" <=> c.do = "store"
            /\ todo'[1].do = "clear" <=> c.do = "release"
            /\ c.do \in {"store", "release"} => todo'[1].obj = o
      BY <2>2, <2>3 DEF Link
    <3>4. c.do \in {"store", "release"} => todo' # <<>>
      BY <2>2 DEF Closing
    <3>5. /\ irqSet' = IF c.do = "irqInit" THEN irqSet \cup ({PinOf[o]} \ {NC})
                       ELSE IF c.do = "release" THEN irqSet \ {PinOf[o]} ELSE irqSet
          /\ GpioIrq' = IF c.do \in {"store", "clear"} /\ PinOf[o] # NC
                        THEN [GpioIrq EXCEPT ![Line(PinOf[o])] = IF c.do = "store" THEN c.arg ELSE NULL] ELSE GpioIrq
      BY <2>4, <2>6, <3>2 DEF IrqStore, IrqInit, IrqRelease, IrqClear
    <3>6. irqSet' \subseteq {PinOf[d] : d \in Dio \cap Wired(radio)} \ {NC}
      BY <3>1, <3>5 DEF IrqInv
    <3>7. \A d \in Dio : LineOk(d)
      BY DEF IrqInv, LineOk
    <3>8. ASSUME NEW d \in Dio, d # o PROVE LineOk(d)'
      <4>1. /\ irqSet' \in {irqSet, irqSet \cup ({PinOf[o]} \ {NC}), irqSet \ {PinOf[o]}}
            /\ \E h \in Handlers :
                GpioIrq' \in {GpioIrq, IF PinOf[o] # NC THEN [GpioIrq EXCEPT ![Line(PinOf[o])] = h] ELSE GpioIrq}
        <5>1. NULL \in Handlers
          BY DEF Handlers
        <5> QED
          BY <3>1, <3>5, <5>1
      <4>2. todo' # <<>> /\ todo'[1].do \in {"irqInit", "clear"} => todo'[1].obj = o
        BY <3>3
      <4> QED
        BY <2>1, <2>3, <3>1, <3>7, <3>8, <4>1, <4>2, OtherLine
    <3>9. LineOk(o)'
      <4> SUFFICES ASSUME PinOf[o] # NC PROVE LineOk(o)'
        BY DEF LineOk
      <4>1. Line(PinOf[o]) \in 0 .. 15 /\ LineOk(o)
        BY <3>1, <3>7, PinIs DEF Obj
      <4> DEFINE h == GpioIrq[Line(PinOf[o])]
      <4>2. h' = IF c.do = "store" THEN Handler[o] ELSE IF c.do = "clear" THEN NULL ELSE h
        BY <3>1, <3>5, <4>1 DEF IrqType
      <4>3. CASE c.do = "store"
        BY <2>1, <2>3, <3>3, <3>4, <3>5, <4>2, <4>3 DEF LineOk
      <4>4. CASE c.do = "irqInit"
        <5>1. h = Handler[o]
          BY <2>1, <2>3, <4>1, <4>4 DEF LineOk
        <5>2. PinOf[o] \in irqSet'
          BY <3>5, <4>4
        <5> QED
          BY <3>3, <4>2, <4>4, <5>1, <5>2 DEF LineOk
      <4>5. CASE c.do = "release"
        <5>1. PinOf[o] \notin irqSet'
          BY <3>5, <4>5
        <5> QED
          BY <3>3, <3>4, <4>5, <5>1 DEF LineOk
      <4>6. CASE c.do = "clear"
        <5>1. PinOf[o] \notin irqSet'
          BY <2>1, <2>3, <3>5, <4>1, <4>6 DEF LineOk
        <5> QED
          BY <3>3, <4>2, <4>6, <5>1 DEF LineOk
      <4> QED
        BY <2>6, <4>3, <4>4, <4>5, <4>6
    <3>10. \A d \in Dio : LineOk(d)'
      BY <3>8, <3>9
    <3> QED
      BY <2>1, <3>6, <3>10 DEF IrqInv, LineOk
  <2> QED
    BY <2>5, <2>6
<1>3. CASE Others
  <2>1. UNCHANGED <<GpioIrq, irqSet>>
    BY <1>3, OthersKeep
  <2>2. todo # <<>> /\ todo[1].do \notin {"irqInit", "clear", "store", "release"} /\ radio' = radio
    BY <1>3, TodoIs DEF Others, StepByte, StepWait, StepCheck, StepSleep, StepLowPower, StepOpMode, StepStart, StepMac, Now, Then
  <2>3. todo' = <<>> \/ todo'[1].do \notin {"irqInit", "clear"}
    <3>1. CASE Runs
      BY <2>2, <3>1, NextCall DEF Link
    <3>2. CASE StepCheck
      BY <3>2, CheckGrows
    <3>3. CASE StepLowPower
      <4>1. CASE RadioIsActive = (todo[1].arg = "sleep")
        <5>1. todo' = Tail(todo) /\ Len(todo) > 1 /\ Link(todo[1], todo[2]) /\ todo # <<>>
          BY <3>3, <4>1, LowPowerGrows
        <5>2. todo'[1] = todo[2]
          BY <5>1, TodoIs
        <5> QED
          BY <2>2, <5>1, <5>2 DEF Link
      <4>2. CASE RadioIsActive # (todo[1].arg = "sleep")
        BY <3>3, <4>2, LowPowerGrows DEF Fields
      <4> QED
        BY <4>1, <4>2
    <3>4. CASE StepMac
      BY <3>4, MacGrows DEF Begins
    <3> QED
      BY <1>3, <3>1, <3>2, <3>3, <3>4 DEF Others, Runs
  <2> QED
    BY <2>1, <2>2, <2>3, IrqQuiet
<1>4. CASE Meanwhile
  BY <1>4, MeanwhileKeeps DEF IrqInv
<1> QED
  BY <1>1, <1>2, <1>3, <1>4, NextIs

\* What the proofs about pins and interrupts need, together.
PinState == radio \in Radio /\ TodoInv /\ PinType /\ IrqType /\ IrqInv /\ PinsInv

LEMMA PinStateNext ==
    ASSUME PinState, [Next]_vars
    PROVE  PinState' /\ radio' = radio
<1>1. radio' \in Radio /\ radio' = radio /\ TodoInv'
  BY TodoNext DEF PinState
<1>2. PinType' /\ IrqType'
  BY TypesNext DEF PinState
<1>3. IrqInv'
  BY IrqNext DEF PinState
<1>4. PinsInv'
  BY PinsNext DEF PinState
<1> QED
  BY <1>1, <1>2, <1>3, <1>4 DEF PinState

LEMMA PinStateInit == ASSUME Init PROVE PinState
  BY TodoInit, TypesInit, PinsInit DEF PinState

(* Whatever the board, its pins and the driver's handlers, and in whatever *)
(* order the driver calls, masks, removes and listens again: a configured  *)
(* interrupt has its own pin's handler in its line, and between calls a    *)
(* line without a configured interrupt has none (gpio-board.c stores the   *)
(* handler before it configures the pin, and clears it after).             *)
THEOREM HandlersAreOwn == Spec => []HandlersMatchPins
<1>1. Init => PinState
  BY PinStateInit
<1>2. PinState /\ [Next]_vars => PinState'
  BY PinStateNext
<1>3. PinState => HandlersMatchPins
  BY DEF PinState, IrqInv, HandlersMatchPins, Idle
<1> QED
  BY <1>1, <1>2, <1>3, PTL DEF Spec

-----------------------------------------------------------------------------
(* The pins of the bus and of the switch.                                  *)

\* What a step does to the pin of one object: only an initialisation of the
\* object, or a write to it, changes the pin.
LEMMA PinEffect ==
    ASSUME PinState, StepGpio, NEW c, c = todo[1], NEW o \in Obj, PinOf[o] # NC
    PROVE  /\ c.do = "init" /\ c.obj = o =>
                /\ mode'[PinOf[o]] = HalMode(c.arg) /\ pin'[o] = PinOf[o]
                /\ level'[PinOf[o]] = (IF c.arg = "PIN_OUTPUT" THEN c.val ELSE level[PinOf[o]])
           /\ ~(c.do = "init" /\ c.obj = o) => mode'[PinOf[o]] = mode[PinOf[o]] /\ pin'[o] = pin[o]
           /\ c.do = "write" /\ pin[c.obj] = PinOf[c.obj] =>
                level'[PinOf[o]] = (IF c.obj = o THEN c.val ELSE level[PinOf[o]])
           /\ c.do = "init" /\ c.obj # o => level'[PinOf[o]] = level[PinOf[o]]
           /\ c.do \notin {"init", "write"} => level'[PinOf[o]] = level[PinOf[o]]
<1>1. /\ \/ c.do = "init" /\ GpioInit(c.obj, c.arg, c.val)
         \/ c.do = "write" /\ GpioWrite(c.obj, c.val)
         \/ c.do \notin {"init", "write"} /\ UNCHANGED pinVars
      /\ PinType
  BY GpioPins DEF PinState
<1>2. Good(radio, c)
  BY TodoIs DEF PinState, StepGpio
<1>3. c.do \in {"init", "write"} => c.obj \in Obj
  BY <1>2, GoodIs
<1>4. PinOf[o] \in Pin /\ \A q \in Obj : PinOf[q] < IOE_0 /\ (PinOf[q] # NC => PinOf[q] \in Pin)
  BY PinIs
<1>5. \A q \in Obj : q # o => PinOf[q] # PinOf[o]
  BY PinAssumption
<1>6. CASE c.do = "init"
  BY <1>1, <1>3, <1>4, <1>5, <1>6 DEF GpioInit, PinType
<1>7. CASE c.do = "write"
  BY <1>1, <1>3, <1>4, <1>5, <1>7 DEF GpioWrite, PinType
<1>8. CASE c.do \notin {"init", "write"}
  BY <1>1, <1>8, SMTT(30) DEF pinVars
<1> QED
  BY <1>6, <1>7, <1>8

LEMMA NssWired == PinOf["Nss"] # NC /\ PinOf["Busy"] # NC /\ PinOf["Reset"] # NC
                  /\ "Nss" \in Obj /\ "Busy" \in Obj /\ "Reset" \in Obj /\ "Ant" \in Obj
  BY Sx126xAssumption, SMTT(30) DEF Obj

\* A step that leaves IoInit's promise about Nss to the calls that are left.
LEMMA PendingLeft ==
    ASSUME TodoInv, todo # <<>>, todo' = Tail(todo), NssPending(1), ~NssRaised(todo[1]) \/ NssPending(2)
    PROVE  NssPending(1)'
<1>1. PICK j \in 2 .. Len(todo) : NssRaised(todo[j]) /\ OnlyInits(j)
  <2>1. Len(todo) \in Nat
    BY TodoIs
  <2> QED
    BY <2>1 DEF NssPending
<1>2. j - 1 \in 1 .. Len(todo') /\ todo'[j - 1] = todo[j] /\ OnlyInits(j - 1)'
  BY <1>1, LeftOver
<1> QED
  BY <1>1, <1>2 DEF NssPending

LEMMA IoNext ==
    ASSUME PinState, IoInv, [Next]_vars
    PROVE  IoInv'
<1>0. radio \in Radio /\ TodoInv /\ IrqInv
  BY DEF PinState
<1>1. CASE Starts
  <2>1. IoUp /\ mode' = mode /\ Begins(radio, todo') /\ todo' # <<>>
    BY <1>1 DEF Starts, Begins, IoInv, NssPending, gpioVars, pinVars
  <2>2. NssDropped(todo'[1]) =>
            \E j \in 2 .. Len(todo') : NssRaised(todo'[j]) /\ \A i \in 1 .. j - 1 : todo'[i].do \in {"spi", "init"}
    BY <2>1 DEF Begins
  <2>3. NssDropped(todo'[1]) => NssPending(2)'
    BY <2>2 DEF NssPending, OnlyInits
  <2> QED
    BY <2>1, <2>3 DEF IoInv, IoUp
<1>2. CASE Runs
  <2>0. PICK c : c = todo[1]
    OBVIOUS
  <2>1. todo # <<>> /\ todo' = Tail(todo) /\ (todo' # <<>> => ~NssDropped(todo'[1]))
    BY <1>0, <1>2, RunsOn, NextCall DEF Link
  <2>2. CASE IoUp /\ ~NssDropped(c)
    <3>1. IoUp'
      <4>1. CASE StepGpio
        BY <2>0, <2>2, <4>1, PinEffect, NssWired DEF IoUp, NssDropped, HalMode
      <4>2. CASE ~StepGpio
        BY <1>2, <2>2, <4>2, OthersKeep DEF Runs, Others, IoUp, pinVars
      <4> QED
        BY <4>1, <4>2
    <3> QED
      BY <2>1, <3>1 DEF IoInv
  <2>3. CASE NssRaised(c)
    <3>1. StepGpio
      BY <1>0, <1>2, <2>0, <2>3, TodoIs
         DEF NssRaised, Runs, StepByte, StepWait, StepSleep, StepOpMode, StepStart, Now
    <3>2. IoUp'
      BY <2>0, <2>3, <3>1, PinEffect, NssWired DEF IoUp, NssRaised, HalMode
    <3> QED
      BY <2>1, <3>2 DEF IoInv
  <2>4. CASE ~NssRaised(c) /\ ~(IoUp /\ ~NssDropped(c))
    <3>1. NssPending(1)
      <4>1. CASE NssDropped(c)
        <5>1. Len(todo) \in Nat /\ NssPending(2)
          BY <1>0, <2>0, <2>1, <4>1, TodoIs DEF IoInv
        <5> QED
          BY <5>1 DEF NssPending
      <4> QED
        BY <2>4, <4>1 DEF IoInv
    <3>2. NssPending(1)'
      BY <1>0, <2>0, <2>1, <2>4, <3>1, PendingLeft
    <3> QED
      BY <2>1, <3>2 DEF IoInv
  <2> QED
    BY <2>2, <2>3, <2>4
<1>3. CASE StepCheck \/ StepLowPower \/ StepMac
  <2>1. todo # <<>> /\ todo[1].do \notin {"spi", "init"}
    BY <1>0, <1>3, CheckGrows, LowPowerGrows, MacGrows
  <2>2. IoUp'
    BY <1>0, <1>3, <2>1, NonePending, OthersKeep DEF Others, IoInv, IoUp, pinVars
  <2>3. todo' # <<>> /\ NssDropped(todo'[1]) => NssPending(2)'
    <3>1. CASE StepCheck
      BY <1>0, <3>1, CheckGrows DEF NssDropped
    <3>2. CASE StepLowPower
      <4>1. CASE RadioIsActive = (todo[1].arg = "sleep")
        <5>1. todo' = Tail(todo) /\ Len(todo) > 1 /\ Link(todo[1], todo[2]) /\ todo # <<>>
          BY <1>0, <3>2, <4>1, LowPowerGrows
        <5>2. todo'[1] = todo[2]
          BY <1>0, <5>1, TodoIs
        <5> QED
          BY <5>1, <5>2 DEF Link
      <4>2. CASE RadioIsActive # (todo[1].arg = "sleep")
        BY <1>0, <3>2, <4>2, LowPowerGrows DEF Fields, NssDropped
      <4> QED
        BY <4>1, <4>2
    <3>3. CASE StepMac
      <4>1. NssDropped(todo'[1]) =>
                \E j \in 2 .. Len(todo') : NssRaised(todo'[j]) /\ \A i \in 1 .. j - 1 : todo'[i].do \in {"spi", "init"}
        BY <1>0, <3>3, MacGrows DEF Begins
      <4> QED
        BY <4>1 DEF NssPending, OnlyInits
    <3> QED
      BY <1>3, <3>1, <3>2, <3>3
  <2> QED
    BY <2>2, <2>3 DEF IoInv
<1>4. CASE Meanwhile
  BY <1>4, MeanwhileKeeps DEF IoInv, IoUp, NssPending, OnlyInits, pinVars
<1>5. Starts \/ Runs \/ StepCheck \/ StepLowPower \/ StepMac \/ Meanwhile
  BY <1>0, NextIs DEF Others, Runs
<1> QED
  BY <1>1, <1>2, <1>3, <1>4, <1>5

-----------------------------------------------------------------------------
(* The bus.                                                                *)

\* Only the enabling of BUSY's interrupt ends the wake-up.
LEMMA WakingLeft ==
    ASSUME TodoInv, todo # <<>>, todo' = Tail(todo)
    PROVE  /\ Waking /\ todo[1].do # "enable" => Waking'
           /\ (\E j \in 2 .. Len(todo) : BusyEnabled(todo[j])) => Waking'
<1>1. todo \in Seq(Calls(radio)) /\ Len(todo) \in Nat \ {0} /\ Tail(todo) \in Seq(Calls(radio))
      /\ Len(todo') = Len(todo) - 1 /\ \A i \in 1 .. Len(todo) - 1 : todo'[i] = todo[i + 1]
  BY TodoIs
<1>2. DOMAIN todo = 1 .. Len(todo) /\ DOMAIN todo' = 1 .. Len(todo) - 1
  BY <1>1
<1>3. ASSUME NEW i \in 2 .. Len(todo), BusyEnabled(todo[i]) PROVE Waking'
  <2>1. i - 1 \in 1 .. Len(todo) - 1 /\ todo'[i - 1] = todo[i]
    BY <1>1
  <2> QED
    BY <1>2, <1>3, <2>1 DEF Waking, BusyEnabled
<1>4. ASSUME Waking, todo[1].do # "enable" PROVE \E i \in 2 .. Len(todo) : BusyEnabled(todo[i])
  <2>1. PICK i \in 1 .. Len(todo) : todo[i].do = "enable" /\ todo[i].obj = "Busy"
    BY <1>2, <1>4 DEF Waking
  <2>2. i \in 2 .. Len(todo)
    BY <1>1, <1>4, <2>1
  <2> QED
    BY <2>1, <2>2 DEF BusyEnabled
<1> QED
  BY <1>3, <1>4

\* Nss is an output before every call that initialises nothing.
LEMMA IoIsUp ==
    ASSUME TodoInv, IoInv, todo = <<>> \/ todo[1].do \notin {"spi", "init"}
    PROVE  IoUp
  BY NonePending DEF IoInv

LEMMA BusInit == ASSUME Init PROVE BusInv
<1>1. radio \in Radio
  BY DEF Init
<1>2. PICK n \in Nat \ {0} : StartsUp(radio, todo, n)
  BY <1>1, InitTodoIs DEF Init
<1>3. todo # <<>> /\ todo[1].do = "spi"
  BY <1>2 DEF StartsUp
<1>4. PinOf["Nss"] \in Pin /\ PinOf["Reset"] \in Pin
  BY NssWired, PinIs
<1>5. mode[PinOf["Nss"]] = "reset" /\ mode[PinOf["Reset"]] = "reset"
  BY <1>4 DEF Init, GpioInitial
<1> QED
  BY <1>3, <1>5 DEF BusInv, InFrame, NssRises, NssFalls, IoUp

\* A step of the pins: the chip sees Nss and its reset.
LEMMA BusGpio ==
    ASSUME PinState, IoInv, BusInv, radio = "SX126x", StepGpio
    PROVE  BusInv'
<1>0. TodoInv /\ PinType /\ PinType'
  BY GpioPins DEF PinState
<1>1. PICK c : c = todo[1]
  OBVIOUS
<1>2. todo # <<>> /\ todo' = Tail(todo) /\ radio' = radio /\ Good(radio, c) /\ ChipSees
      /\ c.do \in {"init", "write", "store", "irqInit", "enable", "mask", "release", "clear"}
  BY <1>0, <1>1, RunsOn, TodoIs DEF Runs, StepGpio, Is126x, GpioCall
<1>3. /\ todo' # <<>> => Link(c, todo'[1])
      /\ todo' = <<>> => Closing(c) \/ c.do = "mac"
  BY <1>0, <1>1, NextCall DEF Runs
<1> DEFINE nss == PinOf["Nss"]
           reset == PinOf["Reset"]
<1>4. nss \in Pin /\ reset \in Pin /\ nss # NC /\ reset # NC /\ nss # reset
  BY NssWired, PinIs, PinAssumption
<1>5. c.do = "write" => c.obj = "Nss" /\ c.val \in 0 .. 1 /\ pin["Nss"] = nss
  <2>1. "Nss" \in Wired(radio)
    BY DEF Wired
  <2> QED
    BY <1>0, <1>1, <1>2, <2>1, PinsSet DEF Good, PinState
<1>6. level[nss] \in 0 .. 1 /\ level'[nss] \in 0 .. 1
  BY <1>0, <1>4 DEF PinType
<1>7. /\ c.do = "write" => level'[nss] = c.val
      /\ c.do = "init" /\ c.obj = "Nss" => level'[nss] = (IF c.arg = "PIN_OUTPUT" THEN c.val ELSE level[nss])
      /\ ~(c.do \in {"init", "write"} /\ c.obj = "Nss") => level'[nss] = level[nss]
      /\ c.do = "init" /\ c.obj = "Nss" => mode'[nss] = HalMode(c.arg)
      /\ ~(c.do = "init" /\ c.obj = "Nss") => mode'[nss] = mode[nss]
  BY <1>1, <1>5, NssWired, PinEffect
<1>8. c.do = "write" => mode'[reset] = mode[reset]
  BY <1>1, NssWired, PinEffect
<1>9. NssFalls(c) => level[nss] = 1
  <2>1. NssFalls(c) => IoUp /\ ~InFrame(c)
    BY <1>0, <1>1, IoIsUp DEF NssFalls, InFrame, NssRises
  <2> QED
    BY <1>1, <1>2, <2>1 DEF BusInv
<1>10. spiOn' \/ (todo' # <<>> /\ todo'[1].do = "spi")
  <2>1. spiOn
    BY <1>1, <1>2 DEF BusInv
  <2> QED
    BY <1>2, <2>1 DEF ChipSees
<1>11. mode'[reset] = "out" => chip' = "reset"
  BY <1>2 DEF ChipSees
<1>12. IF todo' # <<>> /\ InFrame(todo'[1])
       THEN level'[nss] = 0 /\ (Waking' \/ chip' = "listening")
       ELSE mode'[nss] = "out" => level'[nss] = 1
  <2>1. CASE NssFalls(c)
    <3>1. todo' # <<>> /\ InFrame(todo'[1])
      BY <1>3, <2>1 DEF Link, Closing, NssFalls
    <3>2. level'[nss] = 0
      BY <1>7, <2>1 DEF NssFalls
    <3>3. Waking => Waking'
      BY <1>0, <1>1, <1>2, <2>1, WakingLeft DEF NssFalls
    <3>4. ASSUME chip = "ready" PROVE chip' = "listening"
      <4>1. mode'[reset] # "out"
        BY <1>8, <2>1, <3>4 DEF BusInv, NssFalls
      <4> QED
        BY <1>2, <1>9, <2>1, <3>2, <3>4, <4>1 DEF ChipSees
    <3>5. Waking \/ chip = "ready"
      BY <1>1, <1>2, <2>1 DEF BusInv
    <3> QED
      BY <3>1, <3>2, <3>3, <3>4, <3>5
  <2>2. CASE ~NssFalls(c)
    <3>1. ~(todo' # <<>> /\ InFrame(todo'[1]))
      BY <1>2, <1>3, <2>2 DEF Link
    <3>2. CASE c.do = "write"
      BY <1>5, <1>7, <2>2, <3>1, <3>2 DEF NssFalls
    <3>3. CASE c.do # "write"
      <4>1. ~InFrame(c)
        BY <1>2, <3>3 DEF InFrame, NssRises
      <4>2. mode[nss] = "out" => level[nss] = 1
        BY <1>1, <4>1 DEF BusInv, IoUp
      <4>3. CASE c.do = "init" /\ c.obj = "Nss"
        BY <1>2, <1>7, <3>1, <4>3, GoodIs DEF Good
      <4>4. CASE ~(c.do = "init" /\ c.obj = "Nss")
        BY <1>7, <3>1, <3>3, <4>2, <4>4
      <4> QED
        BY <4>3, <4>4
    <3> QED
      BY <3>2, <3>3
  <2> QED
    BY <2>1, <2>2
<1>13. ASSUME todo' # <<>>, NssFalls(todo'[1]) PROVE Waking'
  <2>1. c.do = "mask"
    BY <1>2, <1>3, <1>13 DEF Link
  <2>2. Len(todo) > 1 /\ todo'[1] = todo[2] /\ Len(todo) \in Nat
    BY <1>0, <1>2, <1>13, TodoIs
  <2>3. \E j \in 2 + 1 .. Len(todo) : BusyEnabled(todo[j])
    <3>1. 2 \in 2 .. Len(todo) /\ todo[2 - 1] = todo[1]
      BY <2>2
    <3>2. NssFalls(todo[2]) /\ todo[2 - 1].do = "mask"
      BY <1>1, <1>13, <2>1, <2>2, <3>1
    <3> QED
      BY <1>0, <3>1, <3>2 DEF TodoInv, Awaits
  <2>4. \E j \in 2 .. Len(todo) : BusyEnabled(todo[j])
    BY <2>2, <2>3
  <2> QED
    BY <1>0, <1>2, <2>4, WakingLeft
<1> QED
  BY <1>10, <1>11, <1>12, <1>13 DEF BusInv, IoUp

LEMMA BusNext ==
    ASSUME PinState, IoInv, BusInv, radio = "SX126x", [Next]_vars
    PROVE  BusInv'
<1>0. radio \in Radio /\ TodoInv /\ IrqInv
  BY DEF PinState
<1>1. CASE Starts
  BY <1>1 DEF Starts, Begins, BusInv, InFrame, NssRises, NssFalls, IoUp, gpioVars, pinVars
<1>2. CASE StepGpio
  BY <1>2, BusGpio
<1>3. CASE Runs /\ ~StepGpio
  <2>0. PICK c : c = todo[1]
    OBVIOUS
  <2>1. /\ todo # <<>> /\ todo' = Tail(todo)
        /\ todo' # <<>> => Link(c, todo'[1])
        /\ todo' = <<>> => Closing(c) \/ c.do = "mac"
    BY <1>0, <1>3, <2>0, RunsOn, NextCall
  <2>2. /\ UNCHANGED <<mode, level, chip>> /\ (spiOn \/ c.do = "spi" => spiOn')
        /\ c.do \in {"byte", "delay", "wait", "asleep", "awake", "opMode", "spi", "eventq", "task", "up"}
    <3>0. Head(todo) = c
      BY <1>0, <2>0, <2>1, TodoIs
    <3>1. CASE StepByte
      BY <3>0, <3>1 DEF StepByte, SpiInOut, Now, gpioVars, pinVars
    <3>2. CASE StepWait
      BY <3>0, <3>2 DEF StepWait, Now, gpioVars, pinVars, chipVars
    <3>3. CASE StepSleep
      BY <3>0, <3>3 DEF StepSleep, Now, gpioVars, pinVars
    <3>4. CASE StepOpMode
      BY <3>0, <3>4 DEF StepOpMode, Now, gpioVars, pinVars, chipVars
    <3>5. CASE StepStart
      BY <3>0, <3>5 DEF StepStart, Now, pinVars
    <3> QED
      BY <1>3, <3>1, <3>2, <3>3, <3>4, <3>5 DEF Runs
  <2>3. Waking => Waking'
    BY <1>0, <2>0, <2>1, <2>2, WakingLeft
  <2>4. spiOn'
    BY <2>0, <2>1, <2>2 DEF BusInv
  <2>5. mode'[PinOf["Reset"]] = "out" => chip' = "reset"
    BY <2>2 DEF BusInv
  <2>6. CASE c.do = "byte"
    <3>1. todo' # <<>> /\ InFrame(todo'[1]) /\ ~NssFalls(todo'[1])
      BY <2>1, <2>6 DEF Link, Closing
    <3>2. level'[PinOf["Nss"]] = 0 /\ (Waking' \/ chip' = "listening")
      BY <2>0, <2>1, <2>2, <2>3, <2>6 DEF BusInv, InFrame
    <3> QED
      BY <2>4, <2>5, <3>1, <3>2 DEF BusInv
  <2>7. CASE c.do # "byte"
    <3>1. ~(todo' # <<>> /\ InFrame(todo'[1]))
      BY <2>1, <2>2, <2>7 DEF Link, NssFalls
    <3>2. IoUp' => level'[PinOf["Nss"]] = 1
      BY <2>0, <2>2, <2>7 DEF BusInv, InFrame, NssRises, IoUp
    <3>3. todo' # <<>> /\ NssFalls(todo'[1]) => chip' = "ready"
      <4>1. todo' # <<>> /\ NssFalls(todo'[1]) => c.do = "wait"
        BY <2>1, <2>2 DEF Link
      <4>2. ASSUME c.do = "wait" PROVE chip = "ready"
        <5>1. WaitOnBusyEnds
          BY <1>0, <1>3, <2>0, <2>1, <4>2, TodoIs DEF Runs, StepByte, StepWait, StepSleep, StepOpMode, StepStart, Now
        <5>2. "Busy" \in Wired(radio)
          BY DEF Wired
        <5>3. pin["Busy"] = PinOf["Busy"] /\ PinOf["Busy"] # NC /\ PinOf["Busy"] \in Pin
          BY <1>0, <2>0, <4>2, <5>2, PinsSet, NssWired, PinIs DEF PinState
        <5> QED
          BY <5>1, <5>3 DEF WaitOnBusyEnds, GpioRead, Input
      <4> QED
        BY <2>2, <4>1, <4>2
    <3> QED
      BY <2>4, <2>5, <3>1, <3>2, <3>3 DEF BusInv
  <2> QED
    BY <2>6, <2>7
<1>4. CASE StepCheck \/ StepMac
  <2>1. todo # <<>> /\ todo[1].do \in {"check", "mac"} /\ todo' # <<>> /\ todo'[1].do \notin {"byte", "write"}
    BY <1>0, <1>4, CheckGrows, MacGrows DEF Begins
  <2>2. UNCHANGED <<mode, level, chip, spiOn>>
    BY <1>4 DEF StepCheck, StepMac, gpioVars, pinVars, chipVars
  <2> QED
    BY <2>1, <2>2 DEF BusInv, InFrame, NssRises, NssFalls, IoUp
<1>5. CASE Meanwhile
  BY <1>5, MeanwhileKeeps DEF BusInv, Waking, IoUp, pinVars
<1>6. ~StepLowPower
  BY <1>0, LowPowerGrows
<1>7. Starts \/ Runs \/ StepCheck \/ StepMac \/ Meanwhile
  BY <1>0, <1>6, NextIs DEF Others, Runs
<1> QED
  BY <1>1, <1>2, <1>3, <1>4, <1>5, <1>7

BusState == PinState /\ IoInv /\ (Is126x => BusInv)

LEMMA BusStateInit == ASSUME Init PROVE BusState
  BY PinStateInit, PinsInit, BusInit DEF BusState

LEMMA BusStateNext == ASSUME BusState, [Next]_vars PROVE BusState'
<1>1. PinState' /\ radio' = radio
  BY PinStateNext DEF BusState
<1>2. IoInv'
  BY IoNext DEF BusState
<1>3. Is126x' => BusInv'
  BY <1>1, BusNext DEF BusState, Is126x
<1> QED
  BY <1>1, <1>2, <1>3 DEF BusState

LEMMA BusStateReady == ASSUME BusState PROVE CommandToReadyChip
<1> SUFFICES ASSUME Is126x PROVE CommandToReadyChip
  BY DEF CommandToReadyChip
<1>1. TodoInv /\ IoInv /\ BusInv
  BY DEF BusState, PinState
<1>2. Now("byte") => todo # <<>> /\ todo[1].do = "byte"
  BY <1>1, TodoIs DEF Now
<1>3. Now("byte") => spiOn /\ IoUp /\ level[PinOf["Nss"]] = 0
  BY <1>1, <1>2, IoIsUp DEF BusInv, InFrame
<1>4. IoUp /\ level[PinOf["Nss"]] = 0 /\ ~Waking => chip = "listening"
  BY <1>1 DEF BusInv
<1> QED
  BY <1>3, <1>4 DEF CommandToReadyChip

(* Whatever wake-ups, resets and sleeps came before, and for every size of *)
(* access: a byte goes out in a frame on a named bus, and outside a wake-up *)
(* a frame is one the chip has heard the start of (SX126xWaitOnBusy before *)
(* each command, and SX126xWakeup when the driver has put it to sleep).    *)
THEOREM FramesAreHeard == Spec => []CommandToReadyChip
<1>1. Init => BusState
  BY BusStateInit
<1>2. BusState /\ [Next]_vars => BusState'
  BY BusStateNext
<1>3. BusState => CommandToReadyChip
  BY BusStateReady
<1> QED
  BY <1>1, <1>2, <1>3, PTL DEF Spec

-----------------------------------------------------------------------------
(* The radio's mode and its amplifier.                                     *)

LEMMA PowerTyped ==
    ASSUME SetPower, Sx127xTypeOK
    PROVE  Sx127xTypeOK'
<1>1. PICK power \in Power, select \in {"RFO", "PABOOST"}, max \in {0, 7} : SetRfTxPower(power, select, max)
  BY DEF SetPower, SX1272SetRfTxPower, SX1276SetRfTxPower, SX1272GetPaSelect, SX1276GetPaSelect
<1>2. power \in -128 .. 127
  BY RadioAssumption
<1>3. paDac' \in {PaDacUsual, PaDac20dBm} /\ UNCHANGED <<RadioIsActive, opMode>>
  BY <1>1 DEF SetRfTxPower, PaDacFor, Sx127xTypeOK
<1>4. \A n \in Int : n % 16 \in 0 .. 15
  OBVIOUS
<1>5. OutputPower(select, power, paDac') \in 0 .. 15
  <2>1. Clamp(power, 5, 20) - 5 \in Int /\ Clamp(power, 2, 17) - 2 \in Int /\ Clamp(power, -1, 14) + 1 \in Int
    BY <1>2 DEF Clamp
  <2>2. /\ (Clamp(power, 5, 20) - 5) % 16 \in 0 .. 15 /\ (Clamp(power, 2, 17) - 2) % 16 \in 0 .. 15
        /\ (Clamp(power, -1, 14) + 1) % 16 \in 0 .. 15
    BY <1>4, <2>1, Zenon
  <2> QED
    BY <2>2 DEF OutputPower
<1>6. request' = [select |-> select, power |-> power, max |-> max, output |-> OutputPower(select, power, paDac')]
  BY <1>1 DEF SetRfTxPower
<1> QED
  BY <1>2, <1>3, <1>5, <1>6 DEF Sx127xTypeOK

LEMMA NoRequestTyped ==
    NoRequest \in [select : {"none", "RFO", "PABOOST"}, power : -128 .. 127, max : 0 .. 7, output : 0 .. 15]
<1>1. "none" \in {"none", "RFO", "PABOOST"} /\ 0 \in -128 .. 127 /\ 0 \in 0 .. 7 /\ 0 \in 0 .. 15
  OBVIOUS
<1>2. \A S, P, M, O : \A s \in S, p \in P, m \in M, o \in O :
        [select |-> s, power |-> p, max |-> m, output |-> o] \in [select : S, power : P, max : M, output : O]
  OBVIOUS
<1> QED
  BY <1>1, <1>2, Zenon DEF NoRequest

LEMMA RadioTypeInit == ASSUME Init PROVE Sx127xTypeOK
<1>1. RadioIsActive = FALSE /\ opMode = "standby" /\ paDac = PaDacUsual /\ request = NoRequest
  BY DEF Init, Sx127xInitial
<1> QED
  BY <1>1, NoRequestTyped DEF Sx127xTypeOK, OpMode

LEMMA RadioTypeNext ==
    ASSUME PinState, Sx127xTypeOK, [Next]_vars
    PROVE  Sx127xTypeOK'
<1>0. radio \in Radio /\ TodoInv /\ IrqInv
  BY DEF PinState
<1>1. CASE Starts
  BY <1>1, NoRequestTyped DEF Starts, Sx127xTypeOK
<1>2. CASE StepGpio
  BY <1>2 DEF StepGpio, radioVars, Sx127xTypeOK
<1>3. CASE StepLowPower
  BY <1>3 DEF StepLowPower, SetFlag, Sx127xTypeOK
<1>4. CASE StepOpMode
  <2>1. Head(todo).do = "opMode" /\ todo # <<>> /\ Good(radio, Head(todo))
    BY <1>0, <1>4, TodoIs DEF StepOpMode, Now
  <2>2. Head(todo).arg \in OpMode
    BY <2>1, GoodIs
  <2> QED
    BY <1>4, <2>2 DEF StepOpMode, Sx127xTypeOK
<1>5. CASE StepByte \/ StepWait \/ StepCheck \/ StepSleep \/ StepStart \/ StepMac
  <2>1. UNCHANGED radioVars
    BY <1>5 DEF StepByte, StepWait, StepCheck, StepSleep, StepStart, StepMac
  <2> QED
    BY <2>1 DEF radioVars, Sx127xTypeOK
<1>6. CASE SetPower
  BY <1>6, PowerTyped
<1>7. CASE Interrupt \/ LorawanTask \/ Chip \/ UNCHANGED vars
  <2>1. UNCHANGED radioVars
    BY <1>7 DEF Interrupt, LorawanTask, Chip, others, vars
  <2> QED
    BY <2>1 DEF radioVars, Sx127xTypeOK
<1> QED
  BY <1>0, <1>1, <1>2, <1>3, <1>4, <1>5, <1>6, <1>7, NextIs DEF Others, Meanwhile

-----------------------------------------------------------------------------
(* The antenna switch of the SX127x.                                       *)

\* An object that has been initialised keeps pointing to its pin.
LEMMA ObjectEffect ==
    ASSUME PinState, StepGpio, NEW c, c = todo[1], NEW o \in Obj
    PROVE  /\ c.do = "init" /\ c.obj = o => pin'[o] = PinOf[o]
           /\ ~(c.do = "init" /\ c.obj = o) => pin'[o] = pin[o]
<1>1. /\ \/ c.do = "init" /\ GpioInit(c.obj, c.arg, c.val)
         \/ c.do = "write" /\ GpioWrite(c.obj, c.val)
         \/ c.do \notin {"init", "write"} /\ UNCHANGED pinVars
      /\ PinType
  BY GpioPins DEF PinState
<1>2. Good(radio, c)
  BY TodoIs DEF PinState, StepGpio
<1>3. c.do = "init" => c.obj \in Obj /\ PinOf[c.obj] < IOE_0
  BY <1>2, GoodIs, PinIs
<1> QED
  BY <1>1, <1>3 DEF GpioInit, GpioWrite, PinType, pinVars

\* Start-up's calls are still those before the radio's first mode.
LEMMA FreshLeft ==
    ASSUME TodoInv, todo # <<>>, todo' = Tail(todo), Fresh, RadioIsActive' = RadioIsActive,
           todo[1].do \notin {"mac", "assert", "lowPower"}
    PROVE  todo' # <<>> /\ Fresh'
<1>1. PICK j \in 1 .. Len(todo) :
        /\ todo[j].do \in {"mac", "assert"} \/ (todo[j].do = "lowPower" /\ todo[j].arg = "sleep")
        /\ \A i \in 1 .. j - 1 : todo[i].do \in {"spi", "init", "eventq", "task", "delay"} /\ ~AntInit(todo[i])
  BY DEF Fresh
<1>2. Len(todo) \in Nat /\ Len(todo') = Len(todo) - 1 /\ \A i \in 1 .. Len(todo) - 1 : todo'[i] = todo[i + 1]
  BY TodoIs
<1>3. j \in 2 .. Len(todo)
  BY <1>1, <1>2
<1>4. j - 1 \in 1 .. Len(todo') /\ todo'[j - 1] = todo[j]
  BY <1>2, <1>3
<1>5. ASSUME NEW i \in 1 .. (j - 1) - 1
      PROVE  todo'[i].do \in {"spi", "init", "eventq", "task", "delay"} /\ ~AntInit(todo'[i])
  <2>1. i + 1 \in 1 .. j - 1 /\ todo'[i] = todo[i + 1]
    BY <1>2, <1>3
  <2> QED
    BY <1>1, <2>1
<1>6. todo' # <<>>
  BY <1>2, <1>3, TodoIs
<1> QED
  BY <1>1, <1>4, <1>5, <1>6 DEF Fresh

\* A call that is none of the switch's leaves the switch as it is.
LEMMA AntKept ==
    ASSUME TodoInv, radio # "SX126x", todo # <<>>, todo' = Tail(todo), Settled \/ Fresh, NEW c, c = todo[1],
           todo' # <<>> => Link(c, todo'[1]), todo' # <<>> => Good(radio, todo'[1]),
           c.do \notin {"mac", "assert", "lowPower", "opMode"}, ~AntInit(c), ~AntWrite(c),
           UNCHANGED <<RadioIsActive, opMode>>, AntMatches(opMode) => AntMatches(opMode)'
    PROVE  AntInv127x'
<1>1. Fresh => todo' # <<>> /\ Fresh'
  BY FreshLeft
<1>2. Settled => Settled'
  BY DEF Settled
<1>3. todo' # <<>> => ~AntInit(todo'[1]) /\ ~AntWrite(todo'[1]) /\ todo'[1].do # "opMode"
  BY DEF Link, AntInit, AntOn, Good
<1> QED
  BY <1>1, <1>2, <1>3 DEF AntInv127x

\* The radio's first mode is sleep, after no more than a reset.
FirstMode(s) ==
    \E j \in 1 .. Len(s) :
        /\ s[j].do = "lowPower" /\ s[j].arg = "sleep"
        /\ \A i \in 1 .. j - 1 : s[i].do \in {"init", "delay"} /\ ~AntInit(s[i])

LEMMA FirstModeConcat ==
    ASSUME NEW S, NEW p \in Seq(S), NEW q \in Seq(S), NEW s, s = p \o q,
           \/ FirstMode(p)
           \/ FirstMode(q) /\ \A i \in 1 .. Len(p) : p[i].do \in {"init", "delay"} /\ ~AntInit(p[i])
    PROVE  s \in Seq(S) /\ FirstMode(s)
<1>1. /\ s \in Seq(S) /\ Len(s) = Len(p) + Len(q) /\ Len(p) \in Nat /\ Len(q) \in Nat
      /\ \A i \in 1 .. Len(p) : s[i] = p[i]
      /\ \A i \in 1 .. Len(q) : s[Len(p) + i] = q[i]
      /\ \A i \in Len(p) + 1 .. Len(p) + Len(q) : i - Len(p) \in 1 .. Len(q) /\ s[i] = q[i - Len(p)]
  BY Concat
<1>2. CASE FirstMode(p)
  <2>1. PICK j \in 1 .. Len(p) :
            /\ p[j].do = "lowPower" /\ p[j].arg = "sleep"
            /\ \A i \in 1 .. j - 1 : p[i].do \in {"init", "delay"} /\ ~AntInit(p[i])
    BY <1>2 DEF FirstMode
  <2>2. j \in 1 .. Len(s) /\ s[j] = p[j] /\ \A i \in 1 .. j - 1 : i \in 1 .. Len(p) /\ s[i] = p[i]
    BY <1>1
  <2> QED
    BY <1>1, <2>1, <2>2 DEF FirstMode
<1>3. CASE FirstMode(q) /\ \A i \in 1 .. Len(p) : p[i].do \in {"init", "delay"} /\ ~AntInit(p[i])
  <2>1. PICK j \in 1 .. Len(q) :
            /\ q[j].do = "lowPower" /\ q[j].arg = "sleep"
            /\ \A i \in 1 .. j - 1 : q[i].do \in {"init", "delay"} /\ ~AntInit(q[i])
    BY <1>3 DEF FirstMode
  <2>2. Len(p) + j \in 1 .. Len(s) /\ s[Len(p) + j] = q[j]
    BY <1>1
  <2>3. ASSUME NEW i \in 1 .. (Len(p) + j) - 1 PROVE s[i].do \in {"init", "delay"} /\ ~AntInit(s[i])
    <3>1. CASE i \in 1 .. Len(p)
      BY <1>1, <1>3, <3>1
    <3>2. CASE i \notin 1 .. Len(p)
      <4>1. i \in Len(p) + 1 .. Len(p) + Len(q)
        BY <1>1, <3>2
      <4>2. i - Len(p) \in 1 .. j - 1 /\ s[i] = q[i - Len(p)]
        BY <1>1, <4>1
      <4> QED
        BY <2>1, <4>2
    <3> QED
      BY <3>1, <3>2
  <2> QED
    BY <1>1, <2>1, <2>2, <2>3, ZenonT(30) DEF FirstMode
<1> QED
  BY <1>2, <1>3

LEMMA ResetIs ==
    ASSUME NEW held \in Level, NEW r
    PROVE  \A i \in 1 .. Len(Reset127x(held)) : Reset127x(held)[i].do \in {"init", "delay"} /\ ~AntInit(Reset127x(held)[i])
<1> DEFINE a == InitPin("Reset", "PIN_OUTPUT", held)
           b == Call("delay", "", "", 1)
           c == InitPin("Reset", "PIN_INPUT", 1)
           d == Call("delay", "", "", 6)
           Resets(x) == x.do \in {"init", "delay"} /\ ~AntInit(x)
<1>1. Resets(a) /\ Resets(c)
  <2>1. \A m \in {"PIN_OUTPUT", "PIN_INPUT", "PIN_ANALOGIC"}, v \in Level : Fields(InitPin("Reset", m, v), "init", "Reset", m, v)
    <3> SUFFICES ASSUME NEW m \in {"PIN_OUTPUT", "PIN_INPUT", "PIN_ANALOGIC"}, NEW v \in Level
                 PROVE  Fields(InitPin("Reset", m, v), "init", "Reset", m, v)
      OBVIOUS
    <3>1. "Reset" \in Obj
      BY DEF Obj
    <3> QED
      BY <3>1, InitPinIs
  <2>2. Fields(a, "init", "Reset", "PIN_OUTPUT", held) /\ Fields(c, "init", "Reset", "PIN_INPUT", 1)
    BY <2>1, LevelIs
  <2> QED
    BY <2>2 DEF Fields, AntInit
<1>2. Resets(b) /\ Resets(d)
  <2>1. 1 \in Vals /\ 6 \in Vals
    BY IntsAreVals
  <2>2. \A ms \in Vals : Fields(Call("delay", "", "", ms), "delay", "", "", ms)
    BY PlainCallIs
  <2> QED
    BY <2>1, <2>2 DEF Fields, AntInit
<1>3. Reset127x(held) = <<a, b, c, d>>
  BY DEF Reset127x
<1> HIDE DEF a, b, c, d
<1>4. \A i \in 1 .. 4 : Resets(<<a, b, c, d>>[i])
  BY <1>1, <1>2
<1> QED
  BY <1>3, <1>4

LEMMA SleepsFirst ==
    ASSUME radio \in Radio, radio # "SX126x"
    PROVE  FirstMode(RadioInit \o <<Do("up")>>)
<1>1. radio \in {"SX1272", "SX1276"} /\ ~Is126x /\ "sleep" \in OpMode /\ "asleep" \in Modes
  BY RadioAssumption DEF Is126x, OpMode, Modes
<1> DEFINE S == Calls(radio)
           lp == Call("lowPower", "", "sleep", 0)
           om == Call("opMode", "", "sleep", 0)
<1>2. lp \in S /\ om \in S /\ lp.do = "lowPower" /\ lp.arg = "sleep"
  BY <1>1, ModeCallIs DEF Fields
<1>3. SetOpMode("sleep") = (<<lp>> \o <<>>) \o <<om>>
  BY DEF SetOpMode
<1>4. /\ Part(radio, Reset127x(0), "asleep") /\ Part(radio, Reset127x(1), "asleep")
      /\ Part(radio, IoIrqInit127x(Handler), "asleep") /\ Part(radio, <<Do("up")>>, "asleep")
  BY <1>1, LevelIs, ResetPart, IoIrqInitPart, SimpleDo
<1>5. /\ Reset127x(0) \in Seq(S) /\ Reset127x(1) \in Seq(S) /\ IoIrqInit127x(Handler) \in Seq(S) /\ <<Do("up")>> \in Seq(S)
  BY <1>4 DEF Part, Linked
<1> HIDE DEF lp, om, S
<1>6. SetOpMode("sleep") \in Seq(S) /\ FirstMode(SetOpMode("sleep"))
  <2>1. <<lp>> \in Seq(S) /\ <<om>> \in Seq(S) /\ <<lp>> \o <<>> = <<lp>>
    BY <1>2
  <2>2. FirstMode(<<lp>>)
    BY <1>2 DEF FirstMode
  <2> QED
    BY <1>3, <2>1, <2>2, FirstModeConcat
<1>7. ASSUME NEW held \in Level, Reset127x(held) \in Seq(S), NEW s, NEW e,
             s = Reset127x(held) \o SetOpMode("sleep") \o IoIrqInit127x(Handler), e = s \o <<Do("up")>>
      PROVE  FirstMode(e)
  <2>1. /\ Reset127x(held) \o SetOpMode("sleep") \in Seq(S)
        /\ FirstMode(Reset127x(held) \o SetOpMode("sleep"))
    BY <1>6, <1>7, ResetIs, FirstModeConcat
  <2>2. s \in Seq(S) /\ FirstMode(s)
    BY <1>5, <1>7, <2>1, FirstModeConcat
  <2> QED
    BY <1>5, <1>7, <2>2, FirstModeConcat
<1>8. 0 \in Level /\ 1 \in Level
  BY LevelIs
<1> QED
  BY <1>1, <1>5, <1>7, <1>8 DEF RadioInit, SX1272Reset, SX1276Reset, SX1272IoIrqInit, SX1276IoIrqInit

LEMMA AntInit127x == ASSUME Init, radio # "SX126x" PROVE AntInv127x
<1>1. radio \in Radio
  BY DEF Init
<1>2. PICK n \in Nat \ {0} : StartsUp(radio, todo, n)
  BY <1>1, InitTodoIs DEF Init
<1>3. /\ todo # <<>> /\ Len(todo) = n + 4 /\ todo[1].do = "spi"
      /\ \A i \in 2 .. n + 1 : todo[i].do = "init" /\ todo[i].obj # "Ant"
      /\ todo[n + 2].do = "eventq" /\ todo[n + 3].do = "task" /\ todo[n + 4].do = "mac"
  BY <1>2 DEF StartsUp
<1>4. ASSUME NEW i \in 1 .. (n + 4) - 1
      PROVE  todo[i].do \in {"spi", "init", "eventq", "task", "delay"} /\ ~AntInit(todo[i])
  <2>1. i = 1 \/ i \in 2 .. n + 1 \/ i = n + 2 \/ i = n + 3
    OBVIOUS
  <2> QED
    BY <1>3, <2>1 DEF AntInit
<1>5. n + 4 \in 1 .. Len(todo)
  BY <1>3
<1>6. ~RadioIsActive
  BY DEF Init, Sx127xInitial
<1>7. Fresh
  BY <1>3, <1>4, <1>5, <1>6 DEF Fresh
<1> QED
  BY <1>3, <1>7 DEF AntInv127x, AntInit, AntWrite

\* A step of the pins.
LEMMA AntGpio127x ==
    ASSUME PinState, AntInv127x, radio # "SX126x", StepGpio
    PROVE  AntInv127x'
<1>0. TodoInv /\ PinType
  BY DEF PinState
<1>1. PICK c : c = todo[1]
  OBVIOUS
<1>2. todo # <<>> /\ todo' = Tail(todo) /\ radio' = radio /\ Good(radio, c)
      /\ c.do \in {"init", "write", "store", "irqInit", "enable", "mask", "release", "clear"}
      /\ UNCHANGED <<RadioIsActive, opMode>>
  BY <1>0, <1>1, RunsOn, TodoIs DEF Runs, StepGpio, GpioCall, radioVars
<1>3. /\ todo' # <<>> => Link(c, todo'[1]) /\ Good(radio, todo'[1])
      /\ todo' = <<>> => Closing(c) \/ c.do = "mac"
  <2>1. todo' # <<>> => Good(radio, todo'[1])
    <3>1. \A x \in Calls(radio) : Good(radio, x)
      BY DEF Calls
    <3>2. \A i \in 1 .. Len(todo) : todo[i] \in Calls(radio)
      BY <1>0, TodoIs
    <3>3. todo' # <<>> => Len(todo) > 1 /\ todo'[1] = todo[2] /\ Len(todo) \in Nat
      BY <1>0, <1>2, TodoIs
    <3> QED
      BY <3>1, <3>2, <3>3
  <2> QED
    BY <1>0, <1>1, <2>1, NextCall DEF Runs
<1> DEFINE ant == PinOf["Ant"]
<1>4. "Ant" \in Obj /\ (ant # NC => ant \in Pin)
  BY NssWired, PinIs
<1>5. pin'["Ant"] = IF AntInit(c) THEN ant ELSE pin["Ant"]
  BY <1>1, <1>4, ObjectEffect DEF AntInit
<1>6. c.do = "write" => AntWrite(c) /\ c.val \in 0 .. 1
  BY <1>2 DEF Good, AntWrite
<1>7. AntWrite(c) =>
        ~RadioIsActive /\ pin["Ant"] = ant /\ (ant # NC => mode[ant] = "out")
  BY <1>1, <1>2 DEF AntInv127x, AntWrite, AntInit
<1>8. ant # NC =>
        /\ AntInit(c) => mode'[ant] = HalMode(c.arg) /\ level'[ant] = (IF c.arg = "PIN_OUTPUT" THEN c.val ELSE level[ant])
        /\ ~AntInit(c) => mode'[ant] = mode[ant]
        /\ AntWrite(c) => level'[ant] = c.val
        /\ ~AntInit(c) /\ ~AntWrite(c) => level'[ant] = level[ant]
  BY <1>1, <1>4, <1>6, <1>7, PinEffect DEF AntInit, AntWrite
<1>9. CASE AntInit(c)
  <2>1. /\ Len(todo) > 1
        /\ IF RadioIsActive THEN todo[2].do = "opMode" /\ todo[2].arg = "sleep" ELSE AntWrite(todo[2])
        /\ c.arg = "PIN_OUTPUT" => c.val = 0
        /\ ~RadioIsActive => c.arg = "PIN_OUTPUT"
    BY <1>1, <1>2, <1>9 DEF AntInv127x
  <2>2. todo' # <<>> /\ todo'[1] = todo[2]
    BY <1>0, <1>2, <2>1, TodoIs
  <2>3. pin'["Ant"] = ant /\ HalMode(c.arg) \in {"in", "out"} /\ (HalMode(c.arg) = "out" <=> c.arg = "PIN_OUTPUT")
    BY <1>2, <1>5, <1>9, GoodIs DEF AntInit
  <2>4. CASE RadioIsActive
    <3>1. AntMatches("sleep")'
      BY <1>8, <1>9, <2>1, <2>3 DEF AntMatches, AntHigh
    <3> QED
      BY <1>2, <2>1, <2>2, <2>4, <3>1 DEF AntInv127x, AntInit, AntWrite
  <2>5. CASE ~RadioIsActive
    <3>1. ant # NC => mode'[ant] = "out"
      BY <1>8, <1>9, <2>1, <2>3, <2>5
    <3> QED
      BY <1>2, <2>1, <2>2, <2>3, <2>5, <3>1 DEF AntInv127x, AntInit, AntWrite
  <2> QED
    BY <2>4, <2>5
<1>10. CASE AntWrite(c)
  <2>1. todo' # <<>> /\ todo'[1].do = "opMode" /\ todo'[1].arg # "sleep" /\ (c.val = 1 <=> todo'[1].arg = "transmitter")
    BY <1>2, <1>3, <1>10 DEF Link, Closing
  <2>2. ~AntInit(c)
    BY <1>10 DEF AntWrite, AntInit
  <2>3. PICK m : m = todo'[1].arg
    OBVIOUS
  <2>4. AntMatches(m)'
    BY <1>5, <1>7, <1>8, <1>10, <2>1, <2>2, <2>3 DEF AntMatches, AntHigh
  <2> QED
    BY <1>2, <1>7, <1>10, <2>1, <2>3, <2>4 DEF AntInv127x, AntInit, AntWrite, AntMatches, AntHigh
<1>11. CASE ~AntInit(c) /\ ~AntWrite(c)
  <2>1. Settled \/ Fresh
    BY <1>1, <1>2, <1>11 DEF AntInv127x
  <2>2. AntMatches(opMode) => AntMatches(opMode)'
    BY <1>2, <1>5, <1>8, <1>11 DEF AntMatches, AntHigh
  <2> QED
    BY <1>0, <1>1, <1>2, <1>3, <1>11, <2>1, <2>2, AntKept
<1> QED
  BY <1>9, <1>10, <1>11

\* The switch's state becomes news.
LEMMA AntLowPower ==
    ASSUME PinState, Sx127xTypeOK, AntInv127x, StepLowPower
    PROVE  AntInv127x'
<1>0. radio \in Radio /\ TodoInv
  BY DEF PinState
<1>1. PICK m : m = todo[1].arg
  OBVIOUS
<1>2. /\ todo # <<>> /\ todo[1].do = "lowPower" /\ m \in OpMode /\ Len(todo) > 1 /\ Link(todo[1], todo[2])
      /\ radio # "SX126x" /\ Len(todo) \in Nat
  BY <1>0, <1>1, LowPowerGrows, TodoIs
<1>3. UNCHANGED <<pin, mode, level, opMode>> /\ Head(todo) = todo[1] /\ (RadioIsActive' <=> m = "sleep")
  BY <1>0, <1>1, <1>2, TodoIs DEF StepLowPower, SetFlag, gpioVars, pinVars
<1>4. Settled \/ Fresh
  BY <1>2 DEF AntInv127x, AntInit, AntWrite
<1>5. IF m = "sleep" THEN todo[2].do = "opMode" /\ todo[2].arg = "sleep" ELSE AntWrite(todo[2])
  BY <1>1, <1>2 DEF Link
<1>6. CASE RadioIsActive = (m = "sleep")
  <2>1. todo' = Tail(todo) /\ todo' # <<>> /\ todo'[1] = todo[2]
    BY <1>0, <1>1, <1>2, <1>6, LowPowerGrows, TodoIs
  <2>2. CASE m = "sleep"
    <3>1. AntMatches("sleep")
      BY <1>4, <1>6, <2>2 DEF Settled, Fresh
    <3>2. AntMatches("sleep")'
      BY <1>3, <3>1 DEF AntMatches, AntHigh
    <3> QED
      BY <1>3, <1>5, <2>1, <2>2, <3>2 DEF AntInv127x, AntInit, AntWrite
  <2>3. CASE m # "sleep"
    <3>1. Settled
      <4>1. ASSUME Fresh PROVE FALSE
        <5>1. PICK j \in 1 .. Len(todo) :
                /\ todo[j].do \in {"mac", "assert"} \/ (todo[j].do = "lowPower" /\ todo[j].arg = "sleep")
                /\ \A i \in 1 .. j - 1 : todo[i].do \in {"spi", "init", "eventq", "task", "delay"} /\ ~AntInit(todo[i])
          BY <4>1 DEF Fresh
        <5>2. CASE j = 1
          BY <1>1, <1>2, <2>3, <5>1, <5>2
        <5>3. CASE j # 1
          <6>1. 1 \in 1 .. j - 1
            BY <1>2, <5>3
          <6> QED
            BY <1>2, <5>1, <6>1
        <5> QED
          BY <5>2, <5>3
      <4> QED
        BY <1>4, <4>1
    <3>2. pin["Ant"] = PinOf["Ant"] /\ (PinOf["Ant"] # NC => mode[PinOf["Ant"]] = "out")
      BY <1>6, <2>3, <3>1 DEF Settled, AntMatches
    <3> QED
      BY <1>3, <1>5, <2>1, <2>3, <3>2 DEF AntInv127x, AntInit, AntWrite
  <2> QED
    BY <2>2, <2>3
<1>7. CASE RadioIsActive # (m = "sleep")
  <2>1. /\ Len(todo') = Len(todo)
        /\ \E x \in {"PIN_OUTPUT", "PIN_ANALOGIC"} :
            (m # "sleep" => x = "PIN_OUTPUT") /\ Fields(todo'[1], "init", "Ant", x, 0)
        /\ \A i \in 2 .. Len(todo) : todo'[i] = todo[i]
        /\ Program(radio, todo')
    BY <1>0, <1>1, <1>7, LowPowerGrows
  <2>2. todo'[2] = todo[2]
    BY <1>2, <2>1
  <2>3. todo' # <<>>
    BY <1>2, <2>1, EmptyIs DEF Program, Linked
  <2>4. AntInit(todo'[1]) /\ (todo'[1].arg = "PIN_OUTPUT" => todo'[1].val = 0)
        /\ (m # "sleep" => todo'[1].arg = "PIN_OUTPUT")
    BY <2>1 DEF Fields, AntInit
  <2>5. Len(todo') > 1
    BY <1>2, <2>1
  <2> QED
    BY <1>3, <1>5, <2>2, <2>3, <2>4, <2>5 DEF AntInv127x
<1> QED
  BY <1>6, <1>7

LEMMA AntNext127x ==
    ASSUME PinState, Sx127xTypeOK, AntInv127x, radio # "SX126x", [Next]_vars
    PROVE  AntInv127x'
<1>0. radio \in Radio /\ TodoInv /\ IrqInv
  BY DEF PinState
<1>00. \A s : Begins(radio, s) => s # <<>> /\ ~AntInit(s[1]) /\ s[1].do \notin {"write", "opMode"}
  <2> SUFFICES ASSUME NEW s, Begins(radio, s) PROVE s # <<>> /\ ~AntInit(s[1]) /\ s[1].do \notin {"write", "opMode"}
    OBVIOUS
  <2>1. s # <<>> /\ s \in Seq(Calls(radio)) /\ s[1].do \notin {"write", "opMode"}
        /\ (AntInit(s[1]) => AntOn(s[1]) \/ \E i \in 1 .. Len(s) : s[i].do = "asleep")
    BY DEF Begins, Program, Linked
  <2>2. \A i \in 1 .. Len(s) : s[i] \in Calls(radio)
    BY <2>1
  <2>3. \A x \in Calls(radio) : x.do # "asleep" /\ ~AntOn(x)
    BY DEF Calls, Good, AntOn, AntInit
  <2>4. s[1] \in Calls(radio)
    BY <2>1
  <2> QED
    BY <2>1, <2>2, <2>3, <2>4
<1>1. CASE Starts
  <2>1. Settled /\ UNCHANGED <<pin, mode, level, RadioIsActive, opMode>> /\ Begins(radio, todo')
    BY <1>1 DEF Starts, AntInv127x, gpioVars, pinVars
  <2>2. Settled'
    BY <2>1 DEF Settled, AntMatches, AntHigh
  <2> QED
    BY <1>00, <2>1, <2>2 DEF AntInv127x, AntWrite
<1>2. CASE StepGpio
  BY <1>2, AntGpio127x
<1>3. CASE Runs /\ ~StepGpio
  <2>0. PICK c : c = todo[1]
    OBVIOUS
  <2>1. /\ todo # <<>> /\ todo' = Tail(todo) /\ Head(todo) = c
        /\ todo' # <<>> => Link(c, todo'[1]) /\ Good(radio, todo'[1])
        /\ todo' = <<>> => Closing(c) \/ c.do = "mac"
    <3>1. todo # <<>> /\ todo' = Tail(todo) /\ Head(todo) = c
      BY <1>0, <1>3, <2>0, RunsOn, TodoIs
    <3>2. \A x \in Calls(radio) : Good(radio, x)
      BY DEF Calls
    <3>3. \A i \in 1 .. Len(todo) : todo[i] \in Calls(radio)
      BY <1>0, <3>1, TodoIs
    <3>4. todo' # <<>> => Len(todo) > 1 /\ todo'[1] = todo[2] /\ Len(todo) \in Nat
      BY <1>0, <3>1, TodoIs
    <3>5. todo' # <<>> => Good(radio, todo'[1])
      BY <3>2, <3>3, <3>4
    <3> QED
      BY <1>0, <1>3, <2>0, <3>1, <3>5, NextCall
  <2>2. CASE StepOpMode
    <3>1. c.do = "opMode" /\ opMode' = c.arg /\ UNCHANGED <<RadioIsActive, pin, mode, level>>
      BY <2>1, <2>2 DEF StepOpMode, Now, gpioVars, pinVars
    <3>2. (RadioIsActive <=> c.arg = "sleep") /\ AntMatches(c.arg)
      BY <2>0, <2>1, <3>1 DEF AntInv127x, AntInit, AntWrite
    <3>3. Settled'
      BY <3>1, <3>2 DEF Settled, AntMatches, AntHigh
    <3>4. todo' # <<>> => ~AntInit(todo'[1]) /\ ~AntWrite(todo'[1]) /\ todo'[1].do # "opMode"
      BY <1>3, <2>1, <3>1, RunsOn, <1>0 DEF Link, AntInit, AntOn, AntWrite, Good
    <3> QED
      BY <3>3, <3>4 DEF AntInv127x
  <2>3. CASE StepWait \/ StepStart
    <3>1. c.do \in {"delay", "wait", "spi", "eventq", "task", "up"} /\ UNCHANGED <<RadioIsActive, opMode, pin, mode, level>>
      BY <2>1, <2>3 DEF StepWait, StepStart, Now, gpioVars, pinVars, radioVars
    <3>2. Settled \/ Fresh
      BY <2>0, <2>1, <3>1 DEF AntInv127x, AntInit, AntWrite
    <3>3. AntMatches(opMode) => AntMatches(opMode)'
      BY <3>1 DEF AntMatches, AntHigh
    <3>4. ~AntInit(c) /\ ~AntWrite(c)
      BY <3>1 DEF AntInit, AntWrite
    <3> QED
      BY <1>0, <2>0, <2>1, <3>1, <3>2, <3>3, <3>4, AntKept
  <2>4. ~StepByte /\ ~StepSleep
    BY <1>0, <2>0, <2>1, TodoIs DEF StepByte, StepSleep, Now, Good
  <2> QED
    BY <1>3, <2>2, <2>3, <2>4 DEF Runs
<1>4. CASE StepMac
  <2>1. todo # <<>> /\ todo[1].do = "mac" /\ Begins(radio, todo')
        /\ (todo' = RadioInit \o <<Do("up")>> \/ todo' = <<Do("assert")>>)
    BY <1>0, <1>4, MacGrows
  <2>2. UNCHANGED <<RadioIsActive, opMode, pin, mode, level>>
    BY <1>4 DEF StepMac, gpioVars, pinVars, radioVars
  <2>3. Settled => Settled'
    BY <2>2 DEF Settled, AntMatches, AntHigh
  <2>4. Fresh => Fresh'
    <3>1. CASE todo' = RadioInit \o <<Do("up")>>
      <4>1. FirstMode(todo')
        BY <1>0, <3>1, SleepsFirst
      <4> QED
        BY <2>2, <4>1 DEF FirstMode, Fresh
    <3>2. CASE todo' = <<Do("assert")>>
      <4>1. Do("assert").do = "assert"
        BY DoIs DEF Fields
      <4>2. todo'[1].do = "assert" /\ Len(todo') = 1
        BY <3>2, <4>1
      <4> QED
        BY <2>2, <4>2 DEF Fresh
    <3> QED
      BY <2>1, <3>1, <3>2
  <2>5. Settled \/ Fresh
    BY <2>1 DEF AntInv127x, AntInit, AntWrite
  <2> QED
    BY <1>00, <2>1, <2>3, <2>4, <2>5 DEF AntInv127x, AntWrite
<1>5. CASE StepLowPower
  BY <1>5, AntLowPower
<1>6. ~StepCheck
  BY <1>0, CheckGrows
<1>7. CASE Meanwhile
  BY <1>7, MeanwhileKeeps DEF AntInv127x, Settled, Fresh, AntMatches, AntHigh, pinVars
<1>8. Starts \/ Runs \/ StepMac \/ StepLowPower \/ Meanwhile
  BY <1>0, <1>6, NextIs DEF Others, Runs
<1> QED
  BY <1>1, <1>2, <1>3, <1>4, <1>5, <1>7, <1>8

-----------------------------------------------------------------------------
(* The antenna switch of the SX126x.                                       *)

\* After the first call the switch is only ever powered.
LEMMA AntLater ==
    ASSUME NEW r, NEW s, Linked(r, s), NEW i \in 2 .. Len(s), AntInit(s[i])
    PROVE  AntOn(s[i])
<1>1. Len(s) \in Nat
  BY DEF Linked
<1>2. i - 1 \in 1 .. Len(s) - 1 /\ (i - 1) + 1 = i
  BY <1>1
<1>3. Link(s[i - 1], s[(i - 1) + 1])
  BY <1>2 DEF Linked
<1> QED
  BY <1>2, <1>3 DEF Link

\* A function begins with the switch powered, or the radio asleep.
LEMMA AntBegins ==
    ASSUME Begins(radio, todo'), asleep \/ AntHigh, UNCHANGED <<mode, level, asleep>>
    PROVE  AntInv126x'
<1>1. Linked(radio, todo') /\ Checked(todo')
      /\ (AntInit(todo'[1]) => AntOn(todo'[1]) \/ \E i \in 1 .. Len(todo') : todo'[i].do = "asleep")
  BY DEF Begins, Program
<1>2. AntHigh' <=> AntHigh
  BY DEF AntHigh
<1>3. ASSUME NEW i \in 1 .. Len(todo'), todo'[i].do = "awake"
      PROVE  AntHigh' \/ (asleep' /\ \E j \in 1 .. i - 1 : todo'[j].do = "check")
  BY <1>1, <1>2, <1>3 DEF Checked
<1>4. ASSUME NEW i \in 1 .. Len(todo'), AntInit(todo'[i]) PROVE AntOn(todo'[i]) \/ Sleeping'
  <2>1. CASE i = 1
    BY <1>1, <1>4, <2>1 DEF Sleeping
  <2>2. CASE i # 1
    <3>1. i \in 2 .. Len(todo') \/ Len(todo') \notin Nat
      BY <2>2
    <3>2. Len(todo') \in Nat
      BY <1>1 DEF Linked
    <3> QED
      BY <1>1, <1>4, <3>1, <3>2, AntLater
  <2> QED
    BY <2>1, <2>2
<1> QED
  BY <1>2, <1>3, <1>4 DEF AntInv126x

LEMMA AntInit126x == ASSUME Init PROVE AntInv126x
<1>1. radio \in Radio /\ asleep
  BY DEF Init, Sx126xInitial
<1>2. PICK n \in Nat \ {0} : StartsUp(radio, todo, n)
  BY <1>1, InitTodoIs DEF Init
<1>3. /\ Len(todo) = n + 4 /\ todo[1].do = "spi"
      /\ \A i \in 2 .. n + 1 : todo[i].do = "init" /\ todo[i].obj # "Ant"
      /\ todo[n + 2].do = "eventq" /\ todo[n + 3].do = "task" /\ todo[n + 4].do = "mac"
  BY <1>2 DEF StartsUp
<1>4. ASSUME NEW i \in 1 .. Len(todo) PROVE todo[i].do # "awake" /\ ~AntInit(todo[i])
  <2>1. i = 1 \/ i \in 2 .. n + 1 \/ i = n + 2 \/ i = n + 3 \/ i = n + 4
    BY <1>3
  <2> QED
    BY <1>3, <2>1 DEF AntInit
<1> QED
  BY <1>1, <1>4 DEF AntInv126x

LEMMA AntRuns126x ==
    ASSUME PinState, AntInv126x, TodoInv', radio = "SX126x", PinOf["Ant"] # NC, Runs
    PROVE  AntInv126x'
<1>0. TodoInv
  BY DEF PinState
<1>1. PICK c : c = todo[1]
  BY SMTT(30)
<1>2. todo # <<>> /\ todo' = Tail(todo) /\ Good(radio, c) /\ Head(todo) = c
      /\ Len(todo) \in Nat \ {0} /\ Len(todo') = Len(todo) - 1 /\ radio' = radio
      /\ \A i \in 1 .. Len(todo) - 1 : todo'[i] = todo[i + 1]
  BY <1>0, <1>1, RunsOn, TodoIs
<1>3. 1 \in 1 .. Len(todo)
  BY <1>2
<1> DEFINE ant == PinOf["Ant"]
<1>4. c.do # "check"
  BY <1>2 DEF Runs, StepGpio, GpioCall, StepByte, StepWait, StepSleep, StepOpMode, StepStart, Now
<1>5. /\ AntInit(c) /\ AntOn(c) => AntHigh'
      /\ ~AntInit(c) => (AntHigh' <=> AntHigh)
  <2>1. CASE StepGpio
    <3>1. c.do = "write" => c.obj = "Nss" /\ pin["Nss"] = PinOf["Nss"]
      <4>1. "Nss" \in Wired(radio)
        BY DEF Wired
      <4> QED
        BY <1>0, <1>1, <1>2, <4>1, PinsSet DEF Good, PinState
    <3>2. /\ AntInit(c) => mode'[ant] = HalMode(c.arg) /\ level'[ant] = (IF c.arg = "PIN_OUTPUT" THEN c.val ELSE level[ant])
          /\ ~AntInit(c) => mode'[ant] = mode[ant] /\ level'[ant] = level[ant]
      BY <1>1, <2>1, <3>1, NssWired, PinEffect DEF AntInit
    <3> QED
      BY <3>2 DEF AntHigh, AntOn, HalMode
  <2>2. CASE ~StepGpio
    <3>1. UNCHANGED <<mode, level>>
      BY <2>2, OthersKeep DEF Runs, Others, pinVars
    <3>2. ~AntInit(c)
      BY <1>2, <2>2 DEF Runs, StepByte, StepWait, StepSleep, StepOpMode, StepStart, Now, AntInit
    <3> QED
      BY <3>1, <3>2 DEF AntHigh
  <2> QED
    BY <2>1, <2>2
<1>6. /\ c.do = "asleep" => asleep'
      /\ c.do \notin {"asleep", "awake"} => asleep' = asleep
  <2>1. CASE StepGpio
    BY <1>2, <2>1 DEF StepGpio, ChipSees, Is126x, GpioCall
  <2>2. CASE StepByte
    BY <1>2, <2>2 DEF StepByte, SpiInOut, Now
  <2>3. CASE StepSleep
    BY <1>2, <2>3 DEF StepSleep, Now
  <2>4. CASE StepWait \/ StepOpMode \/ StepStart
    BY <1>2, <2>4 DEF StepWait, StepOpMode, StepStart, Now, chipVars
  <2> QED
    BY <2>1, <2>2, <2>3, <2>4 DEF Runs
<1>7. c.do # "asleep" /\ Sleeping => Sleeping'
  <2> SUFFICES ASSUME c.do # "asleep", Sleeping PROVE Sleeping'
    OBVIOUS
  <2>1. PICK i \in 1 .. Len(todo) : todo[i].do = "asleep"
    BY DEF Sleeping
  <2>2. i # 1
    BY <1>1, <2>1
  <2>3. i - 1 \in 1 .. Len(todo') /\ todo'[i - 1] = todo[i]
    BY <1>2, <2>2
  <2> QED
    BY <2>1, <2>3 DEF Sleeping
<1>8. c.do = "awake" => AntHigh
  BY <1>1, <1>3 DEF AntInv126x
<1>9. AntInit(c) => AntOn(c) \/ Sleeping
  BY <1>1, <1>3 DEF AntInv126x
<1>10. asleep' \/ AntHigh' \/ Sleeping'
  <2>1. CASE AntInit(c)
    BY <1>5, <1>7, <1>9, <2>1 DEF AntInit
  <2>2. CASE ~AntInit(c)
    BY <1>5, <1>6, <1>7, <1>8, <2>2 DEF AntInv126x
  <2> QED
    BY <2>1, <2>2
<1>11. ASSUME NEW i \in 1 .. Len(todo'), todo'[i].do = "awake"
       PROVE  \/ AntHigh'
              \/ \E j \in 1 .. i - 1 : AntOn(todo'[j])
              \/ asleep' /\ \E j \in 1 .. i - 1 : todo'[j].do = "check"
  <2>1. i + 1 \in 1 .. Len(todo) /\ todo[i + 1].do = "awake"
    BY <1>2, <1>11
  <2>2. AntInit(c) => AntOn(c)
    BY <1>0, <1>9, <2>1 DEF TodoInv, OneMode, Sleeping
  <2>3. CASE AntHigh
    BY <1>5, <2>2, <2>3
  <2>4. CASE \E j \in 1 .. i : AntOn(todo[j])
    <3>1. PICK j \in 1 .. i : AntOn(todo[j])
      BY <2>4
    <3>2. CASE j = 1
      BY <1>1, <1>5, <3>1, <3>2 DEF AntOn
    <3>3. CASE j # 1
      <4>1. j - 1 \in 1 .. i - 1 /\ todo'[j - 1] = todo[j]
        BY <1>2, <3>3
      <4> QED
        BY <3>1, <4>1
    <3> QED
      BY <3>2, <3>3
  <2>5. CASE ~AntHigh /\ asleep /\ \E j \in 1 .. i : todo[j].do = "check"
    <3>1. PICK j \in 1 .. i : todo[j].do = "check"
      BY <2>5
    <3>2. j - 1 \in 1 .. i - 1 /\ todo'[j - 1] = todo[j]
      BY <1>1, <1>2, <1>4, <3>1
    <3>3. asleep'
      BY <1>6, <1>8, <2>5
    <3> QED
      BY <3>1, <3>2, <3>3
  <2> QED
    BY <2>1, <2>3, <2>4, <2>5 DEF AntInv126x
<1>12. ASSUME NEW i \in 1 .. Len(todo'), AntInit(todo'[i]) PROVE AntOn(todo'[i])
  <2>1. i + 1 \in 2 .. Len(todo) /\ todo'[i] = todo[i + 1]
    BY <1>2
  <2> QED
    BY <1>0, <1>12, <2>1, AntLater DEF TodoInv
<1> QED
  BY <1>10, <1>11, <1>12 DEF AntInv126x

LEMMA AntCheck126x ==
    ASSUME PinState, AntInv126x, StepCheck
    PROVE  AntInv126x'
<1>0. TodoInv
  BY DEF PinState
<1>1. todo # <<>> /\ todo[1].do = "check" /\ Program(radio, todo') /\ todo'[1].do \in {"mask", "wait"}
      /\ Len(todo) \in Nat \ {0} /\ todo' # <<>>
  BY <1>0, CheckGrows, TodoIs
<1>2. PICK n \in Nat \ {0} : CheckTodo(n)
  BY <1>0, CheckGrows
<1>3. /\ Len(todo') = Len(todo) - 1 + n
      /\ \A i \in 1 .. n : todo'[i].do \notin Modes
      /\ \A i \in n + 1 .. Len(todo') : todo'[i] = todo[i - n + 1]
      /\ asleep => \E j \in 1 .. n : AntOn(todo'[j])
  BY <1>2 DEF CheckTodo
<1>4. UNCHANGED <<mode, level, asleep>>
  BY DEF StepCheck, gpioVars, pinVars, chipVars
<1>5. AntHigh' <=> AntHigh
  BY <1>4 DEF AntHigh
<1>6. ASSUME NEW i \in 2 .. Len(todo) PROVE i - 1 + n \in n + 1 .. Len(todo') /\ todo'[i - 1 + n] = todo[i]
  <2>1. i - 1 + n \in n + 1 .. Len(todo') /\ (i - 1 + n) - n + 1 = i
    BY <1>1, <1>3
  <2> QED
    BY <1>3, <2>1
<1>7. Sleeping => Sleeping'
  <2> SUFFICES ASSUME Sleeping PROVE Sleeping'
    OBVIOUS
  <2>1. PICK i \in 1 .. Len(todo) : todo[i].do = "asleep"
    BY DEF Sleeping
  <2>2. i \in 2 .. Len(todo)
    BY <1>1, <2>1
  <2>3. i - 1 + n \in 1 .. Len(todo') /\ todo'[i - 1 + n].do = "asleep"
    BY <1>1, <1>6, <2>1, <2>2
  <2> QED
    BY <2>3 DEF Sleeping
<1>8. ASSUME NEW i \in 1 .. Len(todo'), todo'[i].do = "awake"
      PROVE  \/ AntHigh'
             \/ \E j \in 1 .. i - 1 : AntOn(todo'[j])
             \/ asleep' /\ \E j \in 1 .. i - 1 : todo'[j].do = "check"
  <2>1. i \in n + 1 .. Len(todo')
    BY <1>1, <1>3, <1>8 DEF Modes
  <2>2. i - n + 1 \in 2 .. Len(todo) /\ todo[i - n + 1].do = "awake"
    BY <1>1, <1>3, <1>8, <2>1
  <2>3. CASE AntHigh
    BY <1>5, <2>3
  <2>4. CASE \E j \in 1 .. (i - n + 1) - 1 : AntOn(todo[j])
    <3>1. PICK j \in 1 .. (i - n + 1) - 1 : AntOn(todo[j])
      BY <2>4
    <3>2. j # 1
      BY <1>1, <3>1 DEF AntOn, AntInit
    <3>3. j \in 2 .. Len(todo)
      BY <2>2, <3>2
    <3>4. j - 1 + n \in 1 .. i - 1 /\ todo'[j - 1 + n] = todo[j]
      BY <1>6, <2>1, <3>3
    <3> QED
      BY <3>1, <3>4
  <2>5. CASE asleep
    <3>1. PICK j \in 1 .. n : AntOn(todo'[j])
      BY <1>3, <2>5
    <3>2. j \in 1 .. i - 1
      BY <2>1
    <3> QED
      BY <3>1, <3>2
  <2>6. i - n + 1 \in 1 .. Len(todo)
    BY <2>2
  <2> QED
    BY <2>2, <2>3, <2>4, <2>5, <2>6 DEF AntInv126x
<1>9. ASSUME NEW i \in 1 .. Len(todo'), AntInit(todo'[i]) PROVE AntOn(todo'[i])
  <2>1. i # 1
    BY <1>1, <1>9 DEF AntInit
  <2>2. i \in 2 .. Len(todo')
    BY <1>1, <1>3, <2>1
  <2> QED
    BY <1>1, <1>9, <2>2, AntLater DEF Program
<1> QED
  BY <1>4, <1>5, <1>7, <1>8, <1>9 DEF AntInv126x

LEMMA AntNext126x ==
    ASSUME PinState, AntInv126x, radio = "SX126x", PinOf["Ant"] # NC, [Next]_vars
    PROVE  AntInv126x'
<1>0. radio \in Radio /\ TodoInv /\ IrqInv
  BY DEF PinState
<1>1. CASE Starts
  <2>1. todo = <<>> /\ Begins(radio, todo') /\ UNCHANGED <<mode, level, asleep>>
    BY <1>1 DEF Starts, gpioVars, pinVars
  <2>2. ~Sleeping
    BY <2>1 DEF Sleeping
  <2> QED
    BY <2>1, <2>2, AntBegins DEF AntInv126x
<1>2. CASE Runs
  BY <1>0, <1>2, TodoNext, AntRuns126x
<1>3. CASE StepCheck
  BY <1>3, AntCheck126x
<1>4. CASE StepMac
  <2>1. Len(todo) = 1 /\ todo[1].do = "mac" /\ Begins(radio, todo')
    BY <1>0, <1>4, MacGrows
  <2>2. ~Sleeping /\ UNCHANGED <<mode, level, asleep>>
    BY <1>4, <2>1 DEF Sleeping, StepMac, gpioVars, pinVars, chipVars
  <2> QED
    BY <2>1, <2>2, AntBegins DEF AntInv126x
<1>5. CASE Meanwhile
  BY <1>5, MeanwhileKeeps DEF AntInv126x, AntHigh, Sleeping, pinVars
<1>6. ~StepLowPower
  BY <1>0, LowPowerGrows
<1> QED
  BY <1>0, <1>1, <1>2, <1>3, <1>4, <1>5, <1>6, NextIs DEF Others, Runs

-----------------------------------------------------------------------------
(* The board as a whole.                                                   *)

BoardState == BusState /\ Sx127xTypeOK /\ AntInv

LEMMA BoardStateInit == ASSUME Init PROVE BoardState
  BY BusStateInit, RadioTypeInit, AntInit127x, AntInit126x DEF BoardState, AntInv, Is126x

LEMMA BoardStateNext == ASSUME BoardState, [Next]_vars PROVE BoardState'
<1>1. BusState' /\ Sx127xTypeOK' /\ radio' = radio /\ PinState
  BY BusStateNext, PinStateNext, RadioTypeNext DEF BoardState, BusState
<1>2. CASE radio = "SX126x"
  BY <1>1, <1>2, AntNext126x DEF BoardState, AntInv, Is126x
<1>3. CASE radio # "SX126x"
  BY <1>1, <1>3, AntNext127x DEF BoardState, AntInv, Is126x
<1> QED
  BY <1>1, <1>2, <1>3 DEF BoardState

LEMMA BoardStateWrites == ASSUME BoardState PROVE WritesReachBoard
<1> SUFFICES ASSUME todo # <<>>, Head(todo).do \in {"write", "mask", "enable"}, NEW c, c = Head(todo)
             PROVE  /\ pin[c.obj] = PinOf[c.obj]
                    /\ c.do = "write" /\ PinOf[c.obj] # NC => mode[PinOf[c.obj]] = "out"
  BY DEF WritesReachBoard
<1>1. TodoInv /\ PinsInv /\ IoInv /\ AntInv
  BY DEF BoardState, BusState, PinState
<1>2. c = todo[1] /\ Good(radio, c)
  BY <1>1, TodoIs
<1>3. c.obj \in Wired(radio) => pin[c.obj] = PinOf[c.obj]
  BY <1>1, <1>2, PinsSet
<1>4. CASE c.do \in {"mask", "enable"}
  BY <1>2, <1>3, <1>4, GoodIs
<1>5. CASE c.do = "write" /\ Is126x
  <2>1. c.obj = "Nss" /\ "Nss" \in Wired(radio)
    BY <1>2, <1>5 DEF Good, Is126x, Wired
  <2> QED
    BY <1>1, <1>2, <1>3, <1>5, <2>1, IoIsUp DEF IoUp
<1>6. CASE c.do = "write" /\ ~Is126x
  BY <1>1, <1>2, <1>6 DEF Good, Is126x, AntInv, AntInv127x, AntInit, AntWrite
<1> QED
  BY <1>4, <1>5, <1>6

LEMMA BoardStateSwitch == ASSUME BoardState PROVE SwitchFollowsMode
  BY DEF BoardState, AntInv, AntInv126x, AntInv127x, Settled, AntMatches, AntHigh, Sleeping, SwitchFollowsMode, Idle

(* Each function of the board and the driver writes a level, masks and     *)
(* unmasks through an object GpioInit has set, and a level on an output    *)
(* only: in whatever order the driver takes the pins, gives them back,     *)
(* sleeps and wakes, and whatever the board has wired.                     *)
THEOREM WritesAreToBoard == Spec => []WritesReachBoard
<1>1. Init => BoardState
  BY BoardStateInit
<1>2. BoardState /\ [Next]_vars => BoardState'
  BY BoardStateNext
<1>3. BoardState => WritesReachBoard
  BY BoardStateWrites
<1> QED
  BY <1>1, <1>2, <1>3, PTL DEF Spec

(* Between the driver's calls the antenna switch is where the radio's mode *)
(* wants it, whatever modes came before: SetAntSwLowPower only touches it  *)
(* when its flag is news, and SX126xSetSleep gives it back while the       *)
(* driver's own test of the mode is what powers it again.                  *)
THEOREM SwitchFollows == Spec => []SwitchFollowsMode
<1>1. Init => BoardState
  BY BoardStateInit
<1>2. BoardState /\ [Next]_vars => BoardState'
  BY BoardStateNext
<1>3. BoardState => SwitchFollowsMode
  BY BoardStateSwitch
<1> QED
  BY <1>1, <1>2, <1>3, PTL DEF Spec
=============================================================================
