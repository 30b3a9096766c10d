----------------------------- MODULE BoardProofs -----------------------------
(***************************************************************************)
(* Proofs about RadioBoard and BoardUtilities, for every board, region,    *)
(* power, channel and width of the integers: start-up, the amplifier, and, *)
(* on the invariants of RadioBoardProofs, the memory that the SX126x board *)
(* implements and the types of the board's variables.                      *)
(***************************************************************************)
EXTENDS RadioBoardProofs, BoardUtilities

-----------------------------------------------------------------------------
(* Random numbers.                                                         *)

\* The generator's state is never negative.
LEMMA RandIsNat == ASSUME NEW value \in Int PROVE rand(value) \in 0 .. IntMax
<1>1. value * RandMul + RandAdd \in Int /\ IntMax + 1 \in Nat \ {0}
  BY UtilitiesAssumption
<1>2. \A a \in Int, b \in Nat \ {0} : a % b \in 0 .. b - 1
  OBVIOUS
<1> QED
  BY <1>1, <1>2, UtilitiesAssumption DEF rand

\* randr answers in the range it was asked for, whatever the seed and the
\* generator's constants, as long as the range's width is an int32_t.
THEOREM RandomInRange == RandrInRange
<1> SUFFICES ASSUME NEW seed \in 0 .. 2 * IntMax + 1,
                    NEW min \in -IntMax - 1 .. IntMax, NEW max \in -IntMax - 1 .. IntMax, min <= max
             PROVE  /\ randr(srand1(seed), min, max) \in min .. max
                    /\ randr(rand(srand1(seed)), min, max) \in min .. max
  BY DEF RandrInRange
<1>1. min \in Int /\ max \in Int /\ seed \in Int /\ IntMax \in Nat
  BY UtilitiesAssumption
<1>2. ASSUME NEW value \in Int PROVE randr(value, min, max) \in min .. max
  <2>1. rand(value) \in Nat /\ max - min + 1 \in Nat \ {0}
    BY <1>1, RandIsNat
  <2>2. \A a \in Int, b \in Nat \ {0} : a % b \in 0 .. b - 1
    OBVIOUS
  <2>3. rand(value) % (max - min + 1) \in 0 .. max - min
    BY <1>1, <2>1, <2>2
  <2> QED
    BY <1>1, <2>3 DEF randr
<1>3. srand1(seed) \in Int
  BY <1>1 DEF srand1
<1>4. rand(srand1(seed)) \in Int
  BY <1>1, <1>3, RandIsNat
<1> QED
  BY <1>2, <1>3, <1>4

-----------------------------------------------------------------------------
(* The power amplifier.                                                    *)

\* The +20 dBm setting that the requests before have left is one of two.
PowerInv == paDac \in {PaDacUsual, PaDac20dBm} /\ PowerFollowsRequest

\* Of the powers between two bounds, the clamped one is the nearest.
LEMMA ClampIsNearest ==
    ASSUME NEW power \in Int, NEW low \in Int, NEW high \in Int, low <= high
    PROVE  Clamp(power, low, high) \in Nearest(power, low .. high)
<1>1. Clamp(power, low, high) \in low .. high
  BY DEF Clamp
<1>2. \A q \in low .. high : Distance(Clamp(power, low, high), power) <= Distance(q, power)
  BY DEF Clamp, Distance
<1> QED
  BY <1>1, <1>2 DEF Nearest

\* One request on PA_BOOST, whatever the setting before it.
LEMMA BoostEmits ==
    ASSUME NEW power \in Int, NEW board, NEW after, after = PaDacFor("PABOOST", power, paDac),
           NEW r, r.select = "PABOOST", r.output = OutputPower("PABOOST", power, after)
    PROVE  Emitted(board, r, after) = 10 * Clamp(power, 2, 20)
<1>1. CASE power > 17
  <2>1. after = PaDac20dBm
    BY <1>1 DEF PaDacFor
  <2>2. Clamp(power, 5, 20) = Clamp(power, 2, 20) /\ Clamp(power, 5, 20) - 5 \in 0 .. 15
    BY <1>1 DEF Clamp
  <2>3. r.output + 5 = Clamp(power, 2, 20)
    BY <2>1, <2>2 DEF OutputPower
  <2> QED
    BY <2>1, <2>3 DEF Emitted
<1>2. CASE power <= 17
  <2>1. after = PaDacUsual /\ after # PaDac20dBm
    BY <1>2 DEF PaDacFor, PaDacUsual, PaDac20dBm
  <2>2. Clamp(power, 2, 17) = Clamp(power, 2, 20) /\ Clamp(power, 2, 17) - 2 \in 0 .. 15
    BY <1>2 DEF Clamp
  <2>3. r.output + 2 = Clamp(power, 2, 20)
    BY <2>1, <2>2 DEF OutputPower
  <2> QED
    BY <2>1, <2>3 DEF Emitted
<1> QED
  BY <1>1, <1>2

\* One request on RFO: the SX1276, with MaxPower at 7, emits 1 dB more than
\* the SX1272.
LEMMA RfoEmits ==
    ASSUME NEW power \in Int, NEW after, NEW r, r.select = "RFO",
           r.output = OutputPower("RFO", power, after)
    PROVE  /\ Emitted("SX1272", r, after) = 10 * Clamp(power, -1, 14)
           /\ r.max = 7 => Emitted("SX1276", r, after) = 10 * Clamp(power + 1, 0, 15)
<1>1. /\ Clamp(power, -1, 14) + 1 \in 0 .. 15
      /\ Clamp(power, -1, 14) + 1 = Clamp(power + 1, 0, 15)
      /\ Clamp(power, -1, 14) \in Int
  BY DEF Clamp
<1>2. r.output = Clamp(power, -1, 14) + 1 /\ r.output = Clamp(power + 1, 0, 15)
  BY <1>1 DEF OutputPower
<1>3. Emitted("SX1272", r, after) = 10 * (r.output - 1)
  BY DEF Emitted
<1>4. Emitted("SX1276", r, after) = 108 + 6 * r.max - 10 * (15 - r.output)
  BY DEF Emitted
<1> QED
  BY <1>1, <1>2, <1>3, <1>4

\* A call of the driver that is not SetRfTxPower asks for no power.
LEMMA DrivenPower ==
    ASSUME PowerInv, NEW program, NEW o, Start(program, o)
    PROVE  PowerInv'
  BY DEF PowerInv, PowerFollowsRequest, Start

LEMMA SetPowerStep == ASSUME PowerInv, SetPower PROVE PowerInv'
<1>1. PICK power \in Power, select \in {"RFO", "PABOOST"}, max \in {0, 7} :
        /\ SetRfTxPower(power, select, max)
        /\ radio = "SX1272" \/ (radio = "SX1276" /\ max = 7)
        /\ radio' = radio
  BY DEF SetPower, SX1272SetRfTxPower, SX1276SetRfTxPower, SX1272GetPaSelect, SX1276GetPaSelect
<1>2. power \in Int
  BY RadioAssumption
<1>3. /\ paDac' = PaDacFor(select, power, paDac)
      /\ request' = [select |-> select, power |-> power, max |-> max,
                     output |-> OutputPower(select, power, paDac')]
  BY <1>1 DEF SetRfTxPower
<1>4. paDac' \in {PaDacUsual, PaDac20dBm}
  BY <1>3 DEF PaDacFor, PowerInv
<1>5. /\ request'.select = select /\ request'.power = power /\ request'.max = max
      /\ request'.output = OutputPower(select, power, paDac')
  BY <1>3
<1> DEFINE Follows(over) ==
             \E p \in Nearest(request'.power + over, Reachable(radio', request'.select)) :
                 Emitted(radio', request', paDac') = 10 * p
           Over == IF radio' = "SX1276" /\ request'.select = "RFO" THEN 1 ELSE 0
<1>6. Follows(Over) => PowerInv'
  BY <1>4, Zenon DEF PowerInv, PowerFollowsRequest
<1>7. CASE select = "PABOOST"
  <2>1. Emitted(radio', request', paDac') = 10 * Clamp(power, 2, 20)
    <3>1. request'.select = "PABOOST" /\ request'.output = OutputPower("PABOOST", power, paDac')
      BY <1>5, <1>7
    <3>2. paDac' = PaDacFor("PABOOST", power, paDac)
      BY <1>3, <1>7
    <3> QED
      BY <1>2, <3>1, <3>2, BoostEmits, Zenon
  <2>2. Clamp(power, 2, 20) \in Nearest(power, 2 .. 20)
    <3>1. power \in Int /\ 2 \in Int /\ 20 \in Int /\ 2 <= 20
      BY <1>2
    <3> QED
      BY <3>1, ClampIsNearest, Zenon
  <2>3. Reachable(radio', "PABOOST") = 2 .. 20
    BY <1>2 DEF Reachable
  <2>4. Nearest(request'.power + 0, Reachable(radio', request'.select)) = Nearest(power, 2 .. 20)
    <3>1. request'.power + 0 = power
      BY <1>2, <1>5
    <3>2. Reachable(radio', request'.select) = 2 .. 20
      BY <1>5, <1>7, <2>3
    <3> QED
      BY <3>1, <3>2
  <2>5. Follows(0)
    BY <2>1, <2>2, <2>4
  <2>6. Over = 0
    BY <1>5, <1>7
  <2> QED
    BY <1>6, <2>5, <2>6, Zenon
<1>8. CASE select = "RFO" /\ radio = "SX1272"
  <2>1. Emitted(radio', request', paDac') = 10 * Clamp(power, -1, 14)
    <3>1. request'.select = "RFO" /\ request'.output = OutputPower("RFO", power, paDac')
      BY <1>5, <1>8
    <3>2. radio' = "SX1272"
      BY <1>1, <1>5, <1>8
    <3> QED
      BY <1>2, <3>1, <3>2, RfoEmits, Zenon
  <2>2. Clamp(power, -1, 14) \in Nearest(power, -1 .. 14)
    <3>1. power \in Int /\ -1 \in Int /\ 14 \in Int /\ -1 <= 14
      BY <1>2
    <3> QED
      BY <3>1, ClampIsNearest, Zenon
  <2>3. Reachable(radio', "RFO") = -1 .. 14 /\ radio' = "SX1272"
    BY <1>1, <1>2, <1>8 DEF Reachable
  <2>4. Nearest(request'.power + 0, Reachable(radio', request'.select)) = Nearest(power, -1 .. 14)
    <3>1. request'.power + 0 = power
      BY <1>2, <1>5
    <3>2. Reachable(radio', request'.select) = -1 .. 14
      BY <1>5, <1>8, <2>3
    <3> QED
      BY <3>1, <3>2
  <2>5. Follows(0)
    BY <2>1, <2>2, <2>4
  <2>6. Over = 0
    BY <2>3
  <2> QED
    BY <1>6, <2>5, <2>6, Zenon
<1>9. CASE select = "RFO" /\ radio = "SX1276"
  <2>1. Emitted(radio', request', paDac') = 10 * Clamp(power + 1, 0, 15)
    <3>1. request'.select = "RFO" /\ request'.output = OutputPower("RFO", power, paDac')
      BY <1>5, <1>9
    <3>2. radio' = "SX1276" /\ request'.max = 7
      BY <1>1, <1>5, <1>9
    <3> QED
      BY <1>2, <3>1, <3>2, RfoEmits, Zenon
  <2>2. Clamp(power + 1, 0, 15) \in Nearest(power + 1, 0 .. 15)
    <3>1. power + 1 \in Int /\ 0 \in Int /\ 15 \in Int /\ 0 <= 15
      BY <1>2
    <3> QED
      BY <3>1, ClampIsNearest, Zenon
  <2>3. Reachable(radio', "RFO") = 0 .. 15 /\ radio' = "SX1276"
    BY <1>1, <1>9 DEF Reachable
  <2>4. Nearest(request'.power + 1, Reachable(radio', request'.select)) = Nearest(power + 1, 0 .. 15)
    <3>1. request'.power + 1 = power + 1
      BY <1>2, <1>5
    <3>2. Reachable(radio', request'.select) = 0 .. 15
      BY <1>5, <1>9, <2>3
    <3> QED
      BY <3>1, <3>2
  <2>5. Follows(1)
    BY <2>1, <2>2, <2>4
  <2>6. Over = 1
    BY <1>5, <1>9, <2>3
  <2> QED
    BY <1>6, <2>5, <2>6, Zenon
<1> QED
  BY <1>1, <1>7, <1>8, <1>9

\* SetRfTxPower leaves the amplifier at the nearest power it can emit, on the
\* SX1276's RFO to 1 dB more than was asked for, whatever requests came before.
THEOREM PowersFollow == Spec => []PowerFollowsRequest
<1>1. Init => PowerInv
  BY DEF Init, Sx127xInitial, PowerInv, PowerFollowsRequest
<1>2. PowerInv /\ [Next]_vars => PowerInv'
  <2> SUFFICES ASSUME PowerInv, [Next]_vars PROVE PowerInv'
    OBVIOUS
  <2>1. CASE Reinit \/ IoCycle \/ Ignore \/ Listen \/ SetMode \/ Critical \/ Command
    BY <2>1, DrivenPower DEF Reinit, IoCycle, Ignore, Listen, SetMode, Critical, Command, Drive
  <2>2. CASE WriteMemory \/ ReadMemory
    BY <2>2, DrivenPower DEF WriteMemory, ReadMemory
  <2>3. CASE SetPower
    BY <2>3, SetPowerStep
  <2>4. CASE Step
    <3>1. UNCHANGED <<paDac, request, radio>>
      BY <2>4 DEF Step, StepGpio, StepByte, StepWait, StepCheck, StepSleep, StepLowPower, StepOpMode,
                  StepStart, StepMac, Then, radioVars
    <3> QED
      BY <3>1 DEF PowerInv, PowerFollowsRequest
  <2>5. CASE Interrupt \/ LorawanTask \/ Chip
    <3>1. UNCHANGED <<paDac, request, radio>>
      BY <2>5 DEF Interrupt, LorawanTask, Chip, others, radioVars
    <3> QED
      BY <3>1 DEF PowerInv, PowerFollowsRequest
  <2>6. CASE UNCHANGED vars
    BY <2>6 DEF vars, radioVars, PowerInv, PowerFollowsRequest
  <2> QED
    BY <2>1, <2>2, <2>3, <2>4, <2>5, <2>6 DEF Next, DriverCalls
<1>3. PowerInv => PowerFollowsRequest
  BY DEF PowerInv
<1> QED
  BY <1>1, <1>2, <1>3, PTL DEF Spec

-----------------------------------------------------------------------------
(* Start-up.                                                               *)

StartCalls ==
    [do : {"spi", "init", "eventq", "task", "mac"}, obj : Obj \cup {""},
     arg : {"", "PIN_OUTPUT", "PIN_INPUT"}, val : 0 .. 1]

\* The queue and its task come before the MAC in what start-up has to do.
Ordered(calls, done) ==
    /\ \E i \in 1 .. Len(calls) : calls[i].do = "mac"
    /\ \A i \in 1 .. Len(calls) : calls[i].do = "mac" =>
        \A x \in {"eventq", "task"} : x \in done \/ \E j \in 1 .. i - 1 : calls[j].do = x

Ready == {"eventq", "task"} \subseteq started

\* Until the queue and its task are there, start-up has only calls to make
\* that configure no interrupt, and the MAC is still to come.
StartInv ==
    ~Ready => /\ queue = <<>> /\ irqSet = {}
              /\ todo \in Seq(StartCalls) /\ Ordered(todo, started)

LEMMA StartCall ==
    ASSUME NEW what \in {"spi", "eventq", "task", "mac"}
    PROVE  Do(what) \in StartCalls /\ Do(what).do = what
<1>1. Do(what) = [do |-> what, obj |-> "", arg |-> "", val |-> 0]
  BY DEF Do, Call
<1>2. /\ what \in {"spi", "init", "eventq", "task", "mac"} /\ "" \in Obj \cup {""}
      /\ "" \in {"", "PIN_OUTPUT", "PIN_INPUT"} /\ 0 \in 0 .. 1
  OBVIOUS
<1>3. \A D, O, A, V : \A d \in D, o \in O, a \in A, v \in V :
        [do |-> d, obj |-> o, arg |-> a, val |-> v] \in [do : D, obj : O, arg : A, val : V]
  OBVIOUS
<1>4. [do |-> what, obj |-> "", arg |-> "", val |-> 0] \in StartCalls
  BY <1>2, <1>3 DEF StartCalls
<1>5. Do(what).do = what
  <2>1. ASSUME NEW r, NEW d, NEW o, NEW a, NEW v, r = [do |-> d, obj |-> o, arg |-> a, val |-> v]
        PROVE  r.do = d
    BY <2>1
  <2> QED
    BY <1>1, <2>1
<1> QED
  BY <1>1, <1>4, <1>5, Zenon

\* lorawan_init only names the bus and initialises pins.
LEMMA InitCalls ==
    ASSUME NEW r \in Radio
    PROVE  /\ lorawan_init(r) \in Seq(StartCalls)
           /\ \A i \in 1 .. Len(lorawan_init(r)) : lorawan_init(r)[i].do # "mac"
<1> DEFINE S == {c \in StartCalls : c.do # "mac"}
<1>1. \A o \in Obj, m \in {"PIN_OUTPUT", "PIN_INPUT"}, v \in 0 .. 1 : InitPin(o, m, v) \in S
  BY DEF InitPin, Call, StartCalls
<1>2. Do("spi") \in S
  BY StartCall
<1> HIDE DEF S
<1>3. \A p \in Seq(S), q \in Seq(S) : p \o q \in Seq(S)
  OBVIOUS
<1>4. IoInit127x \in Seq(S)
  <2>1. \A i \in 1 .. 6 : InitPin(Dios[i], "PIN_INPUT", 0) \in S
    BY <1>1 DEF Dios, Obj, Dio
  <2>2. [i \in 1 .. 6 |-> InitPin(Dios[i], "PIN_INPUT", 0)] \in Seq(S)
    BY <2>1
  <2>3. <<InitPin("Nss", "PIN_OUTPUT", 1)>> \in Seq(S)
    BY <1>1 DEF Obj
  <2> QED
    BY <1>3, <2>2, <2>3 DEF IoInit127x
<1>5. SX126xIoInit \in Seq(S)
  <2> DEFINE pins == <<"Busy", "DIO1", "DIO2", "DIO3">>
  <2>1. \A i \in 1 .. 4 : InitPin(pins[i], "PIN_INPUT", 0) \in S
    BY <1>1 DEF Obj, Dio
  <2>2. [i \in 1 .. 4 |-> InitPin(pins[i], "PIN_INPUT", 0)] \in Seq(S)
    BY <2>1
  <2>3. <<InitPin("Nss", "PIN_OUTPUT", 1)>> \in Seq(S)
    BY <1>1 DEF Obj
  <2> QED
    BY <1>3, <2>2, <2>3 DEF SX126xIoInit
<1>6. IoInit(r) \in Seq(S)
  BY <1>4, <1>5, RadioAssumption DEF IoInit, SX1272IoInit, SX1276IoInit
<1>7. lorawan_init(r) \in Seq(S)
  BY <1>2, <1>3, <1>6 DEF lorawan_init
<1> HIDE DEF S
<1>8. S \subseteq StartCalls /\ \A c \in S : c.do # "mac"
  BY DEF S
<1> QED
  BY <1>7, <1>8

LEMMA StartInitially == Init => StartInv
<1> SUFFICES ASSUME Init PROVE StartInv
  OBVIOUS
<1> DEFINE p == lorawan_init(radio)
           q == lorawan_api_private_init
<1>1. p \in Seq(StartCalls) /\ \A i \in 1 .. Len(p) : p[i].do # "mac"
  BY InitCalls DEF Init
<1>2. /\ q \in Seq(StartCalls) /\ Len(q) = 3
      /\ q[1].do = "eventq" /\ q[2].do = "task" /\ q[3].do = "mac"
  <2>1. Do("eventq") \in StartCalls /\ Do("task") \in StartCalls /\ Do("mac") \in StartCalls
    BY StartCall
  <2>2. Do("eventq").do = "eventq" /\ Do("task").do = "task" /\ Do("mac").do = "mac"
    BY StartCall
  <2> QED
    BY <2>1, <2>2 DEF lorawan_api_private_init
<1>3. todo = p \o q
  BY DEF Init
<1> HIDE DEF p, q
<1>4. todo \in Seq(StartCalls) /\ Len(todo) = Len(p) + 3 /\ Len(p) \in Nat
  <2>1. p \in Seq(StartCalls) /\ q \in Seq(StartCalls)
    BY <1>1, <1>2
  <2>2. p \o q \in Seq(StartCalls) /\ Len(p \o q) = Len(p) + Len(q) /\ Len(p) \in Nat
    BY <2>1
  <2> QED
    BY <1>2, <1>3, <2>2
<1>5. /\ \A i \in 1 .. Len(p) : todo[i].do # "mac"
      /\ todo[Len(p) + 1].do = "eventq" /\ todo[Len(p) + 2].do = "task" /\ todo[Len(p) + 3].do = "mac"
  BY <1>1, <1>2, <1>3, <1>4
<1>6. Ordered(todo, started)
  <2>1. ASSUME NEW i \in 1 .. Len(todo), todo[i].do = "mac" PROVE i = Len(p) + 3
    BY <1>4, <1>5, <2>1
  <2> QED
    BY <1>4, <1>5, <2>1 DEF Ordered
<1> QED
  BY <1>4, <1>6 DEF Init, GpioInitial, StartInv

\* Start-up makes its next call, which is not the MAC's.
LEMMA StartAdvances ==
    ASSUME StartInv, ~Ready, Then(<<>>), todo # <<>>,
           started' \in {started, started \cup {Head(todo).do}},
           Head(todo).do \in {"eventq", "task"} => Head(todo).do \in started',
           queue' = <<>>, irqSet' = {}
    PROVE  StartInv'
<1> SUFFICES ASSUME ~Ready' PROVE StartInv'
  BY DEF StartInv
<1>1. todo \in Seq(StartCalls) /\ Ordered(todo, started) /\ todo # <<>>
  BY DEF StartInv
<1>2. todo' = Tail(todo)
  BY <1>1 DEF Then
<1>3. /\ todo' \in Seq(StartCalls) /\ Len(todo') = Len(todo) - 1 /\ Len(todo) \in Nat \ {0}
      /\ \A i \in 1 .. Len(todo') : todo'[i] = todo[i + 1]
      /\ Head(todo) = todo[1]
  BY <1>1, <1>2
<1>4. todo[1].do # "mac"
  BY <1>1, <1>3 DEF Ordered, Ready
<1>5. \E i \in 1 .. Len(todo') : todo'[i].do = "mac"
  <2>1. PICK i \in 1 .. Len(todo) : todo[i].do = "mac"
    BY <1>1 DEF Ordered
  <2>2. i # 1 /\ i - 1 \in 1 .. Len(todo') /\ todo'[i - 1].do = "mac"
    BY <1>3, <1>4, <2>1
  <2> QED
    BY <2>2
<1>6. ASSUME NEW i \in 1 .. Len(todo'), todo'[i].do = "mac", NEW x \in {"eventq", "task"}, x \notin started'
      PROVE  \E j \in 1 .. i - 1 : todo'[j].do = x
  <2>1. i + 1 \in 1 .. Len(todo) /\ todo[i + 1].do = "mac" /\ x \notin started
    BY <1>3, <1>6
  <2>2. PICK j \in 1 .. i : todo[j].do = x
    BY <1>1, <2>1 DEF Ordered
  <2>3. j # 1
    BY <1>3, <1>6, <2>2
  <2>4. j - 1 \in 1 .. i - 1 /\ todo'[j - 1].do = x
    BY <1>3, <2>2, <2>3
  <2> QED
    BY <2>4
<1> QED
  BY <1>3, <1>5, <1>6 DEF StartInv, Ordered

\* A task that drives the radio adds to what start-up has done.
LEMMA StartedGrows == ASSUME Next PROVE started \subseteq started'
<1>1. CASE DriverCalls
  <2>1. ASSUME NEW program, NEW o, Start(program, o) PROVE started' = started
    BY <2>1 DEF Start
  <2> QED
    BY <1>1, <2>1 DEF DriverCalls, Reinit, IoCycle, Ignore, Listen, SetMode, Critical, Command, Drive,
        WriteMemory, ReadMemory, SetPower
<1>2. CASE Step
  BY <1>2 DEF Step, StepGpio, StepByte, StepWait, StepCheck, StepSleep, StepLowPower, StepOpMode, StepStart, StepMac
<1>3. CASE Interrupt \/ LorawanTask \/ Chip
  BY <1>3 DEF Interrupt, LorawanTask, Chip, others
<1> QED
  BY <1>1, <1>2, <1>3 DEF Next

LEMMA StartStep == ASSUME StartInv, Next PROVE StartInv'
<1>1. CASE Ready
  BY <1>1, StartedGrows DEF Ready, StartInv
<1>2. CASE ~Ready
  <2>1. /\ todo \in Seq(StartCalls) /\ todo # <<>> /\ Ordered(todo, started)
        /\ queue = <<>> /\ irqSet = {}
    BY <1>2 DEF StartInv, Ordered
  <2>2. Head(todo) \in StartCalls /\ Head(todo) = todo[1] /\ Len(todo) >= 1 /\ Len(todo) \in Nat
    BY <2>1
  <2>3. Head(todo).do \in {"spi", "init", "eventq", "task"}
    <3>1. Head(todo).do \in {"spi", "init", "eventq", "task", "mac"}
      BY <2>2 DEF StartCalls
    <3>2. ASSUME todo[1].do = "mac" PROVE FALSE
      <4>1. \A x \in {"eventq", "task"} : x \in started
        BY <2>1, <2>2, <3>2 DEF Ordered
      <4> QED
        BY <1>2, <4>1 DEF Ready
    <3> QED
      BY <2>2, <3>1, <3>2
  <2>4. ~DriverCalls
    <3>1. ASSUME NEW program, NEW o, Start(program, o) PROVE FALSE
      BY <2>1, <3>1 DEF Start, Idle
    <3> QED
      BY <2>1, <3>1 DEF DriverCalls, Reinit, IoCycle, Ignore, Listen, SetMode, Critical, Command, Drive,
        WriteMemory, ReadMemory, SetPower, Idle
  <2>5. CASE Step
    <3>1. CASE StepStart
      <4>1. queue' = <<>> /\ irqSet' = {} /\ Then(<<>>) /\ started' = started \cup {Head(todo).do}
        BY <2>1, <3>1 DEF StepStart
      <4> QED
        BY <1>2, <2>1, <4>1, StartAdvances
    <3>2. CASE StepGpio
      <4>1. Head(todo).do = "init"
        BY <2>3, <3>2 DEF StepGpio, GpioCall
      <4>2. UNCHANGED irqVars
        BY <3>2, <4>1 DEF StepGpio, GpioCall, GpioInit
      <4>3. queue' = <<>> /\ irqSet' = {} /\ Then(<<>>) /\ started' = started
        BY <2>1, <3>2, <4>2 DEF StepGpio, irqVars
      <4> QED
        BY <1>2, <2>1, <4>1, <4>3, StartAdvances
    <3>3. ~(StepByte \/ StepWait \/ StepCheck \/ StepSleep \/ StepLowPower \/ StepOpMode \/ StepMac)
      BY <2>3 DEF StepByte, StepWait, StepCheck, StepSleep, StepLowPower, StepOpMode, StepMac, Now
    <3> QED
      BY <2>5, <3>1, <3>2, <3>3 DEF Step
  <2>6. CASE Interrupt
    BY <2>1, <2>6 DEF Interrupt, Edge
  <2>7. CASE LorawanTask
    BY <2>1, <2>7 DEF LorawanTask, RunToken
  <2>8. CASE Chip
    BY <2>8 DEF Chip, gpioVars, irqVars, others, StartInv, Ready
  <2> QED
    BY <2>4, <2>5, <2>6, <2>7, <2>8 DEF Next
<1> QED
  BY <1>1, <1>2

\* No interrupt posts a token before os_eventq_init has set the queue up and
\* os_task_init has given it its task, whatever the board and its edges
\* (lorawan_init, lorawan_api_private_init).
THEOREM QueueIsReady == Spec => []QueueReady
<1>1. StartInv /\ [Next]_vars => StartInv'
  <2> SUFFICES ASSUME StartInv, [Next]_vars PROVE StartInv'
    OBVIOUS
  <2>1. CASE UNCHANGED vars
    BY <2>1 DEF vars, gpioVars, irqVars, StartInv, Ready
  <2> QED
    BY <2>1, StartStep
<1>2. StartInv => QueueReady
  BY DEF StartInv, QueueReady, Ready
<1> QED
  BY StartInitially, <1>1, <1>2, PTL DEF Spec
-----------------------------------------------------------------------------
(* The radio's memory.                                                     *)

MemoryCodes == {"WRITE_REGISTER", "WRITE_BUFFER"}

\* Of the frames of s that begin before its last a calls, none writes.
Harmless(s, a) ==
    \A i \in 1 .. Len(s) - a - 1 : NssFalls(s[i]) /\ s[i + 1].do = "byte" => s[i + 1].val \notin MemoryCodes

\* Nor does the frame that the chip is listening to.
Listened(a) ==
    todo # <<>> /\ todo[1].do = "byte" /\ chip = "listening" /\ Len(todo) > a =>
        IF frame = <<>> THEN todo[1].val \notin MemoryCodes ELSE frame[1] \notin MemoryCodes

\* What a frame of the access o sends before the bytes that it is about.
HeaderLen(o) == (IF o.space = "reg" THEN 3 ELSE 2) + (IF o.kind = "read" THEN 1 ELSE 0)

HeaderByte(o, k) ==
    CASE k = 1 -> (IF o.space = "reg" THEN IF o.kind = "write" THEN "WRITE_REGISTER" ELSE "READ_REGISTER"
                                      ELSE IF o.kind = "write" THEN "WRITE_BUFFER" ELSE "READ_BUFFER")
      [] k = 2 -> (IF o.space = "reg" THEN o.at \div 256 ELSE o.at)
      [] k = 3 /\ o.space = "reg" -> o.at % 256
      [] OTHER -> 0

\* The calls of an access to n cells from the fall of Nss on, and call k.
AccessLen(o, n) == HeaderLen(o) + n + 3

AccessCall(o, n, k, c) ==
    LET h == HeaderLen(o)
    IN  /\ k = 1 => NssFalls(c)
        /\ k \in 2 .. h + 1 => c.do = "byte" /\ c.arg = "send" /\ c.val = HeaderByte(o, k - 1)
        /\ k \in h + 2 .. h + n + 1 =>
            /\ c.do = "byte"
            /\ IF o.kind = "write" THEN c.arg = "send" /\ c.val = o.data[k - h - 1] ELSE c.arg = "receive"
        /\ k = h + n + 2 => NssRises(c)
        /\ k = h + n + 3 => c.do = "wait"

\* The place in the access of the call that is next: none of it, or less,
\* before the access has begun.
Place(o, n) == AccessLen(o, n) + 1 - Len(todo)

\* What is to do is the rest of the access, after calls that read nothing.
AccessLeft(o, n) ==
    \A i \in 1 .. Len(todo) :
        LET k == Place(o, n) + i - 1
        IN  IF k <= 0 THEN todo[i].do = "byte" => todo[i].arg = "send" ELSE AccessCall(o, n, k, todo[i])

CellOf(o, j) == <<o.space, o.at + j - 1>>

\* What the frame's bytes up to place k have done to the chip's memory m, the
\* bytes received x and the frame f.
ProgressOf(o, n, k, m, x, f) ==
    LET h == HeaderLen(o)
    IN  /\ o.kind = "write" => \A j \in 1 .. n : h + 1 + j < k => m[CellOf(o, j)] = o.data[j]
        /\ o.kind = "read" => /\ Len(x) = IF k <= h + 2 THEN 0 ELSE IF k <= h + n + 2 THEN k - h - 2 ELSE n
                              /\ \A j \in 1 .. Len(x) : x[j] = m[CellOf(o, j)]
        /\ k \in 2 .. h + n + 2 => /\ Len(f) = k - 2
                                   /\ \A i \in 1 .. 3 : i <= h /\ i <= k - 2 => f[i] = HeaderByte(o, i)

Progress(o, n, k) == ProgressOf(o, n, k, mem, rx, frame)

\* An access to n cells of the memory.
IsAccess(o, n) ==
    /\ n \in 0 .. Size
    /\ o.kind \in {"read", "write"} /\ <<o.space, o.at>> \in Cell
    /\ \A j \in 1 .. n : CellOf(o, j) \in Cell
    /\ o.kind = "write" => o.data \in [1 .. n -> Value]

Accessing(n) ==
    /\ radio = "SX126x"
    /\ IsAccess(op, n) /\ AccessLeft(op, n) /\ Progress(op, n, Place(op, n))
    /\ Harmless(todo, AccessLen(op, n)) /\ Listened(AccessLen(op, n))

ChipTyped == mem \in [Cell -> Value] /\ frame \in Seq(Vals) /\ rx \in Seq(Value \cup {Status})

FrameInv == todo = <<>> \/ ~InFrame(todo[1]) => frame = <<>>

MemInv ==
    /\ ChipTyped /\ FrameInv
    /\ IF op = NoOp THEN Harmless(todo, 0) /\ Listened(0) ELSE \E n \in 0 .. Size : Accessing(n)

-----------------------------------------------------------------------------
(* The functions of the SX126x board that write no memory.                 *)

\* A part of a function whose frames write nothing, and whose bytes go in the
\* directions D.
Silent(s, D) ==
    /\ s \in Seq(Calls("SX126x"))
    /\ s # <<>> => s[1].do # "byte"
    /\ Harmless(s, 0)
    /\ \A i \in 1 .. Len(s) : s[i].do = "byte" => s[i].arg \in D

Sends == {"send"}
Either == {"send", "receive"}

LEMMA HarmlessConcat ==
    ASSUME NEW r, NEW p \in Seq(Calls(r)), NEW q \in Seq(Calls(r)), NEW a \in Nat,
           Harmless(p, 0), Harmless(q, a), q # <<>> => q[1].do # "byte"
    PROVE  Harmless(p \o q, a)
<1> DEFINE s == p \o q
           m == Len(p)
           n == Len(q)
<1>1. /\ Len(s) = m + n /\ m \in Nat /\ n \in Nat
      /\ \A i \in 1 .. m : s[i] = p[i]
      /\ \A i \in m + 1 .. m + n : i - m \in 1 .. n /\ s[i] = q[i - m]
      /\ n = 0 <=> q = <<>>
  BY Concat, EmptyIs
<1>2. \A i \in 1 .. m - 1 : NssFalls(p[i]) /\ p[i + 1].do = "byte" => p[i + 1].val \notin MemoryCodes
  <2>1. m - 0 - 1 = m - 1
    BY <1>1
  <2> QED
    BY <2>1 DEF Harmless
<1>3. \A i \in 1 .. n - a - 1 : NssFalls(q[i]) /\ q[i + 1].do = "byte" => q[i + 1].val \notin MemoryCodes
  BY DEF Harmless
<1> HIDE DEF s, m, n
<1>4. ASSUME NEW i \in 1 .. m + n - a - 1, NssFalls(s[i]), s[i + 1].do = "byte" PROVE s[i + 1].val \notin MemoryCodes
  <2>1. CASE i < m
    <3>1. i \in 1 .. m - 1 /\ s[i] = p[i] /\ s[i + 1] = p[i + 1]
      BY <1>1, <2>1
    <3> QED
      BY <1>2, <1>4, <3>1
  <2>2. CASE i = m
    <3>1. i + 1 \in m + 1 .. m + n /\ (i + 1) - m = 1 /\ n # 0
      BY <1>1, <2>2
    <3>2. s[i + 1] = q[(i + 1) - m]
      BY <1>1, <3>1
    <3> QED
      BY <1>1, <1>4, <3>1, <3>2
  <2>3. CASE i > m
    <3>1. /\ i \in m + 1 .. m + n /\ i + 1 \in m + 1 .. m + n /\ (i + 1) - m = (i - m) + 1
          /\ i - m \in 1 .. n - a - 1
      <4>1. m \in Nat /\ n \in Nat /\ i \in Int /\ i > m /\ i <= m + n - a - 1
        BY <1>1, <2>3
      <4> QED
        BY <4>1
    <3>2. s[i] = q[i - m] /\ s[i + 1] = q[(i - m) + 1]
      BY <1>1, <3>1
    <3> QED
      BY <1>3, <1>4, <3>1, <3>2
  <2> QED
    BY <1>1, <2>1, <2>2, <2>3
<1> QED
  BY <1>1, <1>4 DEF Harmless, s

LEMMA SilentConcat ==
    ASSUME NEW D, NEW p, NEW q, Silent(p, D), Silent(q, D)
    PROVE  Silent(p \o q, D)
<1> DEFINE r == "SX126x"
           s == p \o q
<1>1. p \in Seq(Calls(r)) /\ q \in Seq(Calls(r)) /\ 0 \in Nat
  BY DEF Silent
<1>2. Harmless(s, 0)
  BY <1>1, HarmlessConcat DEF Silent
<1>3. /\ s \in Seq(Calls(r)) /\ Len(s) = Len(p) + Len(q) /\ Len(p) \in Nat /\ Len(q) \in Nat
      /\ \A i \in 1 .. Len(p) : s[i] = p[i]
      /\ \A i \in Len(p) + 1 .. Len(p) + Len(q) : i - Len(p) \in 1 .. Len(q) /\ s[i] = q[i - Len(p)]
      /\ Len(p) = 0 <=> p = <<>>
      /\ Len(q) = 0 <=> q = <<>>
  BY <1>1, Concat, EmptyIs
<1>4. s = <<>> <=> Len(s) = 0
  BY <1>3, EmptyIs
<1> HIDE DEF s, r
<1>5. ASSUME s # <<>> PROVE s[1].do # "byte"
  <2>1. CASE p = <<>>
    <3>1. Len(q) # 0 /\ 1 \in Len(p) + 1 .. Len(p) + Len(q) /\ 1 - Len(p) = 1
      BY <1>3, <1>4, <1>5, <2>1
    <3>2. s[1] = q[1 - Len(p)]
      BY <1>3, <3>1
    <3> QED
      BY <1>3, <3>1, <3>2 DEF Silent
  <2>2. CASE p # <<>>
    <3>1. 1 \in 1 .. Len(p)
      BY <1>3, <2>2
    <3> QED
      BY <1>3, <2>2, <3>1 DEF Silent
  <2> QED
    BY <2>1, <2>2
<1>6. ASSUME NEW i \in 1 .. Len(s), s[i].do = "byte" PROVE s[i].arg \in D
  <2>1. CASE i <= Len(p)
    BY <1>3, <1>6, <2>1 DEF Silent
  <2>2. CASE i > Len(p)
    <3>1. i - Len(p) \in 1 .. Len(q) /\ s[i] = q[i - Len(p)]
      BY <1>3, <2>2
    <3> QED
      BY <1>6, <3>1 DEF Silent
  <2> QED
    BY <1>3, <2>1, <2>2
<1> QED
  BY <1>2, <1>3, <1>5, <1>6 DEF Silent, s, r

\* Calls that are neither bytes nor the ends of a frame.
LEMMA PlainSilent ==
    ASSUME NEW D, NEW s \in Seq(Calls("SX126x")), \A i \in 1 .. Len(s) : s[i].do \notin {"byte", "write"}
    PROVE  Silent(s, D)
<1>1. Len(s) \in Nat /\ (s # <<>> => 1 \in 1 .. Len(s))
  BY EmptyIs
<1> QED
  BY <1>1 DEF Silent, Harmless

LEMMA OneSilent ==
    ASSUME NEW D, NEW c \in Calls("SX126x"), c.do \notin {"byte", "write"}
    PROVE  Silent(<<c>>, D)
<1> DEFINE s == <<c>>
<1>1. s \in Seq(Calls("SX126x")) /\ Len(s) = 1 /\ s[1] = c
  OBVIOUS
<1> HIDE DEF s
<1>2. Silent(s, D)
  BY <1>1, PlainSilent
<1> QED
  BY <1>2 DEF s

\* A frame that does not begin with a code that writes the memory.
LEMMA FrameSilent ==
    ASSUME NEW D, NEW bytes, AllBytes(bytes), \A i \in 1 .. Len(bytes) : bytes[i].arg \in D,
           bytes # <<>> => bytes[1].val \notin MemoryCodes
    PROVE  Silent(Framed(bytes), D)
<1> DEFINE s == Framed(bytes)
           l == Len(bytes)
           a == Write("Nss", 0)
           b == Write("Nss", 1)
<1>1. bytes \in Seq(Calls("SX126x")) /\ \A i \in 1 .. l : bytes[i].do = "byte"
  BY DEF AllBytes
<1>2. /\ s \in Seq(Calls("SX126x")) /\ Len(s) = l + 2 /\ l \in Nat
      /\ s[1] = a /\ s[l + 2] = b
      /\ \A i \in 1 .. l : s[i + 1] = bytes[i]
      /\ bytes = <<>> <=> l = 0
  BY <1>1, FramedIs, EmptyIs
<1>3. a.do = "write" /\ b.do = "write"
  BY NssLevels DEF Fields
<1> HIDE DEF s, l, a, b
<1>4. ASSUME NEW i \in 1 .. l + 2 PROVE i = 1 \/ i = l + 2 \/ (i - 1 \in 1 .. l /\ s[i] = bytes[i - 1])
  <2>1. i # 1 /\ i # l + 2 => i - 1 \in 1 .. l /\ (i - 1) + 1 = i
    BY <1>2
  <2> QED
    BY <1>2, <2>1
<1>5. ASSUME NEW i \in 1 .. Len(s) - 0 - 1, NssFalls(s[i]), s[i + 1].do = "byte" PROVE s[i + 1].val \notin MemoryCodes
  <2>1. i \in 1 .. l + 1 /\ i \in 1 .. l + 2
    BY <1>2
  <2>2. i = 1
    <3>1. i # l + 2
      BY <1>2, <2>1
    <3>2. i - 1 \in 1 .. l /\ s[i] = bytes[i - 1] => s[i].do = "byte"
      BY <1>1
    <3> QED
      BY <1>4, <1>5, <2>1, <3>1, <3>2 DEF NssFalls
  <2>3. l # 0
    BY <1>2, <1>3, <1>5, <2>2
  <2>4. 1 \in 1 .. l /\ s[1 + 1] = bytes[1] /\ bytes # <<>>
    BY <1>2, <2>3
  <2> QED
    BY <2>2, <2>4
<1>6. ASSUME NEW i \in 1 .. Len(s), s[i].do = "byte" PROVE s[i].arg \in D
  <2>1. i - 1 \in 1 .. l /\ s[i] = bytes[i - 1]
    BY <1>2, <1>3, <1>4, <1>6
  <2> QED
    BY <2>1 DEF l
<1>7. s[1].do # "byte"
  BY <1>2, <1>3
<1> QED
  BY <1>2, <1>5, <1>6, <1>7 DEF Silent, Harmless, s

\* The bytes that a command sends.
LEMMA BytesSilent ==
    ASSUME NEW D, "send" \in D, NEW buffer \in Seq(Vals), buffer # <<>>, buffer[1] \notin MemoryCodes
    PROVE  Silent(Framed(Bytes(buffer)), D)
<1> DEFINE b == Bytes(buffer)
<1>1. AllBytes(b) /\ Len(b) = Len(buffer) /\ \A i \in 1 .. Len(b) : b[i].arg = "send" /\ b[i].val = buffer[i]
  BY BytesAre, BytesIs DEF Fields
<1>2. 1 \in 1 .. Len(b)
  BY <1>1, EmptyIs
<1> HIDE DEF b
<1>3. Silent(Framed(b), D)
  BY <1>1, <1>2, FrameSilent
<1> QED
  BY <1>3 DEF b

LEMMA WaitSilent ==
    ASSUME NEW D
    PROVE  Silent(SX126xCheckDeviceReady, D) /\ Silent(SX126xWaitOnBusy, D) /\ Silent(<<>>, D)
<1>1. \A d \in {"check", "wait"} : Do(d) \in Calls("SX126x") /\ Do(d).do = d
  BY DoIs DEF Fields
<1>2. Silent(<<Do("check")>>, D) /\ Silent(<<Do("wait")>>, D)
  BY <1>1, OneSilent
<1>3. Silent(<<>>, D)
  <2> DEFINE s == <<>>
  <2>1. s \in Seq(Calls("SX126x")) /\ Len(s) = 0
    OBVIOUS
  <2> HIDE DEF s
  <2>2. \A i \in 1 .. Len(s) : s[i].do \notin {"byte", "write"}
    BY <2>1
  <2>3. Silent(s, D)
    BY <2>1, <2>2, PlainSilent
  <2> QED
    BY <2>3 DEF s
<1> QED
  BY <1>2, <1>3 DEF SX126xCheckDeviceReady, SX126xWaitOnBusy

LEMMA WriteCommandSilent ==
    ASSUME NEW command \in Codes \ MemoryCodes, NEW buffer \in Seq(Vals)
    PROVE  Silent(SX126xWriteCommand(command, buffer), Either)
<1> DEFINE bytes == <<command>> \o buffer
<1>1. bytes \in Seq(Vals) /\ bytes # <<>> /\ bytes[1] = command
  <2>1. command \in Vals
    BY CodesAreVals
  <2> QED
    BY <2>1, ConsIs
<1> HIDE DEF bytes
<1>2. Silent(Framed(Bytes(bytes)), Either)
  BY <1>1, BytesSilent DEF Either
<1>3. Silent(SX126xCheckDeviceReady \o Framed(Bytes(bytes)), Either)
  BY <1>2, WaitSilent, SilentConcat
<1>4. /\ Silent((SX126xCheckDeviceReady \o Framed(Bytes(bytes))) \o SX126xWaitOnBusy, Either)
      /\ Silent((SX126xCheckDeviceReady \o Framed(Bytes(bytes))) \o <<>>, Either)
  BY <1>3, WaitSilent, SilentConcat
<1> QED
  BY <1>4 DEF SX126xWriteCommand, bytes

LEMMA ReadCommandSilent ==
    ASSUME NEW command \in Codes \ MemoryCodes, NEW size \in Nat
    PROVE  Silent(SX126xReadCommand(command, size), Either)
<1> DEFINE header == <<command, 0>>
           p == Bytes(header)
           q == Fetches(size)
           bytes == p \o q
<1>1. header \in Seq(Vals) /\ Len(header) = 2 /\ header[1] = command
  <2>1. command \in Vals /\ 0 \in Vals
    BY CodesAreVals, IntsAreVals
  <2> QED
    BY <2>1, TwoIs
<1> HIDE DEF header
<1>2. /\ p \in Seq(Calls("SX126x")) /\ q \in Seq(Calls("SX126x")) /\ Len(p) = 2
      /\ AllBytes(bytes) /\ p[1].val = command
  <2>1. p \in Seq(Calls("SX126x")) /\ Len(p) = 2 /\ p[1].val = command
    BY <1>1, BytesIs DEF Fields
  <2>2. q \in Seq(Calls("SX126x"))
    BY FetchesIs
  <2> QED
    BY <1>1, <2>1, <2>2, BytesAre
<1> HIDE DEF p, q
<1>3. bytes[1].val = command /\ bytes \in Seq(Calls("SX126x"))
  BY <1>2, Concat
<1> HIDE DEF bytes
<1>4. \A i \in 1 .. Len(bytes) : bytes[i].arg \in Either
  <2>1. \A c \in Calls("SX126x") : c.do = "byte" => c.arg \in Either
    BY DEF Calls, Good, Either
  <2> QED
    BY <1>2, <1>3, <2>1 DEF AllBytes
<1>5. Silent(Framed(bytes), Either)
  BY <1>2, <1>3, <1>4, FrameSilent
<1>6. Silent(SX126xCheckDeviceReady \o Framed(bytes) \o SX126xWaitOnBusy, Either)
  BY <1>5, WaitSilent, SilentConcat
<1> QED
  BY <1>6 DEF SX126xReadCommand, bytes, p, q, header

LEMMA InitSilent ==
    ASSUME NEW D, NEW o \in {"Reset", "Ant"}, NEW m \in {"PIN_INPUT", "PIN_OUTPUT", "PIN_ANALOGIC"}, NEW v \in Level
    PROVE  Silent(<<InitPin(o, m, v)>>, D)
<1> DEFINE r == "SX126x"
           c == InitPin(o, m, v)
<1>1. o \in Obj /\ o # "Nss"
  BY DEF Obj
<1>2. c \in Calls(r) /\ Fields(c, "init", o, m, v)
  BY <1>1, InitPinIs
<1> HIDE DEF c
<1>3. c.do \notin {"byte", "write"}
  BY <1>2 DEF Fields
<1> QED
  BY <1>2, <1>3, OneSilent DEF c

LEMMA SwitchSilent == ASSUME NEW D PROVE Silent(SX126xAntSwOn, D) /\ Silent(SX126xAntSwOff, D)
  BY LevelIs, InitSilent DEF SX126xAntSwOn, SX126xAntSwOff

LEMMA WakeupSilent == ASSUME NEW D, "send" \in D PROVE Silent(SX126xWakeup, D)
<1> DEFINE r == "SX126x"
           m == BoardDisableIrq(r)
           e == BoardEnableIrq(r)
           header == <<"GET_STATUS", 0>>
<1>1. Silent(m, D) /\ Silent(e, D)
  <2>1. \A i \in 1 .. Len(m) : m[i].do \notin {"byte", "write"}
    BY MaskPart DEF Modes
  <2>2. \A i \in 1 .. Len(e) : e[i].do \notin {"byte", "write"}
    BY MaskPart DEF Modes
  <2>3. m \in Seq(Calls(r)) /\ e \in Seq(Calls(r))
    BY MaskPart DEF Part, Linked, Modes
  <2> HIDE DEF m, e
  <2> QED
    BY <2>1, <2>2, <2>3, PlainSilent
<1>2. header \in Seq(Vals) /\ header # <<>> /\ header[1] \notin MemoryCodes
  <2>1. "GET_STATUS" \in Vals /\ 0 \in Vals
    BY IntsAreVals, CodesAreVals DEF Codes
  <2> QED
    BY <2>1, TwoIs DEF MemoryCodes
<1> HIDE DEF m, e, header
<1>3. Silent(Framed(Bytes(header)), D)
  BY <1>2, BytesSilent
<1>4. Silent(m \o Framed(Bytes(header)) \o SX126xWaitOnBusy \o e, D)
  BY <1>1, <1>3, WaitSilent, SilentConcat
<1> QED
  BY <1>4 DEF SX126xWakeup, m, e, header, r

LEMMA ResetSilent == ASSUME NEW D PROVE Silent(SX126xReset, D)
<1>1. \A ms \in Vals : Silent(DelayMs(ms), D)
  <2> SUFFICES ASSUME NEW ms \in Vals PROVE Silent(DelayMs(ms), D)
    OBVIOUS
  <2> DEFINE c == Call("delay", "", "", ms)
  <2>1. c \in Calls("SX126x") /\ Fields(c, "delay", "", "", ms)
    BY PlainCallIs
  <2> HIDE DEF c
  <2>2. c.do \notin {"byte", "write"}
    BY <2>1 DEF Fields
  <2> QED
    BY <2>1, <2>2, OneSilent DEF DelayMs, c
<1>2. 10 \in Vals /\ 20 \in Vals
  BY IntsAreVals
<1>3. Silent(DelayMs(10), D) /\ Silent(DelayMs(20), D)
  BY <1>1, <1>2
<1>4. Silent(<<InitPin("Reset", "PIN_OUTPUT", 0)>>, D) /\ Silent(<<InitPin("Reset", "PIN_ANALOGIC", 0)>>, D)
  BY LevelIs, InitSilent
<1> QED
  BY <1>3, <1>4, SilentConcat DEF SX126xReset

LEMMA InterruptSilent ==
    ASSUME NEW D, NEW o \in Dio \cap Wired("SX126x")
    PROVE  Silent(GpioSetInterrupt(o, Handler[o]), D) /\ Silent(GpioRemoveInterrupt(o), D)
<1> DEFINE a == Call("store", o, Handler[o], 0)
           b == Call("irqInit", o, "", 0)
           c == Call("enable", o, "", 0)
           d == Call("release", o, "", 0)
           e == Call("clear", o, "", 0)
           Plain(x) == x \in Calls("SX126x") /\ x.do \notin {"byte", "write"}
<1>1. o \in Wired("SX126x") \ {"Nss"} /\ o \in Dio
  BY DEF Dio
<1>2. Plain(a)
  BY StoreIs DEF Fields
<1>3. Plain(b) /\ Plain(c) /\ Plain(d) /\ Plain(e)
  BY <1>1, IrqCallIs DEF Fields
<1>4. GpioSetInterrupt(o, Handler[o]) = <<a, b, c>> /\ GpioRemoveInterrupt(o) = <<d, e>>
  BY DEF GpioSetInterrupt, GpioRemoveInterrupt
<1> HIDE DEF a, b, c, d, e
<1> DEFINE s == <<a, b, c>>
           t == <<d, e>>
<1>5. s \in Seq(Calls("SX126x")) /\ \A i \in 1 .. Len(s) : s[i].do \notin {"byte", "write"}
  BY <1>2, <1>3
<1>6. t \in Seq(Calls("SX126x")) /\ \A i \in 1 .. Len(t) : t[i].do \notin {"byte", "write"}
  BY <1>3
<1> HIDE DEF s, t
<1>7. Silent(s, D) /\ Silent(t, D)
  BY <1>5, <1>6, PlainSilent
<1> QED
  BY <1>4, <1>7 DEF s, t

LEMMA ModeSilent ==
    /\ Silent(SX126xSetStandby, Either) /\ Silent(SX126xSetSleep, Either) /\ Silent(SX126xInit, Either)
    /\ Silent(SX126xIoIrqInit, Either)
<1>1. <<0>> \in Seq(Vals)
  BY IntsAreVals
<1>2. {"SET_STANDBY", "SET_SLEEP"} \subseteq Codes \ MemoryCodes
  BY DEF Codes, MemoryCodes
<1>3. Silent(SX126xWriteCommand("SET_STANDBY", <<0>>), Either) /\ Silent(SX126xWriteCommand("SET_SLEEP", <<0>>), Either)
  BY <1>1, <1>2, WriteCommandSilent
<1>4. Silent(<<Do("awake")>>, Either) /\ Silent(<<Do("asleep")>>, Either)
  <2>1. \A d \in {"awake", "asleep"} : Do(d) \in Calls("SX126x") /\ Do(d).do = d
    BY DoIs DEF Fields
  <2> QED
    BY <2>1, OneSilent
<1>5. Silent(SX126xSetStandby, Either)
  BY <1>3, <1>4, SilentConcat DEF SX126xSetStandby
<1>6. Silent(SX126xSetSleep, Either)
  BY <1>3, <1>4, SwitchSilent, SilentConcat DEF SX126xSetSleep
<1>7. Silent(SX126xIoIrqInit, Either)
  <2>1. "DIO1" \in Dio \cap Wired("SX126x")
    BY DEF Dio, Wired
  <2> QED
    BY <2>1, InterruptSilent DEF SX126xIoIrqInit
<1>8. Silent(SX126xInit, Either)
  BY <1>5, <1>7, ResetSilent, WakeupSilent, SilentConcat DEF SX126xInit, Either
<1> QED
  BY <1>5, <1>6, <1>7, <1>8

LEMMA IoCycleSilent ==
    ASSUME "SX126x" \in Radio
    PROVE  Silent(SX126xIoDeInit, Either) /\ Silent(IoInit("SX126x"), Either)
<1> DEFINE r == "SX126x"
           f == IoInit(r)
           pins == <<"Busy", "DIO1", "DIO2", "DIO3">>
           g == [i \in 1 .. 4 |-> InitPin(pins[i], "PIN_ANALOGIC", 0)]
           c == InitPin("Nss", "PIN_ANALOGIC", 1)
<1>1. Silent(f, Either)
  <2>1. PICK n \in Nat \ {0} : InitsAll(r, f, n)
    BY IoInitAll
  <2>2. f \in Seq(Calls(r)) /\ \A i \in 1 .. Len(f) : f[i].do \notin {"byte", "write"}
    BY <2>1 DEF InitsAll
  <2> HIDE DEF f
  <2> QED
    BY <2>2, PlainSilent
<1>2. \A i \in 1 .. 4 : pins[i] \in Obj /\ pins[i] # "Nss" /\ pins[i] # "Ant"
  BY DEF Obj, Dio
<1> HIDE DEF pins
<1>3. \A i \in 1 .. 4 :
          /\ InitPin(pins[i], "PIN_ANALOGIC", 0) \in Calls(r)
          /\ Fields(InitPin(pins[i], "PIN_ANALOGIC", 0), "init", pins[i], "PIN_ANALOGIC", 0)
  BY <1>2, LevelIs, InitPinIs
<1>4. g = [i \in 1 .. 4 |-> g[i]] /\ \A i \in 1 .. 4 : g[i] \in Calls(r) /\ g[i].do = "init"
  BY <1>3 DEF Fields
<1> HIDE DEF g
<1>5. g \in Seq(Calls(r)) /\ Len(g) = 4
  BY <1>4, FunctionIs
<1>6. Silent(g, Either)
  BY <1>4, <1>5, PlainSilent
<1>7. c \in Calls(r) /\ c.do = "init"
  BY LevelIs, InitPinIs DEF Fields, Obj
<1> HIDE DEF c
<1>8. Silent(<<c>>, Either)
  BY <1>7, OneSilent
<1>9. Silent(<<c>> \o g, Either)
  BY <1>6, <1>8, SilentConcat
<1> QED
  BY <1>1, <1>9 DEF SX126xIoDeInit, c, g, pins

-----------------------------------------------------------------------------
(* The functions that access the memory.                                   *)

\* s is the whole of an access, the driver's test before the frame included.
Whole(s, o, n) ==
    /\ Len(s) = AccessLen(o, n) + 1
    /\ s[1].do = "check"
    /\ \A k \in 1 .. AccessLen(o, n) : AccessCall(o, n, k, s[k + 1])

\* s is a test, a frame of the l calls bytes, and a wait.
IsCommand(s, bytes, l) ==
    /\ l \in Nat /\ Len(s) = l + 4
    /\ s[1].do = "check" /\ NssFalls(s[2]) /\ NssRises(s[l + 3]) /\ s[l + 4].do = "wait"
    /\ \A i \in 1 .. l : s[i + 2] = bytes[i]

LEMMA CommandIs ==
    ASSUME NEW bytes, AllBytes(bytes), NEW l, l = Len(bytes),
           NEW s, s = SX126xCheckDeviceReady \o Framed(bytes) \o SX126xWaitOnBusy
    PROVE  IsCommand(s, bytes, l)
<1> DEFINE C == Calls("SX126x")
           f == Framed(bytes)
           c == Do("check")
           w == Do("wait")
           p == <<c>> \o f
<1>1. c \in C /\ w \in C /\ c.do = "check" /\ w.do = "wait"
  BY DoIs DEF Fields
<1>2. bytes \in Seq(C)
  BY DEF AllBytes
<1>3. /\ f \in Seq(C) /\ Len(f) = l + 2 /\ l \in Nat
      /\ NssFalls(f[1]) /\ NssRises(f[l + 2])
      /\ \A i \in 1 .. l : f[i + 1] = bytes[i]
  <2>1. /\ f \in Seq(C) /\ Len(f) = l + 2 /\ l \in Nat
        /\ f[1] = Write("Nss", 0) /\ f[l + 2] = Write("Nss", 1)
        /\ \A i \in 1 .. l : f[i + 1] = bytes[i]
    BY <1>2, FramedIs
  <2> QED
    BY <2>1, NssLevels DEF Fields, NssFalls, NssRises
<1> HIDE DEF f, c, w
<1>4. p \in Seq(C) /\ Len(p) = l + 3 /\ p[1] = c /\ \A i \in 1 .. l + 2 : p[i + 1] = f[i]
  BY <1>1, <1>3, ConsIs
<1>5. s = p \o <<w>>
  BY DEF SX126xCheckDeviceReady, SX126xWaitOnBusy, f, c, w
<1>6. <<w>> \in Seq(C) /\ Len(<<w>>) = 1 /\ <<w>>[1] = w
  BY <1>1
<1> HIDE DEF p
<1>7. Len(s) = l + 4 /\ (\A i \in 1 .. l + 3 : s[i] = p[i]) /\ s[l + 4] = w
  <2> DEFINE q == <<w>>
  <2>1. q \in Seq(C) /\ Len(q) = 1 /\ q[1] = w /\ s = p \o q
    BY <1>5, <1>6
  <2> HIDE DEF q, C
  <2>2. p \in Seq(C) /\ q \in Seq(C)
    BY <1>4, <2>1
  <2>4. /\ Len(p \o q) = Len(p) + Len(q) /\ (\A i \in 1 .. Len(p) : (p \o q)[i] = p[i])
        /\ \A i \in 1 .. Len(q) : (p \o q)[Len(p) + i] = q[i]
    BY <2>2, Concat
  <2>3. 1 \in 1 .. Len(q) /\ Len(p) + 1 = l + 4
    BY <1>3, <1>4, <2>1
  <2> QED
    BY <1>3, <1>4, <2>1, <2>3, <2>4
<1> HIDE DEF C
<1>8. s[1] = c /\ s[2] = f[1] /\ s[l + 3] = f[l + 2]
  <2>1. 1 \in 1 .. l + 3 /\ 2 \in 1 .. l + 3 /\ l + 3 \in 1 .. l + 3 /\ 1 \in 1 .. l + 2 /\ l + 2 \in 1 .. l + 2
        /\ 1 + 1 = 2 /\ (l + 2) + 1 = l + 3
    BY <1>3
  <2> QED
    BY <1>4, <1>7, <2>1, ZenonT(30)
<1>9. ASSUME NEW i \in 1 .. l PROVE s[i + 2] = bytes[i]
  <2>1. i + 2 \in 1 .. l + 3 /\ i + 1 \in 1 .. l + 2 /\ (i + 1) + 1 = i + 2
    BY <1>3
  <2> QED
    BY <1>3, <1>4, <1>7, <2>1
<1> QED
  BY <1>1, <1>3, <1>7, <1>8, <1>9 DEF IsCommand

\* The bytes of an access.
Sent(bytes, o, n, h) ==
    /\ \A k \in 1 .. h : bytes[k].arg = "send" /\ bytes[k].val = HeaderByte(o, k)
    /\ \A j \in 1 .. n : IF o.kind = "write" THEN bytes[h + j].arg = "send" /\ bytes[h + j].val = o.data[j]
                                             ELSE bytes[h + j].arg = "receive"

LEMMA WholeIs ==
    ASSUME NEW o, NEW n \in Nat, NEW bytes, AllBytes(bytes), NEW h \in Nat, h = HeaderLen(o), Len(bytes) = h + n,
           Sent(bytes, o, n, h)
    PROVE  Whole(SX126xCheckDeviceReady \o Framed(bytes) \o SX126xWaitOnBusy, o, n)
<1>s. PICK s : s = SX126xCheckDeviceReady \o Framed(bytes) \o SX126xWaitOnBusy
  OBVIOUS
<1>0. PICK l \in Nat : l = h + n /\ l = Len(bytes)
  OBVIOUS
<1>1. /\ Len(s) = l + 4 /\ s[1].do = "check" /\ NssFalls(s[2]) /\ NssRises(s[l + 3]) /\ s[l + 4].do = "wait"
      /\ \A i \in 1 .. l : s[i + 2] = bytes[i]
  <2>1. IsCommand(s, bytes, l)
    BY <1>s, <1>0, CommandIs
  <2> QED
    BY <2>1 DEF IsCommand
<1>2. \A i \in 1 .. l : s[i + 2].do = "byte"
  <2>1. \A i \in 1 .. l : bytes[i].do = "byte"
    BY <1>0 DEF AllBytes
  <2> QED
    BY <1>1, <2>1
<1>3. AccessLen(o, n) = l + 3
  BY <1>0 DEF AccessLen
<1>4. ASSUME NEW k \in 1 .. l + 3 PROVE AccessCall(o, n, k, s[k + 1])
  <2>1. k = 1 => NssFalls(s[k + 1])
    <3>1. k = 1 => k + 1 = 2
      OBVIOUS
    <3> QED
      BY <1>1, <3>1
  <2>2. ASSUME k \in 2 .. h + 1 PROVE s[k + 1].do = "byte" /\ s[k + 1].arg = "send" /\ s[k + 1].val = HeaderByte(o, k - 1)
    <3>1. k - 1 \in 1 .. h /\ k - 1 \in 1 .. l /\ (k - 1) + 2 = k + 1
      BY <1>0, <2>2
    <3>2. s[k + 1] = bytes[k - 1] /\ s[k + 1].do = "byte"
      BY <1>1, <1>2, <3>1
    <3> QED
      BY <3>1, <3>2 DEF Sent
  <2>3. ASSUME k \in h + 2 .. h + n + 1
        PROVE  /\ s[k + 1].do = "byte"
               /\ IF o.kind = "write" THEN s[k + 1].arg = "send" /\ s[k + 1].val = o.data[k - h - 1]
                                      ELSE s[k + 1].arg = "receive"
    <3>0. k \in Int /\ h \in Nat /\ n \in Nat /\ k >= h + 2 /\ k <= h + n + 1
      BY <2>3
    <3>1. k - h - 1 \in 1 .. n
      BY <3>0
    <3>4. h + (k - h - 1) = k - 1
      BY <3>0
    <3>5. k - 1 \in 1 .. l
      BY <1>0, <3>0, SMTT(30)
    <3>6. (k - 1) + 2 = k + 1
      BY <3>0
    <3>2. s[k + 1] = bytes[k - 1] /\ s[k + 1].do = "byte"
      BY <1>1, <1>2, <3>5, <3>6
    <3>3. IF o.kind = "write" THEN bytes[k - 1].arg = "send" /\ bytes[k - 1].val = o.data[k - h - 1]
                              ELSE bytes[k - 1].arg = "receive"
      BY <3>1, <3>4 DEF Sent
    <3> QED
      BY <3>2, <3>3
  <2>4. k = h + n + 2 => NssRises(s[k + 1])
    <3>1. k = h + n + 2 => k + 1 = l + 3
      BY <1>0
    <3> QED
      BY <1>1, <3>1
  <2>5. k = h + n + 3 => s[k + 1].do = "wait"
    <3>1. k = h + n + 3 => k + 1 = l + 4
      BY <1>0
    <3> QED
      BY <1>1, <3>1
  <2> QED
    BY <2>1, <2>2, <2>3, <2>4, <2>5 DEF AccessCall
<1>5. Len(s) = (l + 3) + 1
  BY <1>1
<1> QED
  BY <1>s, <1>1, <1>3, <1>4, <1>5 DEF Whole

\* s is p and then q.
Joined(S, s, p, q) ==
    /\ s \in Seq(S) /\ Len(s) = Len(p) + Len(q) /\ Len(p) \in Nat /\ Len(q) \in Nat
    /\ \A i \in 1 .. Len(p) : s[i] = p[i]
    /\ \A i \in 1 .. Len(q) : s[Len(p) + i] = q[i]

LEMMA JoinedIs ==
    ASSUME NEW S, NEW p \in Seq(S), NEW q \in Seq(S), NEW s, s = p \o q
    PROVE  Joined(S, s, p, q)
  BY DEF Joined

\* The bytes of a write, and of a read, after the header hd.
LEMMA WriteSends ==
    ASSUME NEW o, o.kind = "write", NEW h \in Nat, NEW hd \in Seq(Vals), Len(hd) = h, h = HeaderLen(o),
           \A k \in 1 .. h : hd[k] = HeaderByte(o, k),
           NEW n \in Nat, o.data \in Seq(Vals), Len(o.data) = n
    PROVE  Whole(SX126xCheckDeviceReady \o Framed(Bytes(hd \o o.data)) \o SX126xWaitOnBusy, o, n)
<1> DEFINE data == o.data
           buffer == hd \o data
           bytes == Bytes(buffer)
<1>1. /\ buffer \in Seq(Vals) /\ Len(buffer) = h + n
      /\ \A k \in 1 .. h : buffer[k] = hd[k]
      /\ \A j \in 1 .. n : buffer[h + j] = data[j]
  <2>1. data \in Seq(Vals) /\ Len(data) = n
    OBVIOUS
  <2> HIDE DEF data
  <2>2. Joined(Vals, buffer, hd, data)
    BY <2>1, JoinedIs
  <2> QED
    BY <2>1, <2>2 DEF Joined
<1> HIDE DEF buffer
<1>2. /\ AllBytes(bytes) /\ Len(bytes) = h + n
      /\ \A i \in 1 .. h + n : bytes[i].arg = "send" /\ bytes[i].val = buffer[i]
  BY <1>1, BytesIs, BytesAre DEF Fields
<1> HIDE DEF bytes, data
<1>3. ASSUME NEW j \in 1 .. n PROVE bytes[h + j].arg = "send" /\ bytes[h + j].val = data[j]
  <2>1. h + j \in 1 .. h + n
    OBVIOUS
  <2> QED
    BY <1>1, <1>2, <2>1
<1>4. ASSUME NEW k \in 1 .. h PROVE bytes[k].arg = "send" /\ bytes[k].val = HeaderByte(o, k)
  <2>1. k \in 1 .. h + n
    OBVIOUS
  <2> QED
    BY <1>1, <1>2, <2>1
<1>5. Sent(bytes, o, n, h)
  BY <1>3, <1>4 DEF Sent, data
<1>6. Whole(SX126xCheckDeviceReady \o Framed(bytes) \o SX126xWaitOnBusy, o, n)
  BY <1>2, <1>5, WholeIs
<1> QED
  BY <1>6 DEF bytes, buffer, data

LEMMA ReadSends ==
    ASSUME NEW o, o.kind = "read", NEW h \in Nat, NEW hd \in Seq(Vals), Len(hd) = h, h = HeaderLen(o),
           \A k \in 1 .. h : hd[k] = HeaderByte(o, k), NEW n \in Nat
    PROVE  Whole(SX126xCheckDeviceReady \o Framed(Bytes(hd) \o Fetches(n)) \o SX126xWaitOnBusy, o, n)
<1> DEFINE C == Calls("SX126x")
           p == Bytes(hd)
           q == Fetches(n)
           bytes == p \o q
<1>1. /\ p \in Seq(C) /\ Len(p) = h /\ \A i \in 1 .. h : p[i].arg = "send" /\ p[i].val = hd[i]
      /\ q \in Seq(C) /\ Len(q) = n /\ \A i \in 1 .. n : q[i].arg = "receive"
  <2>1. p \in Seq(C) /\ Len(p) = h /\ \A i \in 1 .. h : p[i].arg = "send" /\ p[i].val = hd[i]
    BY BytesIs DEF Fields
  <2>2. q \in Seq(C) /\ Len(q) = n /\ \A i \in 1 .. n : q[i].arg = "receive"
    BY FetchesIs DEF Fields
  <2> QED
    BY <2>1, <2>2
<1>2. AllBytes(bytes)
  BY BytesAre
<1> HIDE DEF p, q, C
<1>3. /\ Len(bytes) = h + n
      /\ \A i \in 1 .. h : bytes[i] = p[i]
      /\ \A i \in 1 .. n : bytes[h + i] = q[i]
  <2>1. p \in Seq(C) /\ q \in Seq(C)
    BY <1>1
  <2>2. /\ Len(p \o q) = Len(p) + Len(q)
        /\ \A i \in 1 .. Len(p) : (p \o q)[i] = p[i]
        /\ \A i \in 1 .. Len(q) : (p \o q)[Len(p) + i] = q[i]
    BY <2>1, Concat
  <2> QED
    BY <1>1, <2>2
<1> HIDE DEF bytes
<1>4. Sent(bytes, o, n, h)
  BY <1>1, <1>3 DEF Sent
<1>5. Whole(SX126xCheckDeviceReady \o Framed(bytes) \o SX126xWaitOnBusy, o, n)
  BY <1>2, <1>3, <1>4, WholeIs
<1> QED
  BY <1>5 DEF bytes, p, q

ThreeVals(s, a, b, c) == s \in Seq(Vals) /\ Len(s) = 3 /\ s[1] = a /\ s[2] = b /\ s[3] = c

LEMMA AddressIs ==
    ASSUME NEW a \in Int, NEW code \in Codes
    PROVE  ThreeVals(<<code>> \o Address(a), code, a \div 256, a % 256)
<1>1. PICK x \in Int : x = a \div 256
  OBVIOUS
<1>2. PICK y \in Int : y = a % 256
  OBVIOUS
<1>3. x \in Vals /\ y \in Vals /\ code \in Vals
  BY IntsAreVals, CodesAreVals
<1>4. PICK q : q = Address(a)
  OBVIOUS
<1>5. q = <<x, y>>
  BY <1>1, <1>2, <1>4 DEF Address
<1>6. q \in Seq(Vals) /\ Len(q) = 2 /\ q[1] = x /\ q[2] = y
  BY <1>3, <1>5, TwoIs
<1>7. PICK p : p = <<code>>
  OBVIOUS
<1>8. p \in Seq(Vals) /\ Len(p) = 1 /\ p[1] = code
  BY <1>3, <1>7
<1>9. PICK s : s = p \o q
  OBVIOUS
<1>10. Joined(Vals, s, p, q)
  BY <1>6, <1>8, <1>9, JoinedIs
<1>11. ThreeVals(s, code, x, y)
  <2>1. 1 \in 1 .. Len(p) /\ 1 \in 1 .. Len(q) /\ 2 \in 1 .. Len(q) /\ Len(p) + 1 = 2 /\ Len(p) + 2 = 3
    BY <1>6, <1>8
  <2>2. s[1] = p[1] /\ s[2] = q[1] /\ s[3] = q[2] /\ s \in Seq(Vals) /\ Len(s) = 3
    BY <1>6, <1>8, <1>10, <2>1 DEF Joined
  <2> QED
    BY <1>6, <1>8, <2>2 DEF ThreeVals
<1> QED
  BY <1>1, <1>2, <1>4, <1>7, <1>9, <1>11

\* The four functions, as accesses.
LEMMA WriteRegistersWhole ==
    ASSUME NEW o, NEW n \in Nat, o.kind = "write", o.space = "reg", o.at \in Int, o.data \in Seq(Vals), Len(o.data) = n
    PROVE  Whole(SX126xWriteRegisters(o.at, o.data), o, n)
<1>1. PICK code \in Codes : code = "WRITE_REGISTER"
  BY DEF Codes
<1>2. PICK a \in Int : a = o.at
  OBVIOUS
<1>3. PICK hd : hd = <<code>> \o Address(a)
  OBVIOUS
<1>4. hd \in Seq(Vals) /\ Len(hd) = 3 /\ hd[1] = code /\ hd[2] = a \div 256 /\ hd[3] = a % 256
  <2>1. ThreeVals(hd, code, a \div 256, a % 256)
    BY <1>3, AddressIs
  <2> QED
    BY <2>1 DEF ThreeVals
<1>5. HeaderLen(o) = 3 /\ \A k \in 1 .. 3 : hd[k] = HeaderByte(o, k)
  BY <1>1, <1>2, <1>4 DEF HeaderLen, HeaderByte
<1>6. Whole(SX126xCheckDeviceReady \o Framed(Bytes(hd \o o.data)) \o SX126xWaitOnBusy, o, n)
  BY <1>4, <1>5, WriteSends, ZenonT(30)
<1> QED
  BY <1>1, <1>2, <1>3, <1>6 DEF SX126xWriteRegisters

LEMMA ReadRegistersWhole ==
    ASSUME NEW o, NEW n \in Nat, o.kind = "read", o.space = "reg", o.at \in Int
    PROVE  Whole(SX126xReadRegisters(o.at, n), o, n)
<1>1. PICK code \in Codes : code = "READ_REGISTER"
  BY DEF Codes
<1>2. PICK a \in Int : a = o.at
  OBVIOUS
<1>3. PICK p : p = <<code>> \o Address(a)
  OBVIOUS
<1>4. p \in Seq(Vals) /\ Len(p) = 3 /\ p[1] = code /\ p[2] = a \div 256 /\ p[3] = a % 256
  <2>1. ThreeVals(p, code, a \div 256, a % 256)
    BY <1>3, AddressIs
  <2> QED
    BY <2>1 DEF ThreeVals
<1>5. PICK z \in Vals : z = 0
  BY IntsAreVals
<1>6. PICK hd : hd = p \o <<z>>
  OBVIOUS
<1>7. hd \in Seq(Vals) /\ Len(hd) = 4 /\ hd[4] = 0 /\ \A i \in 1 .. 3 : hd[i] = p[i]
  <2>1. PICK q : q = <<z>>
    OBVIOUS
  <2>2. q \in Seq(Vals) /\ Len(q) = 1 /\ q[1] = z
    BY <2>1
  <2>3. Joined(Vals, hd, p, q)
    BY <1>4, <1>6, <2>1, <2>2, JoinedIs
  <2>4. 1 \in 1 .. Len(q) /\ Len(p) + 1 = 4
    BY <1>4, <2>2
  <2> QED
    BY <1>4, <1>5, <2>2, <2>3, <2>4 DEF Joined
<1>8. HeaderLen(o) = 4 /\ \A k \in 1 .. 4 : hd[k] = HeaderByte(o, k)
  <2>1. hd[1] = code /\ hd[2] = a \div 256 /\ hd[3] = a % 256 /\ hd[4] = 0
    BY <1>4, <1>7
  <2> QED
    BY <1>1, <1>2, <2>1 DEF HeaderLen, HeaderByte
<1>9. Whole(SX126xCheckDeviceReady \o Framed(Bytes(hd) \o Fetches(n)) \o SX126xWaitOnBusy, o, n)
  BY <1>7, <1>8, ReadSends
<1> QED
  BY <1>1, <1>2, <1>3, <1>5, <1>6, <1>9 DEF SX126xReadRegisters

LEMMA WriteBufferWhole ==
    ASSUME NEW o, NEW n \in Nat, o.kind = "write", o.space = "buf", o.at \in Int, o.data \in Seq(Vals), Len(o.data) = n
    PROVE  Whole(SX126xWriteBuffer(o.at, o.data), o, n)
<1> DEFINE a == o.at
           code == "WRITE_BUFFER"
           hd == <<code, a>>
<1>1. code \in Vals /\ a \in Vals
  BY IntsAreVals, CodesAreVals DEF Codes
<1>2. hd \in Seq(Vals) /\ Len(hd) = 2 /\ hd[1] = code /\ hd[2] = a
  BY <1>1, TwoIs
<1> HIDE DEF hd
<1>3. HeaderLen(o) = 2 /\ \A k \in 1 .. 2 : hd[k] = HeaderByte(o, k)
  BY <1>2 DEF HeaderLen, HeaderByte
<1>4. Whole(SX126xCheckDeviceReady \o Framed(Bytes(hd \o o.data)) \o SX126xWaitOnBusy, o, n)
  BY <1>2, <1>3, WriteSends
<1> QED
  BY <1>4 DEF SX126xWriteBuffer, hd

LEMMA ReadBufferWhole ==
    ASSUME NEW o, NEW n \in Nat, o.kind = "read", o.space = "buf", o.at \in Int
    PROVE  Whole(SX126xReadBuffer(o.at, n), o, n)
<1> DEFINE a == o.at
           code == "READ_BUFFER"
           hd == <<code, a, 0>>
<1>1. code \in Vals /\ a \in Vals /\ 0 \in Vals
  BY IntsAreVals, CodesAreVals DEF Codes
<1>2. hd \in Seq(Vals) /\ Len(hd) = 3 /\ hd[1] = code /\ hd[2] = a /\ hd[3] = 0
  BY <1>1, ThreeIs
<1> HIDE DEF hd
<1>3. HeaderLen(o) = 3 /\ \A k \in 1 .. 3 : hd[k] = HeaderByte(o, k)
  BY <1>2 DEF HeaderLen, HeaderByte
<1>4. Whole(SX126xCheckDeviceReady \o Framed(Bytes(hd) \o Fetches(n)) \o SX126xWaitOnBusy, o, n)
  BY <1>2, <1>3, ReadSends
<1> QED
  BY <1>4 DEF SX126xReadBuffer, hd

\* What the start of an access leaves.
AccessBegun(n) == Starts /\ IsAccess(op', n) /\ Whole(todo', op', n) /\ rx' = <<>>

LEMMA AccessIs ==
    ASSUME NEW kind, NEW space, NEW a, NEW data, NEW o, o = Access(kind, space, a, data)
    PROVE  o.kind = kind /\ o.space = space /\ o.at = a /\ o.data = data
  BY DEF Access

LEMMA CellInt == \A cell \in Cell : cell = <<cell[1], cell[2]>> /\ cell[1] \in {"reg", "buf"} /\ cell[2] \in Int
<1> SUFFICES ASSUME NEW cell \in Cell
             PROVE  cell = <<cell[1], cell[2]>> /\ cell[1] \in {"reg", "buf"} /\ cell[2] \in Int
  OBVIOUS
<1>1. RegAddr \subseteq Int /\ BufAddr \subseteq Int
  BY Sx126xAssumption, SMTT(30)
<1>2. \A S, T : \A c \in S \X T : c = <<c[1], c[2]>> /\ c[1] \in S /\ c[2] \in T
  OBVIOUS
<1>3. cell \in {"reg"} \X RegAddr \/ cell \in {"buf"} \X BufAddr
  BY DEF Cell
<1> QED
  BY <1>1, <1>2, <1>3

LEMMA StartSees == ASSUME NEW s, NEW o, Start(s, o) PROVE todo' = s /\ op' = o /\ rx' = <<>>
  BY DEF Start

LEMMA WriteBegins ==
    ASSUME radio \in Radio, WriteMemory
    PROVE  radio = "SX126x" /\ \E n \in 0 .. Size : AccessBegun(n)
<1>1. Starts /\ radio = "SX126x"
  BY WriteStarts DEF WriteMemory, Is126x
<1>2. PICK cell \in Cell, n \in 0 .. Size : \E data \in [1 .. n -> Value] :
        LET a == cell[2]
            o == Access("write", cell[1], a, data)
        IN  /\ \A i \in 0 .. n - 1 : <<cell[1], a + i>> \in Cell
            /\ \/ cell[1] = "reg" /\ n # 1 /\ Start(SX126xWriteRegisters(a, data), o)
               \/ cell[1] = "reg" /\ n = 1 /\ Start(SX126xWriteRegister(a, data[1]), o)
               \/ cell[1] = "buf" /\ Start(SX126xWriteBuffer(a, data), o)
  BY DEF WriteMemory
<1>3. PICK a : a = cell[2]
  OBVIOUS
<1>4. PICK data \in [1 .. n -> Value] :
        /\ \A i \in 0 .. n - 1 : <<cell[1], a + i>> \in Cell
        /\ \/ cell[1] = "reg" /\ n # 1 /\ Start(SX126xWriteRegisters(a, data), Access("write", cell[1], a, data))
           \/ cell[1] = "reg" /\ n = 1 /\ Start(SX126xWriteRegister(a, data[1]), Access("write", cell[1], a, data))
           \/ cell[1] = "buf" /\ Start(SX126xWriteBuffer(a, data), Access("write", cell[1], a, data))
  BY <1>2, <1>3
<1>5. PICK o : o = Access("write", cell[1], a, data)
  OBVIOUS
<1>6. o.kind = "write" /\ o.space = cell[1] /\ o.at = a /\ o.data = data
  BY <1>5, AccessIs
<1>7. n \in Nat /\ a \in Int /\ <<cell[1], a>> \in Cell
  BY <1>3, CellInt, RadioAssumption
<1>8. data \in Seq(Vals) /\ Len(data) = n
  <2>1. \A i \in 1 .. n : data[i] \in Vals
    BY DEF Vals
  <2>2. data = [i \in 1 .. n |-> data[i]]
    OBVIOUS
  <2> QED
    BY <1>7, <2>1, <2>2, FunctionIs
<1>9. IsAccess(o, n)
  <2>1. ASSUME NEW j \in 1 .. n PROVE <<cell[1], a + j - 1>> \in Cell
    <3>1. j - 1 \in 0 .. n - 1 /\ a + (j - 1) = a + j - 1
      BY <1>7
    <3> QED
      BY <1>4, <3>1
  <2> QED
    BY <1>6, <1>7, <2>1 DEF IsAccess, CellOf
<1>10. PICK s : Start(s, o) /\ Whole(s, o, n)
  <2>1. CASE cell[1] = "reg" /\ Start(SX126xWriteRegisters(a, data), o)
    <3>1. Whole(SX126xWriteRegisters(o.at, o.data), o, n)
      BY <1>6, <1>7, <1>8, <2>1, WriteRegistersWhole
    <3> QED
      BY <1>6, <2>1, <3>1
  <2>2. CASE cell[1] = "reg" /\ n = 1 /\ Start(SX126xWriteRegister(a, data[1]), o)
    <3>1. data = <<data[1]>>
      BY <2>2
    <3>2. Start(SX126xWriteRegisters(a, data), o)
      BY <2>2, <3>1 DEF SX126xWriteRegister
    <3> QED
      BY <2>1, <2>2, <3>2
  <2>3. CASE cell[1] = "buf" /\ Start(SX126xWriteBuffer(a, data), o)
    <3>1. Whole(SX126xWriteBuffer(o.at, o.data), o, n)
      BY <1>6, <1>7, <1>8, <2>3, WriteBufferWhole
    <3> QED
      BY <1>6, <2>3, <3>1
  <2> QED
    BY <1>4, <1>5, <2>1, <2>2, <2>3
<1>11. todo' = s /\ op' = o /\ rx' = <<>>
  BY <1>10, StartSees
<1>12. AccessBegun(n)
  BY <1>1, <1>9, <1>10, <1>11 DEF AccessBegun
<1> QED
  BY <1>1, <1>12

LEMMA ReadBegins ==
    ASSUME radio \in Radio, ReadMemory
    PROVE  radio = "SX126x" /\ \E n \in 0 .. Size : AccessBegun(n)
<1>1. Starts /\ radio = "SX126x"
  BY ReadStarts DEF ReadMemory, Is126x
<1>2. PICK cell \in Cell, n \in 0 .. Size :
        LET a == cell[2]
            o == Access("read", cell[1], a, <<>>)
        IN  /\ \A i \in 0 .. n - 1 : <<cell[1], a + i>> \in Cell
            /\ \/ cell[1] = "reg" /\ n # 1 /\ Start(SX126xReadRegisters(a, n), o)
               \/ cell[1] = "reg" /\ n = 1 /\ Start(SX126xReadRegister(a), o)
               \/ cell[1] = "buf" /\ Start(SX126xReadBuffer(a, n), o)
  BY DEF ReadMemory
<1>3. PICK a : a = cell[2]
  OBVIOUS
<1>4. PICK o : o = Access("read", cell[1], a, <<>>)
  OBVIOUS
<1>5. /\ \A i \in 0 .. n - 1 : <<cell[1], a + i>> \in Cell
      /\ \/ cell[1] = "reg" /\ Start(SX126xReadRegisters(a, n), o)
         \/ cell[1] = "buf" /\ Start(SX126xReadBuffer(a, n), o)
  BY <1>2, <1>3, <1>4 DEF SX126xReadRegister
<1>6. o.kind = "read" /\ o.space = cell[1] /\ o.at = a
  BY <1>4, AccessIs
<1>7. n \in Nat /\ a \in Int /\ <<cell[1], a>> \in Cell
  BY <1>3, CellInt, RadioAssumption
<1>8. IsAccess(o, n)
  <2>1. ASSUME NEW j \in 1 .. n PROVE <<cell[1], a + j - 1>> \in Cell
    <3>1. j - 1 \in 0 .. n - 1 /\ a + (j - 1) = a + j - 1
      BY <1>7
    <3> QED
      BY <1>5, <3>1
  <2> QED
    BY <1>6, <1>7, <2>1 DEF IsAccess, CellOf
<1>9. PICK s : Start(s, o) /\ Whole(s, o, n)
  <2>1. CASE cell[1] = "reg" /\ Start(SX126xReadRegisters(a, n), o)
    <3>1. Whole(SX126xReadRegisters(o.at, n), o, n)
      BY <1>6, <1>7, <2>1, ReadRegistersWhole
    <3> QED
      BY <1>6, <2>1, <3>1
  <2>2. CASE cell[1] = "buf" /\ Start(SX126xReadBuffer(a, n), o)
    <3>1. Whole(SX126xReadBuffer(o.at, n), o, n)
      BY <1>6, <1>7, <2>2, ReadBufferWhole
    <3> QED
      BY <1>6, <2>2, <3>1
  <2> QED
    BY <1>5, <2>1, <2>2
<1>10. todo' = s /\ op' = o /\ rx' = <<>>
  BY <1>9, StartSees
<1>11. AccessBegun(n)
  BY <1>1, <1>8, <1>9, <1>10 DEF AccessBegun
<1> QED
  BY <1>1, <1>11

\* What the start of another function of the SX126x's driver leaves.
SilentBegun == Starts /\ op' = NoOp /\ Silent(todo', Either) /\ rx' = <<>>

LEMMA DriveSees == ASSUME NEW s, Drive(s) PROVE todo' = s /\ op' = NoOp /\ rx' = <<>>
  BY DEF Drive, Start

LEMMA InitWhole ==
    ASSUME radio = "SX126x"
    PROVE  Silent(RadioInit, Either) /\ Silent(RadioInit \o <<Do("up")>>, Either) /\ Silent(<<Do("assert")>>, Either)
<1>1. Silent(RadioInit, Either)
  BY ModeSilent DEF RadioInit
<1>2. Silent(<<Do("up")>>, Either) /\ Silent(<<Do("assert")>>, Either)
  <2>1. \A d \in {"up", "assert"} : Do(d) \in Calls("SX126x") /\ Do(d).do = d
    BY DoIs DEF Fields
  <2> QED
    BY <2>1, OneSilent
<1> QED
  BY <1>1, <1>2, SilentConcat

LEMMA CommandSilent == ASSUME Command PROVE Silent(todo', Either)
<1>1. <<0>> \in Seq(Vals) /\ <<14, 0>> \in Seq(Vals) /\ 1 \in Nat
  BY IntsAreVals
<1>2. {"SET_RX", "GET_IRQSTATUS", "SET_TXPARAMS"} \subseteq Codes \ MemoryCodes
  BY DEF Codes, MemoryCodes
<1>3. CASE Drive(SX126xWriteCommand("SET_RX", <<0>>))
  <2>1. Silent(SX126xWriteCommand("SET_RX", <<0>>), Either)
    BY <1>1, <1>2, WriteCommandSilent
  <2> QED
    BY <1>3, <2>1, DriveSees
<1>4. CASE Drive(SX126xReadCommand("GET_IRQSTATUS", 1))
  <2>1. Silent(SX126xReadCommand("GET_IRQSTATUS", 1), Either)
    BY <1>1, <1>2, ReadCommandSilent
  <2> QED
    BY <1>4, <2>1, DriveSees
<1>5. CASE Drive(SX126xSetRfTxPower(14))
  <2>1. Silent(SX126xWriteCommand("SET_TXPARAMS", <<14, 0>>), Either)
    BY <1>1, <1>2, WriteCommandSilent
  <2> QED
    BY <1>5, <2>1, DriveSees DEF SX126xSetRfTxPower
<1>6. CASE Drive(SX126xSetStandby)
  BY <1>6, ModeSilent, DriveSees
<1>7. CASE Drive(SX126xSetSleep)
  BY <1>7, ModeSilent, DriveSees
<1> QED
  BY <1>3, <1>4, <1>5, <1>6, <1>7 DEF Command

LEMMA SilentBegins ==
    ASSUME radio \in Radio, IrqInv, DriverCalls, radio = "SX126x"
    PROVE  SilentBegun \/ \E n \in 0 .. Size : AccessBegun(n)
<1>1. CASE WriteMemory \/ ReadMemory
  BY <1>1, WriteBegins, ReadBegins
<1>2. ~SetPower
  BY DEF SetPower
<1>3. ASSUME ~(WriteMemory \/ ReadMemory) PROVE op' = NoOp /\ Silent(todo', Either) /\ rx' = <<>>
  <2>1. CASE Reinit
    BY <2>1, InitWhole, DriveSees DEF Reinit
  <2>2. CASE IoCycle
    <3>1. Silent(SX126xIoDeInit, Either) /\ Silent(IoInit("SX126x"), Either)
      BY IoCycleSilent
    <3>2. Silent(SX126xIoDeInit \o IoInit(radio), Either)
      BY <3>1, SilentConcat
    <3>3. IoDeInit = SX126xIoDeInit
      BY DEF IoDeInit
    <3> QED
      BY <2>2, <3>2, <3>3, DriveSees DEF IoCycle
  <2>3. CASE Ignore
    <3>1. PICK d \in Dio : PinOf[d] \in irqSet /\ Drive(GpioRemoveInterrupt(d))
      BY <2>3 DEF Ignore
    <3>2. d \in Dio \cap Wired("SX126x")
      <4>1. PICK e \in Dio \cap Wired(radio) : PinOf[e] = PinOf[d] /\ PinOf[d] # NC
        BY <3>1 DEF IrqInv
      <4> QED
        BY <3>1, <4>1, PinAssumption DEF Obj
    <3>3. Silent(GpioRemoveInterrupt(d), Either)
      BY <3>2, InterruptSilent
    <3> QED
      BY <3>1, <3>3, DriveSees
  <2>4. CASE Listen
    BY <2>4, ModeSilent, DriveSees DEF Listen, Is126x
  <2>5. CASE Critical \/ SetMode
    BY <2>5 DEF Critical, SetMode, Is126x
  <2>6. CASE Command
    <3>1. Silent(todo', Either)
      BY <2>6, CommandSilent
    <3>2. op' = NoOp /\ rx' = <<>>
      BY <2>6, DriveSees DEF Command
    <3> QED
      BY <3>1, <3>2
  <2> QED
    BY <1>2, <1>3, <2>1, <2>2, <2>3, <2>4, <2>5, <2>6 DEF DriverCalls
<1>4. Starts \/ SetPower
  BY DriverStarts
<1> QED
  BY <1>1, <1>2, <1>3, <1>4 DEF SilentBegun

-----------------------------------------------------------------------------
(* What the calls do to the chip's memory.                                 *)

\* A call that is run, as the chip sees it.
LEMMA RunSees ==
    ASSUME BusState, radio = "SX126x", Runs, NEW c, c = todo[1]
    PROVE  /\ c \in Calls("SX126x") /\ todo # <<>>
           /\ c.do = "byte" => StepByte /\ SpiInOut(c.arg, c.val) /\ spiOn
           /\ c.do # "byte" => /\ rx' = rx /\ frame' \in {frame, <<>>}
                               /\ mem' = mem \/ (chip' = "reset" /\ mem' \in [Cell -> Value])
           /\ c.do = "write" => mem' = mem \/ chip = "reset"
           /\ c.do = "wait" => mem' = mem
           /\ NssRises(c) => frame' = <<>>
<1>1. /\ todo # <<>> /\ Head(todo) = c /\ c \in Calls("SX126x") /\ Good(radio, c)
  BY RunsOn, TodoIs DEF BusState, PinState
<1>2. CASE StepByte
  <2>1. c.do = "byte" /\ SpiInOut(c.arg, c.val)
    BY <1>1, <1>2 DEF StepByte, Now
  <2>2. spiOn
    BY <1>1, <2>1 DEF BusState, BusInv, Is126x
  <2> QED
    BY <1>1, <1>2, <2>1, <2>2 DEF NssRises
<1>3. CASE StepGpio
  <2>1. ChipSees /\ GpioCall(c)
    BY <1>1, <1>3 DEF StepGpio, Is126x
  <2>2. c.do # "byte" /\ c.do # "wait"
    BY <2>1 DEF GpioCall
  <2>3. /\ rx' = rx /\ frame' \in {frame, <<>>}
        /\ mem' = mem \/ (mem' \in [Cell -> Value] /\ mode'[PinOf["Reset"]] = "out" /\ chip' = "reset")
    BY <2>1 DEF ChipSees
  <2>4. c.do = "write" => mem' = mem \/ chip = "reset"
    <3>1. c.do = "write" => mode' = mode
      BY <2>1 DEF GpioCall, GpioWrite
    <3> QED
      BY <2>3, <3>1 DEF BusState, BusInv, Is126x
  <2>5. ASSUME NssRises(c) PROVE frame' = <<>>
    <3>1. level[PinOf["Nss"]] = 0
      BY <1>1, <2>5 DEF BusState, BusInv, Is126x, InFrame
    <3>2. level'[PinOf["Nss"]] = 1
      <4>1. pin["Nss"] = PinOf["Nss"]
        <5>1. "Nss" \in Wired(radio)
          BY DEF Wired
        <5> QED
          BY <2>5, <5>1, PinsSet DEF NssRises, BusState, PinState
      <4> QED
        BY <1>1, <1>3, <2>5, <4>1, NssWired, PinEffect DEF NssRises, BusState
    <3> QED
      BY <2>1, <3>1, <3>2 DEF ChipSees
  <2> QED
    BY <1>1, <1>3, <2>2, <2>3, <2>4, <2>5
<1>4. CASE StepWait \/ StepSleep \/ StepOpMode \/ StepStart
  <2>1. c.do \notin {"byte", "write"}
    BY <1>1, <1>4 DEF StepWait, StepSleep, StepOpMode, StepStart, Now
  <2>2. UNCHANGED <<frame, mem, rx>>
    BY <1>4 DEF StepWait, StepSleep, StepOpMode, StepStart, chipVars
  <2> QED
    BY <1>1, <2>1, <2>2 DEF NssRises
<1> QED
  BY <1>2, <1>3, <1>4 DEF Runs

LEMMA FrameNext ==
    ASSUME BusState, radio = "SX126x", Runs, FrameInv
    PROVE  FrameInv'
<1> DEFINE c == todo[1]
<1>1. todo # <<>> /\ (todo' # <<>> => Link(c, todo'[1])) /\ (todo' = <<>> => Closing(c) \/ c.do = "mac")
  BY RunsOn, NextCall DEF BusState, PinState
<1> HIDE DEF c
<1>2. SUFFICES ASSUME todo' = <<>> \/ ~InFrame(todo'[1]) PROVE frame' = <<>>
  BY DEF FrameInv
<1>3. c.do # "byte" /\ ~NssFalls(c)
  BY <1>1, <1>2 DEF Link, Closing, NssFalls
<1>4. CASE NssRises(c)
  BY <1>4, RunSees DEF c
<1>5. CASE ~NssRises(c)
  <2>1. frame = <<>>
    BY <1>3, <1>5 DEF FrameInv, InFrame, c
  <2> QED
    BY <1>3, <2>1, RunSees DEF c
<1> QED
  BY <1>4, <1>5

\* What a byte does to what the chip has heard and to its memory.
LEMMA NoTarget == /\ <<"none", 0>> \notin Cell
                  /\ \A f \in Seq(Vals) : Len(f) < 2 => Target(f) = <<"none", 0>>
<1>1. <<"none", 0>> \notin Cell
  <2>1. \A cell : cell = <<"none", 0>> => cell[1] = "none"
    OBVIOUS
  <2> QED
    BY <2>1, CellInt
<1>2. \A f \in Seq(Vals) : Len(f) < 2 => Target(f) = <<"none", 0>>
  BY DEF Target
<1> QED
  BY <1>1, <1>2

LEMMA AppendIs ==
    ASSUME NEW S, NEW s \in Seq(S), NEW b \in S
    PROVE  /\ Append(s, b) \in Seq(S) /\ Len(s) \in Nat /\ Len(Append(s, b)) = Len(s) + 1
           /\ \A i \in 1 .. Len(s) : Append(s, b)[i] = s[i]
           /\ Append(s, b)[Len(s) + 1] = b
  OBVIOUS

LEMMA ByteQuiet ==
    ASSUME ChipTyped, NEW dir, NEW b, SpiInOut(dir, b),
           spiOn /\ chip = "listening" /\ frame # <<>> => frame[1] \notin MemoryCodes
    PROVE  mem' = mem
<1>1. CASE frame = <<>>
  <2>1. Len(frame) < 2 /\ frame \in Seq(Vals)
    BY <1>1 DEF ChipTyped
  <2>2. Target(frame) \notin Cell
    BY <2>1, NoTarget
  <2> QED
    BY <2>2, NoTarget DEF SpiInOut
<1>2. CASE frame # <<>>
  BY <1>2, NoTarget DEF SpiInOut, MemoryCodes
<1> QED
  BY <1>1, <1>2

LEMMA ListenedNext ==
    ASSUME BusState, ChipTyped, FrameInv, radio = "SX126x", Runs, NEW a \in Nat, Harmless(todo, a), Listened(a)
    PROVE  Harmless(todo', a) /\ Listened(a)'
<1> DEFINE c == todo[1]
<1>1. /\ todo # <<>> /\ (todo' # <<>> => Link(c, todo'[1]))
      /\ Len(todo) \in Nat \ {0} /\ Len(todo') = Len(todo) - 1
      /\ \A i \in 1 .. Len(todo) - 1 : todo'[i] = todo[i + 1]
  BY RunsOn, TodoIs, NextCall DEF BusState, PinState
<1>2. PICK n \in Nat : n = Len(todo')
  BY <1>1
<1>3. Harmless(todo', a)
  <2>1. ASSUME NEW i \in 1 .. n - a - 1, NssFalls(todo'[i]), todo'[i + 1].do = "byte"
        PROVE  todo'[i + 1].val \notin MemoryCodes
    <3>1. /\ i \in 1 .. Len(todo) - 1 /\ i + 1 \in 1 .. Len(todo) - 1 /\ i + 1 \in 1 .. Len(todo) - a - 1
      BY <1>1, <1>2
    <3>2. todo'[i] = todo[i + 1] /\ todo'[i + 1] = todo[(i + 1) + 1]
      BY <1>1, <3>1
    <3> QED
      BY <2>1, <3>1, <3>2 DEF Harmless
  <2> QED
    BY <1>2, <2>1 DEF Harmless
<1>4. SUFFICES ASSUME todo' # <<>>, todo'[1].do = "byte", chip' = "listening", Len(todo') > a
               PROVE  IF frame' = <<>> THEN todo'[1].val \notin MemoryCodes ELSE frame'[1] \notin MemoryCodes
  BY <1>3 DEF Listened
<1>5. NssFalls(c) \/ c.do = "byte"
  BY <1>1, <1>4 DEF Link, InFrame
<1>6. CASE NssFalls(c)
  <2>1. frame = <<>>
    BY <1>6 DEF FrameInv, InFrame, NssFalls, NssRises
  <2>2. frame' = <<>>
    BY <1>6, <2>1, RunSees DEF NssFalls
  <2>3. 1 \in 1 .. Len(todo) - a - 1 /\ 1 \in 1 .. Len(todo) - 1 /\ 1 + 1 = 2
    BY <1>1, <1>2, <1>4
  <2>4. todo'[1] = todo[1 + 1]
    BY <1>1, <2>3
  <2> QED
    BY <1>4, <1>6, <2>2, <2>3, <2>4 DEF Harmless
<1>7. CASE c.do = "byte"
  <2>0. c \in Calls("SX126x") /\ SpiInOut(c.arg, c.val) /\ spiOn
    BY <1>7, RunSees
  <2>1. SpiInOut(c.arg, c.val) /\ spiOn /\ c.val \in Vals
    BY <2>0 DEF Calls
  <2>2. chip = "listening" /\ frame' = Append(frame, c.val)
    BY <1>4, <2>1 DEF SpiInOut
  <2>3. Len(todo) > a
    BY <1>1, <1>4
  <2>4. IF frame = <<>> THEN c.val \notin MemoryCodes ELSE frame[1] \notin MemoryCodes
    BY <1>1, <1>7, <2>2, <2>3 DEF Listened
  <2> HIDE DEF c
  <2>5. /\ Len(frame) \in Nat /\ Len(frame') = Len(frame) + 1
        /\ \A i \in 1 .. Len(frame) : frame'[i] = frame[i]
        /\ frame'[Len(frame) + 1] = c.val
        /\ frame' \in Seq(Vals)
    BY <2>1, <2>2, AppendIs DEF ChipTyped
  <2>6. frame' # <<>>
    BY <2>5, EmptyIs
  <2>7. IF frame = <<>> THEN frame'[1] = c.val ELSE frame'[1] = frame[1]
    <3>1. frame \in Seq(Vals)
      BY DEF ChipTyped
    <3>2. frame = <<>> <=> Len(frame) = 0
      BY <3>1, EmptyIs
    <3> QED
      BY <2>5, <3>2
  <2> QED
    BY <2>4, <2>6, <2>7
<1> QED
  BY <1>5, <1>6, <1>7, SMTT(30)

LEMMA TypedNext ==
    ASSUME BusState, ChipTyped, radio = "SX126x", Runs, StepByte => mem' \in [Cell -> Value]
    PROVE  ChipTyped'
<1>1. PICK c : c = todo[1]
  OBVIOUS
<1>2. CASE c.do = "byte"
  <2>0. c \in Calls("SX126x") /\ SpiInOut(c.arg, c.val) /\ StepByte
    BY <1>1, <1>2, RunSees
  <2>1. c.val \in Vals
    BY <2>0 DEF Calls
  <2>2. frame' \in Seq(Vals)
    BY <2>0, <2>1, AppendIs DEF SpiInOut, ChipTyped
  <2>3. rx' \in Seq(Value \cup {Status})
    <3>1. PICK v : rx' = rx \/ (rx' = Append(rx, v) /\ v \in Value \cup {Status})
      <4>1. \A cell \in Cell : mem[cell] \in Value
        BY DEF ChipTyped
      <4> QED
        BY <2>0, <4>1 DEF SpiInOut
    <3> QED
      BY <3>1, AppendIs DEF ChipTyped
  <2> QED
    BY <2>0, <2>2, <2>3 DEF ChipTyped
<1>3. CASE c.do # "byte"
  <2>1. /\ rx' = rx /\ frame' \in {frame, <<>>}
        /\ mem' = mem \/ mem' \in [Cell -> Value]
    BY <1>1, <1>3, RunSees
  <2>2. <<>> \in Seq(Vals)
    OBVIOUS
  <2> QED
    BY <2>1, <2>2 DEF ChipTyped
<1> QED
  BY <1>2, <1>3

LEMMA RunsKeep == ASSUME Runs PROVE op' = op
  BY DEF Runs, StepGpio, StepByte, StepWait, StepSleep, StepOpMode, StepStart, Then

\* While no access is made.
NoAccess == ChipTyped /\ FrameInv /\ op = NoOp /\ Harmless(todo, 0) /\ Listened(0)

LEMMA NoAccessRuns ==
    ASSUME BusState, radio = "SX126x", NoAccess, Runs
    PROVE  NoAccess' /\ (StepByte => mem' = mem)
<1>1. StepByte => mem' = mem
  <2> SUFFICES ASSUME StepByte PROVE mem' = mem
    OBVIOUS
  <2>1. PICK c : c = todo[1]
    OBVIOUS
  <2>2. c.do = "byte" /\ todo # <<>>
    <3>1. todo # <<>> /\ Head(todo) = todo[1]
      BY RunsOn, TodoIs DEF BusState, PinState
    <3> QED
      BY <2>1, <3>1 DEF StepByte, Now
  <2>3. SpiInOut(c.arg, c.val)
    BY <2>1, <2>2, RunSees
  <2>4. Len(todo) > 0
    BY <2>2, TodoIs DEF BusState, PinState
  <2>5. chip = "listening" /\ frame # <<>> => frame[1] \notin MemoryCodes
    BY <2>1, <2>2, <2>4 DEF NoAccess, Listened
  <2> QED
    BY <2>3, <2>5, ByteQuiet DEF NoAccess
<1>2. ChipTyped'
  BY <1>1, TypedNext DEF NoAccess, ChipTyped
<1>3. PICK a \in Nat : a = 0
  OBVIOUS
<1>4. Harmless(todo', a) /\ Listened(a)'
  BY <1>3, ListenedNext DEF NoAccess
<1>5. Harmless(todo', 0) /\ Listened(0)'
  BY <1>3, <1>4 DEF Harmless, Listened
<1>6. FrameInv' /\ op' = op
  BY FrameNext, RunsKeep DEF NoAccess
<1> QED
  BY <1>1, <1>2, <1>5, <1>6 DEF NoAccess

LEMMA CheckSilent ==
    ASSUME TodoInv, StepCheck
    PROVE  /\ todo # <<>> /\ todo[1].do = "check"
           /\ \E p : Silent(p, Sends) /\ p # <<>> /\ todo' = p \o Tail(todo)
<1>1. todo # <<>> /\ todo[1].do = "check"
  BY CheckGrows
<1>2. PICK p : p = (IF asleep THEN SX126xWakeup \o SX126xAntSwOn ELSE <<>>) \o SX126xWaitOnBusy
  OBVIOUS
<1>3. PICK q : q = IF asleep THEN SX126xWakeup \o SX126xAntSwOn ELSE <<>>
  OBVIOUS
<1>4. Silent(q, Sends)
  BY <1>3, WakeupSilent, SwitchSilent, WaitSilent, SilentConcat DEF Sends
<1>5. p = q \o SX126xWaitOnBusy
  BY <1>2, <1>3
<1>6. Silent(p, Sends)
  BY <1>4, <1>5, WaitSilent, SilentConcat
<1>7. p # <<>>
  <2>1. PICK w : w = Do("wait")
    OBVIOUS
  <2>2. w \in Calls("SX126x")
    BY <2>1, DoIs
  <2>3. p \in Seq(Calls("SX126x")) /\ Len(p) = Len(q) + 1 /\ Len(q) \in Nat
    BY <1>4, <1>5, <2>1, <2>2, OneMore DEF Silent, SX126xWaitOnBusy
  <2> QED
    BY <2>3, EmptyIs
<1>8. todo' = p \o Tail(todo)
  BY <1>2 DEF StepCheck, Then
<1> QED
  BY <1>1, <1>6, <1>7, <1>8

LEMMA HarmlessTail ==
    ASSUME NEW r, NEW s \in Seq(Calls(r)), s # <<>>, NEW a \in Nat, Harmless(s, a)
    PROVE  Harmless(Tail(s), a)
<1>1. PICK t : t = Tail(s)
  OBVIOUS
<1>2. PICK n \in Nat : n = Len(t)
  BY <1>1
<1>3. Len(s) = n + 1 /\ \A i \in 1 .. n : t[i] = s[i + 1]
  BY <1>1, <1>2, TailIs
<1>4. ASSUME NEW i \in 1 .. n - a - 1, NssFalls(t[i]), t[i + 1].do = "byte" PROVE t[i + 1].val \notin MemoryCodes
  <2>1. i \in 1 .. n /\ i + 1 \in 1 .. n /\ i + 1 \in 1 .. (n + 1) - a - 1
    OBVIOUS
  <2>2. t[i] = s[i + 1] /\ t[i + 1] = s[(i + 1) + 1]
    BY <1>3, <2>1
  <2> QED
    BY <1>3, <1>4, <2>1, <2>2 DEF Harmless
<1> QED
  BY <1>1, <1>2, <1>4 DEF Harmless

LEMMA CheckListened ==
    ASSUME BusState, StepCheck, FrameInv, NEW a \in Nat, Harmless(todo, a)
    PROVE  Harmless(todo', a) /\ Listened(a)' /\ FrameInv' /\ UNCHANGED <<frame, mem, rx, op, radio>>
<1>1. TodoInv /\ radio = "SX126x" /\ todo # <<>> /\ todo[1].do = "check"
  BY CheckGrows DEF BusState, PinState
<1>2. PICK p : Silent(p, Sends) /\ p # <<>> /\ todo' = p \o Tail(todo)
  BY <1>1, CheckSilent
<1>3. UNCHANGED <<frame, mem, rx, op, radio>>
  BY DEF StepCheck, Then, chipVars
<1>4. PICK t : t = Tail(todo)
  OBVIOUS
<1>5. t \in Seq(Calls("SX126x")) /\ (t # <<>> => t[1].do # "byte")
  <2>1. Len(todo) = 1 => t = <<>>
    BY <1>1, <1>4, TodoIs
  <2>2. Len(todo) > 1 => t[1] = todo[2] /\ Link(todo[1], todo[2])
    BY <1>1, <1>4, TodoIs
  <2>3. Len(todo) \in Nat \ {0} /\ t \in Seq(Calls("SX126x"))
    BY <1>1, <1>4, TodoIs
  <2>4. Len(todo) > 1 => t[1].do # "byte"
    BY <1>1, <2>2 DEF Link, NssFalls, InFrame
  <2>5. \A m \in Nat \ {0} : m = 1 \/ m > 1
    OBVIOUS
  <2>6. Len(todo) = 1 \/ Len(todo) > 1
    BY <2>3, <2>5
  <2> QED
    BY <2>1, <2>3, <2>4, <2>6
<1>6. Harmless(t, a)
  <2>1. todo \in Seq(Calls("SX126x"))
    BY <1>1, TodoIs
  <2> QED
    BY <1>1, <1>4, <2>1, HarmlessTail
<1>7. Harmless(p \o t, a)
  <2>1. p \in Seq(Calls("SX126x")) /\ Harmless(p, 0)
    BY <1>2 DEF Silent
  <2> QED
    BY <1>5, <1>6, <2>1, HarmlessConcat
<1>8. todo'[1].do \in {"mask", "wait"} /\ todo' # <<>>
  BY <1>1, CheckGrows
<1>9. frame = <<>>
  BY <1>1 DEF FrameInv, InFrame, NssRises
<1> QED
  BY <1>2, <1>3, <1>4, <1>7, <1>8, <1>9 DEF Listened, FrameInv

LEMMA SilentListened ==
    ASSUME Starts, Silent(todo', Either), FrameInv
    PROVE  Harmless(todo', 0) /\ Listened(0)' /\ FrameInv'
<1>1. todo' # <<>> /\ todo'[1].do \notin {"byte", "write"} /\ todo = <<>> /\ frame' = frame
  BY DEF Starts, Begins
<1> QED
  BY <1>1 DEF Listened, FrameInv, Silent

\* The end of start-up begins the MAC.
LEMMA MacListened ==
    ASSUME BusState, radio = "SX126x", StepMac, FrameInv
    PROVE  /\ Len(todo) = 1 /\ todo # <<>> /\ todo[1].do = "mac"
           /\ Harmless(todo', 0) /\ Listened(0)' /\ FrameInv' /\ UNCHANGED <<frame, mem, rx, op, radio>>
<1>1. /\ todo # <<>> /\ todo[1].do = "mac" /\ Len(todo) = 1 /\ radio' = radio
      /\ Begins(radio, todo')
      /\ todo' = RadioInit \o <<Do("up")>> \/ todo' = <<Do("assert")>>
  BY MacGrows DEF BusState, PinState
<1>2. Silent(todo', Either)
  BY <1>1, InitWhole
<1>3. UNCHANGED <<frame, mem, rx, op>>
  BY DEF StepMac, Then, chipVars
<1>4. frame = <<>>
  BY <1>1 DEF FrameInv, InFrame, NssRises
<1>5. todo' # <<>> /\ todo'[1].do \notin {"byte", "write"}
  BY <1>1 DEF Begins
<1> QED
  BY <1>1, <1>2, <1>3, <1>4, <1>5 DEF Listened, FrameInv, Silent

\* The steps of the SX126x's board.
Elsewhere ==
    UNCHANGED <<todo, radio, mem, frame, rx, op>> /\ (\A c \in {"listening", "reset"} : chip' = c <=> chip = c)

LEMMA SxSteps ==
    ASSUME BusState, radio = "SX126x", [Next]_vars
    PROVE  SilentBegun \/ (\E n \in 0 .. Size : AccessBegun(n)) \/ Runs \/ StepCheck \/ StepMac \/ Elsewhere
<1>1. radio \in Radio /\ IrqInv /\ TodoInv
  BY DEF BusState, PinState
<1>2. CASE DriverCalls
  BY <1>1, <1>2, SilentBegins
<1>3. CASE Step
  <2>1. ~StepLowPower
    BY <1>1, LowPowerGrows
  <2> QED
    BY <1>3, <2>1 DEF Step, Runs
<1>4. CASE Interrupt \/ LorawanTask \/ Chip \/ UNCHANGED vars
  BY <1>4 DEF Interrupt, LorawanTask, Chip, ChipReady, vars, others, gpioVars, chipVars, Elsewhere
<1> QED
  BY <1>2, <1>3, <1>4 DEF Next

\* A call is made that is no access.
LEMMA SilentNext ==
    ASSUME ChipTyped, FrameInv, SilentBegun
    PROVE  NoAccess'
<1>1. Harmless(todo', 0) /\ Listened(0)' /\ FrameInv' /\ op' = NoOp
  BY SilentListened DEF SilentBegun
<1>2. mem' = mem /\ frame' = frame /\ rx' = <<>>
  BY DEF SilentBegun, Starts
<1>3. <<>> \in Seq(Value \cup {Status})
  OBVIOUS
<1> QED
  BY <1>1, <1>2, <1>3 DEF NoAccess, ChipTyped

LEMMA NoAccessNext ==
    ASSUME BusState, radio = "SX126x", NoAccess, [Next]_vars
    PROVE  NoAccess' \/ \E n \in 0 .. Size : AccessBegun(n)
<1>0. FrameInv /\ ChipTyped /\ op = NoOp
  BY DEF NoAccess
<1>1. CASE SilentBegun
  BY <1>0, <1>1, SilentNext
<1>2. CASE Runs
  BY <1>2, NoAccessRuns
<1>3. CASE StepCheck
  <2>1. PICK a \in Nat : a = 0
    OBVIOUS
  <2>2. Harmless(todo', a) /\ Listened(a)' /\ FrameInv' /\ UNCHANGED <<frame, mem, rx, op, radio>>
    BY <1>3, <2>1, CheckListened DEF NoAccess
  <2> QED
    BY <2>1, <2>2 DEF NoAccess, ChipTyped
<1>4. CASE StepMac
  <2>1. Harmless(todo', 0) /\ Listened(0)' /\ FrameInv' /\ UNCHANGED <<frame, mem, rx, op, radio>>
    BY <1>0, <1>4, MacListened
  <2> QED
    BY <2>1 DEF NoAccess, ChipTyped
<1>5. CASE Elsewhere
  BY <1>5 DEF Elsewhere, NoAccess, ChipTyped, FrameInv, Listened
<1> QED
  BY <1>1, <1>2, <1>3, <1>4, <1>5, SxSteps

LEMMA LengthsAre ==
    ASSUME NEW o, NEW n \in Nat
    PROVE  HeaderLen(o) \in 2 .. 4 /\ HeaderLen(o) \in Nat /\ AccessLen(o, n) \in Nat
           /\ AccessLen(o, n) = HeaderLen(o) + n + 3
  BY DEF HeaderLen, AccessLen

LEMMA AccessStarts ==
    ASSUME FrameInv, ChipTyped, NEW n \in 0 .. Size, AccessBegun(n), radio = "SX126x"
    PROVE  ChipTyped' /\ FrameInv' /\ Accessing(n)'
<1>1. /\ Starts /\ IsAccess(op', n) /\ Whole(todo', op', n) /\ rx' = <<>>
      /\ mem' = mem /\ frame' = frame /\ todo = <<>> /\ radio' = radio
  BY DEF AccessBegun, Starts
<1>2. todo' # <<>> /\ todo'[1].do \notin {"byte", "write"}
  BY <1>1 DEF Starts, Begins
<1>3. n \in Nat
  BY RadioAssumption
<1>4. PICK l \in Nat : l = AccessLen(op', n)
  BY <1>3, LengthsAre
<1>5. Len(todo') = l + 1 /\ todo'[1].do = "check" /\ \A k \in 1 .. l : AccessCall(op', n, k, todo'[k + 1])
  BY <1>1, <1>4 DEF Whole
<1>6. Place(op, n)' = 0
  <2>1. Place(op, n)' = AccessLen(op', n) + 1 - Len(todo')
    BY DEF Place
  <2> QED
    BY <1>4, <1>5, <2>1
<1>7. AccessLeft(op, n)'
  <2>1. ASSUME NEW i \in 1 .. Len(todo'), NEW k, k = 0 + i - 1
        PROVE  IF k <= 0 THEN todo'[i].do = "byte" => todo'[i].arg = "send" ELSE AccessCall(op', n, k, todo'[i])
    <3>1. i \in Nat /\ k = i - 1 /\ k \in Nat
      BY <1>5, <2>1
    <3>2. CASE i = 1
      BY <1>2, <3>1, <3>2
    <3>3. CASE i # 1
      <4>1. k \in 1 .. l /\ k + 1 = i
        BY <1>5, <3>1, <3>3
      <4> QED
        BY <1>5, <4>1
    <3> QED
      BY <3>2, <3>3
  <2> QED
    BY <1>6, <2>1 DEF AccessLeft
<1>8. Progress(op, n, Place(op, n))'
  BY <1>1, <1>3, <1>6, LengthsAre DEF Progress, ProgressOf
<1>9. Harmless(todo', l) /\ Listened(l)'
  <2>1. ~ \E i \in 1 .. Len(todo') - l - 1 : TRUE
    BY <1>5
  <2> QED
    BY <1>2, <2>1 DEF Harmless, Listened
<1>10. ChipTyped'
  <2>1. <<>> \in Seq(Value \cup {Status})
    OBVIOUS
  <2> QED
    BY <1>1, <2>1 DEF ChipTyped
<1>11. FrameInv'
  BY <1>1, <1>2 DEF FrameInv
<1> QED
  BY <1>1, <1>4, <1>7, <1>8, <1>9, <1>10, <1>11 DEF Accessing

-----------------------------------------------------------------------------
(* The bytes of an access, and the cells that they are about.              *)

LEMMA AddressParts == ASSUME NEW a \in Int PROVE 256 * (a \div 256) + (a % 256) = a
  OBVIOUS

\* The frame f starts with the bytes that name the access.
Headed(o, f) == \A i \in 1 .. 3 : i <= HeaderLen(o) => f[i] = HeaderByte(o, i)

LEMMA DataTarget ==
    ASSUME NEW o, o.kind \in {"read", "write"}, o.space \in {"reg", "buf"}, o.at \in Int,
           NEW h, h = HeaderLen(o), NEW j \in Nat \ {0}, NEW f, Len(f) = h + j - 1, Headed(o, f)
    PROVE  Target(f) = CellOf(o, j) /\ (f[1] \in MemoryCodes <=> o.kind = "write")
<1>1. f[1] = HeaderByte(o, 1) /\ f[2] = HeaderByte(o, 2) /\ (h >= 3 => f[3] = HeaderByte(o, 3))
  <2>1. h \in {2, 3, 4}
    BY DEF HeaderLen
  <2> QED
    BY <2>1 DEF Headed
<1>2. PICK a \in Int : a = o.at
  OBVIOUS
<1>3. PICK x \in Int : x = a \div 256
  OBVIOUS
<1>4. PICK y \in Int : y = a % 256
  OBVIOUS
<1>5. 256 * x + y = a
  BY <1>3, <1>4, AddressParts
<1>6. CASE o.space = "reg" /\ o.kind = "write"
  <2>1. h = 3 /\ f[1] = "WRITE_REGISTER" /\ f[2] = x /\ f[3] = y
    BY <1>1, <1>2, <1>3, <1>4, <1>6 DEF HeaderLen, HeaderByte
  <2>2. Len(f) >= 3 /\ Len(f) - 3 = j - 1
    BY <2>1
  <2>3. Target(f) = <<"reg", 256 * f[2] + f[3] + Len(f) - 3>>
    BY <2>1, <2>2 DEF Target
  <2>4. 256 * f[2] + f[3] + Len(f) - 3 = a + j - 1
    BY <1>5, <2>1, <2>2
  <2> QED
    BY <1>2, <1>6, <2>1, <2>3, <2>4 DEF CellOf, MemoryCodes
<1>7. CASE o.space = "reg" /\ o.kind = "read"
  <2>1. h = 4 /\ f[1] = "READ_REGISTER" /\ f[2] = x /\ f[3] = y
    BY <1>1, <1>2, <1>3, <1>4, <1>7 DEF HeaderLen, HeaderByte
  <2>2. Len(f) >= 4 /\ Len(f) - 4 = j - 1
    BY <2>1
  <2>3. Target(f) = <<"reg", 256 * f[2] + f[3] + Len(f) - 4>>
    BY <2>1, <2>2 DEF Target
  <2>4. 256 * f[2] + f[3] + Len(f) - 4 = a + j - 1
    BY <1>5, <2>1, <2>2
  <2> QED
    BY <1>2, <1>7, <2>1, <2>3, <2>4 DEF CellOf, MemoryCodes
<1>8. CASE o.space = "buf" /\ o.kind = "write"
  <2>1. h = 2 /\ f[1] = "WRITE_BUFFER" /\ f[2] = a
    BY <1>1, <1>2, <1>8 DEF HeaderLen, HeaderByte
  <2>2. Len(f) >= 2 /\ Len(f) - 2 = j - 1
    BY <2>1
  <2>3. Target(f) = <<"buf", f[2] + Len(f) - 2>>
    BY <2>1, <2>2 DEF Target
  <2>4. f[2] + Len(f) - 2 = a + j - 1
    BY <2>1, <2>2
  <2> QED
    BY <1>2, <1>8, <2>1, <2>3, <2>4 DEF CellOf, MemoryCodes
<1>9. CASE o.space = "buf" /\ o.kind = "read"
  <2>1. h = 3 /\ f[1] = "READ_BUFFER" /\ f[2] = a
    BY <1>1, <1>2, <1>9 DEF HeaderLen, HeaderByte
  <2>2. Len(f) >= 3 /\ Len(f) - 3 = j - 1
    BY <2>1
  <2>3. Target(f) = <<"buf", f[2] + Len(f) - 3>>
    BY <2>1, <2>2 DEF Target
  <2>4. f[2] + Len(f) - 3 = a + j - 1
    BY <2>1, <2>2
  <2> QED
    BY <1>2, <1>9, <2>1, <2>3, <2>4 DEF CellOf, MemoryCodes
<1> QED
  BY <1>6, <1>7, <1>8, <1>9

LEMMA HeaderTarget ==
    ASSUME NEW o, o.kind \in {"read", "write"}, o.space \in {"reg", "buf"},
           NEW h, h = HeaderLen(o), NEW f \in Seq(Vals), Len(f) < h,
           \A i \in 1 .. 3 : i <= h /\ i <= Len(f) => f[i] = HeaderByte(o, i)
    PROVE  Target(f) \notin Cell \/ f[1] \notin MemoryCodes
<1>1. CASE Len(f) < 2
  BY <1>1, NoTarget
<1>2. CASE Len(f) >= 2
  <2>1. h \in {2, 3, 4} /\ Len(f) \in Nat
    BY DEF HeaderLen
  <2>2. f[1] = HeaderByte(o, 1)
    BY <1>2, <2>1
  <2>3. CASE o.kind = "read"
    BY <2>2, <2>3 DEF HeaderByte, MemoryCodes
  <2>4. CASE o.kind = "write"
    <3>0. Len(f) >= 2 /\ Len(f) < h /\ Len(f) \in Nat
      BY <1>2, <2>1
    <3>1. h = 3 /\ o.space = "reg" /\ Len(f) = 2
      <4>1. h = 2 \/ (h = 3 /\ o.space = "reg")
        BY <2>4 DEF HeaderLen
      <4>2. \A m \in Nat : m >= 2 => ~(m < 2) /\ (m < 3 => m = 2)
        OBVIOUS
      <4> QED
        BY <3>0, <4>1, <4>2
    <3>2. f[1] = "WRITE_REGISTER"
      BY <2>2, <2>4, <3>1 DEF HeaderByte
    <3>3. Target(f) = <<"none", 0>>
      BY <3>1, <3>2 DEF Target
    <3> QED
      BY <3>3, NoTarget
  <2> QED
    BY <2>3, <2>4
<1> QED
  <2>1. Len(f) \in Nat
    OBVIOUS
  <2> QED
    BY <1>1, <1>2, <2>1

-----------------------------------------------------------------------------
(* The steps of an access.                                                 *)

\* The call that is next, at place k of the access.
At(n, k, c) ==
    /\ todo # <<>> /\ c = todo[1] /\ k = Place(op, n) /\ k \in Int
    /\ Len(todo) = AccessLen(op, n) + 1 - k /\ k <= AccessLen(op, n)
    /\ IF k <= 0 THEN c.do = "byte" => c.arg = "send" ELSE AccessCall(op, n, k, c)

LEMMA PlaceIs ==
    ASSUME TodoInv, NEW n \in 0 .. Size, AccessLeft(op, n), todo # <<>>, NEW k, k = Place(op, n), NEW c, c = todo[1]
    PROVE  At(n, k, c)
<1>1. PICK l \in Nat : l = AccessLen(op, n)
  BY LengthsAre, RadioAssumption
<1>2. PICK m \in Nat \ {0} : m = Len(todo)
  BY TodoIs
<1>3. k = l + 1 - m
  BY <1>1, <1>2 DEF Place
<1>4. k \in Int /\ m = l + 1 - k /\ k <= l /\ k + 1 - 1 = k /\ 1 \in 1 .. m
  BY <1>3
<1>5. IF k + 1 - 1 <= 0 THEN c.do = "byte" => c.arg = "send" ELSE AccessCall(op, n, k + 1 - 1, c)
  BY <1>2, <1>4 DEF AccessLeft
<1> QED
  BY <1>1, <1>2, <1>4, <1>5, SMTT(30) DEF At

LEMMA LeftNext ==
    ASSUME TodoInv, Runs, NEW n \in 0 .. Size, AccessLeft(op, n), NEW k, k = Place(op, n)
    PROVE  AccessLeft(op, n)' /\ Place(op, n)' = k + 1
<1>1. todo # <<>> /\ todo' = Tail(todo) /\ op' = op
  BY RunsOn, RunsKeep
<1>2. PICK l \in Nat : l = AccessLen(op, n)
  BY LengthsAre, RadioAssumption, SMTT(30)
<1>3. PICK m \in Nat \ {0} : m = Len(todo)
  BY <1>1, TodoIs
<1>4. Len(todo') = m - 1 /\ \A i \in 1 .. m - 1 : todo'[i] = todo[i + 1]
  BY <1>1, <1>3, TodoIs
<1>5. k = l + 1 - m /\ Place(op, n)' = AccessLen(op', n) + 1 - Len(todo')
  BY <1>2, <1>3 DEF Place
<1>6. Place(op, n)' = k + 1
  BY <1>1, <1>2, <1>4, <1>5
<1>7. ASSUME NEW i \in 1 .. m - 1, NEW p, p = k + 1 + i - 1
      PROVE  IF p <= 0 THEN todo'[i].do = "byte" => todo'[i].arg = "send" ELSE AccessCall(op, n, p, todo'[i])
  <2>1. i + 1 \in 1 .. m /\ p = k + (i + 1) - 1
    BY <1>5, <1>7
  <2>2. todo'[i] = todo[i + 1]
    BY <1>4
  <2>3. PICK q : q = i + 1
    OBVIOUS
  <2>4. q \in 1 .. Len(todo) /\ p = Place(op, n) + q - 1 /\ todo'[i] = todo[q]
    BY <1>3, <2>1, <2>2, <2>3
  <2> QED
    BY <2>4 DEF AccessLeft
<1> QED
  BY <1>1, <1>4, <1>6, <1>7 DEF AccessLeft

LEMMA CallsOfAccess ==
    ASSUME NEW o, NEW n \in Nat, NEW k \in 1 .. AccessLen(o, n), NEW c, AccessCall(o, n, k, c)
    PROVE  c.do \in {"write", "byte", "wait"}
<1>1. PICK h \in Nat : h = HeaderLen(o)
  BY LengthsAre
<1>2. k \in 1 .. h + n + 3
  BY <1>1, LengthsAre
<1>3. k = 1 \/ k \in 2 .. h + 1 \/ k \in h + 2 .. h + n + 1 \/ k = h + n + 2 \/ k = h + n + 3
  BY <1>2
<1> QED
  BY <1>1, <1>3 DEF AccessCall, NssFalls, NssRises

LEMMA NotWaking ==
    ASSUME TodoInv, NEW n \in 0 .. Size, AccessLeft(op, n), NEW k \in Nat \ {0}, k = Place(op, n)
    PROVE  ~Waking
<1>1. n \in Nat
  BY RadioAssumption
<1>2. PICK l \in Nat : l = AccessLen(op, n)
  BY <1>1, LengthsAre
<1>3. PICK m \in Nat : m = Len(todo) /\ DOMAIN todo = 1 .. m
  BY DEF TodoInv, Linked
<1>4. ASSUME NEW i \in 1 .. m PROVE todo[i].do \in {"write", "byte", "wait"}
  <2>1. PICK p : p = k + i - 1
    OBVIOUS
  <2>2. p \in 1 .. l /\ ~(p <= 0)
    BY <1>2, <1>3, <2>1, SMTT(30) DEF Place
  <2>3. AccessCall(op, n, p, todo[i])
    BY <1>3, <2>1, <2>2 DEF AccessLeft
  <2> QED
    BY <1>1, <1>2, <2>2, <2>3, CallsOfAccess
<1> QED
  BY <1>3, <1>4 DEF Waking

-----------------------------------------------------------------------------
(* The progress of an access, place by place.                              *)

LEMMA ProgressBefore ==
    ASSUME NEW o, NEW n \in Nat, NEW k \in Int, k <= 0, NEW m, NEW x, NEW f, ProgressOf(o, n, k, m, x, f), NEW m2, NEW f2
    PROVE  ProgressOf(o, n, k + 1, m2, x, f2)
<1>1. PICK h \in Nat : h = HeaderLen(o) /\ h >= 2
  BY LengthsAre
<1>2. ~(k + 1 \in 2 .. h + n + 2) /\ k <= h + 2 /\ k + 1 <= h + 2 /\ \A j \in 1 .. n : ~(h + 1 + j < k + 1)
  BY <1>1
<1>3. o.kind = "read" => Len(x) = 0
  BY <1>1, <1>2 DEF ProgressOf
<1> QED
  BY <1>1, <1>2, <1>3 DEF ProgressOf

LEMMA ProgressFall ==
    ASSUME NEW o, NEW n \in Nat, NEW k, k = 1, NEW m, NEW x, NEW f, ProgressOf(o, n, k, m, x, f), NEW f2, Len(f2) = 0
    PROVE  ProgressOf(o, n, k + 1, m, x, f2)
<1>1. PICK h \in Nat : h = HeaderLen(o) /\ h >= 2
  BY LengthsAre
<1>2. /\ k + 1 = 2 /\ k <= h + 2 /\ k + 1 <= h + 2
      /\ \A j \in 1 .. n : ~(h + 1 + j < k + 1)
      /\ \A i \in 1 .. 3 : ~(i <= (k + 1) - 2)
  BY <1>1
<1>3. o.kind = "read" => Len(x) = 0
  BY <1>1, <1>2 DEF ProgressOf
<1>4. Len(f2) = (k + 1) - 2
  BY <1>2
<1> QED
  BY <1>1, <1>2, <1>3, <1>4 DEF ProgressOf

LEMMA ProgressHeader ==
    ASSUME NEW o, NEW n \in Nat, NEW h \in Nat, h = HeaderLen(o), NEW k \in 2 .. h + 1,
           NEW m, NEW x, NEW f \in Seq(Vals), ProgressOf(o, n, k, m, x, f),
           NEW b \in Vals, b = HeaderByte(o, k - 1)
    PROVE  ProgressOf(o, n, k + 1, m, x, Append(f, b))
<1>1. PICK g : g = Append(f, b)
  OBVIOUS
<1>2. /\ k \in 2 .. h + n + 2 /\ k <= h + 2 /\ k + 1 <= h + 2 /\ k + 1 \in 2 .. h + n + 2
      /\ \A j \in 1 .. n : ~(h + 1 + j < k + 1)
  BY SMTT(30)
<1>3. (o.kind = "read" => Len(x) = 0) /\ Len(f) = k - 2
      /\ \A i \in 1 .. 3 : i <= h /\ i <= k - 2 => f[i] = HeaderByte(o, i)
  BY <1>2 DEF ProgressOf
<1>4. Len(g) = Len(f) + 1 /\ (\A i \in 1 .. Len(f) : g[i] = f[i]) /\ g[Len(f) + 1] = b
  BY <1>1, AppendIs
<1>5. Len(g) = (k + 1) - 2
  BY <1>3, <1>4
<1>6. ASSUME NEW i \in 1 .. 3, i <= h, i <= (k + 1) - 2 PROVE g[i] = HeaderByte(o, i)
  <2>1. CASE i <= k - 2
    <3>1. i \in 1 .. Len(f)
      BY <1>3, <2>1
    <3> QED
      BY <1>3, <1>4, <1>6, <2>1, <3>1
  <2>2. CASE i = k - 1
    <3>1. i = Len(f) + 1
      BY <1>3, <2>2
    <3> QED
      BY <1>4, <2>2, <3>1
  <2> QED
    BY <1>6, <2>1, <2>2
<1>7. ProgressOf(o, n, k + 1, m, x, g)
  BY <1>2, <1>3, <1>5, <1>6 DEF ProgressOf
<1> QED
  BY <1>1, <1>7

LEMMA ProgressRise ==
    ASSUME NEW o, NEW n \in Nat, NEW h \in Nat, h = HeaderLen(o), NEW k, k = h + n + 2 \/ k = h + n + 3,
           NEW m, NEW x, NEW f, ProgressOf(o, n, k, m, x, f), NEW f2
    PROVE  ProgressOf(o, n, k + 1, m, x, f2)
<1>1. k \in Nat /\ ~(k + 1 \in 2 .. h + n + 2) /\ ~(k + 1 <= h + 2) /\ ~(k + 1 <= h + n + 2)
      /\ \A j \in 1 .. n : h + 1 + j < k
  OBVIOUS
<1>2. o.kind = "read" => Len(x) = n
  <2>1. k = h + n + 2 /\ k <= h + 2 => n = 0
    OBVIOUS
  <2>2. k = h + n + 2 /\ ~(k <= h + 2) => k - h - 2 = n /\ k <= h + n + 2
    OBVIOUS
  <2>3. k = h + n + 3 => ~(k <= h + 2) /\ ~(k <= h + n + 2)
    OBVIOUS
  <2> QED
    BY <2>1, <2>2, <2>3 DEF ProgressOf
<1> QED
  BY <1>1, <1>2 DEF ProgressOf

LEMMA CellsDiffer == ASSUME NEW o, o.at \in Int, NEW i \in Int, NEW j \in Int, CellOf(o, i) = CellOf(o, j) PROVE i = j
<1>1. PICK a \in Int : a = o.at
  OBVIOUS
<1>2. CellOf(o, i) = <<o.space, a + i - 1>> /\ CellOf(o, j) = <<o.space, a + j - 1>>
  BY <1>1 DEF CellOf
<1>3. \A s, p, q : <<s, p>> = <<s, q>> => p = q
  OBVIOUS
<1>4. a + i - 1 = a + j - 1
  BY <1>2, <1>3
<1> QED
  BY <1>4

LEMMA Earlier ==
    ASSUME NEW h \in Int, NEW k \in Int, NEW i \in Int, h + 1 + i < k + 1, NEW j, j = k - h - 1
    PROVE  i = j \/ (i # j /\ h + 1 + i < k)
  OBVIOUS

LEMMA ProgressWrite ==
    ASSUME NEW o, o.kind = "write", o.at \in Int, NEW n \in Nat, NEW h \in Nat, h = HeaderLen(o),
           NEW k \in h + 2 .. h + n + 1, NEW j \in Nat, j = k - h - 1,
           NEW m \in [Cell -> Value], CellOf(o, j) \in Cell,
           NEW x, NEW f \in Seq(Vals), ProgressOf(o, n, k, m, x, f), NEW b \in Vals, b = o.data[j],
           NEW m2, m2 = [m EXCEPT ![CellOf(o, j)] = b]
    PROVE  ProgressOf(o, n, k + 1, m2, x, Append(f, b))
<1>1. PICK g : g = Append(f, b)
  OBVIOUS
<1>0. k \in Int /\ k >= h + 2 /\ k <= h + n + 1 /\ j = k - h - 1
  OBVIOUS
<1>2. k \in 2 .. h + n + 2 /\ j \in 1 .. n
  BY <1>0, SMTT(30)
<1>3. Len(f) = k - 2 /\ \A i \in 1 .. 3 : i <= h /\ i <= k - 2 => f[i] = HeaderByte(o, i)
  BY <1>2 DEF ProgressOf
<1>4. Len(g) = Len(f) + 1 /\ \A i \in 1 .. Len(f) : g[i] = f[i]
  BY <1>1, AppendIs
<1>5. Len(g) = (k + 1) - 2
  BY <1>3, <1>4
<1>6. ASSUME NEW i \in 1 .. 3, i <= h, i <= (k + 1) - 2 PROVE g[i] = HeaderByte(o, i)
  <2>0. i <= k - 2
    BY <1>0, <1>6
  <2>1. i <= k - 2 /\ i \in 1 .. Len(f)
    BY <1>3, <2>0
  <2> QED
    BY <1>3, <1>4, <1>6, <2>1
<1>7. ASSUME NEW i \in 1 .. n, h + 1 + i < k + 1 PROVE m2[CellOf(o, i)] = o.data[i]
  <2>0. i = j \/ (i # j /\ h + 1 + i < k)
    <3>1. i \in Int /\ h \in Int /\ k \in Int /\ h + 1 + i < k + 1
      BY <1>0, <1>7
    <3> QED
      BY <1>0, <3>1, Earlier
  <2>1. CASE i = j
    <3>1. m2[CellOf(o, j)] = b
      OBVIOUS
    <3> QED
      BY <2>1, <3>1
  <2>2. CASE i # j /\ h + 1 + i < k
    <3>1. m[CellOf(o, i)] = o.data[i]
      BY <2>2 DEF ProgressOf
    <3>2. CellOf(o, i) # CellOf(o, j)
      <4>1. i \in Int /\ j \in Int /\ i # j
        BY <2>2
      <4> QED
        BY <4>1, CellsDiffer
    <3>3. m2[CellOf(o, i)] = m[CellOf(o, i)] \/ CellOf(o, i) \notin Cell
      BY <3>2
    <3> QED
      BY <3>1, <3>2, <3>3
  <2> QED
    BY <2>0, <2>1, <2>2
<1>8. ProgressOf(o, n, k + 1, m2, x, g)
  BY <1>5, <1>6, <1>7 DEF ProgressOf
<1> QED
  BY <1>1, <1>8

LEMMA LastOrEarlier == \A i, j \in Int : 1 <= i /\ i <= j => i = j \/ i \in 1 .. (j - 1)
OBVIOUS

LEMMA ProgressRead ==
    ASSUME NEW o, o.kind = "read", NEW n \in Nat, NEW h \in Nat, h = HeaderLen(o),
           NEW k \in h + 2 .. h + n + 1, NEW j \in Nat, j = k - h - 1, NEW S,
           NEW m, NEW x \in Seq(S), NEW f \in Seq(Vals), ProgressOf(o, n, k, m, x, f), NEW b \in Vals,
           NEW v \in S, v = m[CellOf(o, j)]
    PROVE  ProgressOf(o, n, k + 1, m, Append(x, v), Append(f, b))
<1>1. PICK g : g = Append(f, b)
  OBVIOUS
<1>2. PICK y : y = Append(x, v)
  OBVIOUS
<1>0. k \in Int /\ k >= h + 2 /\ k <= h + n + 1 /\ j = k - h - 1
  OBVIOUS
<1>3. k \in 2 .. h + n + 2 /\ j \in 1 .. n /\ k <= h + n + 2
  BY <1>0, SMTT(30)
<1>4. Len(f) = k - 2 /\ \A i \in 1 .. 3 : i <= h /\ i <= k - 2 => f[i] = HeaderByte(o, i)
  BY <1>3 DEF ProgressOf
<1>5. Len(g) = Len(f) + 1 /\ \A i \in 1 .. Len(f) : g[i] = f[i]
  BY <1>1, AppendIs
<1>6. Len(g) = (k + 1) - 2
  BY <1>4, <1>5
<1>7. ASSUME NEW i \in 1 .. 3, i <= h, i <= (k + 1) - 2 PROVE g[i] = HeaderByte(o, i)
  <2>0. i <= k - 2
    BY <1>0, <1>7
  <2>1. i <= k - 2 /\ i \in 1 .. Len(f)
    BY <1>4, <2>0
  <2> QED
    BY <1>4, <1>5, <1>7, <2>1
<1>8. Len(x) = j - 1 /\ \A i \in 1 .. Len(x) : x[i] = m[CellOf(o, i)]
  <2>1. k <= h + 2 => 0 = j - 1
    OBVIOUS
  <2>2. k - h - 2 = j - 1
    OBVIOUS
  <2> QED
    BY <1>3, <2>1, <2>2 DEF ProgressOf
<1>9. Len(y) = j /\ \A i \in 1 .. Len(y) : y[i] = m[CellOf(o, i)]
  <2>1. Len(y) = Len(x) + 1 /\ (\A i \in 1 .. Len(x) : y[i] = x[i]) /\ y[Len(x) + 1] = v
    BY <1>2, AppendIs
  <2>4. (j - 1) + 1 = j
    OBVIOUS
  <2>2. Len(y) = j /\ y[j] = v
    BY <1>8, <2>1, <2>4
  <2>3. ASSUME NEW i \in 1 .. Len(y) PROVE y[i] = m[CellOf(o, i)]
    <3>1. i = j \/ i \in 1 .. Len(x)
      <4>1. i \in 1 .. j /\ Len(x) = j - 1
        BY <1>8, <2>2
      <4>2. i \in Int /\ j \in Int /\ 1 <= i /\ i <= j
        BY <4>1
      <4>3. i = j \/ i \in 1 .. (j - 1)
        BY <4>2, LastOrEarlier, Zenon
      <4> QED
        BY <4>1, <4>3, Zenon
    <3> QED
      BY <1>8, <2>1, <2>2, <3>1
  <2> QED
    BY <2>2, <2>3
<1>10. ~(k + 1 <= h + 2) /\ k + 1 <= h + n + 2 /\ (k + 1) - h - 2 = j
  <2>1. k \in Int /\ h \in Int /\ n \in Int /\ j \in Int
    OBVIOUS
  <2> QED
    BY ONLY <1>0, <2>1
<1>11. ProgressOf(o, n, k + 1, m, y, g)
  BY <1>6, <1>7, <1>9, <1>10 DEF ProgressOf
<1> QED
  BY <1>1, <1>2, <1>11

\* What a call of the access o, to n cells, at place k has done.
Moved(n, k) ==
    /\ ProgressOf(op, n, k + 1, mem', rx', frame')
    /\ \/ mem' = mem
       \/ op.kind = "write" /\ \E j \in 1 .. n : mem' = [mem EXCEPT ![CellOf(op, j)] = op.data[j]]
       \/ k <= 0 /\ chip' = "reset" /\ mem' \in [Cell -> Value]

\* Before the access the calls read nothing, and write nothing.
LEMMA MovedBefore ==
    ASSUME BusState, radio = "SX126x", Runs, ChipTyped, NEW n \in 0 .. Size, Accessing(n), NEW k, k = Place(op, n), k <= 0
    PROVE  Moved(n, k)
<1>1. n \in Nat /\ TodoInv /\ todo # <<>>
  BY RunsOn, RadioAssumption DEF BusState, PinState
<1>2. PICK c : c = todo[1]
  OBVIOUS
<1>3. PICK l \in Nat : l = AccessLen(op, n)
  BY <1>1, LengthsAre
<1>4. k \in Int /\ Len(todo) = l + 1 - k /\ (c.do = "byte" => c.arg = "send")
  <2>1. At(n, k, c)
    BY <1>1, <1>2, PlaceIs DEF Accessing
  <2> QED
    BY <1>3, <2>1 DEF At
<1>5. Len(todo) > l
  BY <1>4
<1>6. rx' = rx /\ (mem' = mem \/ (chip' = "reset" /\ mem' \in [Cell -> Value]))
  <2>1. CASE c.do = "byte"
    <3>1. SpiInOut(c.arg, c.val) /\ c.arg = "send"
      BY <1>2, <1>4, <2>1, RunSees
    <3>2. chip = "listening" /\ frame # <<>> => frame[1] \notin MemoryCodes
      BY <1>1, <1>2, <1>3, <1>5, <2>1 DEF Accessing, Listened
    <3>3. mem' = mem
      BY <3>1, <3>2, ByteQuiet
    <3> QED
      BY <3>1, <3>3 DEF SpiInOut
  <2>2. CASE c.do # "byte"
    BY <1>2, <2>2, RunSees
  <2> QED
    BY <2>1, <2>2
<1>7. ProgressOf(op, n, k, mem, rx, frame)
  BY DEF Accessing, Progress
<1>8. ProgressOf(op, n, k + 1, mem', rx, frame')
  BY <1>1, <1>4, <1>7, ProgressBefore
<1> QED
  BY <1>6, <1>8 DEF Moved

\* In the access the chip hears each call.
LEMMA AccessHeard ==
    ASSUME BusState, radio = "SX126x", Runs, FrameInv, NEW n \in 0 .. Size, AccessLeft(op, n),
           NEW k \in Nat \ {0}, k = Place(op, n), NEW c, c = todo[1]
    PROVE  /\ InFrame(c) => chip = "listening"
           /\ NssFalls(c) => chip = "ready" /\ frame = <<>>
           /\ NssFalls(c) \/ NssRises(c) \/ c.do = "wait" => mem' = mem /\ rx' = rx
           /\ NssFalls(c) => frame' = <<>>
<1>1. TodoInv /\ todo # <<>> /\ BusInv
  BY RunsOn DEF BusState, PinState, Is126x
<1>2. ~Waking
  BY <1>1, NotWaking
<1>3. InFrame(c) => chip = "listening"
  BY <1>1, <1>2 DEF BusInv
<1>4. NssFalls(c) => chip = "ready" /\ ~InFrame(c)
  BY <1>1, <1>2 DEF BusInv, InFrame, NssFalls, NssRises
<1>5. NssFalls(c) => frame = <<>>
  BY <1>1, <1>4 DEF FrameInv
<1>6. ASSUME NssFalls(c) \/ NssRises(c) \/ c.do = "wait" PROVE mem' = mem /\ rx' = rx /\ (NssFalls(c) => frame' = <<>>)
  <2>1. c.do # "byte" /\ (c.do = "write" => chip # "reset")
    BY <1>3, <1>4, <1>6 DEF NssFalls, NssRises, InFrame
  <2>2. rx' = rx /\ frame' \in {frame, <<>>} /\ mem' = mem
    BY <1>6, <2>1, RunSees DEF NssFalls, NssRises
  <2> QED
    BY <1>5, <2>2
<1> QED
  BY <1>3, <1>4, <1>5, <1>6

\* What a byte of the access does that the chip hears.
LEMMA ByteHeard ==
    ASSUME NEW dir, NEW b, SpiInOut(dir, b), spiOn, chip = "listening", NEW t, t = Target(frame)
    PROVE  /\ frame' = Append(frame, b)
           /\ mem' = IF t \in Cell /\ frame[1] \in MemoryCodes THEN [mem EXCEPT ![t] = b] ELSE mem
           /\ rx' = IF dir = "send" THEN rx ELSE Append(rx, IF t \in Cell THEN mem[t] ELSE Status)
<1>1. MemoryCodes = {"WRITE_REGISTER", "WRITE_BUFFER"}
  BY DEF MemoryCodes
<1>2. spiOn /\ chip = "listening" <=> TRUE
  OBVIOUS
<1> QED
  BY <1>1, <1>2 DEF SpiInOut

\* The frame that the chip has heard so far.
LEMMA FrameHeard ==
    ASSUME NEW o, NEW n \in Nat, NEW h \in Nat, h = HeaderLen(o), NEW k \in 2 .. h + n + 2, NEW m, NEW x, NEW f,
           ProgressOf(o, n, k, m, x, f)
    PROVE  Len(f) = k - 2 /\ \A i \in 1 .. 3 : i <= h /\ i <= k - 2 => f[i] = HeaderByte(o, i)
  BY DEF ProgressOf

LEMMA MovedHeader ==
    ASSUME BusState, radio = "SX126x", Runs, ChipTyped, FrameInv, NEW n \in 0 .. Size, Accessing(n),
           NEW h \in Nat, h = HeaderLen(op), NEW k \in 2 .. h + 1, k = Place(op, n)
    PROVE  Moved(n, k)
<1>1. n \in Nat /\ TodoInv /\ todo # <<>> /\ k \in Nat \ {0}
  BY RunsOn, RadioAssumption DEF BusState, PinState
<1>2. PICK c : c = todo[1]
  OBVIOUS
<1>3. AccessCall(op, n, k, c) /\ AccessLeft(op, n)
  <2>1. At(n, k, c)
    BY <1>1, <1>2, PlaceIs DEF Accessing
  <2>2. ~(k <= 0)
    OBVIOUS
  <2> QED
    BY <2>1, <2>2 DEF At, Accessing
<1>4. c.do = "byte" /\ c.arg = "send" /\ c.val = HeaderByte(op, k - 1)
  BY <1>3 DEF AccessCall
<1>5. SpiInOut("send", c.val) /\ spiOn /\ c.val \in Vals
  <2>1. c \in Calls("SX126x") /\ SpiInOut(c.arg, c.val) /\ spiOn
    BY <1>2, <1>4, RunSees
  <2>2. c.val \in Vals
    BY <2>1 DEF Calls
  <2> QED
    BY <1>4, <2>1, <2>2
<1>6. chip = "listening"
  BY <1>1, <1>2, <1>3, <1>4, AccessHeard DEF InFrame
<1>7. PICK t : t = Target(frame)
  OBVIOUS
<1>8. /\ frame' = Append(frame, c.val) /\ rx' = rx
      /\ mem' = IF t \in Cell /\ frame[1] \in MemoryCodes THEN [mem EXCEPT ![t] = c.val] ELSE mem
  BY <1>5, <1>6, <1>7, ByteHeard
<1>9. ProgressOf(op, n, k, mem, rx, frame) /\ frame \in Seq(Vals)
  BY DEF Accessing, Progress, ChipTyped
<1>10. mem' = mem
  <2>1. op.kind \in {"read", "write"} /\ op.space \in {"reg", "buf"}
    <3>1. IsAccess(op, n)
      BY DEF Accessing
    <3>2. PICK cell \in Cell : cell = <<op.space, op.at>>
      BY <3>1 DEF IsAccess
    <3>3. cell[1] = op.space
      BY <3>2
    <3> QED
      BY <3>1, <3>3, CellInt DEF IsAccess
  <2>2. k \in 2 .. h + n + 2 /\ k - 2 < h
    BY <1>1
  <2>3. Len(frame) = k - 2 /\ \A i \in 1 .. 3 : i <= h /\ i <= k - 2 => frame[i] = HeaderByte(op, i)
    BY <1>1, <1>9, <2>2, FrameHeard, SMTT(30)
  <2>4. t \notin Cell \/ frame[1] \notin MemoryCodes
    BY <1>7, <1>9, <2>1, <2>2, <2>3, HeaderTarget, SMTT(30)
  <2> QED
    BY <1>8, <2>4
<1>11. ProgressOf(op, n, k + 1, mem, rx, Append(frame, c.val))
  BY <1>1, <1>4, <1>5, <1>9, ProgressHeader
<1> QED
  BY <1>8, <1>10, <1>11 DEF Moved

\* An access knows its cells.
LEMMA AccessCells ==
    ASSUME NEW o, NEW n \in 0 .. Size, IsAccess(o, n)
    PROVE  /\ o.kind \in {"read", "write"} /\ o.space \in {"reg", "buf"} /\ o.at \in Int
           /\ \A j \in 1 .. n : CellOf(o, j) \in Cell
           /\ o.kind = "write" => o.data \in [1 .. n -> Value]
<1>1. PICK cell \in Cell : cell = <<o.space, o.at>>
  BY DEF IsAccess
<1>2. cell[1] = o.space /\ cell[2] = o.at
  BY <1>1
<1> QED
  BY <1>2, CellInt DEF IsAccess

LEMMA DataPlace ==
    \A h \in Nat, n \in Nat, k \in Int, j \in Nat :
        k >= h + 2 /\ k <= h + n + 1 /\ j = k - h - 1 => j \in 1 .. n /\ j \in Nat \ {0} /\ k - 2 = h + j - 1
  OBVIOUS

LEMMA MovedData ==
    ASSUME BusState, radio = "SX126x", Runs, ChipTyped, FrameInv, NEW n \in 0 .. Size, Accessing(n),
           NEW h \in Nat, h = HeaderLen(op), NEW k \in h + 2 .. h + n + 1, k = Place(op, n)
    PROVE  Moved(n, k)
<1>1. n \in Nat /\ TodoInv /\ todo # <<>> /\ h \in 2 .. 4
  <2>1. n \in Nat /\ TodoInv /\ todo # <<>>
    BY RunsOn, RadioAssumption DEF BusState, PinState
  <2>2. HeaderLen(op) \in 2 .. 4
    BY <2>1, LengthsAre
  <2> QED
    BY <2>1, <2>2
<1>2. k \in Nat \ {0} /\ ~(k <= 0) /\ k \in 2 .. h + n + 2 /\ k >= h + 2
  BY <1>1
<1>3. PICK c : c = todo[1]
  OBVIOUS
<1>4. AccessCall(op, n, k, c) /\ AccessLeft(op, n)
  <2>1. At(n, k, c)
    BY <1>1, <1>3, PlaceIs DEF Accessing
  <2> QED
    BY <1>2, <2>1 DEF At, Accessing
<1>5. PICK j \in Nat : j = k - h - 1
  BY <1>2
<1>6. j \in 1 .. n /\ j \in Nat \ {0} /\ k - 2 = h + j - 1
  <2>1. k >= h + 2 /\ k <= h + n + 1 /\ k \in Int
    BY <1>1
  <2> QED
    BY <1>1, <1>5, <2>1, DataPlace, Zenon
<1>7. /\ c.do = "byte" /\ c.val \in Vals
      /\ IF op.kind = "write" THEN c.arg = "send" /\ c.val = op.data[j] ELSE c.arg = "receive"
  <2>1. /\ c.do = "byte"
        /\ IF op.kind = "write" THEN c.arg = "send" /\ c.val = op.data[j] ELSE c.arg = "receive"
    BY <1>4, <1>5 DEF AccessCall
  <2>2. c \in Calls("SX126x")
    BY <1>3, RunSees
  <2> QED
    BY <2>1, <2>2 DEF Calls
<1>8. SpiInOut(c.arg, c.val) /\ spiOn
  BY <1>3, <1>7, RunSees
<1>9. chip = "listening"
  BY <1>1, <1>2, <1>3, <1>4, <1>7, AccessHeard DEF InFrame
<1>10. PICK t : t = Target(frame)
  OBVIOUS
<1>11. /\ frame' = Append(frame, c.val)
       /\ mem' = IF t \in Cell /\ frame[1] \in MemoryCodes THEN [mem EXCEPT ![t] = c.val] ELSE mem
       /\ rx' = IF c.arg = "send" THEN rx ELSE Append(rx, IF t \in Cell THEN mem[t] ELSE Status)
  BY <1>8, <1>9, <1>10, ByteHeard
<1>12. ProgressOf(op, n, k, mem, rx, frame) /\ frame \in Seq(Vals) /\ mem \in [Cell -> Value] /\ rx \in Seq(Value \cup {Status})
  BY DEF Accessing, Progress, ChipTyped
<1>13. /\ op.kind \in {"read", "write"} /\ op.space \in {"reg", "buf"} /\ op.at \in Int
       /\ CellOf(op, j) \in Cell
  BY <1>6, AccessCells DEF Accessing
<1>14. t = CellOf(op, j) /\ (frame[1] \in MemoryCodes <=> op.kind = "write")
  <2>1. Len(frame) = k - 2 /\ \A i \in 1 .. 3 : i <= h /\ i <= k - 2 => frame[i] = HeaderByte(op, i)
    BY <1>1, <1>2, <1>12, FrameHeard, SMTT(30)
  <2>2. \A i \in 1 .. 3 : i <= h => i <= k - 2
    BY <1>2
  <2>3. Len(frame) = h + j - 1 /\ \A i \in 1 .. 3 : i <= h => frame[i] = HeaderByte(op, i)
    BY <1>6, <2>1, <2>2
  <2>4. Headed(op, frame)
    BY <2>3 DEF Headed
  <2> QED
    BY <1>6, <1>10, <1>13, <2>3, <2>4, DataTarget, SMTT(60)
<1>15. CASE op.kind = "write"
  <2>1. mem' = [mem EXCEPT ![CellOf(op, j)] = c.val] /\ rx' = rx
    BY <1>7, <1>11, <1>13, <1>14, <1>15
  <2>2. ProgressOf(op, n, k + 1, mem', rx, Append(frame, c.val))
    BY <1>1, <1>5, <1>7, <1>12, <1>13, <1>15, <2>1, ProgressWrite
  <2>3. mem' = [mem EXCEPT ![CellOf(op, j)] = op.data[j]]
    BY <1>7, <1>15, <2>1
  <2> QED
    BY <1>6, <1>11, <1>15, <2>1, <2>2, <2>3 DEF Moved
<1>16. CASE op.kind = "read"
  <2>1. PICK v : v = mem[CellOf(op, j)]
    OBVIOUS
  <2>2. mem' = mem /\ rx' = Append(rx, v) /\ v \in Value \cup {Status}
    BY <1>7, <1>11, <1>12, <1>13, <1>14, <1>16, <2>1
  <2>3. ProgressOf(op, n, k + 1, mem, Append(rx, v), Append(frame, c.val))
    BY <1>1, <1>5, <1>7, <1>12, <1>13, <1>16, <2>1, <2>2, ProgressRead
  <2> QED
    BY <1>11, <2>2, <2>3 DEF Moved
<1> QED
  BY <1>13, <1>15, <1>16

LEMMA MovedEnds ==
    ASSUME BusState, radio = "SX126x", Runs, ChipTyped, FrameInv, NEW n \in 0 .. Size, Accessing(n),
           NEW h \in Nat, h = HeaderLen(op), NEW k, k = 1 \/ k = h + n + 2 \/ k = h + n + 3, k = Place(op, n)
    PROVE  Moved(n, k)
<1>1. n \in Nat /\ TodoInv /\ todo # <<>>
  BY RunsOn, RadioAssumption DEF BusState, PinState
<1>2. k \in Nat \ {0} /\ ~(k <= 0)
  BY <1>1
<1>3. PICK c : c = todo[1]
  OBVIOUS
<1>4. AccessCall(op, n, k, c) /\ AccessLeft(op, n)
  <2>1. At(n, k, c)
    BY <1>1, <1>3, PlaceIs DEF Accessing
  <2> QED
    BY <1>2, <2>1 DEF At, Accessing
<1>5. /\ k = 1 => NssFalls(c)
      /\ k = h + n + 2 => NssRises(c)
      /\ k = h + n + 3 => c.do = "wait"
  BY <1>4 DEF AccessCall
<1>6. /\ NssFalls(c) \/ NssRises(c) \/ c.do = "wait" => mem' = mem /\ rx' = rx
      /\ NssFalls(c) => frame' = <<>>
  BY <1>1, <1>2, <1>3, <1>4, AccessHeard
<1>7. mem' = mem /\ rx' = rx /\ (k = 1 => Len(frame') = 0)
  BY <1>5, <1>6
<1>8. ProgressOf(op, n, k, mem, rx, frame)
  BY DEF Accessing, Progress
<1>9. ProgressOf(op, n, k + 1, mem, rx, frame')
  BY <1>1, <1>7, <1>8, ProgressFall, ProgressRise
<1> QED
  BY <1>7, <1>9 DEF Moved

LEMMA PlacesAre ==
    \A h \in Nat, n \in Nat, k \in Int : k <= h + n + 3 =>
        k <= 0 \/ k = 1 \/ k \in 2 .. h + 1 \/ k \in h + 2 .. h + n + 1 \/ k = h + n + 2 \/ k = h + n + 3
  OBVIOUS

LEMMA AccessMoves ==
    ASSUME BusState, radio = "SX126x", Runs, ChipTyped, FrameInv, NEW n \in 0 .. Size, Accessing(n), NEW k, k = Place(op, n)
    PROVE  Moved(n, k)
<1>1. n \in Nat /\ TodoInv /\ todo # <<>>
  BY RunsOn, RadioAssumption DEF BusState, PinState
<1>2. PICK h \in Nat : h = HeaderLen(op)
  BY LengthsAre
<1>3. AccessLen(op, n) = h + n + 3
  BY <1>2 DEF AccessLen
<1>4. k \in Int /\ k <= h + n + 3
  <2>1. PICK c : c = todo[1]
    OBVIOUS
  <2>2. At(n, k, c)
    BY <1>1, <2>1, PlaceIs DEF Accessing
  <2> QED
    BY <1>3, <2>2 DEF At
<1>5. k <= 0 \/ k = 1 \/ k \in 2 .. h + 1 \/ k \in h + 2 .. h + n + 1 \/ k = h + n + 2 \/ k = h + n + 3
  BY <1>1, <1>4, PlacesAre
<1>6. CASE k <= 0
  BY <1>6, MovedBefore
<1>7. CASE k = 1 \/ k = h + n + 2 \/ k = h + n + 3
  BY <1>2, <1>7, MovedEnds
<1>8. CASE k \in 2 .. h + 1
  BY <1>2, <1>8, MovedHeader
<1>9. CASE k \in h + 2 .. h + n + 1
  BY <1>2, <1>9, MovedData
<1> QED
  BY <1>5, <1>6, <1>7, <1>8, <1>9

LEMMA StoredTyped ==
    ASSUME NEW o, NEW n \in 0 .. Size, IsAccess(o, n), o.kind = "write", NEW m \in [Cell -> Value], NEW j \in 1 .. n,
           NEW m2, m2 = [m EXCEPT ![CellOf(o, j)] = o.data[j]]
    PROVE  m2 \in [Cell -> Value]
<1>1. o.data \in [1 .. n -> Value] /\ CellOf(o, j) \in Cell
  BY AccessCells
<1> QED
  BY <1>1

LEMMA AccessRuns ==
    ASSUME BusState, radio = "SX126x", Runs, ChipTyped, FrameInv, NEW n \in 0 .. Size, Accessing(n), NEW k, k = Place(op, n)
    PROVE  ChipTyped' /\ FrameInv' /\ Accessing(n)' /\ Moved(n, k)
<1>1. n \in Nat /\ TodoInv
  BY RadioAssumption DEF BusState, PinState
<1>2. Moved(n, k)
  BY AccessMoves
<1>3. op' = op /\ radio' = radio
  BY <1>1, RunsKeep, RunsOn
<1>4. mem' \in [Cell -> Value]
  BY <1>2, StoredTyped DEF Moved, Accessing, ChipTyped
<1>5. ChipTyped' /\ FrameInv'
  BY <1>4, TypedNext, FrameNext
<1>6. AccessLeft(op, n)' /\ Place(op, n)' = k + 1
  BY <1>1, LeftNext DEF Accessing
<1>7. Progress(op, n, Place(op, n))'
  BY <1>2, <1>3, <1>6 DEF Progress, Moved
<1>8. PICK l \in Nat : l = AccessLen(op, n)
  BY <1>1, LengthsAre
<1>9. Harmless(todo', l) /\ Listened(l)'
  BY <1>8, ListenedNext DEF Accessing
<1>10. IsAccess(op', n)
  BY <1>3 DEF Accessing
<1>11. AccessLen(op', n) = l
  BY <1>3, <1>8
<1>12. Accessing(n)'
  BY <1>3, <1>6, <1>7, <1>9, <1>10, <1>11 DEF Accessing
<1> QED
  BY <1>2, <1>5, <1>12

LEMMA ProgressNone ==
    ASSUME NEW o, NEW n \in Nat, NEW k \in Int, k <= 0, NEW m, NEW x, NEW f, ProgressOf(o, n, k, m, x, f),
           NEW k2 \in Int, k2 <= 0
    PROVE  ProgressOf(o, n, k2, m, x, f)
<1>1. PICK h \in Nat : h = HeaderLen(o) /\ h >= 2
  BY LengthsAre
<1>2. ~(k2 \in 2 .. h + n + 2) /\ k <= h + 2 /\ k2 <= h + 2 /\ \A j \in 1 .. n : ~(h + 1 + j < k2)
  BY <1>1
<1>3. o.kind = "read" => Len(x) = 0
  BY <1>1, <1>2 DEF ProgressOf
<1> QED
  BY <1>1, <1>2, <1>3 DEF ProgressOf

\* A call that is not of an access comes before it.
LEMMA OtherBefore ==
    ASSUME TodoInv, NEW n \in 0 .. Size, AccessLeft(op, n), todo # <<>>, todo[1].do \notin {"write", "byte", "wait"},
           NEW k, k = Place(op, n)
    PROVE  k \in Int /\ k <= 0 /\ Len(todo) = AccessLen(op, n) + 1 - k
<1>1. n \in Nat
  BY RadioAssumption
<1>2. PICK c : c = todo[1]
  OBVIOUS
<1>3. At(n, k, c)
  BY <1>2, PlaceIs
<1>4. ASSUME ~(k <= 0) PROVE FALSE
  <2>1. k \in 1 .. AccessLen(op, n) /\ AccessCall(op, n, k, c)
    BY <1>1, <1>3, <1>4, LengthsAre DEF At
  <2> QED
    BY <1>1, <1>2, <2>1, CallsOfAccess
<1> QED
  BY <1>3, <1>4 DEF At

\* The place, with q calls put before the m - 1 that are left of an access of l.
PlaceFell(l, m, q, k) == l + 1 - (q + m - 1) = k - q + 1

\* The test before the frame, and the wake-up that it may put there.
LEMMA LeftCheck ==
    ASSUME BusState, StepCheck, NEW n \in 0 .. Size, AccessLeft(op, n), NEW k, k = Place(op, n)
    PROVE  AccessLeft(op, n)' /\ k \in Int /\ k <= 0 /\ Place(op, n)' \in Int /\ Place(op, n)' <= 0
<1>1. TodoInv /\ todo # <<>> /\ todo[1].do = "check"
  BY CheckGrows DEF BusState, PinState
<1>2. PICK p : Silent(p, Sends) /\ p # <<>> /\ todo' = p \o Tail(todo)
  BY <1>1, CheckSilent
<1>3. PICK l \in Nat : l = AccessLen(op, n)
  BY LengthsAre, RadioAssumption
<1>4. k \in Int /\ k <= 0 /\ Len(todo) = l + 1 - k
  BY <1>1, <1>3, OtherBefore
<1>5. op' = op
  BY DEF StepCheck, Then
<1>6. PICK t : t = Tail(todo)
  OBVIOUS
<1>7. PICK m \in Nat \ {0} : m = Len(todo)
  BY <1>1, TodoIs
<1>8. t \in Seq(Calls(radio)) /\ Len(t) = m - 1 /\ \A i \in 1 .. m - 1 : t[i] = todo[i + 1]
  BY <1>1, <1>6, <1>7, TodoIs
<1>9. radio = "SX126x" /\ p \in Seq(Calls("SX126x"))
  BY <1>1, <1>2, CheckGrows DEF Silent
<1>10. PICK q \in Nat \ {0} : q = Len(p)
  BY <1>2, <1>9, EmptyIs
<1>11. /\ Len(todo') = q + m - 1
       /\ \A i \in 1 .. q : todo'[i] = p[i]
       /\ \A i \in q + 1 .. q + m - 1 : i - q \in 1 .. m - 1 /\ todo'[i] = t[i - q]
  <2>1. PICK s : s = p \o t
    OBVIOUS
  <2>2. /\ Len(s) = Len(p) + Len(t)
        /\ \A i \in 1 .. Len(p) : s[i] = p[i]
        /\ \A i \in Len(p) + 1 .. Len(p) + Len(t) : i - Len(p) \in 1 .. Len(t) /\ s[i] = t[i - Len(p)]
    <3>1. PICK S : S = Calls("SX126x")
      OBVIOUS
    <3>2. p \in Seq(S) /\ t \in Seq(S)
      BY <1>8, <1>9, <3>1
    <3>3. /\ Len(p \o t) = Len(p) + Len(t)
          /\ \A i \in 1 .. Len(p) : (p \o t)[i] = p[i]
          /\ \A i \in Len(p) + 1 .. Len(p) + Len(t) : i - Len(p) \in 1 .. Len(t) /\ (p \o t)[i] = t[i - Len(p)]
      BY <3>2, Concat
    <3> QED
      BY <2>1, <3>3
  <2>3. q + (m - 1) = q + m - 1
    OBVIOUS
  <2>4. todo' = s
    BY <1>2, <1>6, <2>1
  <2> QED
    BY <1>8, <1>10, <2>2, <2>3, <2>4
<1>12. PICK k2 \in Int : k2 = k - q + 1
  BY <1>4
<1>13. Place(op, n)' = k2
  <2>1. Place(op, n)' = AccessLen(op', n) + 1 - Len(todo')
    BY DEF Place
  <2>2. Place(op, n)' = l + 1 - (q + m - 1) /\ m = l + 1 - k
    BY <1>3, <1>4, <1>5, <1>7, <1>11, <2>1
  <2>3. l + 1 - (q + m - 1) = k - q + 1
    <3>1. l \in Int /\ k \in Int /\ q \in Int /\ m \in Int
      BY <1>4
    <3>2. PlaceFell(l, m, q, k)
      BY <2>2, <3>1 DEF PlaceFell
    <3> QED
      BY <3>2 DEF PlaceFell
  <2> QED
    BY <1>12, <2>2, <2>3
<1>14. ASSUME NEW i \in 1 .. q + m - 1, NEW j, j = k2 + i - 1
       PROVE  IF j <= 0 THEN todo'[i].do = "byte" => todo'[i].arg = "send" ELSE AccessCall(op, n, j, todo'[i])
  <2>1. CASE i <= q
    <3>1. i \in 1 .. q /\ j <= 0
      BY <1>4, <1>12, <1>14, <2>1, SMTT(30)
    <3> QED
      BY <1>2, <1>10, <1>11, <3>1 DEF Silent, Sends
  <2>2. CASE i > q
    <3>1. i \in q + 1 .. q + m - 1
      BY <2>2
    <3>2. todo'[i] = t[i - q] /\ t[i - q] = todo[(i - q) + 1]
      BY <1>8, <1>11, <3>1
    <3>3. PICK g \in 1 .. m : g = (i - q) + 1
      BY <1>11, <3>1
    <3>4. j = k + g - 1 /\ todo'[i] = todo[g]
      BY <1>4, <1>12, <1>14, <3>2, <3>3, SMTT(30)
    <3> QED
      BY <1>7, <3>4 DEF AccessLeft
  <2> QED
    BY <2>1, <2>2
<1> QED
  BY <1>4, <1>5, <1>11, <1>12, <1>13, <1>14 DEF AccessLeft

LEMMA AccessCheck ==
    ASSUME BusState, radio = "SX126x", StepCheck, ChipTyped, FrameInv, NEW n \in 0 .. Size, Accessing(n)
    PROVE  ChipTyped' /\ FrameInv' /\ Accessing(n)'
<1>1. n \in Nat
  BY RadioAssumption
<1>2. PICK k : k = Place(op, n)
  OBVIOUS
<1>3. PICK l \in Nat : l = AccessLen(op, n)
  BY <1>1, LengthsAre
<1>4. Harmless(todo', l) /\ Listened(l)' /\ FrameInv' /\ UNCHANGED <<frame, mem, rx, op, radio>>
  BY <1>3, CheckListened DEF Accessing
<1>5. AccessLeft(op, n)' /\ k \in Int /\ k <= 0 /\ Place(op, n)' \in Int /\ Place(op, n)' <= 0
  BY <1>2, LeftCheck DEF Accessing
<1>6. PICK k2 : k2 = Place(op, n)'
  OBVIOUS
<1>7. ProgressOf(op, n, k2, mem, rx, frame)
  <2>1. ProgressOf(op, n, k, mem, rx, frame)
    BY <1>2 DEF Accessing, Progress
  <2> QED
    BY <1>1, <1>5, <1>6, <2>1, ProgressNone
<1>8. Progress(op, n, Place(op, n))'
  BY <1>4, <1>6, <1>7 DEF Progress
<1>9. AccessLen(op', n) = l /\ IsAccess(op', n)
  BY <1>3, <1>4 DEF Accessing
<1> QED
  BY <1>4, <1>5, <1>8, <1>9 DEF Accessing, ChipTyped

LEMMA AccessNext ==
    ASSUME BusState, radio = "SX126x", ChipTyped, FrameInv, NEW n \in 0 .. Size, Accessing(n), [Next]_vars
    PROVE  NoAccess' \/ (\E m \in 0 .. Size : AccessBegun(m)) \/ (ChipTyped' /\ FrameInv' /\ Accessing(n)')
<1>1. CASE SilentBegun
  BY <1>1, SilentNext
<1>2. CASE Runs
  BY <1>2, AccessRuns
<1>3. CASE StepCheck
  BY <1>3, AccessCheck
<1>4. CASE StepMac
  <2>1. TodoInv /\ AccessLeft(op, n) /\ n \in Nat
    BY RadioAssumption DEF BusState, PinState, Accessing
  <2>2. Len(todo) = 1 /\ todo # <<>> /\ todo[1].do = "mac"
    BY <1>4, MacListened
  <2>3. PICK k : k = Place(op, n)
    OBVIOUS
  <2>4. k \in Int /\ k <= 0 /\ Len(todo) = AccessLen(op, n) + 1 - k
    BY <2>1, <2>2, <2>3, OtherBefore
  <2>5. PICK h \in Nat : h >= 2 /\ AccessLen(op, n) = h + n + 3
    BY <2>1, LengthsAre
  <2> QED
    BY <2>1, <2>2, <2>4, <2>5
<1>5. CASE Elsewhere
  <2>1. UNCHANGED <<todo, radio, mem, frame, rx, op>> /\ (chip' = "listening" => chip = "listening")
    BY <1>5 DEF Elsewhere
  <2>2. ChipTyped' /\ FrameInv'
    BY <2>1 DEF ChipTyped, FrameInv
  <2>3. AccessLeft(op, n)' /\ Place(op, n)' = Place(op, n) /\ IsAccess(op', n) /\ AccessLen(op', n) = AccessLen(op, n)
    BY <2>1 DEF Accessing, AccessLeft, Place
  <2>4. Progress(op, n, Place(op, n))'
    BY <2>1, <2>3 DEF Accessing, Progress
  <2>5. Harmless(todo', AccessLen(op, n)) /\ Listened(AccessLen(op, n))'
    BY <2>1 DEF Accessing, Listened
  <2> QED
    BY <2>1, <2>2, <2>3, <2>4, <2>5 DEF Accessing
<1> QED
  BY <1>1, <1>2, <1>3, <1>4, <1>5, SxSteps

-----------------------------------------------------------------------------
(* The boards without such a memory, and the invariant of all of them.     *)

\* The boards of the SX127x make no calls that send bytes, or raise Nss.
LEMMA NoFrames ==
    ASSUME NEW r, r # "SX126x", NEW s, Linked(r, s), NEW i \in 1 .. Len(s)
    PROVE  s[i].do # "byte" /\ ~InFrame(s[i])
<1>1. PICK c : c = s[i]
  OBVIOUS
<1>2. c \in Calls(r)
  BY <1>1 DEF Linked
<1>3. Good(r, c)
  BY <1>2 DEF Calls
<1>4. c.do # "byte"
  BY <1>3 DEF Good
<1>5. ~NssRises(c)
  BY <1>3 DEF Good, NssRises
<1> QED
  BY <1>1, <1>4, <1>5 DEF InFrame

LEMMA NoFrameLeft ==
    ASSUME NEW r, r # "SX126x", NEW s, Linked(r, s)
    PROVE  Harmless(s, 0) /\ (s # <<>> => s[1].do # "byte" /\ ~InFrame(s[1]))
<1>1. s \in Seq(Calls(r))
  BY DEF Linked
<1>2. PICK m \in Nat : m = Len(s)
  BY <1>1
<1>3. ASSUME NEW i \in 1 .. m - 0 - 1 PROVE s[i + 1].do # "byte"
  <2>1. i + 1 \in 1 .. m
    OBVIOUS
  <2> QED
    BY <1>2, <2>1, NoFrames
<1>4. s # <<>> => 1 \in 1 .. Len(s)
  BY <1>1, EmptyIs
<1> QED
  BY <1>2, <1>3, <1>4, NoFrames DEF Harmless

LEMMA OtherNext ==
    ASSUME BusState, radio # "SX126x", NoAccess, [Next]_vars
    PROVE  NoAccess' /\ mem' = mem
<1>1. TodoInv /\ TodoInv' /\ radio' = radio
  BY BusStateNext, PinStateNext DEF BusState, PinState
<1>2. /\ todo # <<>> => todo[1].do # "byte" /\ ~InFrame(todo[1]) /\ todo[1] = Head(todo)
      /\ Harmless(todo', 0) /\ (todo' # <<>> => todo'[1].do # "byte" /\ ~InFrame(todo'[1]))
  BY <1>1, NoFrameLeft, TodoIs DEF TodoInv
<1>3. frame = <<>> /\ ChipTyped /\ op = NoOp
  BY <1>2 DEF NoAccess, FrameInv
<1>4. UNCHANGED <<mem, frame>> /\ rx' \in {rx, <<>>} /\ op' = NoOp
  <2>1. CASE DriverCalls
    <3>1. ASSUME NEW s, Drive(s) PROVE UNCHANGED <<mem, frame>> /\ rx' = <<>> /\ op' = NoOp
      BY <3>1 DEF Drive, Start
    <3>2. ~Command /\ ~WriteMemory /\ ~ReadMemory
      BY DEF Command, WriteMemory, ReadMemory, Is126x
    <3>3. SetPower => UNCHANGED <<mem, frame, rx>> /\ op' = NoOp
      BY DEF SetPower, chipVars
    <3> QED
      BY <2>1, <3>1, <3>2, <3>3 DEF DriverCalls, Reinit, IoCycle, Ignore, Listen, SetMode, Critical
  <2>2. CASE Step
    <3>1. ~StepByte
      BY <1>2 DEF StepByte, Now
    <3>2. UNCHANGED <<mem, frame, rx, op>>
      BY <2>2, <3>1 DEF Step, StepGpio, StepWait, StepCheck, StepSleep, StepLowPower, StepOpMode, StepStart, StepMac,
         Is126x, chipVars, Then
    <3> QED
      BY <1>3, <3>2
  <2>3. CASE Interrupt \/ LorawanTask \/ Chip \/ UNCHANGED vars
    BY <1>3, <2>3 DEF Interrupt, LorawanTask, Chip, ChipReady, vars, others, chipVars
  <2> QED
    BY <2>1, <2>2, <2>3 DEF Next
<1>5. ChipTyped'
  <2>1. <<>> \in Seq(Value \cup {Status})
    OBVIOUS
  <2> QED
    BY <1>3, <1>4, <2>1 DEF ChipTyped
<1>6. FrameInv' /\ Listened(0)'
  BY <1>2, <1>3, <1>4 DEF FrameInv, Listened
<1> QED
  BY <1>2, <1>4, <1>5, <1>6 DEF NoAccess

\* What the memory's invariant is made of.
LEMMA MemInvIs ==
    MemInv <=> NoAccess \/ (ChipTyped /\ FrameInv /\ op # NoOp /\ \E n \in 0 .. Size : Accessing(n))
  BY DEF MemInv, NoAccess

LEMMA AccessIsOne == ASSUME NEW o, NEW n, IsAccess(o, n) PROVE o # NoOp
<1>1. o.kind \in {"read", "write"}
  BY DEF IsAccess
<1>2. NoOp.kind = "none"
  BY DEF NoOp
<1> QED
  BY <1>1, <1>2

LEMMA MemInit == ASSUME Init PROVE MemInv
<1>1. radio \in Radio /\ TodoInv /\ frame = <<>> /\ rx = <<>> /\ op = NoOp /\ chip = "busy"
  BY TodoInit DEF Init, Sx126xInitial
<1>2. mem \in [Cell -> Value]
  BY DEF Init, Sx126xInitial
<1>3. ChipTyped
  <2>1. <<>> \in Seq(Value \cup {Status}) /\ <<>> \in Seq(Vals)
    OBVIOUS
  <2> QED
    BY <1>1, <1>2, <2>1 DEF ChipTyped
<1>4. FrameInv /\ Listened(0)
  BY <1>1 DEF FrameInv, Listened
<1>5. Harmless(todo, 0)
  <2>1. \A i \in 1 .. Len(todo) : todo[i].do # "byte"
    <3>1. started = {}
      BY DEF Init
    <3>2. todo \in Seq(StartCalls)
      BY <3>1, StartInitially DEF StartInv, Ready
    <3>3. \A c \in StartCalls : c.do # "byte"
      BY DEF StartCalls
    <3> QED
      BY <3>2, <3>3
  <2>2. PICK m \in Nat : m = Len(todo)
    BY <1>1 DEF TodoInv, Linked
  <2>3. \A i \in 1 .. m - 0 - 1 : i + 1 \in 1 .. m
    OBVIOUS
  <2> QED
    BY <2>1, <2>2, <2>3 DEF Harmless
<1> QED
  BY <1>1, <1>3, <1>4, <1>5 DEF MemInv

LEMMA MemNext ==
    ASSUME BusState, MemInv, [Next]_vars
    PROVE  MemInv'
<1>1. CASE radio # "SX126x"
  <2>1. NoAccess
    BY <1>1, MemInvIs DEF Accessing
  <2>2. NoAccess'
    BY <1>1, <2>1, OtherNext
  <2> QED
    BY <2>2 DEF NoAccess, MemInv
<1>2. CASE radio = "SX126x"
  <2>1. ChipTyped /\ FrameInv
    BY DEF MemInv
  <2>2. NoAccess' => MemInv'
    BY DEF NoAccess, MemInv
  <2>3. ASSUME NEW n \in 0 .. Size, ChipTyped', FrameInv', Accessing(n)' PROVE MemInv'
    <3>1. op' # NoOp
      BY <2>3, AccessIsOne DEF Accessing
    <3> QED
      BY <2>3, <3>1 DEF MemInv
  <2>4. ASSUME NEW n \in 0 .. Size, AccessBegun(n) PROVE MemInv'
    BY <1>2, <2>1, <2>3, <2>4, AccessStarts
  <2>5. CASE NoAccess
    BY <1>2, <2>2, <2>4, <2>5, NoAccessNext
  <2>6. ASSUME NEW n \in 0 .. Size, Accessing(n) PROVE MemInv'
    BY <1>2, <2>1, <2>2, <2>3, <2>4, <2>6, AccessNext
  <2> QED
    BY <2>5, <2>6, MemInvIs
<1> QED
  BY <1>1, <1>2

-----------------------------------------------------------------------------
(* The types of the board's variables.                                     *)

ChipFlags ==
    /\ chip \in {"ready", "listening", "busy", "sleep", "reset"}
    /\ spiOn \in BOOLEAN /\ asleep \in BOOLEAN
    /\ started \subseteq {"spi", "eventq", "task", "up"}

LEMMA FlagsInit == ASSUME Init PROVE ChipFlags
  BY DEF Init, Sx126xInitial, ChipFlags

LEMMA FlagsNext ==
    ASSUME radio \in Radio, IrqInv, ChipFlags, [Next]_vars
    PROVE  ChipFlags'
<1>1. CASE Starts
  BY <1>1 DEF Starts, ChipFlags
<1>2. CASE StepGpio
  <2>1. UNCHANGED started /\ (ChipSees \/ UNCHANGED chipVars)
    BY <1>2 DEF StepGpio
  <2>2. CASE UNCHANGED chipVars
    BY <2>1, <2>2 DEF chipVars, ChipFlags
  <2>3. CASE ChipSees
    <3>1. UNCHANGED <<spiOn, asleep>> /\ chip' \in {"reset", "busy", "listening", "sleep", chip}
      BY <2>3 DEF ChipSees
    <3> QED
      BY <2>1, <3>1 DEF ChipFlags
  <2> QED
    BY <2>1, <2>2, <2>3
<1>3. CASE StepSleep
  BY <1>3 DEF StepSleep, Now, ChipFlags
<1>4. CASE StepStart
  <2>1. Head(todo).do \in {"spi", "eventq", "task", "up"}
    BY <1>4 DEF StepStart, Now
  <2> QED
    BY <1>4, <2>1 DEF StepStart, Now, ChipFlags
<1>5. CASE StepByte \/ StepWait \/ StepCheck \/ StepLowPower \/ StepOpMode \/ StepMac
  BY <1>5 DEF StepByte, StepWait, StepCheck, StepLowPower, StepOpMode, StepMac, SpiInOut, chipVars, ChipFlags
<1>6. CASE Meanwhile
  BY <1>6, MeanwhileKeeps DEF ChipFlags
<1> QED
  BY <1>1, <1>2, <1>3, <1>4, <1>5, <1>6, NextIs DEF Others

\* The board's state and its memory's.
MemoryState == BoardState /\ MemInv /\ ChipFlags

LEMMA MemoryStateInit == ASSUME Init PROVE MemoryState
  BY BoardStateInit, MemInit, FlagsInit DEF MemoryState

LEMMA MemoryStateNext == ASSUME MemoryState, [Next]_vars PROVE MemoryState'
  BY BoardStateNext, MemNext, FlagsNext DEF MemoryState, BoardState, BusState, PinState

LEMMA MemoryStateTyped == ASSUME MemoryState PROVE TypeOK
<1>1. PinType /\ IrqType /\ Sx127xTypeOK /\ MemInv /\ ChipFlags
  BY DEF MemoryState, BoardState, BusState, PinState
<1>2. GpioTypeOK
  <2>1. queue \in Seq(Token)
    BY <1>1 DEF IrqType
  <2>2. \A i \in DOMAIN queue : queue[i] \in Token
    BY <2>1
  <2>3. \A t \in Token : t.pin \in Pin /\ t.line \in 0 .. 15
    BY DEF Token
  <2>4. \A i \in DOMAIN queue : queue[i].pin \in Pin /\ queue[i].line \in 0 .. 15
    BY <2>2, <2>3
  <2> QED
    BY <1>1, <2>4 DEF PinType, IrqType, GpioTypeOK, Handlers
<1>3. op = NoOp \/ op.kind \in {"read", "write"}
  BY <1>1 DEF MemInv, Accessing, IsAccess
<1> QED
  BY <1>1, <1>2, <1>3 DEF MemInv, ChipTyped, ChipFlags, TypeOK

(* Every variable of the board has its type, for each of the three boards  *)
(* and whatever is wired: the pins, the handlers, the queue of tokens, the *)
(* chip and its memory, the amplifier.                                     *)
THEOREM TypeCorrect == Spec => []TypeOK
<1>1. Init => MemoryState
  BY MemoryStateInit
<1>2. MemoryState /\ [Next]_vars => MemoryState'
  BY MemoryStateNext
<1>3. MemoryState => TypeOK
  BY MemoryStateTyped
<1> QED
  BY <1>1, <1>2, <1>3, PTL DEF Spec

-----------------------------------------------------------------------------
(* The memory that the driver sees.                                        *)

Over(m, o) == Written!Overwritten(m, o.space, o.at, o.data)

\* A cell is one of those an access is about, or none.
LEMMA CellPlace ==
    ASSUME NEW o, NEW n \in 0 .. Size, IsAccess(o, n), NEW c \in Cell
    PROVE  IF c[1] = o.space /\ c[2] - o.at \in 0 .. n - 1
           THEN c[2] - o.at + 1 \in 1 .. n /\ c = CellOf(o, c[2] - o.at + 1)
           ELSE \A j \in 1 .. n : c # CellOf(o, j)
<1>1. n \in Nat /\ o.at \in Int
  BY AccessCells, RadioAssumption
<1>2. PICK a \in Int : a = o.at
  BY <1>1
<1>3. PICK b \in Int : b = c[2] /\ c = <<c[1], b>>
  BY CellInt
<1>4. CASE c[1] = o.space /\ b - a \in 0 .. n - 1
  <2>1. b - a + 1 \in 1 .. n /\ a + (b - a + 1) - 1 = b
    BY <1>1, <1>4
  <2> QED
    BY <1>2, <1>3, <1>4, <2>1 DEF CellOf
<1>5. CASE ~(c[1] = o.space /\ b - a \in 0 .. n - 1)
  <2>1. ASSUME NEW j \in 1 .. n, c = CellOf(o, j) PROVE FALSE
    <3>1. PICK d : d = <<o.space, a + j - 1>>
      OBVIOUS
    <3>2. d[1] = o.space /\ d[2] = a + j - 1
      BY <3>1
    <3>3. c = d
      BY <1>2, <2>1, <3>1 DEF CellOf
    <3>4. c[1] = o.space /\ b = a + j - 1
      BY <1>3, <3>2, <3>3
    <3>5. b - a \in 0 .. n - 1
      BY <1>1, <3>4
    <3> QED
      BY <1>5, <3>4, <3>5
  <2> QED
    BY <1>2, <1>3, <1>5, <2>1
<1> QED
  BY <1>2, <1>3, <1>4, <1>5

LEMMA DataLen == ASSUME NEW S, NEW n \in Nat, NEW d \in [1 .. n -> S] PROVE Len(d) = n
  OBVIOUS

\* What a write leaves, cell by cell.
IsOver(w, m, o, n) ==
    /\ w \in [Cell -> Value]
    /\ \A c \in Cell : w[c] = IF c[1] = o.space /\ c[2] - o.at \in 0 .. n - 1 THEN o.data[c[2] - o.at + 1] ELSE m[c]

LEMMA SameCells ==
    ASSUME NEW v \in [Cell -> Value], NEW w \in [Cell -> Value], \A c \in Cell : v[c] = w[c]
    PROVE  v = w
  OBVIOUS

LEMMA OverIs ==
    ASSUME NEW o, NEW n \in 0 .. Size, IsAccess(o, n), o.kind = "write", NEW m \in [Cell -> Value]
    PROVE  IsOver(Over(m, o), m, o, n)
<1>1. n \in Nat /\ o.data \in [1 .. n -> Value]
  BY AccessCells, RadioAssumption
<1>2. Len(o.data) = n
  BY <1>1, DataLen
<1>3. Over(m, o) = [c \in Cell |-> IF c[1] = o.space /\ c[2] - o.at \in 0 .. n - 1 THEN o.data[c[2] - o.at + 1] ELSE m[c]]
  BY <1>2 DEF Over, Written!Overwritten
<1>4. ASSUME NEW c \in Cell
      PROVE  (IF c[1] = o.space /\ c[2] - o.at \in 0 .. n - 1 THEN o.data[c[2] - o.at + 1] ELSE m[c]) \in Value
  <2>1. c[1] = o.space /\ c[2] - o.at \in 0 .. n - 1 => c[2] - o.at + 1 \in 1 .. n
    BY CellPlace
  <2> QED
    BY <1>1, <2>1
<1> QED
  BY <1>3, <1>4 DEF IsOver

\* The bytes of a write may come in any number of them before.
LEMMA OverStored ==
    ASSUME NEW o, NEW n \in 0 .. Size, IsAccess(o, n), o.kind = "write", NEW m \in [Cell -> Value], NEW j \in 1 .. n,
           NEW m2, m2 = [m EXCEPT ![CellOf(o, j)] = o.data[j]]
    PROVE  Over(m2, o) = Over(m, o)
<1>1. m2 \in [Cell -> Value]
  BY StoredTyped
<1>2. PICK v : v = Over(m, o)
  OBVIOUS
<1>3. PICK w : w = Over(m2, o)
  OBVIOUS
<1>4. IsOver(v, m, o, n)
  BY <1>2, OverIs
<1>5. IsOver(w, m2, o, n)
  BY <1>1, <1>3, OverIs
<1>6. ASSUME NEW c \in Cell PROVE v[c] = w[c]
  <2>1. CASE c[1] = o.space /\ c[2] - o.at \in 0 .. n - 1
    BY <1>4, <1>5, <2>1 DEF IsOver
  <2>2. CASE ~(c[1] = o.space /\ c[2] - o.at \in 0 .. n - 1)
    <3>1. c # CellOf(o, j)
      BY <2>2, CellPlace
    <3>2. m2[c] = m[c]
      BY <3>1
    <3>3. w[c] = m2[c] /\ v[c] = m[c]
      BY <1>4, <1>5, <2>2 DEF IsOver
    <3> QED
      BY <3>2, <3>3
  <2> QED
    BY <2>1, <2>2
<1> QED
  BY <1>2, <1>3, <1>4, <1>5, <1>6, SameCells, ZenonT(60) DEF IsOver

\* When all of them have come the chip's memory is what the driver sees.
LEMMA OverDone ==
    ASSUME NEW o, NEW n \in 0 .. Size, IsAccess(o, n), o.kind = "write", NEW m \in [Cell -> Value],
           \A j \in 1 .. n : m[CellOf(o, j)] = o.data[j]
    PROVE  Over(m, o) = m
<1>1. PICK v : v = Over(m, o)
  OBVIOUS
<1>2. IsOver(v, m, o, n)
  BY <1>1, OverIs
<1>3. ASSUME NEW c \in Cell PROVE v[c] = m[c]
  <2>1. CASE c[1] = o.space /\ c[2] - o.at \in 0 .. n - 1
    <3>1. PICK j : j = c[2] - o.at + 1
      OBVIOUS
    <3>2. j \in 1 .. n /\ c = CellOf(o, j)
      BY <2>1, <3>1, CellPlace
    <3>3. v[c] = o.data[j]
      BY <1>2, <2>1, <3>1 DEF IsOver
    <3> QED
      BY <3>2, <3>3
  <2>2. CASE ~(c[1] = o.space /\ c[2] - o.at \in 0 .. n - 1)
    BY <1>2, <2>2 DEF IsOver
  <2> QED
    BY <2>1, <2>2
<1> QED
  BY <1>1, <1>2, <1>3, SameCells DEF IsOver

-----------------------------------------------------------------------------
(* The steps of the board are steps of the memory, or none.                *)

\* A step that the driver's memory does not notice.
LEMMA QuietMaps ==
    ASSUME Seen' = Seen, Seen' \in [Cell -> Value], Got' = <<>>
    PROVE  Memory!Next
<1>1. CASE Held'
  BY <1>1 DEF Memory!Next, Memory!Reset, Held
<1>2. CASE Held /\ ~Held'
  BY <1>2 DEF Memory!Next, Memory!Release, Held
<1>3. CASE ~Held /\ ~Held'
  BY <1>3 DEF Memory!Next, Memory!Forget, Held
<1> QED
  BY <1>1, <1>2, <1>3

LEMMA ResetMaps ==
    ASSUME chip' = "reset", Seen' \in [Cell -> Value], Got' = <<>>
    PROVE  Memory!Next
  BY DEF Memory!Next, Memory!Reset, Held

\* Without an access the driver sees the chip's memory.
LEMMA SeenIs ==
    /\ op = NoOp => Seen = mem /\ Got = <<>>
    /\ todo = <<>> => Seen = mem
    /\ op.kind = "write" /\ todo # <<>> => Seen = Over(mem, op)
    /\ op.kind # "write" => Seen = mem
    /\ todo # <<>> \/ op.kind # "read" => Got = <<>>
    /\ todo = <<>> /\ op.kind = "read" => Got = rx
<1>1. NoOp.kind = "none"
  BY DEF NoOp
<1> QED
  BY <1>1 DEF Seen, Got, Over, Idle

LEMMA SeenNext ==
    /\ op' = NoOp => Seen' = mem' /\ Got' = <<>>
    /\ todo' = <<>> => Seen' = mem'
    /\ op'.kind = "write" /\ todo' # <<>> => Seen' = Over(mem', op')
    /\ op'.kind # "write" => Seen' = mem'
    /\ todo' # <<>> \/ op'.kind # "read" => Got' = <<>>
    /\ todo' = <<>> /\ op'.kind = "read" => Got' = rx'
<1>1. NoOp.kind = "none"
  BY DEF NoOp
<1> QED
  BY <1>1 DEF Seen, Got, Over, Idle

LEMMA AccessWithin ==
    ASSUME NEW o, NEW n \in 0 .. Size, IsAccess(o, n), NEW cell, cell = <<o.space, o.at>>
    PROVE  cell \in Cell /\ cell[1] = o.space /\ cell[2] = o.at /\ Memory!Within(cell, n)
<1>1. cell \in Cell /\ n \in Nat
  BY RadioAssumption DEF IsAccess
<1>2. cell[1] = o.space /\ cell[2] = o.at
  OBVIOUS
<1>3. PICK a \in Int : a = o.at
  BY AccessCells
<1>4. ASSUME NEW i \in 0 .. n - 1 PROVE <<cell[1], cell[2] + i>> \in Cell
  <2>1. i + 1 \in 1 .. n /\ a + (i + 1) - 1 = a + i
    BY <1>1
  <2>2. CellOf(o, i + 1) = <<o.space, a + i>>
    BY <1>3, <2>1 DEF CellOf
  <2>3. CellOf(o, i + 1) \in Cell
    BY <2>1, AccessCells
  <2> QED
    BY <1>2, <1>3, <2>2, <2>3
<1> QED
  BY <1>1, <1>2, <1>4 DEF Memory!Within

\* A write counts from its call on; a read has got nothing yet.
LEMMA AccessMaps ==
    ASSUME ChipTyped, Seen = mem, NEW n \in 0 .. Size, AccessBegun(n)
    PROVE  Memory!Next
<1>1. /\ IsAccess(op', n) /\ todo' # <<>> /\ mem' = mem /\ chip' = chip
  BY DEF AccessBegun, Starts, Begins
<1>2. PICK o : o = op'
  OBVIOUS
<1>3. PICK m \in [Cell -> Value] : m = mem
  BY DEF ChipTyped
<1>4. Got' = <<>> /\ Held' = Held
  BY <1>1, SeenNext DEF Held
<1>5. CASE o.kind = "write"
  <2>1. Seen' = Over(m, o)
    BY <1>1, <1>2, <1>3, <1>5, SeenNext
  <2>2. PICK cell : cell = <<o.space, o.at>>
    OBVIOUS
  <2>3. cell \in Cell /\ cell[1] = o.space /\ cell[2] = o.at /\ Memory!Within(cell, n)
    BY <1>1, <1>2, <2>2, AccessWithin
  <2>4. o.data \in [1 .. n -> Value]
    BY <1>1, <1>2, <1>5, AccessCells
  <2>5. Over(m, o) = Memory!Overwritten(m, o.space, o.at, o.data)
    BY DEF Over, Written!Overwritten, Memory!Overwritten
  <2>6. Seen' = Memory!Overwritten(Seen, cell[1], cell[2], o.data)
    BY <1>3, <2>1, <2>3, <2>5
  <2>7. Memory!Write
    BY <1>4, <2>3, <2>4, <2>6 DEF Memory!Write
  <2> QED
    BY <2>7 DEF Memory!Next
<1>6. CASE o.kind # "write"
  <2>1. Seen' = Seen /\ Seen' \in [Cell -> Value]
    BY <1>1, <1>2, <1>3, <1>6, SeenNext
  <2> QED
    BY <1>4, <2>1, QuietMaps
<1> QED
  BY <1>5, <1>6

\* The end of a read.
LEMMA ReadMaps ==
    ASSUME NEW n \in 0 .. Size, IsAccess(op, n), NEW x, NEW S, x \in Seq(S), Len(x) = n,
           \A j \in 1 .. n : x[j] = Seen[CellOf(op, j)], Seen' = Seen, Got' = x, Held' = Held
    PROVE  Memory!Next
<1>1. PICK cell : cell = <<op.space, op.at>>
  OBVIOUS
<1>2. cell \in Cell /\ cell[1] = op.space /\ cell[2] = op.at /\ Memory!Within(cell, n)
  BY <1>1, AccessWithin
<1>3. PICK m : m = Seen
  OBVIOUS
<1>4. x = [i \in 1 .. n |-> m[<<cell[1], cell[2] + i - 1>>]]
  <2>1. \A j \in 1 .. n : x[j] = m[<<cell[1], cell[2] + j - 1>>]
    BY <1>2, <1>3 DEF CellOf
  <2>2. x = [i \in 1 .. n |-> x[i]]
    OBVIOUS
  <2> QED
    BY <2>1, <2>2
<1>5. \E c \in Cell, k \in 0 .. Size : Memory!Within(c, k) /\ Got' = [i \in 1 .. k |-> Seen[<<c[1], c[2] + i - 1>>]]
  <2>1. Got' = [i \in 1 .. n |-> Seen[<<cell[1], cell[2] + i - 1>>]]
    BY <1>3, <1>4
  <2> HIDE <1>4
  <2> QED
    BY <1>2, <2>1, Zenon
<1> QED
  BY <1>5 DEF Memory!Next, Memory!Read

LEMMA SeenTyped == ASSUME MemInv' PROVE Seen' \in [Cell -> Value]
<1>1. mem' \in [Cell -> Value]
  BY DEF MemInv, ChipTyped
<1>2. CASE op'.kind = "write" /\ todo' # <<>>
  <2>1. PICK o : o = op'
    OBVIOUS
  <2>2. PICK m \in [Cell -> Value] : m = mem'
    BY <1>1
  <2>3. Seen' = Over(m, o)
    BY <1>2, <2>1, <2>2, SeenNext
  <2>4. op' # NoOp
    <3>1. NoOp.kind = "none"
      BY DEF NoOp
    <3> QED
      BY <1>2, <3>1
  <2>5. PICK n \in 0 .. Size : IsAccess(o, n)
    BY <2>1, <2>4 DEF MemInv, Accessing
  <2> QED
    BY <1>2, <2>1, <2>3, <2>5, OverIs DEF IsOver
<1>3. CASE op'.kind # "write" \/ todo' = <<>>
  BY <1>1, <1>3, SeenNext
<1> QED
  BY <1>2, <1>3

\* Without an access only a reset changes the memory.
LEMMA NoAccessKeeps ==
    ASSUME BusState, radio = "SX126x", NoAccess, [Next]_vars
    PROVE  mem' = mem \/ chip' = "reset"
<1>1. CASE SilentBegun \/ (\E n \in 0 .. Size : AccessBegun(n)) \/ StepCheck \/ StepMac \/ Elsewhere
  BY <1>1 DEF SilentBegun, AccessBegun, Starts, StepCheck, StepMac, Elsewhere, chipVars
<1>2. CASE Runs
  <2>1. PICK c : c = todo[1]
    OBVIOUS
  <2>2. c.do = "byte" => StepByte
    BY <1>2, <2>1, RunSees
  <2>3. c.do # "byte" => mem' = mem \/ chip' = "reset"
    BY <1>2, <2>1, RunSees
  <2> QED
    BY <1>2, <2>2, <2>3, NoAccessRuns
<1> QED
  BY <1>1, <1>2, SxSteps

LEMMA NoAccessMaps ==
    ASSUME BusState, radio = "SX126x", NoAccess, MemInv', [Next]_vars
    PROVE  Memory!Next
<1>1. Seen = mem /\ Got = <<>> /\ ChipTyped /\ Seen' \in [Cell -> Value]
  BY SeenIs, SeenTyped DEF NoAccess
<1>2. CASE NoAccess'
  <2>1. Seen' = mem' /\ Got' = <<>>
    BY <1>2, SeenNext DEF NoAccess
  <2> QED
    BY <1>1, <2>1, NoAccessKeeps, QuietMaps, ResetMaps
<1>3. ASSUME NEW n \in 0 .. Size, AccessBegun(n) PROVE Memory!Next
  BY <1>1, <1>3, AccessMaps
<1> QED
  BY <1>2, <1>3, NoAccessNext

\* A step of an access other than its last.
LEMMA WithinMaps ==
    ASSUME MemInv', NEW n \in 0 .. Size, IsAccess(op, n), mem \in [Cell -> Value],
           op' = op, todo # <<>>, todo' # <<>>,
           \/ mem' = mem
           \/ op.kind = "write" /\ \E j \in 1 .. n : mem' = [mem EXCEPT ![CellOf(op, j)] = op.data[j]]
           \/ chip' = "reset"
    PROVE  Memory!Next
<1>1. Got' = <<>> /\ Seen' \in [Cell -> Value]
  BY SeenNext, SeenTyped
<1>2. CASE mem' = mem
  <2>1. Seen' = Seen
    BY <1>2, SeenIs, SeenNext
  <2> QED
    BY <1>1, <2>1, QuietMaps
<1>3. CASE op.kind = "write" /\ \E j \in 1 .. n : mem' = [mem EXCEPT ![CellOf(op, j)] = op.data[j]]
  <2>1. PICK j \in 1 .. n : mem' = [mem EXCEPT ![CellOf(op, j)] = op.data[j]]
    BY <1>3
  <2>2. PICK o : o = op
    OBVIOUS
  <2>3. PICK m \in [Cell -> Value] : m = mem
    OBVIOUS
  <2>4. PICK m2 : m2 = mem'
    OBVIOUS
  <2>5. m2 = [m EXCEPT ![CellOf(o, j)] = o.data[j]] /\ IsAccess(o, n) /\ o.kind = "write"
    BY <1>3, <2>1, <2>2, <2>3, <2>4
  <2>6. Over(m2, o) = Over(m, o)
    BY <2>5, OverStored, ZenonT(60)
  <2>7. Seen = Over(m, o)
    BY <1>3, <2>2, <2>3, SeenIs
  <2>8. Seen' = Over(m2, o)
    BY <1>3, <2>2, <2>4, SeenNext
  <2> QED
    BY <1>1, <2>6, <2>7, <2>8, QuietMaps
<1>4. CASE chip' = "reset"
  BY <1>1, <1>4, ResetMaps
<1> QED
  BY <1>2, <1>3, <1>4

\* The wait that ends an access.
LEMMA LastCall ==
    ASSUME BusState, radio = "SX126x", Runs, NEW n \in 0 .. Size, Accessing(n), todo' = <<>>
    PROVE  /\ Place(op, n) = AccessLen(op, n)
           /\ mem' = mem /\ rx' = rx /\ chip' = chip
<1>1. TodoInv /\ todo # <<>> /\ todo' = Tail(todo) /\ n \in Nat
  BY RunsOn, RadioAssumption DEF BusState, PinState
<1>2. PICK m \in Nat \ {0} : m = Len(todo)
  BY <1>1, TodoIs
<1>3. m = 1
  <2>1. Len(todo') = m - 1 /\ Len(todo') = 0
    BY <1>1, <1>2, TodoIs
  <2> QED
    BY <2>1
<1>4. PICK l \in Nat : l = AccessLen(op, n)
  BY <1>1, LengthsAre
<1>5. PICK h \in Nat : h = HeaderLen(op) /\ h >= 2 /\ l = h + n + 3
  BY <1>1, <1>4, LengthsAre
<1>6. PICK k : k = Place(op, n)
  OBVIOUS
<1>7. PICK c : c = todo[1]
  OBVIOUS
<1>8. At(n, k, c)
  BY <1>1, <1>6, <1>7, PlaceIs DEF Accessing
<1>9. k = l
  <2>1. Len(todo) = 1
    BY <1>2, <1>3
  <2>2. Len(todo) = AccessLen(op, n) + 1 - k /\ k \in Int
    BY <1>8 DEF At
  <2>3. 1 = l + 1 - k
    BY <1>4, <2>1, <2>2
  <2> QED
    BY <2>2, <2>3
<1>10. AccessCall(op, n, k, c)
  <2>1. ~(k <= 0)
    BY <1>1, <1>5, <1>9
  <2> QED
    BY <1>8, <2>1 DEF At
<1>11. c.do = "wait"
  BY <1>5, <1>9, <1>10 DEF AccessCall
<1>12. mem' = mem /\ rx' = rx
  BY <1>7, <1>11, RunSees
<1>13. chip' = chip
  <2>1. StepWait
    <3>1. Head(todo) = c
      BY <1>1, <1>7, TodoIs
    <3> QED
      BY <1>11, <3>1 DEF Runs, StepGpio, GpioCall, StepByte, StepSleep, StepOpMode, StepStart, Now
  <2> QED
    BY <2>1 DEF StepWait, chipVars
<1> QED
  BY <1>4, <1>6, <1>9, <1>12, <1>13

LEMMA LastMaps ==
    ASSUME BusState, radio = "SX126x", Runs, ChipTyped, MemInv', NEW n \in 0 .. Size, Accessing(n), todo' = <<>>
    PROVE  Memory!Next
<1>1. /\ Place(op, n) = AccessLen(op, n)
      /\ mem' = mem /\ rx' = rx /\ chip' = chip
  BY LastCall
<1>2. n \in Nat /\ todo # <<>> /\ op' = op
  BY RadioAssumption, RunsOn, RunsKeep DEF BusState, PinState
<1>3. PICK h \in Nat : h = HeaderLen(op) /\ h >= 2 /\ AccessLen(op, n) = h + n + 3
  BY <1>2, LengthsAre
<1>4. PICK k : k = h + n + 3
  OBVIOUS
<1>5. ProgressOf(op, n, k, mem, rx, frame) /\ IsAccess(op, n)
  BY <1>1, <1>3, <1>4 DEF Accessing, Progress
<1>6. Seen' = mem /\ Seen' \in [Cell -> Value]
  BY <1>1, SeenNext, SeenTyped
<1>7. PICK o : o = op
  OBVIOUS
<1>8. PICK m \in [Cell -> Value] : m = mem
  BY DEF ChipTyped
<1>9. CASE op.kind = "write"
  <2>1. \A j \in 1 .. n : h + 1 + j < k
    BY <1>2, <1>3, <1>4
  <2>2. \A j \in 1 .. n : m[CellOf(o, j)] = o.data[j]
    BY <1>3, <1>5, <1>7, <1>8, <1>9, <2>1 DEF ProgressOf
  <2>3. Over(m, o) = m
    BY <1>5, <1>7, <1>9, <2>2, OverDone
  <2>4. Seen = Over(m, o)
    BY <1>2, <1>7, <1>8, <1>9, SeenIs
  <2>5. Got' = <<>>
    BY <1>2, <1>9, SeenNext
  <2> QED
    BY <1>6, <1>8, <2>3, <2>4, <2>5, QuietMaps
<1>10. CASE op.kind = "read"
  <2>1. ~(k <= h + 2) /\ ~(k <= h + n + 2)
    BY <1>2, <1>3, <1>4
  <2>2. Len(rx) = n /\ \A j \in 1 .. Len(rx) : rx[j] = mem[CellOf(op, j)]
    BY <1>3, <1>5, <1>10, <2>1 DEF ProgressOf
  <2>3. Seen = mem /\ Got' = rx /\ Held' = Held
    BY <1>1, <1>2, <1>10, SeenIs, SeenNext DEF Held
  <2>4. PICK x : x = rx
    OBVIOUS
  <2>5. PICK S : S = Value \cup {Status}
    OBVIOUS
  <2>6. x \in Seq(S) /\ Len(x) = n /\ (\A j \in 1 .. n : x[j] = Seen[CellOf(op, j)]) /\ Seen' = Seen /\ Got' = x
    BY <1>6, <2>2, <2>3, <2>4, <2>5 DEF ChipTyped
  <2> QED
    BY <1>5, <2>3, <2>6, ReadMaps
<1> QED
  BY <1>5, <1>9, <1>10 DEF IsAccess

LEMMA InAccessMaps ==
    ASSUME BusState, radio = "SX126x", ChipTyped, FrameInv, MemInv', NEW n \in 0 .. Size, Accessing(n), [Next]_vars
    PROVE  Memory!Next \/ UNCHANGED <<Seen, Got, Held>>
<1>0. IsAccess(op, n) /\ mem \in [Cell -> Value]
  BY DEF Accessing, ChipTyped
<1>1. CASE SilentBegun
  <2>1. Seen = mem /\ Seen' = mem' /\ Got' = <<>> /\ mem' = mem
    BY <1>1, SeenIs, SeenNext DEF SilentBegun, Starts
  <2> QED
    BY <1>0, <2>1, QuietMaps
<1>2. ASSUME NEW i \in 0 .. Size, AccessBegun(i) PROVE Memory!Next
  <2>1. Seen = mem
    BY <1>2, SeenIs DEF AccessBegun, Starts
  <2> QED
    BY <1>2, <2>1, AccessMaps
<1>3. CASE Runs
  <2>1. todo # <<>> /\ op' = op
    BY <1>3, RunsOn, RunsKeep DEF BusState, PinState
  <2>2. CASE todo' = <<>>
    BY <1>3, <2>2, LastMaps
  <2>3. CASE todo' # <<>>
    <3>1. PICK k : k = Place(op, n)
      OBVIOUS
    <3>2. Moved(n, k)
      BY <1>3, <3>1, AccessMoves
    <3> QED
      BY <1>0, <2>1, <2>3, <3>2, WithinMaps DEF Moved
  <2> QED
    BY <2>2, <2>3
<1>4. CASE StepCheck
  <2>1. todo # <<>> /\ todo' # <<>>
    BY <1>4, CheckGrows DEF BusState, PinState
  <2>2. mem' = mem /\ op' = op
    BY <1>4 DEF StepCheck, Then, chipVars
  <2> QED
    BY <1>0, <2>1, <2>2, WithinMaps
<1>5. CASE StepMac
  <2>1. todo # <<>> /\ todo' # <<>>
    BY <1>5, MacGrows DEF BusState, PinState, Begins
  <2>2. mem' = mem /\ op' = op
    BY <1>5 DEF StepMac, Then, chipVars
  <2> QED
    BY <1>0, <2>1, <2>2, WithinMaps
<1>6. CASE Elsewhere
  BY <1>6 DEF Elsewhere, Seen, Got, Held, Idle, Written!Overwritten
<1> QED
  BY <1>1, <1>2, <1>3, <1>4, <1>5, <1>6, SxSteps

LEMMA MemoryInit == ASSUME Init PROVE Memory!Init
<1>1. mem \in [Cell -> Value] /\ op = NoOp /\ chip = "busy"
  BY MemInit DEF MemInv, ChipTyped, Init, Sx126xInitial
<1>2. Seen = mem /\ Got = <<>> /\ Held = FALSE
  BY <1>1, SeenIs DEF Held
<1> QED
  BY <1>1, <1>2 DEF Memory!Init

LEMMA MemoryStep ==
    ASSUME MemoryState, MemoryState', [Next]_vars
    PROVE  [Memory!Next]_<<Seen, Got, Held>>
<1>1. BusState /\ MemInv /\ MemInv'
  BY DEF MemoryState, BoardState
<1>2. CASE radio # "SX126x"
  <2>1. NoAccess
    BY <1>1, <1>2, MemInvIs DEF Accessing
  <2>2. NoAccess' /\ mem' = mem
    BY <1>1, <1>2, <2>1, OtherNext
  <2>3. Seen = mem /\ Seen' = mem' /\ Got' = <<>> /\ Seen' \in [Cell -> Value]
    BY <1>1, <2>1, <2>2, SeenIs, SeenNext, SeenTyped DEF NoAccess
  <2> QED
    BY <2>2, <2>3, QuietMaps
<1>3. CASE radio = "SX126x" /\ NoAccess
  BY <1>1, <1>3, NoAccessMaps
<1>4. ASSUME radio = "SX126x", ChipTyped, FrameInv, NEW n \in 0 .. Size, Accessing(n)
      PROVE  Memory!Next \/ UNCHANGED <<Seen, Got, Held>>
  BY <1>1, <1>4, InAccessMaps
<1> QED
  BY <1>1, <1>2, <1>3, <1>4, MemInvIs

(* The register and buffer functions of sx126x-board.c are a memory, byte  *)
(* by byte and whatever frames, waits, sleeps, wake-ups, interrupts and    *)
(* resets come between, for every set of addresses and values and every    *)
(* size of access: a write changes the cells it names and no others, a     *)
(* read returns what they hold, and only a chip held in reset forgets.     *)
THEOREM MemoryImplemented == Spec => ImplementsMemory
<1>1. Init => MemoryState
  BY MemoryStateInit
<1>2. MemoryState /\ [Next]_vars => MemoryState'
  BY MemoryStateNext
<1>3. Init => Memory!Init
  BY MemoryInit
<1>4. MemoryState /\ MemoryState' /\ [Next]_vars => [Memory!Next]_<<Seen, Got, Held>>
  BY MemoryStep
<1> QED
  BY <1>1, <1>2, <1>3, <1>4, PTL DEF Spec, ImplementsMemory, Memory!Spec
=============================================================================
