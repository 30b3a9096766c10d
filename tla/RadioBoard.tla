------------------------------ MODULE RadioBoard ------------------------------
(***************************************************************************)
(* The board: start-up (lorawan_init of board-utils.c at stage 800 and     *)
(* lorawan_api_private_init at stage 810), the radio's board (SX126x,      *)
(* SX1272 or SX1276), its pins and their interrupts, the chip and the      *)
(* LoRaWAN task that runs the tokens.                                      *)
(*                                                                         *)
(* The radio driver is external: it calls the board's functions in any     *)
(* order, from one task at a time, after the initialisation that           *)
(* LoRaMacInitialization makes.  The call it is in is the sequence of      *)
(* calls still to make; each step makes one.                               *)
(***************************************************************************)
EXTENDS Sx126xBoard, Sx127xBoard

CONSTANTS
    Radio,        \* the boards the image may be built for
    ActiveRegion, \* the regions it is built with
    Power,        \* the powers and the frequencies that are asked for
    Channel,
    Size          \* bound: bytes of an access to the chip's memory

ASSUME RadioAssumption ==
    /\ Radio \subseteq {"SX126x", "SX1272", "SX1276"}
    /\ Power \subseteq -128 .. 127 /\ Channel \subseteq Nat /\ Size \in Nat

VARIABLES
    radio,   \* the board it is built for
    started, \* what start-up has done
    todo,    \* the calls the running function has still to make
    op       \* the access to the chip's memory it is, if any

vars == <<gpioVars, ran, chipVars, radioVars, radio, started, todo, op>>

NoOp == [kind |-> "none", space |-> "", at |-> 0, data |-> <<>>]

Is126x == radio = "SX126x"

-----------------------------------------------------------------------------
(* Start-up.                                                               *)

\* LoRaMacRegion_t.
LoRaMacRegion == <<"AS923", "AU915", "CN470", "CN779", "EU433", "EU868", "KR920", "IN865", "US915", "US915_HYBRID">>

\* The loop stops before US915_HYBRID; 0 is AS923.
lorawan_get_first_active_region ==
    LET found == {i \in 1 .. 9 : LoRaMacRegion[i] \in ActiveRegion}
    IN  LoRaMacRegion[IF found = {} THEN 1 ELSE CHOOSE i \in found : \A j \in found : i <= j]

IoInit(r) ==
    CASE r = "SX126x" -> SX126xIoInit [] r = "SX1272" -> SX1272IoInit [] r = "SX1276" -> SX1276IoInit

\* Mutant: the pins left to the driver.
lorawan_initSpiOnly(r) == <<Do("spi")>>

lorawan_init(r) == <<Do("spi")>> \o IoInit(r)

\* Mutant: the MAC started before its event queue.
lorawan_api_private_initLate == <<Do("mac"), Do("eventq"), Do("task")>>

lorawan_api_private_init == <<Do("eventq"), Do("task"), Do("mac")>>

Init ==
    /\ GpioInitial
    /\ Sx126xInitial
    /\ Sx127xInitial
    /\ radio \in Radio
    /\ started = {}
    /\ todo = lorawan_init(radio) \o lorawan_api_private_init
    /\ op = NoOp

-----------------------------------------------------------------------------
(* The driver's functions, external.                                       *)

SetAntSwLowPowerOf(status) ==
    IF radio = "SX1272" THEN SX1272SetAntSwLowPower(status) ELSE SX1276SetAntSwLowPower(status)

AntSwOf(m) == IF radio = "SX1272" THEN SX1272SetAntSw(m) ELSE SX1276SetAntSw(m)

\* SX1272SetOpMode, SX1276SetOpMode.
SetOpMode(m) ==
    <<Call("lowPower", "", m, 0)>> \o (IF m = "sleep" THEN <<>> ELSE AntSwOf(m)) \o <<Call("opMode", "", m, 0)>>

RadioInit ==
    CASE radio = "SX126x" -> SX126xInit
      [] radio = "SX1272" -> SX1272Reset \o SetOpMode("sleep") \o SX1272IoIrqInit(Handler)
      [] radio = "SX1276" -> SX1276Reset \o SetOpMode("sleep") \o SX1276IoIrqInit(Handler)

IoDeInit ==
    CASE radio = "SX126x" -> SX126xIoDeInit [] radio = "SX1272" -> SX1272IoDeInit [] radio = "SX1276" -> SX1276IoDeInit

\* LoRaMacInitialization refuses a region the image is built without, and
\* then lorawan_api_private_init's assertion stops the program.
LoRaMacInitialization ==
    IF lorawan_get_first_active_region \in ActiveRegion
    THEN RadioInit \o <<Do("up")>> ELSE <<Do("assert")>>

Idle == todo = <<>>

Start(program, o) ==
    /\ Idle
    /\ todo' = program
    /\ op' = o
    /\ rx' = <<>>
    /\ ran' = NotRan
    /\ request' = NoRequest
    /\ UNCHANGED <<gpioVars, spiOn, chip, frame, mem, asleep, RadioIsActive, opMode, paDac, radio, started>>

\* IoInit has run.
IoUp == mode[PinOf["Nss"]] = "out"

Drive(program) == Start(program, NoOp)

Reinit  == Drive(RadioInit)
IoCycle == Drive(IoDeInit \o IoInit(radio))
Ignore  == \E d \in Dio : PinOf[d] \in irqSet /\ Drive(GpioRemoveInterrupt(d))
Listen  == Drive(IF Is126x THEN SX126xIoIrqInit
                 ELSE IF radio = "SX1272" THEN SX1272IoIrqInit(Handler) ELSE SX1276IoIrqInit(Handler))

SetMode  == ~Is126x /\ \E m \in OpMode : Drive(SetOpMode(m))
Critical == ~Is126x /\ Drive(BoardDisableIrq(radio) \o BoardEnableIrq(radio))

\* SetRfTxPower of the SX127x: the driver's accesses to two registers.
SetPower ==
    /\ Idle
    /\ \E power \in Power, channel \in Channel :
        \/ radio = "SX1272" /\ SX1272SetRfTxPower(power, channel)
        \/ radio = "SX1276" /\ SX1276SetRfTxPower(power, channel)
    /\ op' = NoOp
    /\ ran' = NotRan
    /\ UNCHANGED <<gpioVars, chipVars, radio, started, todo>>

Command ==
    /\ Is126x
    /\ \/ Drive(SX126xWriteCommand("SET_RX", <<0>>))
       \/ Drive(SX126xReadCommand("GET_IRQSTATUS", 1))
       \/ Drive(SX126xSetRfTxPower(14))
       \/ Drive(SX126xSetStandby)
       \/ Drive(SX126xSetSleep)

\* An access to n cells of a space from an address on.
Access(kind, space, at, data) == [kind |-> kind, space |-> space, at |-> at, data |-> data]

WriteMemory ==
    /\ Is126x
    /\ \E cell \in Cell, n \in 0 .. Size : \E data \in [1 .. n -> Value] :
        LET a == cell[2]
            o == Access("write", cell[1], a, data)
        IN  /\ \A i \in 0 .. n - 1 : <<cell[1], a + i>> \in Cell
            /\ \/ cell[1] = "reg" /\ n # 1 /\ Start(SX126xWriteRegisters(a, data), o)
               \/ cell[1] = "reg" /\ n = 1 /\ Start(SX126xWriteRegister(a, data[1]), o)
               \/ cell[1] = "buf" /\ Start(SX126xWriteBuffer(a, data), o)

ReadMemory ==
    /\ Is126x
    /\ \E cell \in Cell, n \in 0 .. Size :
        LET a == cell[2]
            o == Access("read", cell[1], a, <<>>)
        IN  /\ \A i \in 0 .. n - 1 : <<cell[1], a + i>> \in Cell
            /\ \/ cell[1] = "reg" /\ n # 1 /\ Start(SX126xReadRegisters(a, n), o)
               \/ cell[1] = "reg" /\ n = 1 /\ Start(SX126xReadRegister(a), o)
               \/ cell[1] = "buf" /\ Start(SX126xReadBuffer(a, n), o)

-----------------------------------------------------------------------------
(* The steps: one call of the running function at a time.                  *)

Now(do) == todo # <<>> /\ Head(todo).do = do

Then(program) ==
    /\ todo' = program \o Tail(todo)
    /\ ran' = NotRan
    /\ UNCHANGED <<radio, op>>

StepGpio ==
    /\ todo # <<>>
    /\ GpioCall(Head(todo))
    /\ IF Is126x THEN ChipSees ELSE UNCHANGED chipVars
    /\ Then(<<>>)
    /\ UNCHANGED <<radioVars, started>>

StepByte ==
    /\ Now("byte")
    /\ SpiInOut(Head(todo).arg, Head(todo).val)
    /\ Then(<<>>)
    /\ UNCHANGED <<gpioVars, radioVars, started>>

\* Mutant: the wait left out.
WaitOnBusyEndsEarly == TRUE

WaitOnBusyEnds == GpioRead("Busy", Input) = 0

StepWait ==
    /\ Now("delay") \/ (Now("wait") /\ WaitOnBusyEnds)
    /\ Then(<<>>)
    /\ UNCHANGED <<gpioVars, chipVars, radioVars, started>>

\* The driver's test of the mode it has put the chip in.
StepCheck ==
    /\ Now("check")
    /\ Then((IF asleep THEN SX126xWakeup \o SX126xAntSwOn ELSE <<>>) \o SX126xWaitOnBusy)
    /\ UNCHANGED <<gpioVars, chipVars, radioVars, started>>

StepSleep ==
    /\ Now("asleep") \/ Now("awake")
    /\ asleep' = Now("asleep")
    /\ Then(<<>>)
    /\ UNCHANGED <<gpioVars, spiOn, chip, frame, mem, rx, radioVars, started>>

\* Mutant: the flag left as it was.
SetFlagForgotten(status) == UNCHANGED RadioIsActive

SetFlag(status) == RadioIsActive' = status

StepLowPower ==
    /\ Now("lowPower")
    /\ SetFlag(Head(todo).arg = "sleep")
    /\ Then(SetAntSwLowPowerOf(Head(todo).arg = "sleep"))
    /\ UNCHANGED <<gpioVars, chipVars, opMode, paDac, request, started>>

StepOpMode ==
    /\ Now("opMode")
    /\ opMode' = Head(todo).arg
    /\ Then(<<>>)
    /\ UNCHANGED <<gpioVars, chipVars, RadioIsActive, paDac, request, started>>

\* SpiInit, os_eventq_init, os_task_init and the end of the MAC's start.
StepStart ==
    /\ Now("spi") \/ Now("eventq") \/ Now("task") \/ Now("up")
    /\ started' = started \cup {Head(todo).do}
    /\ spiOn' = (spiOn \/ Now("spi"))
    /\ queue' = IF Now("eventq") THEN <<>> ELSE queue
    /\ Then(<<>>)
    /\ UNCHANGED <<pinVars, GpioIrq, irqSet, irqOn, latched, chip, frame, mem, rx, asleep, radioVars>>

StepMac ==
    /\ Now("mac")
    /\ Then(LoRaMacInitialization)
    /\ UNCHANGED <<gpioVars, chipVars, radioVars, started>>

Step ==
    \/ StepGpio \/ StepByte \/ StepWait \/ StepCheck \/ StepSleep
    \/ StepLowPower \/ StepOpMode \/ StepStart \/ StepMac

DriverCalls ==
    \/ Reinit \/ IoCycle \/ Ignore \/ Listen \/ SetMode \/ SetPower \/ Critical
    \/ Command \/ WriteMemory \/ ReadMemory

others == <<radioVars, radio, started, todo, op>>

Interrupt == (\E d \in Dio : Edge(d)) /\ ran' = NotRan /\ UNCHANGED <<chipVars, others>>

LorawanTask == "task" \in started /\ RunToken /\ UNCHANGED <<chipVars, others>>

Chip == ChipReady /\ ran' = NotRan /\ UNCHANGED <<gpioVars, others>>

Next == DriverCalls \/ Step \/ Interrupt \/ LorawanTask \/ Chip

Spec == Init /\ [][Next]_vars

\* The tasks get the processor, and the chip ends what it is doing.
FairSpec == Spec /\ WF_vars(Step) /\ WF_vars(LorawanTask) /\ WF_vars(Chip)

-----------------------------------------------------------------------------
(* The variables have their types.                                         *)
TypeOK ==
    /\ GpioTypeOK
    /\ Sx127xTypeOK
    /\ chip \in {"ready", "listening", "busy", "sleep", "reset"}
    /\ mem \in [Cell -> Value]
    /\ spiOn \in BOOLEAN /\ asleep \in BOOLEAN
    /\ started \subseteq {"spi", "eventq", "task", "up"}
    /\ (op = NoOp \/ op.kind \in {"read", "write"})

(* A configured interrupt has its own pin's handler in its line, so that a *)
(* token, whenever it is run, runs the handler of the pin that raised it;  *)
(* after GpioRemoveInterrupt a token still queued runs nothing.            *)
HandlersMatchPins ==
    \A d \in Dio : PinOf[d] # NC =>
        LET h == GpioIrq[Line(PinOf[d])]
        IN  IF PinOf[d] \in irqSet THEN h = Handler[d] ELSE Idle => h = NULL

(* Tokens are only posted to an event queue that os_eventq_init has set up *)
(* and that the LoRaWAN task runs.                                         *)
QueueReady == queue # <<>> => {"eventq", "task"} \subseteq started

(* A level is written, or an interrupt masked or unmasked, only through an *)
(* object GpioInit has set to the board's pin (an object it has not is     *)
(* PA_0), and a level only on an output.                                   *)
WritesReachBoard ==
    todo # <<>> /\ Head(todo).do \in {"write", "mask", "enable"} =>
        LET p == PinOf[Head(todo).obj]
        IN  /\ pin[Head(todo).obj] = p
            /\ Head(todo).do = "write" /\ p # NC => mode[p] = "out"

Waking == \E i \in DOMAIN todo : todo[i].do = "enable" /\ todo[i].obj = "Busy"

(* Bytes go out on a bus SpiInit has named and in a frame; and a frame     *)
(* starts when the chip hears it, the wake-up's apart: never while BUSY is *)
(* up, never to a chip asleep, whatever wake-ups and resets came before.   *)
CommandToReadyChip ==
    Is126x =>
        /\ Now("byte") => spiOn /\ IoUp /\ level[PinOf["Nss"]] = 0
        /\ IoUp /\ level[PinOf["Nss"]] = 0 /\ ~Waking => chip = "listening"

(* Between calls the antenna switch follows the radio: on the SX127x the   *)
(* transmitter's side is selected exactly while transmitting, through an   *)
(* output; on the SX126x it is powered whenever the radio is awake.        *)
SwitchFollowsMode ==
    Idle /\ PinOf["Ant"] # NC =>
        LET ant == PinOf["Ant"]
            high == mode[ant] = "out" /\ level[ant] = 1
        IN  IF Is126x THEN ~asleep => high
            ELSE /\ high <=> opMode = "transmitter"
                 /\ opMode # "sleep" => mode[ant] = "out"

(* SetRfTxPower leaves the amplifier at the reachable power nearest to the *)
(* one asked for, whatever requests came before: the +20 dBm setting that  *)
(* one of them left in PADAC shifts the scale of no later one.  On the RFO *)
(* of the SX1276 it is nearest to 1 dB more than asked for: the code has   *)
(* raised MaxPower, and keeps the SX1272's power + 1 (sx1276-board.c:206). *)
PowerFollowsRequest ==
    request # NoRequest =>
        LET over == IF radio = "SX1276" /\ request.select = "RFO" THEN 1 ELSE 0
        IN  \E p \in Nearest(request.power + over, Reachable(radio, request.select)) :
                Emitted(radio, request, paDac) = 10 * p

(* The assertion at the end of lorawan_api_private_init holds: the build's *)
(* check of the regions (utilities.c) leaves one that start-up finds.      *)
StartSucceeds == ~Now("assert")

Held == chip = "reset"

Written == INSTANCE RadioMemory WITH got <- rx, held <- Held

\* The memory the driver sees: a write counts from its call on.
Seen == IF op.kind = "write" /\ ~Idle THEN Written!Overwritten(mem, op.space, op.at, op.data) ELSE mem

\* What it has read: until it makes its next call.
Got == IF op.kind = "read" /\ Idle THEN rx ELSE <<>>

Memory == INSTANCE RadioMemory WITH mem <- Seen, got <- Got, held <- Held

(* Byte by byte, through frames, waits, sleep, wake-ups and resets, the    *)
(* register and buffer functions implement a memory.                       *)
ImplementsMemory == Memory!Spec

(* Every function of the board returns: no wait on BUSY is for a chip that *)
(* sleeps.                                                                 *)
CallReturns == ~Idle ~> Idle

(* An edge latched while the wake-up has the interrupts masked is not      *)
(* forgotten: its pin's handler is run, unless the interrupt is removed.   *)
LatchedServed ==
    \A d \in {o \in Dio : PinOf[o] # NC} : PinOf[d] \in latched ~>
        (ran = [pin |-> PinOf[d], handler |-> Handler[d]] \/ PinOf[d] \notin irqSet)
=============================================================================
