------------------------------ MODULE BoardGpio ------------------------------
(***************************************************************************)
(* The pins and their interrupts: gpio-board.c, gpio_struct_init of        *)
(* board-utils.c and the interrupt masks of board.c.                       *)
(*                                                                         *)
(* A function of the board is a sequence of calls, run one at a time by    *)
(* the task that drives the radio: between two of them an edge may post a  *)
(* token, and the LoRaWAN task may run one.  This module gives the calls,  *)
(* what each does, the interrupt and the LoRaWAN task's side of it;        *)
(* RadioBoard composes them.                                               *)
(***************************************************************************)
EXTENDS Integers, Sequences, FiniteSets

CONSTANTS
    PinOf,    \* the BSP: [Obj -> pin], NC where the board has none
    Handler,  \* the radio driver's handlers: [Dio -> handler or NULL]
    NULL,
    MaxTokens \* bound: tokens posted and edges latched at one time

NC    == -1
IOE_0 == 64

Dio == {"DIO0", "DIO1", "DIO2", "DIO3", "DIO4", "DIO5"}
Obj == Dio \cup {"Nss", "Busy", "Reset", "Ant"}

\* The pins the model follows: the board's, and PA_0, where an object that
\* GpioInit has not set points.
Pin == ({0} \cup {PinOf[o] : o \in Obj}) \ {NC}

\* Mutant: the pin itself taken for its line.
LineOfPin(p) == p

\* A line serves the pins of every port with that number.
Line(p) == p % 16

\* gpio_struct_init asserts a port from A to D.  A wired pin has one use, and
\* two of the radio's interrupts may not share a line.
ASSUME PinAssumption ==
    /\ \A o \in Obj : PinOf[o] \in {NC} \cup 0 .. IOE_0 - 1
    /\ \A o, q \in Obj : PinOf[o] # NC /\ PinOf[o] = PinOf[q] => o = q
    /\ \A o, q \in Dio : PinOf[o] # NC /\ PinOf[q] # NC /\ Line(PinOf[o]) = Line(PinOf[q]) => o = q
    /\ MaxTokens \in Nat \ {0}

VARIABLES
    pin,     \* Gpio_t.pin of each object
    mode,    \* what each pin is configured as
    level,   \* the level an output was last given
    GpioIrq, \* the handler of each line
    irqSet,  \* pins whose interrupt is configured
    irqOn,   \* pins whose interrupt is not masked
    latched, \* masked pins that have seen an edge the hardware kept
    queue,   \* tokens on the LoRaWAN event queue: their line, and the pin
    ran      \* history: the handler the LoRaWAN task has just run, and the pin

irqVars  == <<GpioIrq, irqSet, irqOn, latched, queue>>
pinVars  == <<pin, mode, level>>
gpioVars == <<pinVars, irqVars>>

NotRan == [pin |-> NC, handler |-> NULL]

GpioTypeOK ==
    /\ pin \in [Obj -> Pin \cup {NC}]
    /\ mode \in [Pin -> {"reset", "in", "out", "af"}]
    /\ level \in [Pin -> 0 .. 1]
    /\ GpioIrq \in [0 .. 15 -> {Handler[d] : d \in Dio} \cup {NULL}]
    /\ irqSet \in SUBSET Pin /\ irqOn \in SUBSET Pin /\ latched \in SUBSET irqSet
    /\ \A i \in DOMAIN queue : queue[i].pin \in Pin /\ queue[i].line \in 0 .. 15
    /\ ran \in [pin : Pin \cup {NC}, handler : {Handler[d] : d \in Dio} \cup {NULL}]

GpioInitial ==
    /\ pin = [o \in Obj |-> 0]
    /\ mode = [p \in Pin |-> "reset"]
    /\ level = [p \in Pin |-> 0]
    /\ GpioIrq = [l \in 0 .. 15 |-> NULL]
    /\ irqSet = {} /\ irqOn = {} /\ latched = {}
    /\ queue = <<>>
    /\ ran = NotRan

-----------------------------------------------------------------------------
(* The calls a function of the board is made of.                           *)

Call(do, obj, arg, val) == [do |-> do, obj |-> obj, arg |-> arg, val |-> val]

InitPin(o, m, v)  == Call("init", o, m, v)
Write(o, v)       == Call("write", o, "", v)

\* Mutant: the interrupt live before its handler is stored.
GpioSetInterruptLate(o, h) ==
    <<Call("irqInit", o, "", 0), Call("enable", o, "", 0), Call("store", o, h, 0)>>

GpioSetInterrupt(o, h) ==
    <<Call("store", o, h, 0), Call("irqInit", o, "", 0), Call("enable", o, "", 0)>>

GpioRemoveInterrupt(o) == <<Call("release", o, "", 0), Call("clear", o, "", 0)>>

\* The objects board.c masks, by the radio the image is built for.
Masked(radio) ==
    IF radio = "SX126x" THEN <<"Busy", "DIO1", "DIO2", "DIO3">>
                        ELSE <<"DIO0", "DIO1", "DIO2", "DIO3", "DIO4", "DIO5">>

BoardDisableIrq(radio) == [i \in DOMAIN Masked(radio) |-> Call("mask", Masked(radio)[i], "", 0)]
BoardEnableIrq(radio)  == [i \in DOMAIN Masked(radio) |-> Call("enable", Masked(radio)[i], "", 0)]

-----------------------------------------------------------------------------
(* What the calls do.  An analogic pin is initialised as an input.         *)

HalMode(m) ==
    CASE m \in {"PIN_INPUT", "PIN_ANALOGIC"} -> "in"
      [] m = "PIN_OUTPUT"                    -> "out"
      [] m = "PIN_ALTERNATE_FCT"             -> "af"

\* A pin of the IO expander leaves the object as it was: at PA_0.
GpioInit(o, m, v) ==
    LET p == PinOf[o] IN
    /\ pin' = IF p < IOE_0 THEN [pin EXCEPT ![o] = p] ELSE pin
    /\ IF p # NC /\ p < IOE_0
       THEN /\ mode' = [mode EXCEPT ![p] = HalMode(m)]
            /\ level' = IF m = "PIN_OUTPUT" THEN [level EXCEPT ![p] = v] ELSE level
       ELSE UNCHANGED <<mode, level>>
    /\ UNCHANGED irqVars

GpioWrite(o, v) ==
    /\ level' = IF pin[o] # NC THEN [level EXCEPT ![pin[o]] = v] ELSE level
    /\ UNCHANGED <<pin, mode, irqVars>>

\* input: what the pins' inputs read.
GpioRead(o, input) == IF pin[o] # NC THEN input[pin[o]] ELSE 0

IrqStore(o, h) ==
    /\ GpioIrq' = IF pin[o] # NC THEN [GpioIrq EXCEPT ![Line(pin[o])] = h] ELSE GpioIrq
    /\ UNCHANGED <<pinVars, irqSet, irqOn, latched, queue>>

IrqInit(o) ==
    /\ irqSet' = irqSet \cup ({pin[o]} \ {NC})
    /\ UNCHANGED <<pinVars, GpioIrq, irqOn, latched, queue>>

Post(p) == queue' = Append(queue, [line |-> Line(p), pin |-> p])

\* hal_gpio_irq_enable: an edge latched under the mask interrupts now.
IrqEnable(o) ==
    /\ irqOn' = irqOn \cup ({pin[o]} \ {NC})
    /\ latched' = latched \ {pin[o]}
    /\ IF pin[o] \in latched THEN Post(pin[o]) ELSE UNCHANGED queue
    /\ UNCHANGED <<pinVars, GpioIrq, irqSet>>

IrqDisable(o) ==
    /\ irqOn' = irqOn \ {pin[o]}
    /\ UNCHANGED <<pinVars, GpioIrq, irqSet, latched, queue>>

IrqRelease(o) ==
    /\ irqSet' = irqSet \ {pin[o]}
    /\ irqOn' = irqOn \ {pin[o]}
    /\ latched' = latched \ {pin[o]}
    /\ UNCHANGED <<pinVars, GpioIrq, queue>>

IrqClear(o) ==
    /\ GpioIrq' = IF pin[o] # NC THEN [GpioIrq EXCEPT ![Line(pin[o])] = NULL] ELSE GpioIrq
    /\ UNCHANGED <<pinVars, irqSet, irqOn, latched, queue>>

GpioCall(c) ==
    \/ c.do = "init" /\ GpioInit(c.obj, c.arg, c.val)
    \/ c.do = "write" /\ GpioWrite(c.obj, c.val)
    \/ c.do = "store" /\ IrqStore(c.obj, c.arg)
    \/ c.do = "irqInit" /\ IrqInit(c.obj)
    \/ c.do = "enable" /\ IrqEnable(c.obj)
    \/ c.do = "mask" /\ IrqDisable(c.obj)
    \/ c.do = "release" /\ IrqRelease(c.obj)
    \/ c.do = "clear" /\ IrqClear(c.obj)

-----------------------------------------------------------------------------
(* The interrupt and the LoRaWAN task.                                     *)

\* An edge on a configured pin.  post_token runs in the interrupt; its
\* allocation succeeds.  A masked edge is latched, or lost (a stutter).
Edge(d) ==
    LET p == PinOf[d] IN
    /\ p \in irqSet
    /\ Len(queue) + Cardinality(latched) < MaxTokens
    /\ \/ p \in irqOn /\ Post(p) /\ UNCHANGED latched
       \/ p \notin irqOn /\ latched' = latched \cup {p} /\ UNCHANGED queue
    /\ UNCHANGED <<pinVars, GpioIrq, irqSet, irqOn>>

\* wrapper and handler_wrapper: the handler is the one the line has now.
RunToken ==
    /\ queue # <<>>
    /\ queue' = Tail(queue)
    /\ ran' = [pin |-> Head(queue).pin, handler |-> GpioIrq[Head(queue).line]]
    /\ UNCHANGED <<pinVars, GpioIrq, irqSet, irqOn, latched>>
=============================================================================
