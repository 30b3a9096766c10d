----------------------------- MODULE Sx126xBoard -----------------------------
(***************************************************************************)
(* The board of the SX1261 and SX1262 (sx126x-board.c, spi-board.c,        *)
(* delay-board.c), and the chip as its driver sees it.                     *)
(*                                                                         *)
(* The chip takes a frame of bytes between a fall and a rise of Nss; it    *)
(* raises BUSY while it works on one and while it sleeps, and does not     *)
(* hear a frame that starts while BUSY is up: in sleep that frame's fall   *)
(* wakes it.  Registers and data buffer are the chip's memory.             *)
(***************************************************************************)
EXTENDS BoardGpio

CONSTANTS
    RegAddr,  \* addresses of the registers the model follows
    BufAddr,  \* offsets of the data buffer's bytes the model follows
    Value     \* contents of a byte

\* The chip's pins are wired.
ASSUME Sx126xAssumption ==
    /\ \A o \in {"Nss", "Busy", "Reset"} : PinOf[o] # NC
    /\ RegAddr \subseteq 0 .. 65535 /\ BufAddr \subseteq 0 .. 255

Cell == ({"reg"} \X RegAddr) \cup ({"buf"} \X BufAddr)

VARIABLES
    spiOn,  \* SpiInit has named the bus
    chip,   \* "ready", "listening" to a frame, "busy", "sleep" or held in "reset"
    frame,  \* the bytes heard since Nss fell
    mem,    \* [Cell -> Value]
    rx,     \* the bytes of the answer the caller's buffer has
    asleep  \* the driver's OperatingMode is MODE_SLEEP

chipVars == <<spiOn, chip, frame, mem, rx, asleep>>

Sx126xInitial ==
    /\ spiOn = FALSE
    /\ chip = "busy"
    /\ frame = <<>>
    /\ \E v \in Value : mem = [c \in Cell |-> v]
    /\ rx = <<>>
    /\ asleep = TRUE

-----------------------------------------------------------------------------
(* The functions of the board, as the calls they make.                     *)

Do(what)    == Call(what, "", "", 0)
DelayMs(ms) == <<Call("delay", "", "", ms)>>
Byte(b)     == Call("byte", "Nss", "send", b)
Fetch       == Call("byte", "Nss", "receive", 0)

Bytes(buffer) == [i \in DOMAIN buffer |-> Byte(buffer[i])]
Fetches(size) == [i \in 1 .. size |-> Fetch]

SX126xIoInit ==
    <<InitPin("Nss", "PIN_OUTPUT", 1)>>
    \o [i \in 1 .. 4 |-> InitPin(<<"Busy", "DIO1", "DIO2", "DIO3">>[i], "PIN_INPUT", 0)]

SX126xIoIrqInit == GpioSetInterrupt("DIO1", Handler["DIO1"])

SX126xIoDeInit ==
    <<InitPin("Nss", "PIN_ANALOGIC", 1)>>
    \o [i \in 1 .. 4 |-> InitPin(<<"Busy", "DIO1", "DIO2", "DIO3">>[i], "PIN_ANALOGIC", 0)]

SX126xReset ==
    DelayMs(10) \o <<InitPin("Reset", "PIN_OUTPUT", 0)>>
    \o DelayMs(20) \o <<InitPin("Reset", "PIN_ANALOGIC", 0)>> \o DelayMs(10)

SX126xWaitOnBusy == <<Do("wait")>>

Framed(bytes) == <<Write("Nss", 0)>> \o bytes \o <<Write("Nss", 1)>>

\* Mutant: the interrupts stay masked.
SX126xWakeupMasked ==
    BoardDisableIrq("SX126x") \o Framed(Bytes(<<"GET_STATUS", 0>>)) \o SX126xWaitOnBusy

SX126xWakeup ==
    BoardDisableIrq("SX126x") \o Framed(Bytes(<<"GET_STATUS", 0>>))
    \o SX126xWaitOnBusy \o BoardEnableIrq("SX126x")

\* The driver's: it wakes the chip if it has put it to sleep.
SX126xCheckDeviceReady == <<Do("check")>>

\* Mutant: the wait that a sleeping chip never ends.
SX126xWriteCommandWaits(command, buffer) ==
    SX126xCheckDeviceReady \o Framed(Bytes(<<command>> \o buffer)) \o SX126xWaitOnBusy

SX126xWriteCommand(command, buffer) ==
    SX126xCheckDeviceReady \o Framed(Bytes(<<command>> \o buffer))
    \o (IF command # "SET_SLEEP" THEN SX126xWaitOnBusy ELSE <<>>)

SX126xReadCommand(command, size) ==
    SX126xCheckDeviceReady \o Framed(Bytes(<<command, 0>>) \o Fetches(size)) \o SX126xWaitOnBusy

\* The two bytes of an address.
Address(a) == <<a \div 256, a % 256>>

SX126xWriteRegisters(a, buffer) ==
    SX126xCheckDeviceReady \o Framed(Bytes(<<"WRITE_REGISTER">> \o Address(a) \o buffer))
    \o SX126xWaitOnBusy

SX126xWriteRegister(a, value) == SX126xWriteRegisters(a, <<value>>)

\* Mutant: the byte between the address and the answer left out.
SX126xReadRegistersEarly(a, size) ==
    SX126xCheckDeviceReady
    \o Framed(Bytes(<<"READ_REGISTER">> \o Address(a)) \o Fetches(size))
    \o SX126xWaitOnBusy

SX126xReadRegisters(a, size) ==
    SX126xCheckDeviceReady
    \o Framed(Bytes(<<"READ_REGISTER">> \o Address(a) \o <<0>>) \o Fetches(size))
    \o SX126xWaitOnBusy

SX126xReadRegister(a) == SX126xReadRegisters(a, 1)

SX126xWriteBuffer(offset, buffer) ==
    SX126xCheckDeviceReady \o Framed(Bytes(<<"WRITE_BUFFER", offset>> \o buffer)) \o SX126xWaitOnBusy

SX126xReadBuffer(offset, size) ==
    SX126xCheckDeviceReady \o Framed(Bytes(<<"READ_BUFFER", offset, 0>>) \o Fetches(size))
    \o SX126xWaitOnBusy

SX126xAntSwOn  == <<InitPin("Ant", "PIN_OUTPUT", 1)>>
SX126xAntSwOff == <<InitPin("Ant", "PIN_ANALOGIC", 0)>>

\* SX126xSetTxParams is the driver's: a command.
SX126xSetRfTxPower(power) == SX126xWriteCommand("SET_TXPARAMS", <<power, 0>>)

-----------------------------------------------------------------------------
(* The driver's functions, external: those that call the board and no MAC. *)

SX126xSetStandby == SX126xWriteCommand("SET_STANDBY", <<0>>) \o <<Do("awake")>>
SX126xSetSleep   == SX126xAntSwOff \o SX126xWriteCommand("SET_SLEEP", <<0>>) \o <<Do("asleep")>>
SX126xInit       == SX126xReset \o SX126xIoIrqInit \o SX126xWakeup \o SX126xSetStandby

-----------------------------------------------------------------------------
(* What the calls do, and the chip.                                        *)

\* What the pins' inputs read: the chip drives BUSY.
Input == [p \in Pin |-> IF p = PinOf["Busy"] /\ chip # "ready" THEN 1 ELSE 0]

\* The cell that the next byte of a frame is about.
Target(f) ==
    CASE Len(f) >= 3 /\ f[1] = "WRITE_REGISTER" -> <<"reg", 256 * f[2] + f[3] + Len(f) - 3>>
      [] Len(f) >= 4 /\ f[1] = "READ_REGISTER"  -> <<"reg", 256 * f[2] + f[3] + Len(f) - 4>>
      [] Len(f) >= 2 /\ f[1] = "WRITE_BUFFER"   -> <<"buf", f[2] + Len(f) - 2>>
      [] Len(f) >= 3 /\ f[1] = "READ_BUFFER"    -> <<"buf", f[2] + Len(f) - 3>>
      [] OTHER                                  -> <<"none", 0>>

\* What the chip answers when it is not reading its memory.
Status == -1

\* SpiInOut: one byte each way, of which a reading caller keeps the answer.
SpiInOut(dir, b) ==
    LET hears == spiOn /\ chip = "listening"
        cell  == IF hears THEN Target(frame) ELSE <<"none", 0>>
    IN  /\ frame' = IF hears THEN Append(frame, b) ELSE frame
        /\ mem' = IF cell \in Cell /\ frame[1] \in {"WRITE_REGISTER", "WRITE_BUFFER"}
                  THEN [mem EXCEPT ![cell] = b] ELSE mem
        /\ rx' = IF dir = "send" THEN rx
                 ELSE Append(rx, IF cell \in Cell THEN mem[cell] ELSE Status)
        /\ UNCHANGED <<spiOn, chip, asleep>>

\* The chip sees Nss fall and rise, and its reset pin.
ChipSees ==
    LET nss   == PinOf["Nss"]
        falls == level[nss] = 1 /\ level'[nss] = 0
        rises == level[nss] = 0 /\ level'[nss] = 1
        held  == mode'[PinOf["Reset"]] = "out"
    IN  /\ chip' = CASE held -> "reset"
                     [] ~held /\ chip = "reset" -> "busy"
                     [] ~held /\ falls /\ chip = "ready" -> "listening"
                     [] ~held /\ falls /\ chip = "sleep" -> "busy"
                     [] ~held /\ rises /\ chip = "listening" ->
                            IF frame # <<>> /\ frame[1] = "SET_SLEEP" THEN "sleep" ELSE "busy"
                     [] OTHER -> chip
        /\ frame' = IF rises THEN <<>> ELSE frame
        /\ mem' \in IF held THEN [Cell -> Value] ELSE {mem}
        /\ UNCHANGED <<spiOn, rx, asleep>>

\* The chip has done its work, or woken up, and lowers BUSY.
ChipReady ==
    /\ chip = "busy"
    /\ chip' = "ready"
    /\ UNCHANGED <<spiOn, frame, mem, rx, asleep>>
=============================================================================
