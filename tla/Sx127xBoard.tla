----------------------------- MODULE Sx127xBoard -----------------------------
(***************************************************************************)
(* The boards of the SX1272 and SX1276 (sx1272-board.c, sx1276-board.c):   *)
(* their pins, the antenna switch, and the power amplifier's registers.    *)
(* The two files differ in the level of the reset, in the antenna switch   *)
(* when the radio sleeps, in the choice of the amplifier and in MaxPower,  *)
(* which only the SX1276's sets.                                           *)
(***************************************************************************)
EXTENDS BoardGpio

VARIABLES
    RadioIsActive, \* the flag of SetAntSwLowPower, true in low power
    opMode,        \* the mode the driver has put the radio in
    paDac,         \* the +20 dBm field of PADAC, which SetRfTxPower may keep
    request        \* history: the power the running call has asked for

radioVars == <<RadioIsActive, opMode, paDac, request>>

\* Of the default case of SetAntSw, two modes stand for all.
OpMode == {"sleep", "standby", "transmitter", "receiver"}

PaDac20dBm == 7
PaDacUsual == 4

NoRequest == [select |-> "none", power |-> 0, max |-> 0, output |-> 0]

Sx127xInitial ==
    /\ RadioIsActive = FALSE
    /\ opMode = "standby"
    /\ paDac = PaDacUsual
    /\ request = NoRequest

Sx127xTypeOK ==
    /\ RadioIsActive \in BOOLEAN
    /\ opMode \in OpMode
    /\ paDac \in {PaDacUsual, PaDac20dBm}
    /\ request \in [select : {"none", "RFO", "PABOOST"}, power : -128 .. 127, max : 0 .. 7, output : 0 .. 15]

Dios == <<"DIO0", "DIO1", "DIO2", "DIO3", "DIO4", "DIO5">>

-----------------------------------------------------------------------------
(* The functions of the boards, as the calls they make.  IoDeInit makes    *)
(* those of IoInit: they differ in the pull only.                          *)

IoInit127x == <<InitPin("Nss", "PIN_OUTPUT", 1)>> \o [i \in 1 .. 6 |-> InitPin(Dios[i], "PIN_INPUT", 0)]

IoIrqInit127x(irqHandlers) ==
    LET Set(o) == GpioSetInterrupt(o, irqHandlers[o])
    IN  Set("DIO0") \o Set("DIO1") \o Set("DIO2") \o Set("DIO3") \o Set("DIO4") \o Set("DIO5")

Reset127x(held) ==
    <<InitPin("Reset", "PIN_OUTPUT", held), Call("delay", "", "", 1),
      InitPin("Reset", "PIN_INPUT", 1), Call("delay", "", "", 6)>>

SX1272IoInit == IoInit127x
SX1276IoInit == IoInit127x
SX1272IoDeInit == IoInit127x
SX1276IoDeInit == IoInit127x
SX1272IoIrqInit(irqHandlers) == IoIrqInit127x(irqHandlers)
SX1276IoIrqInit(irqHandlers) == IoIrqInit127x(irqHandlers)
SX1272Reset == Reset127x(1)
SX1276Reset == Reset127x(0)

SX1272AntSwInit   == <<InitPin("Ant", "PIN_OUTPUT", 0)>>
SX1276AntSwInit   == <<InitPin("Ant", "PIN_OUTPUT", 0)>>
SX1272AntSwDeInit == <<InitPin("Ant", "PIN_ANALOGIC", 0)>>
SX1276AntSwDeInit == <<InitPin("Ant", "PIN_OUTPUT", 0)>>

\* The switch is only touched when status is news.  (The boards have no
\* TCXO.)
SetAntSwLowPower(status, init, deInit) ==
    IF RadioIsActive = status THEN <<>> ELSE IF status THEN deInit ELSE init

SX1272SetAntSwLowPower(status) == SetAntSwLowPower(status, SX1272AntSwInit, SX1272AntSwDeInit)
SX1276SetAntSwLowPower(status) == SetAntSwLowPower(status, SX1276AntSwInit, SX1276AntSwDeInit)

SetAntSw(mode_) == <<Write("Ant", IF mode_ = "transmitter" THEN 1 ELSE 0)>>

SX1272SetAntSw(mode_) == SetAntSw(mode_)
SX1276SetAntSw(mode_) == SetAntSw(mode_)

-----------------------------------------------------------------------------
(* The power amplifier.  Of PACONFIG the model has the output selected,    *)
(* MaxPower and the output power's four bits, all written by every request *)
(* (the SX1272 has no MaxPower); of PADAC the three bits of the +20 dBm    *)
(* setting.                                                                *)

RF_MID_BAND_THRESH == 525000000

SX1272GetPaSelect(channel) == "RFO"
SX1276GetPaSelect(channel) == IF channel > RF_MID_BAND_THRESH THEN "PABOOST" ELSE "RFO"

Clamp(power, low, high) == IF power < low THEN low ELSE IF power > high THEN high ELSE power

\* Mutant: the +20 dBm setting of an earlier request kept.
PaDacKept(select, power, dac) == IF select = "PABOOST" /\ power > 17 THEN PaDac20dBm ELSE dac

\* PADAC is left as it was read when the output is RFO.
PaDacFor(select, power, dac) ==
    IF select = "PABOOST" THEN (IF power > 17 THEN PaDac20dBm ELSE PaDacUsual) ELSE dac

\* The field of four bits that asks for power.
OutputPower(select, power, dac) ==
    (IF select = "PABOOST"
     THEN IF dac = PaDac20dBm THEN Clamp(power, 5, 20) - 5 ELSE Clamp(power, 2, 17) - 2
     ELSE Clamp(power, -1, 14) + 1) % 16

SetRfTxPower(power, select, max) ==
    /\ paDac' = PaDacFor(select, power, paDac)
    /\ request' = [select |-> select, power |-> power, max |-> max,
                   output |-> OutputPower(select, power, paDac')]
    /\ UNCHANGED <<RadioIsActive, opMode>>

SX1272SetRfTxPower(power, channel) == SetRfTxPower(power, SX1272GetPaSelect(channel), 0)
SX1276SetRfTxPower(power, channel) == SetRfTxPower(power, SX1276GetPaSelect(channel), 7)

\* The power, in tenths of a dBm, that a chip emits: on PA_BOOST from 2 dBm,
\* or from 5 dBm with the +20 dBm setting; on the SX1272's RFO from -1 dBm; on
\* the SX1276's up to Pmax, 10.8 dBm and 0.6 dBm for each step of MaxPower.
Emitted(board, r, dac) ==
    CASE r.select = "PABOOST" -> 10 * (r.output + (IF dac = PaDac20dBm THEN 5 ELSE 2))
      [] r.select = "RFO" /\ board = "SX1272" -> 10 * (r.output - 1)
      [] r.select = "RFO" /\ board = "SX1276" -> 108 + 6 * r.max - 10 * (15 - r.output)

\* The powers in dBm that some request reaches.
Reachable(board, select) ==
    IF select = "PABOOST" THEN 2 .. 20 ELSE IF board = "SX1272" THEN -1 .. 14 ELSE 0 .. 15

Distance(p, q) == IF p < q THEN q - p ELSE p - q

\* The power in scale that is nearest to the one given.
Nearest(power, scale) == {p \in scale : \A q \in scale : Distance(p, power) <= Distance(q, power)}
=============================================================================
