---------------------------- MODULE MCRadioBoard ----------------------------
(***************************************************************************)
(* An instance of RadioBoard for TLC.  The antenna switch, the reset and   *)
(* two or three of the radio's interrupt pins are wired, on four ports;    *)
(* the last handler is NULL, as an SX127x driver leaves DIO5's.            *)
(***************************************************************************)
EXTENDS RadioBoard, BoardUtilities

Board ==
    [o \in Obj |-> CASE o = "Nss" -> 4 [] o = "Busy" -> 21 [] o = "Reset" -> 38 [] o = "Ant" -> 55
                     [] o = "DIO1" -> 16 [] o = "DIO5" -> 35 [] OTHER -> NC]

Handlers == [d \in Dio |-> IF d = "DIO5" THEN NULL ELSE d]

\* Below, at and between the ends of the two amplifiers' scales, and beyond.
Powers == {-128, 2, 14, 17, 18, 127}
Channels == {RF_MID_BAND_THRESH, RF_MID_BAND_THRESH + 1}

\* The functions of utilities.c, on integers of four bits.
ASSUME UtilitiesAreRight == RandrInRange /\ MemcpyrReverses /\ RoundingIsRight

Radios == {"SX126x", "SX1272", "SX1276"}
=============================================================================
