----------------------------- MODULE RadioMemory -----------------------------
(***************************************************************************)
(* What the register and buffer functions of sx126x-board.c promise the    *)
(* radio driver: a memory.  A write replaces the bytes at consecutive      *)
(* addresses and no other; a read gets the bytes last written.  Nothing of *)
(* frames, BUSY, sleep or interrupts shows.  Only while the chip is held   *)
(* in reset may its contents change otherwise.                             *)
(***************************************************************************)
EXTENDS Integers, Sequences

CONSTANTS
    Cell,  \* <<space, address>>
    Value, \* contents of a byte
    Size   \* bound: bytes of an access

VARIABLES
    mem, \* [Cell -> Value]
    got, \* the bytes the last read returned
    held \* in reset

TypeOK == mem \in [Cell -> Value] /\ got \in Seq(Value) /\ held \in BOOLEAN

Init == mem \in [Cell -> Value] /\ got = <<>> /\ held = FALSE

Overwritten(m, space, a, data) ==
    [c \in Cell |-> IF c[1] = space /\ c[2] - a \in 0 .. Len(data) - 1 THEN data[c[2] - a + 1] ELSE m[c]]

Within(cell, n) == \A i \in 0 .. n - 1 : <<cell[1], cell[2] + i>> \in Cell

Write ==
    /\ \E cell \in Cell, n \in 0 .. Size : \E data \in [1 .. n -> Value] :
        Within(cell, n) /\ mem' = Overwritten(mem, cell[1], cell[2], data)
    /\ got' = <<>>
    /\ UNCHANGED held

Read ==
    /\ \E cell \in Cell, n \in 0 .. Size :
        Within(cell, n) /\ got' = [i \in 1 .. n |-> mem[<<cell[1], cell[2] + i - 1>>]]
    /\ UNCHANGED <<mem, held>>

\* The caller is done with what it read.
Forget == got' = <<>> /\ UNCHANGED <<mem, held>>

Reset == held' = TRUE /\ mem' \in [Cell -> Value] /\ got' = <<>>

Release == held /\ held' = FALSE /\ got' = <<>> /\ UNCHANGED mem

Next == Write \/ Read \/ Forget \/ Reset \/ Release

Spec == Init /\ [][Next]_<<mem, got, held>>
=============================================================================
