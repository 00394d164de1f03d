------------------------------- MODULE Common -------------------------------
(* The comparison macros of quic/common.h.  QUIC_GT(a, b) and its siblings   *)
(* subtract two (mostly 64-bit unsigned) values and look at the sign of the  *)
(* difference truncated to a C int, so values 2^31 or more apart compare the *)
(* wrong way round.  IntMod stands for 2^32: TLC's runs scale it down, the   *)
(* proofs hold for every even value.                                         *)
EXTENDS Integers

CONSTANT IntMod

ASSUME IntModAssumption == IntMod \in Nat /\ IntMod > 1 /\ IntMod % 2 = 0

Half == IntMod \div 2

\* The (int) cast: the representative of x in -Half .. Half - 1.
IntOf(x) ==
    LET r == x % IntMod IN IF r >= Half THEN r - IntMod ELSE r

QUIC_LT(a, b) == IntOf(a - b) < 0
QUIC_GT(a, b) == IntOf(a - b) > 0
QUIC_LE(a, b) == IntOf(a - b) <= 0
QUIC_GE(a, b) == IntOf(a - b) >= 0

QUIC_MIN(a, b) == IF QUIC_GT(a, b) THEN b ELSE a
QUIC_MAX(a, b) == IF QUIC_GT(a, b) THEN a ELSE b
=============================================================================
