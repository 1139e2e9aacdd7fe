----------------------------- MODULE Arithmetic -----------------------------
(***************************************************************************)
(* The two's complement integers of the virtual machine.  IntMax is the    *)
(* greatest one: 2^31 - 1 in the code, scaled down where TLC enumerates.   *)
(***************************************************************************)
EXTENDS Integers

CONSTANT IntMax

ASSUME IntMaxAssumption == IntMax \in Nat \ {0}

IntMin == -IntMax - 1

Wrap(n) == ((n - IntMin) % (IntMax - IntMin + 1)) + IntMin
InRange(n) == IntMin <= n /\ n <= IntMax

\* C++ division truncates towards zero.
Magnitude(n) == IF n < 0 THEN -n ELSE n
Quotient(a, b) ==
    LET q == Magnitude(a) \div Magnitude(b) IN IF (a < 0) # (b < 0) THEN -q ELSE q
Remainder(a, b) == a - b * Quotient(a, b)
=============================================================================
