----------------------------- MODULE MachineInt -----------------------------
(* The values of the C++ type int, of a width that small instances reduce. *)
EXTENDS Integers

CONSTANT IntRange  \* number of values of an int (2^32 in the program)

\* What an int holds after a conversion from a wider integer.
IntOf(n) == ((n + IntRange \div 2) % IntRange) - IntRange \div 2
=============================================================================
