------------------------------- MODULE Words -------------------------------
(***************************************************************************)
(* Machine words: integers of WordBits bits (the code: 64), signed and     *)
(* unsigned, with the arithmetic of int64.                                 *)
(***************************************************************************)
EXTENDS Integers, Sequences, SequencesExt, FiniteSetsExt

CONSTANT WordBits

ASSUME WordAssumption == WordBits \in Nat /\ WordBits % 7 = 1 /\ WordBits % 8 = 0

Modulus == 2^WordBits
Unsigned(x) == x % Modulus
Signed(u) == IF u >= Modulus \div 2 THEN u - Modulus ELSE u

\* int64 arithmetic wraps around.
Wrap(x) == Signed(Unsigned(x))

\* The values of an int64.
SignedWords == -(Modulus \div 2)..(Modulus \div 2 - 1)
====
