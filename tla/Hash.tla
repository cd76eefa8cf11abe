-------------------------------- MODULE Hash --------------------------------
(***************************************************************************)
(* The key hash of threadlab/htable.c: a polynomial rolling hash over the  *)
(* key's chars, base 256, modulo BIG_PRIME, in C int arithmetic.  A key is *)
(* the sequence of its bytes (1..255, the NUL terminator excluded); the    *)
(* code reads them through a plain char, which is signed on the x86-64     *)
(* ABI the labs are built for.                                             *)
(***************************************************************************)
EXTENDS Integers, Sequences
LOCAL INSTANCE SequencesExt

\* htable.h: #define BIG_PRIME 1560007
BIG_PRIME == 1560007

\* C's % on int: truncates toward zero, so the result takes a's sign.
CRem(a, b) == IF a >= 0 THEN a % b ELSE -((-a) % b)

\* The value of a byte read as a (signed) char.
SignedChar(byte) == IF byte >= 128 THEN byte - 256 ELSE byte

\* madd: (a+b) wrapped once when it exceeds BIG_PRIME.
madd(a, b) == IF a + b > BIG_PRIME THEN a + b - BIG_PRIME ELSE a + b

\* mmul: (a*b) % BIG_PRIME with C's remainder.
mmul(a, b) == CRem(a * b, BIG_PRIME)

\* Mutant: the chars folded from the last to the first.
hashcodeReversed(s) ==
    FoldRight(LAMBDA c, p : madd(mmul(p, 256), SignedChar(c)), s, 0)

\* hashcode: p = madd(mmul(p, 256), s[i]) for each char, left to right.
hashcode(s) == FoldLeft(LAMBDA p, c : madd(mmul(p, 256), SignedChar(c)), 0, s)
=============================================================================
