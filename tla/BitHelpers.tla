----------------------------- MODULE BitHelpers -----------------------------
(***************************************************************************)
(* The bit helpers of clab/mini/part6.c as operators.  A 32-bit unsigned  *)
(* int (or the bits of a float) is a function from bit positions 0..31,   *)
(* 0 the least significant, to {0, 1}; the shifts move bits and drop     *)
(* those shifted out.  The build is little-endian (x86), so the byte at   *)
(* the address of an unsigned int is its low byte.                        *)
(***************************************************************************)
EXTENDS Integers, Sequences, Bitwise

Pos == 0..31

\* The word whose 1-bits are the positions in S.
Word(S) == [k \in Pos |-> IF k \in S THEN 1 ELSE 0]

ShiftLeft(w, n)  == [k \in Pos |-> IF k >= n THEN w[k - n] ELSE 0]
ShiftRight(w, n) == [k \in Pos |-> IF k + n <= 31 THEN w[k + n] ELSE 0]
BitAnd(x, y)     == [k \in Pos |-> x[k] * y[k]]

\* *(unsigned char *)ret: the low byte, as a number.
LowByte(w) == LET RECURSIVE Val(_)
                  Val(k) == IF k > 7 THEN 0 ELSE w[k] + 2 * Val(k + 1)
              IN  Val(0)

\* Mutant of get_exponent_field: the sign bit is not shifted out first.
get_exponent_field_keep_sign(w) == LowByte(ShiftRight(w, 24))

(* *ret = *ret << 1; *ret = *ret >> 24; return the low byte.               *)
get_exponent_field(w) == LowByte(ShiftRight(ShiftLeft(w, 1), 24))

(* 0xffffffff >> b.  A shift by b >= 32 is undefined in C; the x86 shr     *)
(* instruction uses b mod 32, and a compiler that folds the constant may   *)
(* give 0: the set of values the build can produce.                        *)
ShiftedMask(b) == IF b < 32 THEN {ShiftRight(Word(Pos), b)}
                  ELSE {ShiftRight(Word(Pos), b % 32), Word({})}

\* Mutant of clear_msb: one bit too many cleared.
clear_msb_one_more(number, b) ==
    IF b = 0 THEN {number} ELSE {BitAnd(number, c) : c \in ShiftedMask(b + 1)}

(* clear_msb: the values it can return, number & clear.                    *)
clear_msb(number, b) ==
    IF b = 0 THEN {number} ELSE {BitAnd(number, c) : c \in ShiftedMask(b)}

\* Mutant of bit_at_index: bits counted from the right of each byte.
bit_at_index_lsb_first(array, i) ==
    IF (array[i \div 8 + 1] & 2^(i % 8)) # 0 THEN 1 ELSE 0

(* bit_at_index on bytes: byte i / 8, tested with 0x80 >> (i % 8).  The    *)
(* assert i < array_size * 8 is the caller's obligation.                   *)
bit_at_index(array, i) ==
    LET bit_position == i % 8
        bit_mask == IF bit_position > 0 THEN shiftR(128, bit_position) ELSE 128
    IN  IF (array[i \div 8 + 1] & bit_mask) # 0 THEN 1 ELSE 0
=============================================================================
