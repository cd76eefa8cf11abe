----------------------------- MODULE BoyerMoore -----------------------------
(***************************************************************************)
(* init_delta1 of rklab/bmgrep.c: for each ASCII byte, its distance from  *)
(* the right end of the pattern at its last occurrence, or the pattern's  *)
(* length where it does not occur.                                         *)
(***************************************************************************)
EXTENDS Integers, Sequences
LOCAL INSTANCE SequencesExt

\* Mutant of init_delta1: a byte keeps the distance of its first occurrence.
init_delta1_first(pattern) ==
    LET patlen == Len(pattern)
        set == FoldRight(LAMBDA i, d : [d EXCEPT ![pattern[i]] = patlen - (i - 1) - 1],
                         [i \in 1..patlen |-> i], [c \in 0..127 |-> -1])
    IN  [c \in 0..127 |-> IF set[c] = -1 THEN patlen ELSE set[c]]

\* The loop over the pattern sets delta1[*tmp] = patlen - index - 1 (index
\* 0-based), a later occurrence overwriting an earlier one; then every
\* entry still -1 becomes patlen.
init_delta1(pattern) ==
    LET patlen == Len(pattern)
        set == FoldLeft(LAMBDA d, i : [d EXCEPT ![pattern[i]] = patlen - (i - 1) - 1],
                        [c \in 0..127 |-> -1], [i \in 1..patlen |-> i])
    IN  [c \in 0..127 |-> IF set[c] = -1 THEN patlen ELSE set[c]]
=============================================================================
