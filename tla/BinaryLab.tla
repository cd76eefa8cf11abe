----------------------------- MODULE BinaryLab ------------------------------
(***************************************************************************)
(* The reverse-engineering exercises of binarylab/ex1.c .. ex5.c as       *)
(* operators.  An int of ex1 is a 32-bit word of BitHelpers (two's        *)
(* complement: the build wraps a signed add, as the x86 add instruction   *)
(* does).  A char array is a sequence of bytes, index 1 being ptr[0]; a   *)
(* linked list of struct node is the sequence of its values, <<>> being   *)
(* the NULL head.                                                          *)
(***************************************************************************)
EXTENDS Integers, Sequences, BitHelpers

(* The 32-bit add of b += a: each bit is the sum of the two bits and the   *)
(* carry out of the bit below, the carry out of bit 31 is dropped.         *)
Add(x, y) ==
    LET carry[k \in 0..31] == IF k = 0 THEN 0
                             ELSE (x[k - 1] + y[k - 1] + carry[k - 1]) \div 2
    IN  [k \in Pos |-> (x[k] + y[k] + carry[k]) % 2]

\* ex1: b += a; return c == b.
ex1(a, b, c) == IF c = Add(b, a) THEN 1 ELSE 0

\* ex2's while loop: count the 'a' (97) bytes before the terminating 0.
RECURSIVE Ex2Loop(_, _, _)
Ex2Loop(ptr, tmp, count) ==
    IF ptr[tmp] = 0 THEN count
    ELSE Ex2Loop(ptr, tmp + 1, IF ptr[tmp] = 97 THEN count + 1 ELSE count)

ex2(ptr) == Ex2Loop(ptr, 1, 0)

\* Mutant of ex3's loop body: rs[index] = rd[index] without the temporary.
ex3_step_no_temp(mem, i, j) == [mem EXCEPT ![i] = mem[j]]

(* One iteration of ex3's loop on one memory: tmp = rd[index];             *)
(* rd[index] = rs[index]; rs[index] = tmp, in that order, so that rd and   *)
(* rs may point into the same array.                                       *)
ex3_step(mem, i, j) == [[mem EXCEPT ![i] = mem[j]] EXCEPT ![j] = mem[i]]

\* ex3's while (index < b) loop; rd and rs are the indices of rd[0], rs[0].
RECURSIVE Ex3Loop(_, _, _, _, _)
Ex3Loop(mem, rd, rs, b, index) ==
    IF index < b THEN Ex3Loop(ex3_step(mem, rd + index, rs + index), rd, rs, b, index + 1)
    ELSE mem

ex3(mem, rd, rs, b) == Ex3Loop(mem, rd, rs, b, 0)

\* ex4: the doubly recursive Fibonacci; rd < 2 (negatives included) is returned.
RECURSIVE ex4(_)
ex4(rd) == IF rd < 2 THEN rd ELSE ex4(rd - 2) + ex4(rd - 1)

\* Mutant of ex5's check: equal neighbours are taken as out of order.
OutOfOrderStrict(l, temp) == l[temp + 1] <= l[temp]

\* ex5's check: temp->next->value < temp->value.
OutOfOrder(l, temp) == l[temp + 1] < l[temp]

\* ex5's while (temp->next != NULL) loop over the list from node temp.
RECURSIVE Ex5Loop(_, _)
Ex5Loop(l, temp) ==
    IF temp = Len(l) THEN 1
    ELSE IF OutOfOrder(l, temp) THEN 0
    ELSE Ex5Loop(l, temp + 1)

ex5(head) == IF head = <<>> THEN 1 ELSE Ex5Loop(head, 1)
=============================================================================
