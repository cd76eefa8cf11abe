------------------------------ MODULE MMAbs ------------------------------
(***************************************************************************)
(* What an allocator promises its caller: a set of live blocks, each a     *)
(* payload address with the size the caller asked for, no two of which    *)
(* overlap.  mm_malloc adds a block, mm_free removes one, mm_realloc       *)
(* replaces one by a block that overlaps neither the others nor the old    *)
(* one (mm.c copies the payload with memcpy, which needs the two apart).   *)
(***************************************************************************)
EXTENDS Naturals

VARIABLE blocks   \* payload address -> requested size of every live block

\* The blocks of n bytes at p and of m bytes at q share no byte.
Apart(p, n, q, m) == p + n <= q \/ q + m <= p

\* A block of n bytes at p overlaps none of the live blocks but `except`.
Fresh(p, n, except) ==
    /\ p \notin DOMAIN blocks \ except
    /\ \A b \in DOMAIN blocks \ except : Apart(p, n, b, blocks[b])

Init == blocks = [p \in {} |-> 0]

Malloc(p, n) ==
    /\ n > 0
    /\ Fresh(p, n, {})
    /\ blocks' = [b \in DOMAIN blocks \cup {p} |-> IF b = p THEN n ELSE blocks[b]]

Free(p) ==
    /\ p \in DOMAIN blocks
    /\ blocks' = [b \in DOMAIN blocks \ {p} |-> blocks[b]]

Realloc(p, q, n) ==
    /\ p \in DOMAIN blocks
    /\ n > 0
    /\ Fresh(q, n, {})
    /\ blocks' = [b \in (DOMAIN blocks \ {p}) \cup {q} |->
                    IF b = q THEN n ELSE blocks[b]]

\* The new block of a step, if any, is a block of the next state: the
\* addresses and sizes are taken from there rather than from all of Nat.
Next == \/ \E p \in DOMAIN blocks : Free(p)
        \/ \E p \in DOMAIN blocks' : Malloc(p, blocks'[p])
        \/ \E p \in DOMAIN blocks : \E q \in DOMAIN blocks' :
              Realloc(p, q, blocks'[q])

Spec == Init /\ [][Next]_blocks
=============================================================================
