---------------------------- MODULE MC_Algorithms ----------------------------
(***************************************************************************)
(* Checks the repository's pure functions against reference definitions  *)
(* over bounded inputs.  The state is one input: a record whose `kind`    *)
(* names the function under test, so every input is one distinct state   *)
(* and each property speaks of the inputs of its kind.                    *)
(***************************************************************************)
EXTENDS Hash, Integers, Sequences, FiniteSets
LOCAL INSTANCE SequencesExt

CONSTANTS HashBytes, HashMaxLen,   \* keys for hashcode (bytes never 0)
          Alphabet, MaxPat, MaxDoc,\* patterns and documents for rkgrep/bmgrep
          BSTKeys, MaxIns,         \* strings (by their strcmp order) inserted in part7's tree
          SortVals, MaxSortLen,    \* int arrays passed to bubble_sort
          FloatBits,               \* floats for get_exponent_field, as their 1-bit positions
          Numbers, ShiftCounts,    \* arguments of clear_msb (numbers as 1-bit positions)
          BitmapBytes, MaxBitmap,  \* byte arrays for bit_at_index
          StrBytes, MaxStr,        \* strings for ex2, before the terminating 0
          MaxMem,                  \* arrays ex3 swaps within
          ListVals, MaxList,       \* linked lists for ex5
          NULL, Wild, Crash, NoString

RK == INSTANCE RabinKarp
T  == INSTANCE BST
BM == INSTANCE BoyerMoore
BS == INSTANCE BubbleSort
BH == INSTANCE BitHelpers
BL == INSTANCE BinaryLab

\* The sequences over S of lengths lo..hi.
SeqsOf(S, lo, hi) == UNION {[1..n -> S] : n \in lo..hi}

Inputs ==
    {[kind |-> "hash", s |-> s] : s \in SeqsOf(HashBytes, 0, HashMaxLen)}
    \cup {[kind |-> "search", p |-> p, d |-> d] :
            p \in SeqsOf(Alphabet, 1, MaxPat), d \in SeqsOf(Alphabet, 0, MaxDoc)}
    \cup {[kind |-> "bst", ins |-> q, garbage |-> g] :
            q \in SeqsOf(BSTKeys, 1, MaxIns), g \in {NULL, Wild}}
    \cup {[kind |-> "sort", a |-> a] : a \in SeqsOf(SortVals, 0, MaxSortLen)}
    \cup {[kind |-> "float", bits |-> f] : f \in FloatBits}
    \cup {[kind |-> "clear", n |-> n, b |-> b] : n \in Numbers, b \in ShiftCounts}
    \cup {[kind |-> "bitmap", arr |-> a, i |-> i] :
            a \in SeqsOf(BitmapBytes, 1, MaxBitmap), i \in 0..(8 * MaxBitmap - 1)}
    \cup {[kind |-> "ex2", ptr |-> s \o <<0>>] : s \in SeqsOf(StrBytes, 0, MaxStr)}
    \cup {r \in [kind : {"ex3"}, n : 1..MaxMem, rd : 1..MaxMem, rs : 1..MaxMem,
                 b : -1..MaxMem] :
            r.rd + r.b - 1 <= r.n /\ r.rs + r.b - 1 <= r.n /\ r.rd <= r.n /\ r.rs <= r.n}
    \cup {[kind |-> "ex5", l |-> l] : l \in SeqsOf(ListVals, 0, MaxList)}

VARIABLE input

Init == input \in Inputs
Next == UNCHANGED input
Spec == Init /\ [][Next]_input

-----------------------------------------------------------------------------
(* Reference definitions. *)

\* The key's bytes as the digits of a base-256 number.
RECURSIVE PolyValue(_)
PolyValue(s) == IF s = <<>> THEN 0
                ELSE PolyValue(SubSeq(s, 1, Len(s) - 1)) * 256 + s[Len(s)]

\* <<number of occurrences of p in d, index of the first or -1>>.
Occurrences(p, d) ==
    LET at == {i \in 0..Len(d) - Len(p) : SubSeq(d, i + 1, i + Len(p)) = p}
    IN  <<Cardinality(at), IF at = {} THEN -1 ELSE Min(at)>>

\* Each string once, in the order of its first insertion.
Distinct(q) == FoldLeft(LAMBDA acc, x : IF x \in ToSet(acc) THEN acc ELSE Append(acc, x),
                        <<>>, q)

\* The preorder of the search tree that inserting q in order builds.
RECURSIVE PreorderRef(_)
PreorderRef(q) ==
    IF q = <<>> THEN <<>>
    ELSE <<q[1]>> \o PreorderRef(SelectSeq(Tail(q), LAMBDA x : x < q[1]))
                  \o PreorderRef(SelectSeq(Tail(q), LAMBDA x : x > q[1]))

\* The postorder of that tree: left subtree, right subtree, root.
RECURSIVE PostorderRef(_)
PostorderRef(q) ==
    IF q = <<>> THEN <<>>
    ELSE PostorderRef(SelectSeq(Tail(q), LAMBDA x : x < q[1]))
         \o PostorderRef(SelectSeq(Tail(q), LAMBDA x : x > q[1])) \o <<q[1]>>

\* insert's result for each string: 1 for a repeat, 0 otherwise.
CodesRef(q) == [i \in 1..Len(q) |-> IF \E j \in 1..(i - 1) : q[j] = q[i] THEN 1 ELSE 0]

\* delta1 by its definition in the BM paper, for ASCII.
Delta1Ref(p) ==
    [c \in 0..127 |->
        IF \E i \in 1..Len(p) : p[i] = c
        THEN Len(p) - Max({i \in 1..Len(p) : p[i] = c})
        ELSE Len(p)]

\* The calls of part7's harness: init_tree, then insert of every string,
\* stopping at a crash.
BuildTree(q, garbage) ==
    FoldLeft(LAMBDA acc, s :
                IF acc.crashed THEN acc
                ELSE LET r == T!insert(acc.tree, s)
                     IN  [tree |-> r[2], codes |-> Append(acc.codes, r[1]),
                          crashed |-> r[1] = Crash],
             [tree |-> T!init_tree(garbage), codes |-> <<>>, crashed |-> FALSE], q)

\* The exponent field of an IEEE-754 single with 1-bits S: bits 23..30.
ExponentRef(S) == LET RECURSIVE Val(_)
                      Val(k) == IF k > 30 THEN 0
                                ELSE (IF k \in S THEN 1 ELSE 0) + 2 * Val(k + 1)
                  IN  Val(23)

\* The number with 1-bits S and its b most significant bits (of 32) cleared.
ClearRef(S, b) == BH!Word({k \in S : k < 32 - b})

\* The 'a' bytes of the string before its first 0.
CountA(ptr) == LET end == Min({i \in 1..Len(ptr) : ptr[i] = 0})
               IN  Cardinality({i \in 1..(end - 1) : ptr[i] = 97})

\* The array <<1, .., n>> with the b cells from rd and from rs exchanged.
ExchangeRef(n, rd, rs, b) ==
    [k \in 1..n |-> IF k - rd \in 0..(b - 1) THEN rs + k - rd
                    ELSE IF k - rs \in 0..(b - 1) THEN rd + k - rs
                    ELSE k]

\* The harness's result array is larger than the number of strings.
ResultMax(q) == Len(Distinct(q)) + 1

-----------------------------------------------------------------------------
(* hashcode agrees with its definition in spec 4.2: h = (h*256 + byte) mod *)
(* BIG_PRIME over the key's bytes, up to madd leaving BIG_PRIME itself     *)
(* unreduced.                                                              *)
HashIsPolynomial ==
    input.kind = "hash" => hashcode(input.s) % BIG_PRIME = PolyValue(input.s) % BIG_PRIME

(* hashcode is never negative, so hcode % ht->size is a valid slot index   *)
(* of ht->store and slot % NUM_LOCKS a valid index of rwl_slot.            *)
HashNonNegative == input.kind = "hash" => hashcode(input.s) >= 0

(* rk_substring_match counts every occurrence and reports the first: the   *)
(* hash rolled by rkhash_next over each window equals the hash rkhash_init *)
(* gives the pattern exactly when the bytes are equal.                    *)
RkAgreesWithReference ==
    input.kind = "search" =>
        RK!rk_substring_match(input.p, input.d) = Occurrences(input.p, input.d)

(* rk_substring_match_using_bloom, with the filter rk_create_doc_bloom     *)
(* builds over the document (for a pattern no longer than the document),  *)
(* counts what rk_substring_match counts: the filter holds every window's  *)
(* hash, so no occurrence is filtered out.  On a filter miss it returns 0  *)
(* and leaves *first_match_ind as the caller had it (here -1 or NoString,  *)
(* an uninitialised int), so the first index is promised only when an     *)
(* occurrence was counted.                                                 *)
BloomAgreesWithReference ==
    input.kind = "search" /\ Len(input.p) <= Len(input.d) =>
        \A before \in {-1, NoString} :
        \E r \in {RK!rk_substring_match_using_bloom(input.p, input.d,
                      RK!rk_create_doc_bloom(Len(input.p), input.d), before)} :
            /\ r[1] = Occurrences(input.p, input.d)[1]
            /\ r[1] > 0 => r[2] = Occurrences(input.p, input.d)[2]

(* naive_substring_match counts every occurrence of the pattern and        *)
(* reports the first (its comment: "returns number of positions in the    *)
(* document where the pattern has been found").                            *)
NaiveAgreesWithReference ==
    input.kind = "search" =>
        RK!naive_substring_match(input.p, input.d) = Occurrences(input.p, input.d)

(* Where part7's calls do not crash, insert's return codes mark exactly    *)
(* the repeated strings, preorder lists the search tree that inserting     *)
(* the strings in order builds, and inorder lists every string once, in   *)
(* strcmp order.                                                           *)
BSTTraversalsCorrect ==
    input.kind = "bst" =>
        \E b \in {BuildTree(input.ins, input.garbage)} :
            \E pre \in {T!preorder(b.tree, ResultMax(input.ins))},
              ino \in {T!inorder(b.tree, ResultMax(input.ins))} :
                b.crashed \/ pre = Crash \/ ino = Crash
                \/ /\ b.codes = CodesRef(input.ins)
                   /\ pre = PreorderRef(input.ins)
                   /\ ino = SetToSortSeq(ToSet(input.ins), <)

(* With init_tree's root children NULL, del_tree frees every node of the   *)
(* tree part7's inserts built exactly once, each after its two subtrees   *)
(* (so it never reads tree->left or tree->right of a freed node).          *)
BSTDelTreePostorder ==
    input.kind = "bst" /\ input.garbage = NULL =>
        T!del_tree(BuildTree(input.ins, input.garbage).tree) = PostorderRef(input.ins)

(* part7's harness can insert and traverse without a fault: init_tree's    *)
(* root is usable as the empty tree insert expects.                        *)
BSTNoCrash ==
    input.kind = "bst" =>
        LET b == BuildTree(input.ins, input.garbage)
        IN  /\ ~b.crashed
            /\ T!inorder(b.tree, ResultMax(input.ins)) # Crash
            /\ T!preorder(b.tree, ResultMax(input.ins)) # Crash

(* init_delta1 gives every ASCII byte the distance of its last occurrence  *)
(* from the right end of the pattern, the pattern's length if absent.     *)
Delta1Correct ==
    input.kind = "search" => BM!init_delta1(input.p) = Delta1Ref(input.p)

(* bubble_sort leaves the array sorted in increasing order, with the same  *)
(* elements: every swap exchanges two cells, and the loop stops only when  *)
(* no adjacent pair is out of order.                                       *)
BubbleSortCorrect ==
    input.kind = "sort" => BS!bubble_sort(input.a) = SortSeq(input.a, <)

(* get_exponent_field returns the 8-bit exponent field of the float, for   *)
(* either sign: the left shift drops the sign before the right shift.      *)
ExponentFieldCorrect ==
    input.kind = "float" => BH!get_exponent_field(BH!Word(input.bits)) = ExponentRef(input.bits)

(* clear_msb clears exactly the b most significant bits of number, for    *)
(* every value the build can return (the comment's example: 0xffff0000    *)
(* with b = 15 gives 65536).                                               *)
ClearMsbCorrect ==
    input.kind = "clear" => BH!clear_msb(BH!Word(input.n), input.b) = {ClearRef(input.n, input.b)}

(* bit_at_index reads the bitmap from the left: bit i of the bytes taken  *)
(* as one big-endian number, for every i the assert admits.                *)
BitAtIndexCorrect ==
    input.kind = "bitmap" /\ input.i < 8 * Len(input.arr) =>
        BH!bit_at_index(input.arr, input.i)
          = (PolyValue(input.arr) \div 2^(8 * Len(input.arr) - 1 - input.i)) % 2

(* ex3 exchanges the first b chars of rd and rs when the two ranges do not *)
(* overlap (or are the same), and whatever the overlap it only permutes    *)
(* the array's bytes: every step of its loop is a swap through tmp.        *)
Ex3SwapsPrefixes ==
    input.kind = "ex3" =>
        \E m \in {BL!ex3([k \in 1..input.n |-> k], input.rd, input.rs, input.b)} :
            /\ ToSet(m) = 1..input.n
            /\ (input.rd + input.b <= input.rs \/ input.rs + input.b <= input.rd
                \/ input.rd = input.rs)
                 => m = ExchangeRef(input.n, input.rd, input.rs, input.b)

(* The scanning exercises agree with their closed forms: ex2 counts the    *)
(* 'a' bytes before the terminator and none after it, and ex5 returns 1   *)
(* exactly for the NULL list and the lists whose values never decrease.    *)
ScanExercisesCorrect ==
    /\ input.kind = "ex2" => BL!ex2(input.ptr) = CountA(input.ptr)
    /\ input.kind = "ex5" =>
           (BL!ex5(input.l) = 1 <=> \A i \in 1..(Len(input.l) - 1) : input.l[i] <= input.l[i + 1])
=============================================================================
