----------------------------- MODULE RabinKarp -----------------------------
(***************************************************************************)
(* The substring matchers of rklab/rkgrep.c as operators.  A C string is  *)
(* the sequence of its bytes before the NUL; DocChar reads past the end   *)
(* as the NUL.  A matcher yields <<count, *first_match_ind>>.              *)
(***************************************************************************)
EXTENDS Integers, Sequences, FiniteSets

PRIME == 961748941

\* C's % on long long: the remainder takes the sign of the dividend.
CRem(a, b) == IF a >= 0 THEN a % b ELSE -((-a) % b)

\* A byte read through a (signed) char.
Char(byte) == IF byte >= 128 THEN byte - 256 ELSE byte

\* doc[j], 0-based; the NUL at and after the end.
DocChar(d, j) == IF j < Len(d) THEN Char(d[j + 1]) ELSE 0

madd(a, b) == CRem(a + b, PRIME)
msub(a, b) == IF a > b THEN a - b ELSE a + PRIME - b
mmul(a, b) == CRem(a * b, PRIME)

strlength(s) == Len(s)

(***************************************************************************)
(* naive_substring_match.  NaiveInner is the inner loop from doc position *)
(* pos with k pattern bytes matched: on a match it advances, and stops    *)
(* with found = FALSE when the doc's next byte is the NUL (the code tests *)
(* the pointer pattmp, not *pattmp, against '\0').                         *)
(***************************************************************************)
RECURSIVE NaiveInner(_, _, _, _, _)
NaiveInner(p, d, pos, k, found) ==
    IF k >= Len(p) THEN found
    ELSE IF Char(p[k + 1]) # DocChar(d, pos) THEN FALSE
    ELSE IF DocChar(d, pos + 1) = 0 THEN FALSE
    ELSE NaiveInner(p, d, pos + 1, k + 1, TRUE)

\* The count and first index over the starts the outer loop visits.
CountFirst(starts) ==
    <<Cardinality(starts),
      IF starts = {} THEN -1 ELSE CHOOSE i \in starts : \A j \in starts : i <= j>>

naive_substring_match(p, d) ==
    CountFirst({i \in 0..Len(d) - 1 : NaiveInner(p, d, i, 0, FALSE)})

(***************************************************************************)
(* rkhash_init over the first m bytes of buf, from the last byte to the   *)
(* first: yields <<hash, *h>> with *h = 256^m mod PRIME.                  *)
(***************************************************************************)
RECURSIVE RkInitLoop(_, _, _, _)
RkInitLoop(buf, i, hashret, rkval) ==
    IF i < 0 THEN <<hashret, rkval>>
    ELSE RkInitLoop(buf, i - 1, madd(hashret, mmul(rkval, DocChar(buf, i))),
                    mmul(rkval, 256))

rkhash_init(buf, m) == RkInitLoop(buf, m - 1, 0, 1)

\* Mutant of rkhash_next: the leftmost and rightmost bytes swapped.
rkhash_next_swapped(curr_hash, h, leftmost, rightmost) ==
    madd(msub(mmul(256, curr_hash), mmul(rightmost, h)), leftmost)

rkhash_next(curr_hash, h, leftmost, rightmost) ==
    madd(msub(mmul(256, curr_hash), mmul(leftmost, h)), rightmost)

(* The verification loop of rk_substring_match: every pattern byte equal   *)
(* to the doc's at index i onwards, and the pattern not empty.            *)
RkVerify(p, d, i) ==
    /\ Len(p) > 0
    /\ \A k \in 0..Len(p) - 1 : Char(p[k + 1]) = DocChar(d, i + k)

(* The rolling loop of rk_substring_match from `index`: the starts where   *)
(* the hashes agree and the bytes verify.                                 *)
RECURSIVE RkLoop(_, _, _, _, _, _)
RkLoop(p, d, index, doc_hash, h, pattern_hash) ==
    IF index > Len(d) - Len(p) THEN {}
    ELSE (IF pattern_hash = doc_hash /\ RkVerify(p, d, index) THEN {index} ELSE {})
         \cup RkLoop(p, d, index + 1,
                     rkhash_next(doc_hash, h, DocChar(d, index), DocChar(d, index + Len(p))),
                     h, pattern_hash)

rk_substring_match(p, d) ==
    IF strlength(p) > strlength(d) THEN <<0, -1>>
    ELSE LET ph == rkhash_init(p, Len(p))
             dh == rkhash_init(d, Len(p))
         IN  CountFirst(RkLoop(p, d, 0, dh[1], dh[2], ph[1]))

(***************************************************************************)
(* The Bloom filter of bloom.c (not in the repository) as the set of the  *)
(* values added: a query of an added value is TRUE (no false negatives).  *)
(***************************************************************************)
bloom_query(bf, x) == x \in bf

(* rk_create_doc_bloom's loop: the hashes of the windows from `index`.    *)
RECURSIVE BloomFrom(_, _, _, _, _)

\* Mutant of the loop: `index < doc_length - m`, one window short.
BloomFromShort(m, d, index, doc_hash, h) ==
    IF index >= Len(d) - m THEN {}
    ELSE LET next == rkhash_next(doc_hash, h, DocChar(d, index - 1), DocChar(d, index - 1 + m))
         IN  {next} \cup BloomFrom(m, d, index + 1, next, h)

BloomFrom(m, d, index, doc_hash, h) ==
    IF index > Len(d) - m THEN {}
    ELSE LET next == rkhash_next(doc_hash, h, DocChar(d, index - 1), DocChar(d, index - 1 + m))
         IN  {next} \cup BloomFrom(m, d, index + 1, next, h)

(* rk_create_doc_bloom: the hash of every window of m bytes of doc.        *)
rk_create_doc_bloom(m, d) ==
    LET i == rkhash_init(d, m)
    IN  {i[1]} \cup BloomFrom(m, d, 1, i[1], i[2])

(* rk_substring_match_using_bloom: 0 (and *first_match_ind untouched)      *)
(* unless the pattern's hash is in the filter.                            *)
rk_substring_match_using_bloom(p, d, bf, first_before) ==
    IF bloom_query(bf, rkhash_init(p, strlength(p))[1])
    THEN rk_substring_match(p, d)
    ELSE <<0, first_before>>
=============================================================================
