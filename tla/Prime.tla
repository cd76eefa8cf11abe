------------------------------- MODULE Prime -------------------------------
(***************************************************************************)
(* The table-size helpers of threadlab/htable.c: is_prime, get_prime.      *)
(***************************************************************************)
EXTENDS Integers

\* is_prime: 1 for n <= 3, 0 for even n, else trial division by odd i < n.
is_prime(n) ==
    \/ n <= 3
    \/ /\ n % 2 # 0
       /\ \A i \in {j \in 3..(n - 1) : j % 2 = 1} : n % i # 0

\* get_prime: the first n >= min with is_prime(n).
RECURSIVE get_prime(_)
get_prime(min) == IF is_prime(min) THEN min ELSE get_prime(min + 1)
=============================================================================
