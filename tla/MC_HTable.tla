----------------------------- MODULE MC_HTable -----------------------------
(* Model-checking instance of HTable.                                     *)
(* Keys "a", "d", "g" hash to 97, 100 and 103: the same slot of the        *)
(* 3-slot table htable_init(ht, 2, ..) makes, three different slots of the *)
(* 7-slot table its first resize makes.                                    *)
EXTENDS HTable, TLC

CONSTANTS t1, t2, ka, kd, kg

MCKeys == {ka, kd, kg}
MCKeyBytes == (ka :> <<97>>) @@ (kd :> <<100>>) @@ (kg :> <<103>>)

TwoThreads == {t1, t2}
OneThread  == {t1}

\* Every thread may call with every key.
SharedKeys == [t \in TwoThreads |-> MCKeys]
SoloKeys   == [t \in OneThread |-> MCKeys]
\* Thread t1 calls with a and d, thread t2 with g: disjoint blocks of keys.
DisjointKeys == (t1 :> {ka, kd}) @@ (t2 :> {kg})
=============================================================================
