----------------------------- MODULE BubbleSort -----------------------------
(***************************************************************************)
(* swap and bubble_sort of clab/mini/part2.c as operators on a sequence   *)
(* of ints: the array arr[0..n-1] is the sequence s, arr + i is s[i + 1]. *)
(***************************************************************************)
EXTENDS Integers, Sequences, FiniteSets

\* Mutant of swap: *p1 = *p2; *p2 = *p1; without the temporary.
swap_no_temp(arr, i, j) == [arr EXCEPT ![i] = arr[j], ![j] = arr[j]]

\* swap(arr + i, arr + j): the two cells exchanged through temp.
swap(arr, i, j) == [arr EXCEPT ![i] = arr[j], ![j] = arr[i]]

(* The first for loop: for i in 0..n-2, swap arr[i] and arr[i+1] when      *)
(* they decrease.                                                          *)
RECURSIVE SwapPass(_, _, _)
SwapPass(arr, i, n) ==
    IF i >= n - 1 THEN arr
    ELSE SwapPass(IF arr[i + 1] > arr[i + 2] THEN swap(arr, i + 1, i + 2) ELSE arr,
                  i + 1, n)

\* The second for loop: the adjacent pairs still out of order.
mistakes(arr, n) == Cardinality({i \in 0..(n - 2) : arr[i + 1] > arr[i + 2]})

(* while (inorder != 1): a pass, then inorder = 1 once no mistake is left. *)
RECURSIVE BubbleLoop(_, _)
BubbleLoop(arr, n) ==
    LET a == SwapPass(arr, 0, n)
    IN  IF mistakes(a, n) = 0 THEN a ELSE BubbleLoop(a, n)

bubble_sort(arr) == BubbleLoop(arr, Len(arr))
=============================================================================
