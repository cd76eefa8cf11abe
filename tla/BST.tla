-------------------------------- MODULE BST --------------------------------
(***************************************************************************)
(* The unbalanced binary search tree of clab/mini/part7.c as operators.   *)
(* A node is a record [string, left, right]; a child is a node, NULL, or  *)
(* Wild: the never-initialised left and right of the root init_tree makes *)
(* (malloc's memory holds whatever it held before).  Following Wild       *)
(* faults, which yields Crash.  Strings are compared as strcmp orders     *)
(* them: by a total order, here the integers.                             *)
(***************************************************************************)
EXTENDS Integers, Sequences

CONSTANTS NULL, Wild, Crash, NoString

\* alloc_node(s)
alloc_node(s) == [string |-> s, left |-> NULL, right |-> NULL]

\* init_tree(): string NULL; left and right are what the memory held.
init_tree(garbage) == [string |-> NoString, left |-> garbage, right |-> garbage]

(***************************************************************************)
(* insert(tree, s): <<0 or 1 or Crash, the tree after the call>>.  The    *)
(* first string goes into the root; otherwise down the strcmp side to a   *)
(* NULL child, which gets a new node; an equal string returns 1.          *)
(***************************************************************************)
RECURSIVE insert(_, _)

\* Mutant of insert: the strcmp result read the wrong way round.
insert_swapped(tree, s) ==
    LET Side(c) == IF tree[c] = NULL
                   THEN <<0, [tree EXCEPT ![c] = alloc_node(s)]>>
                   ELSE LET r == insert(tree[c], s)
                        IN  <<r[1], [tree EXCEPT ![c] = r[2]]>>
    IN  IF tree = Wild THEN <<Crash, tree>>
        ELSE IF tree.string = NoString THEN <<0, [tree EXCEPT !.string = s]>>
        ELSE IF tree.string < s THEN Side("left")
        ELSE IF tree.string > s THEN Side("right")
        ELSE <<1, tree>>

insert(tree, s) ==
    LET Side(c) == IF tree[c] = NULL
                   THEN <<0, [tree EXCEPT ![c] = alloc_node(s)]>>
                   ELSE LET r == insert(tree[c], s)
                        IN  <<r[1], [tree EXCEPT ![c] = r[2]]>>
    IN  IF tree = Wild THEN <<Crash, tree>>
        ELSE IF tree.string = NoString THEN <<0, [tree EXCEPT !.string = s]>>
        ELSE IF tree.string > s THEN Side("left")
        ELSE IF tree.string < s THEN Side("right")
        ELSE <<1, tree>>

(***************************************************************************)
(* The traversals write result[cur_position] and move on; `out` is what   *)
(* they have written, in order, so Len(out) is cur_position.  A write     *)
(* past result_max is a write past the caller's array.  Following Wild    *)
(* yields Crash.                                                           *)
(***************************************************************************)
RECURSIVE preorder_do(_, _, _)
preorder_do(node, out, result_max) ==
    IF out = Crash \/ Len(out) >= result_max THEN out
    ELSE IF node = Wild THEN Crash
    ELSE LET o1 == Append(out, node.string)
             o2 == IF node.left # NULL THEN preorder_do(node.left, o1, result_max) ELSE o1
         IN  IF node.right # NULL THEN preorder_do(node.right, o2, result_max) ELSE o2

preorder(tree, result_max) == preorder_do(tree, <<>>, result_max)

RECURSIVE inorder_do(_, _, _)

\* Mutant of inorder_do: the node is written before its left subtree.
inorder_do_node_first(node, out, max_result) ==
    IF out = Crash \/ Len(out) >= max_result THEN out
    ELSE IF node = Wild THEN Crash
    ELSE LET o1 == Append(out, node.string)
             o2 == IF node.left # NULL THEN inorder_do(node.left, o1, max_result) ELSE o1
         IN  IF node.right # NULL THEN inorder_do(node.right, o2, max_result) ELSE o2

(* The bound is tested on entry only: after the left subtree has filled    *)
(* the array, the node's string is still written.                         *)
inorder_do(node, out, max_result) ==
    IF out = Crash \/ Len(out) >= max_result THEN out
    ELSE IF node = Wild THEN Crash
    ELSE LET o1 == IF node.left # NULL THEN inorder_do(node.left, out, max_result) ELSE out
             o2 == IF o1 = Crash THEN Crash ELSE Append(o1, node.string)
         IN  IF node.right # NULL THEN inorder_do(node.right, o2, max_result) ELSE o2

inorder(tree, max_result) == inorder_do(tree, <<>>, max_result)

(***************************************************************************)
(* del_tree(tree): the strings of the nodes in the order free() releases  *)
(* them, or Crash when it follows Wild.                                    *)
(***************************************************************************)
\* Two stretches of frees, one after the other; a crash ends them.
ThenFree(a, b) == IF a = Crash \/ b = Crash THEN Crash ELSE a \o b

RECURSIVE del_tree(_)

\* Mutant of del_tree: free(tree) before the children are deleted.
del_tree_node_first(tree) ==
    IF tree = NULL THEN <<>>
    ELSE IF tree = Wild THEN Crash
    ELSE ThenFree(<<tree.string>>,
                  ThenFree(IF tree.left # NULL THEN del_tree(tree.left) ELSE <<>>,
                           IF tree.right # NULL THEN del_tree(tree.right) ELSE <<>>))

(* NULL returns; the left subtree, then the right one, then the node.      *)
del_tree(tree) ==
    IF tree = NULL THEN <<>>
    ELSE IF tree = Wild THEN Crash
    ELSE ThenFree(ThenFree(IF tree.left # NULL THEN del_tree(tree.left) ELSE <<>>,
                           IF tree.right # NULL THEN del_tree(tree.right) ELSE <<>>),
                  <<tree.string>>)
=============================================================================
