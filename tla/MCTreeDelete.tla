------------------------------ MODULE MCTreeDelete ------------------------------
EXTENDS HeightBalancedTree

\* Any sequence of insertions and deletions of the keys 1 to LastKey.
CONSTANT LastKey

VARIABLE tree

Init == tree = HBT_new

Insert(k) == tree' = HBT_insert(tree, k, k)
Delete(k) == tree' = HBT_delete(tree, k)

Next == tree.root # FAULT /\ \E k \in 1..LastKey : Insert(k) \/ Delete(k)

Spec == Init /\ [][Next]_tree
--------------------------------------------------------------------------------
\* Deletion leaves a height balanced tree: "Rebalance the tree.  Search up the
\* stack that was kept and rebalance at each node if needed."
DeleteRebalances == tree.root # FAULT /\ HeightBalanced(tree)
================================================================================
