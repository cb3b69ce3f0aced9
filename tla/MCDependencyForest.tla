------------------------- MODULE MCDependencyForest -------------------------
(* Four input bytes and five constraints: chains that connect all bytes,    *)
(* a constraint on one byte, one that spans non-adjacent bytes, and one     *)
(* without dependencies (a concrete expression).                            *)
EXTENDS DependencyForest

CONSTANTS n1, n2, n3, n4, n5

MCIndex == 0..3
MCNode == {n1, n2, n3, n4, n5}
MCDeps ==
    [n \in MCNode |->
        CASE n = n1 -> {0, 1}
          [] n = n2 -> {2, 3}
          [] n = n3 -> {1, 3}
          [] n = n4 -> {2}
          [] n = n5 -> {}]
=============================================================================
