--------------------------- MODULE MCFeatureStats ---------------------------
(* Two FeatureStats objects, two sparse names, values 0 and 1, and an     *)
(* initial capacity of one element so that the second add() expands.      *)
EXTENDS FeatureStats, TLC

CONSTANTS s1, s2, n1, n2

MCObjects == {s1, s2}
MCNames == {n1, n2}

(* The objects are interchangeable. *)
ObjectSymmetry == Permutations(MCObjects)

Sp(n, v) == [name |-> n, colon |-> TRUE, value |-> v]

(* Lines as a feature-statistics file holds them. *)
MCLines == { <<Num(1), Sp(n1, 1)>>,
             <<Sp(n2, 1), Num(0), Sp(n1, 0)>> }

(* The state as the sparse side sees it: no step's effect on fvec, id2name *)
(* or absSparse depends on array contents, the saved file, the dense ghost *)
(* or the faults (a saved line's sparse tokens have no ':').               *)
SparseView == <<[o \in MCObjects |-> [obj[o] EXCEPT !.data = <<>>]],
                fvec, id2name, absSparse>>

(* One name, for the runs about the dense array. *)
MCNames1 == {n1}

(* Values with a negative one, so that -= can produce one. *)
MCValues == {-1, 0, 1}
MCLines1 == { <<Num(1), Sp(n1, 1)>>, <<Sp(n1, 0), Num(0)>> }

=============================================================================
