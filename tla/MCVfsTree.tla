----------------------------- MODULE MCVfsTree -----------------------------
(* VfsTree with its directories, names and requests interchangeable.       *)
EXTENDS VfsTree, TLC

CONSTANTS d1, d2, d3, a1, a2, n1, n2, r1, r2

Symmetry == Permutations(Directories) \cup Permutations(Names) \cup Permutations(Slots)

Began(E) == {e \in E : parent[e] # Unborn \/ \E r \in Slots : Id(r) = e}

(* Either directories alone, so that a loop of two can meet a third's walk, *)
(* or assets alone, or one of each.                                        *)
Scope ==
  \/ Began(Assets) = {}
  \/ Began(Directories) = {}
  \/ \E d \in Directories, a \in Assets : Began(Entries) \subseteq {a, d}
=============================================================================
