-------------------------- MODULE MCEmbeddingIndex --------------------------
(* Instances of EmbeddingIndex for TLC. *)
EXTENDS EmbeddingIndex, TLC

CONSTANTS u1, u2

\* Every record was created by u1; u2 is another member of its project.
MCCreator == [k \in Records |-> u1]

\* Requests, row ids and contents are interchangeable.
Symmetry == Permutations(Requests) \cup Permutations(Rows)
                \cup Permutations(Contents)
=============================================================================
