----------------------------- MODULE MCRagChat -----------------------------
(* Instances of RagChat for TLC. *)
EXTENDS RagChat, TLC

CONSTANT task

DeletedByKind == task :> "deleteTask"

\* Requests are interchangeable.
Symmetry == Permutations(Requests)

\* A conversation is not removed while a query runs.
Orderly == {{"delete", "query"}}
=============================================================================
