---------------------------- MODULE MCTodoSearch ----------------------------
(* Instances of TodoSearch, and of EmbeddingIndex on its own, for TLC. *)
EXTENDS TodoSearch, TLC

CONSTANTS u1, Parts \* whether a run's index requests come from the board

MCCreator == [k \in Records |-> u1]

\* The index gets no other texts than those of todos.
MCContents == [title : Titles, description : Descriptions \cup {NoText}]

\* Requests and row ids are interchangeable.
Symmetry == Permutations(Requests) \cup Permutations(Rows)

\* What bounds a run: with one title, an update need not give it.
Bounded ==
    \A i \in Requests : useCase[i] # "new" /\ Board!Op(i) = "update" =>
        body[i].content.title = Keep

VARIABLE fed

MCInit == SearchInit /\ fed \in Parts
MCNext ==
    /\ \/ fed /\ SearchNext
       \/ ~ fed /\ Next /\ UNCHANGED boardVars
    /\ UNCHANGED fed
    /\ Bounded'

MCSpec == MCInit /\ [][MCNext]_<<vars, boardVars, fed>>
=============================================================================
