-------------------------- MODULE MCTodoLifecycle --------------------------
(* Instances of TodoLifecycle for TLC. *)
EXTENDS TodoLifecycle, FiniteSets, TLC

CONSTANTS
    Parts,     \* which of the two parts a run checks: TRUE is the calm one
    CalmAlone, \* what runs alone on a todo there
    MaxFaulty  \* the requests of the part that is not calm

ASSUME PartsAssumption == Parts \subseteq BOOLEAN

\* All the identities are interchangeable.
Symmetry == Permutations(Requests) \cup Permutations(Todos)
                \cup Permutations(StatusIds) \cup Permutations(Titles)
                \cup Permutations(Descriptions)

VARIABLE calm

\* Requests on one todo overlap only if none of them is to run alone.
AloneOnTodo ==
    \A i, j \in InFlight : i # j /\ On(i) \cap On(j) # {} => Op(i) \notin CalmAlone

\* Nothing fails, and what is to run alone does.
CalmNext ==
    /\ CreateStatus \/ \E i \in Requests : Arrive(i) \/ TodoStep(i) \/ StatusStep(i)
    /\ AloneOnTodo'

\* What bounds a run: calm requests all concern one todo, and an update gives the
\* title or the description, not both; others are few, and do not edit the text, which the
\* properties of that part do not speak of.
Arrived == {i \in Requests : pc[i] # "new"}
Bounded ==
    IF calm THEN /\ Cardinality(UNION {On(i) : i \in Arrived}) <= 1
                 /\ \A i \in Arrived :
                       /\ On(i) # {}
                       /\ Op(i) = "update" =>
                             \/ arg[i].content.title = Keep
                             \/ arg[i].content.description \in {Keep, Unset}
    ELSE /\ Cardinality(Arrived) <= MaxFaulty
         /\ \A i \in Arrived : Op(i) = "update" => arg[i].content = SameText

MCInit == Init /\ calm \in Parts
MCNext ==
    /\ (calm /\ CalmNext) \/ (~ calm /\ Next)
    /\ UNCHANGED calm
    /\ Bounded'

MCSpec == MCInit /\ [][MCNext]_<<vars, calm>>

\* TodoLifecycle's IndexFollowsTodo, of the part for which it is stated: once
\* all requests on a todo are through, the last call of TodoIndexingService
\* (todo-indexing.service.ts) matches it.
CalmIndexFollowsTodo == calm => IndexFollowsTodo
=============================================================================
