----------------------------- MODULE TodoSearch -----------------------------
(***************************************************************************)
(* TodoLifecycle composed with EmbeddingIndex: what a search finds of the  *)
(* todos of one project.                                                   *)
(*                                                                         *)
(* TodoIndexingService does not await the calls that it makes: the use     *)
(* case is answered while indexRecord or removeIndex goes on.  Until its   *)
(* first await it runs within the use case, so handing over is one step.   *)
(* The index call of a request has the request's identity; use cases that  *)
(* index concern one todo.  vectorSearch asks neither for the status of    *)
(* the source nor for the todo: what has a chunk is found.                 *)
(*                                                                         *)
(* A source that its user removed (DELETE /rag/index/:sourceId) is left    *)
(* out: the todo is then not to be found.                                  *)
(***************************************************************************)
EXTENDS EmbeddingIndex

CONSTANTS StatusIds, Titles, Descriptions, NoText, Unset, Keep, NotIndexed,
          Removed, Alone \* as in TodoLifecycle

VARIABLES todos, statuses, useCase, body, entity, indexed

Board == INSTANCE TodoLifecycle
    WITH Todos <- Records, NoTodo <- NoRow, Faults <- FALSE,
         pc <- useCase, arg <- body, held <- entity

ASSUME BoardAssumption ==
    /\ NoRow \notin Board!Todo
    /\ NoArg \notin Board!Arg
    /\ Keep \notin StatusIds \cup Titles \cup Descriptions \cup {NoText, Unset}
    /\ Unset \notin Descriptions \cup {NoText}
    /\ NotIndexed \notin Board!Text /\ Removed \notin Board!Text
    /\ NotIndexed # Removed
    /\ Board!Content \subseteq Contents
    /\ Alone \subseteq Board!Ops

boardVars == <<todos, statuses, useCase, body, entity, indexed>>

\* What TodoIndexingService makes of a title and a description: it joins those
\* that there are.
Joined(text) ==
    IF text.description = Unset THEN [text EXCEPT !.description = NoText] ELSE text

\* Mutant of HandOver: the todo is handed over as it was read.
HandOverAsRead(i) ==
    /\ Board!Index(i)
    /\ \E t \in Board!On(i), u \in Users :
          LET call(c) == [user |-> u, key |-> t, content |-> c]
          IN IF indexed'[t] = Removed THEN Start(i, call(todos[t].content), "lookup")
             ELSE Start(i, call(IF entity[i][t] = NoRow THEN Joined(indexed'[t])
                                ELSE entity[i][t].content), "find")

\* reindexAsync and removeIndexAsync, for any member of the project.
HandOver(i) ==
    /\ Board!Index(i)
    /\ \E t \in Board!On(i), u \in Users :
          LET call(c) == [user |-> u, key |-> t, content |-> c]
          IN IF indexed'[t] = Removed THEN Start(i, call(todos[t].content), "lookup")
             ELSE Start(i, call(Joined(indexed'[t])), "find")

\* POST /rag/index: getRecordContent finds the todo, then indexRecord begins.
\* Its identity is not one of a use case.
IndexTodo(i) ==
    /\ useCase[i] = "new"
    /\ \E t \in Records :
          /\ Board!IsLive(t)
          /\ Start(i, [user |-> Creator[t], key |-> t, content |-> todos[t].content], "find")
    /\ UNCHANGED boardVars

\* What use cases do before they hand over, and on columns.
BoardStep ==
    /\ \/ Board!CreateStatus
       \/ \E i \in Requests :
             \/ pc[i] = "new" /\ Board!Arrive(i)
             \/ Board!Check(i) \/ Board!Read(i) \/ Board!Save(i)
             \/ Board!SoftDelete(i) \/ Board!Sync(i) \/ Board!StatusStep(i)
    /\ UNCHANGED vars

IndexStep ==
    /\ \/ \E i \in Requests : RequestStep(i)
       \/ \E w \in Workers : WorkerStep(w) \/ EmbedFault(w)
    /\ UNCHANGED boardVars

SearchInit == Init /\ Board!Init
SearchNext == BoardStep \/ IndexStep \/ \E i \in Requests : HandOver(i) \/ IndexTodo(i)

SearchSpec == SearchInit /\ [][SearchNext]_<<vars, boardVars>>

-----------------------------------------------------------------------------
\* All use cases on the todo are answered and all calls and jobs are through.
Through(t) ==
    /\ \A i \in Board!InFlight : t \notin Board!On(i)
    /\ QuiescentOn(t)

\* vectorSearch by the text c.
Finds(t, c) == \E b \in chunks : arg[b.job].key = t /\ ContentOf(b) = c

\* The texts that search may know a todo by: its own, and its title alone if the
\* last use case that indexed it was an updateTask without a description.
KnownBy(t) ==
    {todos[t].content} \cup
        {c \in Board!Content : /\ c = [todos[t].content EXCEPT !.description = NoText]
                               /\ indexed[t] = [c EXCEPT !.description = Unset]}

\* Once all is through, search finds a todo on the board by its text, unless the
\* provider failed for that very text, and finds nothing of a deleted todo.
\* It needs that what edits, archives or deletes a todo runs alone on it and
\* that the index calls for it do not overtake each other, which nothing in
\* TodoIndexingService sees to.  And by whatever text it finds the todo, after
\* an updateTask that leaves the description out that is the title alone.
SearchFollowsTodo ==
    \A t \in Records : todos[t] # NoRow /\ Through(t) =>
        /\ todos[t].deleted => \A c \in Contents : ~ Finds(t, c)
        /\ ~ todos[t].deleted /\ ~ todos[t].archived =>
              \E r \in RowsOf(t) :
                  /\ sources[r].hash \in KnownBy(t)
                  /\ Finds(t, sources[r].hash) \/ sources[r].status = "failed"
=============================================================================
