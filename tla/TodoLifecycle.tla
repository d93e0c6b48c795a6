---------------------------- MODULE TodoLifecycle ----------------------------
(***************************************************************************)
(* The todo use cases and the status columns of one project.               *)
(*                                                                         *)
(* A use case reads an entity, awaits other calls (access, the status, an  *)
(* AI summary that takes seconds, Jira) and saves the whole entity.        *)
(* TypeORM compares the entity with the row as it is then and updates      *)
(* every column that differs: what was read goes back with what was        *)
(* edited, deleted_at included.  Each await that reads or writes todos or  *)
(* statuses is one action; a request that an access check or a validation  *)
(* refuses changes nothing and is left out.                                *)
(*                                                                         *)
(* content is title and description, the text that is indexed.  The index  *)
(* is what EmbeddingIndex models; here indexed[t] is the last request that *)
(* was handed to it.                                                       *)
(***************************************************************************)
EXTENDS Naturals, FiniteSets

CONSTANTS
    Requests,   \* identities of the requests, each used at most once
    Todos,      \* primary keys available to table todo
    StatusIds,  \* primary keys available to table todo_status
    Titles, Descriptions, \* what the text of a todo is made of
    NoText,     \* the description of a todo that has none
    Unset,      \* a description that an entity has as undefined
    NoTodo,     \* no row of todo, and no entity in a request
    NoArg,      \* the argument of a request that has not arrived
    Keep,       \* a field that the body of an update leaves out
    NotIndexed, \* no index request was made for the todo
    Removed,    \* the last index request was removeIndexAsync
    Alone,      \* the operations that wait for others, and others for them
    Faults      \* whether a call of a request may reject

Live == "live"
Deleted == "deleted"

Content == [title : Titles, description : Descriptions \cup {NoText}]
Todo == [status : StatusIds, content : Content,
         archived : BOOLEAN, deleted : BOOLEAN]

\* The text as a body gives it, and as an entity has it that was edited so.
Body == [title : Titles \cup {Keep},
         description : Descriptions \cup {NoText, Keep, Unset}]
Text == [title : Titles, description : Descriptions \cup {NoText, Unset}]

Ops == {"create", "update", "archive", "unarchive", "delete", "link",
        "reorder", "updateStatus", "deleteStatus"}

\* on: the todos of the request; to[t]: the status that it puts t in; column:
\* the status that a status use case is about.
Arg == [op : Ops, on : SUBSET Todos, to : [Todos -> StatusIds \cup {Keep}],
        content : Body, column : StatusIds \cup {Keep}]

ASSUME ConstantsAssumption ==
    /\ NoTodo \notin Todo
    /\ NoArg \notin Arg
    /\ Keep \notin StatusIds \cup Titles \cup Descriptions \cup {NoText, Unset}
    /\ Unset \notin Descriptions \cup {NoText}
    /\ NotIndexed \notin Text /\ Removed \notin Text
    /\ NotIndexed # Removed
    /\ Alone \subseteq Ops
    /\ Faults \in BOOLEAN

VARIABLES
    todos,    \* table todo: todos[t] is a Todo or NoTodo
    statuses, \* table todo_status: statuses[s] is "none", Live or Deleted
    pc,       \* pc[i]: "new", the await that request i is about to make, "done"
    arg,      \* arg[i]: the operation and the body of request i
    held,     \* held[i][t]: the todo entity as request i read it
    indexed   \* indexed[t]: text of the last reindexAsync, or Removed

vars == <<todos, statuses, pc, arg, held, indexed>>

\* The awaits of the use cases of todos, and of those of statuses.
Awaits == {"check", "read", "save", "sync", "index",
           "readStatus", "saveStatus", "countTodos", "dropStatus"}

TypeOK ==
    /\ todos \in [Todos -> Todo \cup {NoTodo}]
    /\ statuses \in [StatusIds -> {"none", Live, Deleted}]
    /\ pc \in [Requests -> {"new", "done"} \cup Awaits]
    /\ arg \in [Requests -> Arg \cup {NoArg}]
    /\ held \in [Requests -> [Todos -> Todo \cup {NoTodo}]]
    /\ indexed \in [Todos -> Text \cup {NotIndexed, Removed}]

Init ==
    /\ todos = [t \in Todos |-> NoTodo]
    /\ statuses = [s \in StatusIds |-> "none"]
    /\ pc = [i \in Requests |-> "new"]
    /\ arg = [i \in Requests |-> NoArg]
    /\ held = [i \in Requests |-> [t \in Todos |-> NoTodo]]
    /\ indexed = [t \in Todos |-> NotIndexed]

-----------------------------------------------------------------------------
\* A row that queries find: they leave soft-deleted rows out.
IsLive(t) == todos[t] # NoTodo /\ ~ todos[t].deleted

\* status.todos: also the archived ones.
TodosIn(s) == {t \in Todos : IsLive(t) /\ todos[t].status = s}

\* Mutant of InFlight: a request is answered before it syncs and indexes.
InFlightUntilSaved ==
    {i \in Requests : pc[i] \in Awaits \ {"sync", "index"}}

\* Requests that are not answered yet: they wait for one of their calls.
InFlight == {i \in Requests : pc[i] \in Awaits}

(***************************************************************************)
(* The assumption a run makes on the arrival of requests.  Nothing in the  *)
(* code makes requests wait, which is Alone = {}; other values say how     *)
(* much waiting a guarantee needs.  An operation in Alone does not overlap *)
(* with a request on the same todo, and the deletion of a status with no   *)
(* request at all.                                                         *)
(***************************************************************************)
Admitted(op, on) ==
    \A i \in InFlight :
        /\ "deleteStatus" \in Alone => "deleteStatus" \notin {op, arg[i].op}
        /\ on \cap arg[i].on # {} => {op, arg[i].op} \cap Alone = {}

Nowhere == [t \in Todos |-> Keep]
SameText == [title |-> Keep, description |-> Keep]

Start(i, where, op, on, to, content, column) ==
    /\ pc[i] = "new"
    /\ Admitted(op, on)
    /\ pc' = [pc EXCEPT ![i] = where]
    /\ arg' = [arg EXCEPT ![i] = [op |-> op, on |-> on, to |-> to,
                                  content |-> content, column |-> column]]
    /\ UNCHANGED <<todos, statuses, held, indexed>>

Advance(i, where) ==
    /\ pc' = [pc EXCEPT ![i] = where]
    /\ UNCHANGED arg

\* CreateTodoUseCase; t is the uuid that the insert will generate.
StartCreate(i) ==
    \E t \in Todos, s \in StatusIds, c \in Content :
        /\ todos[t] = NoTodo
        /\ \A j \in Requests : pc[j] # "new" => t \notin arg[j].on
        /\ Start(i, "check", "create", {t}, [Nowhere EXCEPT ![t] = s], c, Keep)

\* UpdateTodoUseCase: a body of PATCH may leave out the status, the title and the
\* description.  The tool updateTask gives no status, and a description that
\* the model leaves out, as undefined.
StartUpdate(i) ==
    \E t \in Todos, s \in StatusIds \cup {Keep}, c \in Body :
        /\ todos[t] # NoTodo
        /\ c.description = Unset => s = Keep
        /\ Start(i, "read", "update", {t}, [Nowhere EXCEPT ![t] = s], c, Keep)

\* ArchiveTodoUseCase, DeleteTodoUseCase and LinkJiraIssueUseCase.
StartOnTodo(i) ==
    \E t \in Todos, op \in {"archive", "unarchive", "delete", "link"} :
        /\ todos[t] # NoTodo
        /\ Start(i, "read", op, {t}, Nowhere, SameText, Keep)

\* ReorderTodosUseCase: columns of todos, each todo once.
StartReorder(i) ==
    \E to \in [Todos -> StatusIds \cup {Keep}] :
        LET on == {t \in Todos : to[t] # Keep} IN
        /\ \A t \in on : todos[t] # NoTodo
        /\ Start(i, "check", "reorder", on, to, SameText, Keep)

\* UpdateTodoStatusUseCase and DeleteTodoStatusUseCase.
StartOnStatus(i) ==
    \E s \in StatusIds :
        \/ Start(i, "readStatus", "updateStatus", {}, Nowhere, SameText, s)
        \/ Start(i, "countTodos", "deleteStatus", {}, Nowhere, SameText, s)

-----------------------------------------------------------------------------
(* Use cases of todos. *)

Op(i) == arg[i].op
On(i) == arg[i].on
To(i, t) == arg[i].to[t]

\* The statuses that the request puts todos in.
Targets(i) == {To(i, t) : t \in On(i)} \ {Keep}

\* statusChanged of UpdateTodoUseCase, given the entity that it read.
StatusChanged(i, entity) ==
    /\ Op(i) = "update"
    /\ \A t \in On(i) : To(i, t) \notin {Keep, entity[t].status}

\* findOwnedInProject for each status: a deleted one is refused.  A reorder of
\* several columns awaits one call each; here they are one step, which nothing
\* that is checked tells apart: deletions of statuses either run alone or are
\* not what the property is about.
Check(i) ==
    /\ pc[i] = "check"
    /\ IF \A s \in Targets(i) : statuses[s] = Live
       THEN Advance(i, IF Op(i) = "reorder" THEN "read" ELSE "save")
       ELSE Advance(i, "done")
    /\ UNCHANGED <<todos, statuses, held, indexed>>

\* findOwnedWithStatus, findOwnedById and findOwnedByIds.
Read(i) ==
    /\ pc[i] = "read"
    /\ \/ /\ \E t \in On(i) : ~ IsLive(t)
          /\ Advance(i, "done")
          /\ UNCHANGED held
       \/ /\ \A t \in On(i) : IsLive(t)
          /\ held' = [held EXCEPT ![i] =
                [t \in Todos |-> IF t \in On(i) THEN todos[t] ELSE NoTodo]]
          /\ Advance(i, IF StatusChanged(i, todos) THEN "check" ELSE "save")
    /\ UNCHANGED <<todos, statuses, indexed>>

Given(field, kept) == IF field = Keep THEN kept ELSE field

\* Object.assign(todo, data): undefined is assigned like any other value.
Assigned(given, kept) ==
    [title |-> Given(given.title, kept.title),
     description |-> Given(given.description, kept.description)]

\* The entity that the request saves.
Edited(i, t) ==
    LET h == held[i][t] IN
    CASE Op(i) = "create" ->
            [status |-> To(i, t), content |-> arg[i].content,
             archived |-> FALSE, deleted |-> FALSE]
      [] Op(i) \in {"update", "reorder"} ->
            [h EXCEPT !.status = Given(To(i, t), @),
                      !.content = Assigned(arg[i].content, @)]
      [] Op(i) = "archive" -> [h EXCEPT !.archived = TRUE]
      [] Op(i) = "unarchive" -> [h EXCEPT !.archived = FALSE]
      [] OTHER -> h

\* Mutant of Stored: undefined is written over the column.
StoredUndefined(text, kept) == text

\* TypeORM leaves a column alone that the entity has as undefined.
Stored(text, kept) ==
    IF text.description = Unset
    THEN [text EXCEPT !.description = kept.description]
    ELSE text

\* What the rows are after the save.
Saved(i) ==
    [t \in Todos |->
        IF t \notin On(i) THEN todos[t]
        ELSE IF Op(i) = "create" THEN Edited(i, t)
        ELSE [Edited(i, t) EXCEPT !.content = Stored(@, todos[t].content)]]

\* todoRepository.save and saveMany, each one transaction.
Save(i) ==
    /\ pc[i] = "save"
    /\ Op(i) # "delete"
    /\ todos' = Saved(i)
    /\ Advance(i, CASE Op(i) \in {"link", "reorder"} -> "done"
                    [] StatusChanged(i, held[i]) -> "sync"
                    [] OTHER -> "index")
    /\ UNCHANGED <<statuses, held, indexed>>

\* todoRepository.softDelete: the row as it is, with deleted_at set.
SoftDelete(i) ==
    /\ pc[i] = "save"
    /\ Op(i) = "delete"
    /\ todos' = [t \in Todos |-> IF t \in On(i)
                                 THEN [todos[t] EXCEPT !.deleted = TRUE]
                                 ELSE todos[t]]
    /\ Advance(i, "index")
    /\ UNCHANGED <<statuses, held, indexed>>

\* syncStatusAfterLocalMove: whether Jira answers or fails, and for a todo
\* without an issue too, the entity is saved again.
Sync(i) ==
    /\ pc[i] = "sync"
    /\ todos' = Saved(i)
    /\ Advance(i, "index")
    /\ UNCHANGED <<statuses, held, indexed>>

\* Mutant of Index: an unarchived todo is not indexed again.
IndexNotUnarchived(i) ==
    /\ pc[i] = "index"
    /\ indexed' = [t \in Todos |->
          CASE t \notin On(i) \/ Op(i) = "unarchive" -> indexed[t]
            [] t \in On(i) /\ Op(i) \in {"archive", "delete"} -> Removed
            [] OTHER -> Edited(i, t).content]
    /\ Advance(i, "done")
    /\ UNCHANGED <<todos, statuses, held>>

\* reindexAsync with the saved entity, whose description is undefined if updateTask
\* left it out, or removeIndexAsync.
Index(i) ==
    /\ pc[i] = "index"
    /\ indexed' = [t \in Todos |->
          CASE t \notin On(i) -> indexed[t]
            [] t \in On(i) /\ Op(i) \in {"archive", "delete"} -> Removed
            [] OTHER -> Edited(i, t).content]
    /\ Advance(i, "done")
    /\ UNCHANGED <<todos, statuses, held>>

-----------------------------------------------------------------------------
(* Use cases of statuses. *)

\* CreateTodoStatusUseCase: one insert under a new uuid.
CreateStatus ==
    \E s \in StatusIds :
        /\ statuses[s] = "none"
        /\ statuses' = [statuses EXCEPT ![s] = Live]
        /\ UNCHANGED <<todos, pc, arg, held, indexed>>

\* UpdateTodoStatusUseCase: findOwnedById ...
ReadStatus(i) ==
    /\ pc[i] = "readStatus"
    /\ Advance(i, IF statuses[arg[i].column] = Live THEN "saveStatus"
                                                    ELSE "done")
    /\ UNCHANGED <<todos, statuses, held, indexed>>

\* ... and save, which clears deleted_at if the status was deleted since.
SaveStatus(i) ==
    /\ pc[i] = "saveStatus"
    /\ statuses' = [statuses EXCEPT ![arg[i].column] = Live]
    /\ Advance(i, "done")
    /\ UNCHANGED <<todos, held, indexed>>

\* Mutant of CountTodos: the archived todos are not counted.
CountActiveTodos(i) ==
    /\ pc[i] = "countTodos"
    /\ Advance(i, IF /\ statuses[arg[i].column] = Live
                     /\ \A t \in TodosIn(arg[i].column) : todos[t].archived
                  THEN "dropStatus" ELSE "done")
    /\ UNCHANGED <<todos, statuses, held, indexed>>

\* DeleteTodoStatusUseCase: findOwnedWithTodos and the test of status.todos ...
CountTodos(i) ==
    /\ pc[i] = "countTodos"
    /\ Advance(i, IF /\ statuses[arg[i].column] = Live
                     /\ TodosIn(arg[i].column) = {}
                  THEN "dropStatus" ELSE "done")
    /\ UNCHANGED <<todos, statuses, held, indexed>>

\* ... and softDelete.
DropStatus(i) ==
    /\ pc[i] = "dropStatus"
    /\ statuses' = [statuses EXCEPT ![arg[i].column] = Deleted]
    /\ Advance(i, "done")
    /\ UNCHANGED <<todos, held, indexed>>

\* A call of the request rejects or the process dies: the request ends, and
\* what it saved stays.  A save also rejects when an attachment was added to
\* the todo since it was read (TypeORM would detach it, todo_id is NOT NULL).
Abort(i) ==
    /\ Faults
    /\ pc[i] \in Awaits
    /\ Advance(i, "done")
    /\ UNCHANGED <<todos, statuses, held, indexed>>

-----------------------------------------------------------------------------
Arrive(i) ==
    \/ StartCreate(i) \/ StartUpdate(i) \/ StartOnTodo(i) \/ StartReorder(i)
    \/ StartOnStatus(i)

TodoStep(i) ==
    \/ Check(i) \/ Read(i) \/ Save(i) \/ SoftDelete(i) \/ Sync(i) \/ Index(i)

StatusStep(i) ==
    \/ ReadStatus(i) \/ SaveStatus(i) \/ CountTodos(i) \/ DropStatus(i)

Next ==
    \/ \E i \in Requests : Arrive(i) \/ TodoStep(i) \/ StatusStep(i) \/ Abort(i)
    \/ CreateStatus

Spec == Init /\ [][Next]_vars

-----------------------------------------------------------------------------
(* Properties. *)

\* If only the deletions of statuses run alone, a todo that is not deleted has
\* a status that is not deleted, however the stale saves of other requests
\* overlap, bring deleted todos back and move todos back: a board shows every
\* todo in a column.
LiveTodoHasLiveStatus ==
    \A t \in Todos : IsLive(t) => statuses[todos[t].status] = Live

\* If only the deletion of a todo runs alone on it, a deleted todo stays deleted:
\* no use case saves an entity that it read before the deletion, at once or
\* after Jira answered.
DeletedStaysDeleted ==
    [][\A t \in Todos :
          todos[t] # NoTodo /\ todos[t].deleted => ~ IsLive(t)']_vars

\* The text is the content, or the description was left out of it.
Tells(text, content) ==
    text \in [title : {content.title}, description : {content.description, Unset}]

\* If the operations that edit, archive or delete a todo run alone on it and no
\* call fails, the index is asked for what the todo has come to: the text of a
\* todo on the board, nothing of a deleted one.  Unarchiving, linking an issue
\* and reordering may overlap, although they save the whole entity too.
\* Two exceptions: the tool updateTask hands the entity over without the
\* description that the row keeps, and the index is then asked for the title
\* alone, until the next use case that indexes; and an update of an archived
\* todo indexes it, so nothing is said of archived ones.
IndexFollowsTodo ==
    \A t \in Todos :
        todos[t] # NoTodo /\ (\A i \in InFlight : t \notin On(i)) =>
            /\ todos[t].deleted => indexed[t] = Removed
            /\ ~ todos[t].deleted /\ ~ todos[t].archived =>
                    Tells(indexed[t], todos[t].content)

\* error-code.constant.ts:16 says of a status with todos
\* "has_todos_cannot_delete": no deletion of a status that has todos.
StatusWithTodosIsKept ==
    [][\A s \in StatusIds :
          statuses[s] = Live /\ statuses'[s] = Deleted => TodosIn(s) = {}]_vars
=============================================================================
