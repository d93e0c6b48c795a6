------------------------ MODULE TodoLifecycle_proofs ------------------------
(***************************************************************************)
(* Theorems about TodoLifecycle, for any number of requests, todos,        *)
(* statuses, titles and descriptions.                                      *)
(***************************************************************************)
EXTENDS MCTodoLifecycle, TLAPS

-----------------------------------------------------------------------------
(***************************************************************************)
(* Type correctness, strengthened by what a request is and has read at     *)
(* each of its awaits.                                                     *)
(***************************************************************************)
TodoOps == {"create", "update", "archive", "unarchive", "delete", "link",
            "reorder"}

TodoAwaits == {"check", "read", "save", "sync", "index"}

\* The request holds the entities of its todos, as it read them.
HasRead(i) ==
    /\ \/ pc[i] \in {"save", "sync", "index"}
       \/ pc[i] = "check" /\ Op(i) = "update"
    /\ Op(i) # "create"

Shape ==
    /\ \A i \in Requests : pc[i] # "new" => arg[i] \in Arg
    /\ \A i \in Requests : pc[i] \in TodoAwaits => Op(i) \in TodoOps
    /\ \A i \in Requests : pc[i] = "check" =>
          Op(i) \in {"create", "update", "reorder"}
    /\ \A i \in Requests : pc[i] = "read" => Op(i) # "create"
    /\ \A i \in Requests : pc[i] \in {"readStatus", "saveStatus"} =>
          Op(i) = "updateStatus" /\ arg[i].column \in StatusIds
    /\ \A i \in Requests : pc[i] \in {"countTodos", "dropStatus"} =>
          Op(i) = "deleteStatus" /\ arg[i].column \in StatusIds
    /\ \A i \in Requests : pc[i] # "new" /\ Op(i) = "create" =>
          /\ arg[i].content \in Content
          /\ \A t \in On(i) : To(i, t) \in StatusIds
    /\ \A i \in Requests : pc[i] # "new" /\ Op(i) # "create" =>
          \A t \in On(i) : todos[t] # NoTodo
    /\ \A i \in Requests : pc[i] # "new" /\ Op(i) # "reorder" =>
          \A t, u \in On(i) : t = u
    /\ \A i \in Requests : HasRead(i) => \A t \in On(i) : held[i][t] \in Todo

TInv == TypeOK /\ Shape

LEMMA NoTodoNotTodo == NoTodo \notin Todo /\ NoArg \notin Arg
BY ConstantsAssumption

LEMMA InitTInv == Init => TInv
BY ConstantsAssumption DEF Init, TInv, TypeOK, Shape, Awaits, TodoAwaits, HasRead

\* What the arrival of a request establishes.
LEMMA ArriveFacts ==
    ASSUME NEW i \in Requests, Arrive(i)
    PROVE  /\ pc[i] = "new"
           /\ \E where \in Awaits, a \in Arg :
                /\ Admitted(a.op, a.on)
                /\ pc' = [pc EXCEPT ![i] = where]
                /\ arg' = [arg EXCEPT ![i] = a]
                /\ \/ where = "check" /\ a.op \in {"create", "reorder"}
                   \/ /\ where = "read"
                      /\ a.op \in {"update", "archive", "unarchive", "delete",
                                   "link"}
                   \/ /\ where = "readStatus" /\ a.op = "updateStatus"
                      /\ a.column \in StatusIds /\ a.on = {}
                   \/ /\ where = "countTodos" /\ a.op = "deleteStatus"
                      /\ a.column \in StatusIds /\ a.on = {}
                /\ a.op = "create" =>
                      /\ a.content \in Content
                      /\ \A t \in a.on :
                            /\ a.to[t] \in StatusIds
                            /\ todos[t] = NoTodo
                            /\ \A j \in Requests :
                                  pc[j] # "new" => t \notin arg[j].on
                /\ a.op # "create" => \A t \in a.on : todos[t] # NoTodo
                /\ a.op # "reorder" => \A t, u \in a.on : t = u
           /\ UNCHANGED <<todos, statuses, held, indexed>>
<1> DEFINE A(op, on, to, content, column) ==
        [op |-> op, on |-> on, to |-> to, content |-> content,
         column |-> column]
<1>1. Nowhere \in [Todos -> StatusIds \cup {Keep}]
  BY DEF Nowhere
<1>2. \A t \in Todos, s \in StatusIds \cup {Keep} :
        /\ [Nowhere EXCEPT ![t] = s] \in [Todos -> StatusIds \cup {Keep}]
        /\ [Nowhere EXCEPT ![t] = s][t] = s
  BY DEF Nowhere
<1>0. SameText \in Body /\ Content \subseteq Body
  BY DEF SameText, Body, Content
<1>3. CASE StartCreate(i)
  <2>1. PICK t \in Todos, s \in StatusIds, c \in Content :
          /\ todos[t] = NoTodo
          /\ \A j \in Requests : pc[j] # "new" => t \notin arg[j].on
          /\ Start(i, "check", "create", {t}, [Nowhere EXCEPT ![t] = s], c,
                   Keep)
    BY <1>3 DEF StartCreate
  <2> DEFINE a == A("create", {t}, [Nowhere EXCEPT ![t] = s], c, Keep)
  <2>2. a \in Arg
    BY <1>0, <1>2 DEF Arg, Ops
  <2>3. /\ a.op = "create" /\ a.on = {t} /\ a.content = c
        /\ a.to[t] \in StatusIds
    BY <1>2
  <2>4. /\ pc[i] = "new" /\ Admitted(a.op, a.on)
        /\ pc' = [pc EXCEPT ![i] = "check"]
        /\ arg' = [arg EXCEPT ![i] = a]
        /\ UNCHANGED <<todos, statuses, held, indexed>>
    BY <2>1 DEF Start
  <2> HIDE DEF a
  <2>5. QED
    BY <2>1, <2>2, <2>3, <2>4 DEF Awaits
<1>4. CASE StartUpdate(i)
  <2>1. PICK t \in Todos, s \in StatusIds \cup {Keep},
             c \in Body :
          /\ todos[t] # NoTodo
          /\ Start(i, "read", "update", {t}, [Nowhere EXCEPT ![t] = s], c,
                   Keep)
    BY <1>4 DEF StartUpdate
  <2> DEFINE a == A("update", {t}, [Nowhere EXCEPT ![t] = s], c, Keep)
  <2>2. a \in Arg
    BY <1>2 DEF Arg, Ops
  <2>3. a.op = "update" /\ a.on = {t}
    OBVIOUS
  <2>4. /\ pc[i] = "new" /\ Admitted(a.op, a.on)
        /\ pc' = [pc EXCEPT ![i] = "read"]
        /\ arg' = [arg EXCEPT ![i] = a]
        /\ UNCHANGED <<todos, statuses, held, indexed>>
    BY <2>1 DEF Start
  <2> HIDE DEF a
  <2>5. QED
    BY <2>1, <2>2, <2>3, <2>4 DEF Awaits
<1>5. CASE StartOnTodo(i)
  <2>1. PICK t \in Todos, op \in {"archive", "unarchive", "delete", "link"} :
          /\ todos[t] # NoTodo
          /\ Start(i, "read", op, {t}, Nowhere, SameText, Keep)
    BY <1>5 DEF StartOnTodo
  <2>2. A(op, {t}, Nowhere, SameText, Keep) \in Arg
    BY <1>0, <1>1 DEF Arg, Ops
  <2>3. QED
    BY <2>1, <2>2 DEF Start, Awaits
<1>6. CASE StartReorder(i)
  <2>1. PICK to \in [Todos -> StatusIds \cup {Keep}] :
          /\ \A t \in {u \in Todos : to[u] # Keep} : todos[t] # NoTodo
          /\ Start(i, "check", "reorder", {u \in Todos : to[u] # Keep}, to,
                   SameText, Keep)
    BY <1>6 DEF StartReorder
  <2>2. A("reorder", {u \in Todos : to[u] # Keep}, to, SameText, Keep) \in Arg
    BY <1>0 DEF Arg, Ops
  <2>3. QED
    BY <2>1, <2>2 DEF Start, Awaits
<1>7. CASE StartOnStatus(i)
  <2>1. PICK s \in StatusIds :
          \/ Start(i, "readStatus", "updateStatus", {}, Nowhere, SameText, s)
          \/ Start(i, "countTodos", "deleteStatus", {}, Nowhere, SameText, s)
    BY <1>7 DEF StartOnStatus
  <2>2. /\ A("updateStatus", {}, Nowhere, SameText, s) \in Arg
        /\ A("deleteStatus", {}, Nowhere, SameText, s) \in Arg
    BY <1>0, <1>1 DEF Arg, Ops
  <2>3. QED
    BY <2>1, <2>2 DEF Start, Awaits
<1>8. QED
  BY <1>3, <1>4, <1>5, <1>6, <1>7 DEF Arrive

LEMMA ArriveTInv ==
    ASSUME TInv, NEW i \in Requests, Arrive(i)
    PROVE  TInv'
<1>a. PICK where \in Awaits, a \in Arg :
        /\ pc' = [pc EXCEPT ![i] = where]
        /\ arg' = [arg EXCEPT ![i] = a]
        /\ \/ where = "check" /\ a.op \in {"create", "reorder"}
           \/ /\ where = "read"
              /\ a.op \in {"update", "archive", "unarchive", "delete", "link"}
           \/ /\ where = "readStatus" /\ a.op = "updateStatus"
              /\ a.column \in StatusIds
           \/ /\ where = "countTodos" /\ a.op = "deleteStatus"
              /\ a.column \in StatusIds
        /\ a.op = "create" =>
              a.content \in Content /\ \A t \in a.on : a.to[t] \in StatusIds
        /\ a.op # "create" => \A t \in a.on : todos[t] # NoTodo
        /\ a.op # "reorder" => \A t, u \in a.on : t = u
  BY ArriveFacts
<1>1. /\ where \in TodoAwaits => a.op \in TodoOps
      /\ where \in {"readStatus", "saveStatus"} =>
            a.op = "updateStatus" /\ a.column \in StatusIds
      /\ where \in {"countTodos", "dropStatus"} =>
            a.op = "deleteStatus" /\ a.column \in StatusIds
      /\ where \notin {"save", "sync", "index"}
      /\ where = "check" => a.op \in {"create", "reorder"}
      /\ where = "read" => a.op # "create"
  BY <1>a DEF Awaits, TodoAwaits, TodoOps
<1>2. UNCHANGED <<todos, statuses, held, indexed>>
  BY ArriveFacts
<1>3. TypeOK'
  BY <1>a, <1>2 DEF TInv, TypeOK
<1>4. Shape'
  <2>1. ASSUME NEW j \in Requests, j # i
        PROVE  pc'[j] = pc[j] /\ arg'[j] = arg[j]
    BY <1>a, <2>1 DEF TInv, TypeOK
  <2>2. pc'[i] = where /\ arg'[i] = a
    BY <1>a DEF TInv, TypeOK
  <2>3. QED
    BY <1>a, <1>1, <1>2, <2>1, <2>2 DEF TInv, Shape, HasRead, Op, On, To
<1>5. QED
  BY <1>3, <1>4 DEF TInv

\* What a request saves: a row, but for a description that may be undefined.
TodoEntity == [status : StatusIds, content : Text,
               archived : BOOLEAN, deleted : BOOLEAN]

LEMMA ContentIsText ==
    /\ Content \subseteq Text
    /\ \A text \in Text : text \notin Content => text.description = Unset
    /\ \A text \in Content : text.description # Unset
BY ConstantsAssumption DEF Content, Text

LEMMA AssignedType ==
    ASSUME NEW given \in Body, NEW kept \in Content
    PROVE  Assigned(given, kept) \in Text
<1>1. /\ given.title \in Titles \cup {Keep}
      /\ given.description \in Descriptions \cup {NoText, Keep, Unset}
      /\ kept.title \in Titles
      /\ kept.description \in Descriptions \cup {NoText}
  BY DEF Body, Content
<1>2. /\ Given(given.title, kept.title) \in Titles
      /\ Given(given.description, kept.description) \in Descriptions \cup {NoText, Unset}
  BY <1>1 DEF Given
<1>3. QED
  BY <1>2 DEF Assigned, Text

LEMMA EditedType ==
    ASSUME TInv, NEW i \in Requests, pc[i] \in {"save", "sync", "index"},
           NEW t \in On(i)
    PROVE  /\ Edited(i, t) \in TodoEntity
           /\ Op(i) = "create" => Edited(i, t) \in Todo
<1>1. /\ arg[i] \in Arg
      /\ t \in Todos
      /\ To(i, t) \in StatusIds \cup {Keep}
      /\ arg[i].content \in Body
  BY DEF TInv, Shape, Arg, To, On
<1>2. CASE Op(i) = "create"
  <2>1. Edited(i, t) \in Todo
    BY <1>1, <1>2 DEF TInv, Shape, Edited, Todo
  <2>2. QED
    BY <2>1, ContentIsText DEF Todo, TodoEntity
<1>3. CASE Op(i) # "create"
  <2>1. held[i][t] \in Todo
    BY <1>3 DEF TInv, Shape, HasRead
  <2>2. CASE Op(i) \in {"update", "reorder"}
    <3>1. /\ Given(To(i, t), held[i][t].status) \in StatusIds
          /\ Assigned(arg[i].content, held[i][t].content) \in Text
      BY <1>1, <2>1, AssignedType DEF Given, Todo
    <3>2. Edited(i, t) = [held[i][t] EXCEPT
              !.status = Given(To(i, t), held[i][t].status),
              !.content = Assigned(arg[i].content, held[i][t].content)]
      BY <2>1, <2>2 DEF Edited, Todo
    <3>3. QED
      BY <1>3, <2>1, <3>1, <3>2 DEF Todo, TodoEntity
  <2>3. CASE Op(i) \notin {"update", "reorder"}
    <3>1. Edited(i, t) \in Todo
      BY <1>3, <2>1, <2>3 DEF Edited, Todo
    <3>2. QED
      BY <1>3, <3>1, ContentIsText DEF Todo, TodoEntity
  <2>4. QED
    BY <2>2, <2>3
<1>4. QED
  BY <1>2, <1>3

\* What a column of text holds after a save.
LEMMA StoredType ==
    ASSUME NEW text \in Text, NEW kept \in Content
    PROVE  /\ Stored(text, kept) \in Content
           /\ Tells(text, Stored(text, kept))
           /\ text \in Content => Stored(text, kept) = text
<1>1. /\ text.title \in Titles /\ text.description \in Descriptions \cup {NoText, Unset}
      /\ kept.title \in Titles /\ kept.description \in Descriptions \cup {NoText}
      /\ text = [title |-> text.title, description |-> text.description]
  BY DEF Text, Content
<1>2. CASE text.description = Unset
  <2>1. Stored(text, kept) = [title |-> text.title, description |-> kept.description]
    BY <1>1, <1>2 DEF Stored
  <2>2. Stored(text, kept) \in Content
    BY <1>1, <2>1 DEF Content
  <2>3. Tells(text, Stored(text, kept))
    BY <1>1, <1>2, <2>1 DEF Tells
  <2>4. QED
    BY <1>2, <2>2, <2>3, ContentIsText
<1>3. CASE text.description # Unset
  <2>1. Stored(text, kept) = text
    BY <1>3 DEF Stored
  <2>2. text \in Content
    BY <1>3, ContentIsText
  <2>3. Tells(text, text)
    BY <1>1 DEF Tells
  <2>4. QED
    BY <2>1, <2>2, <2>3
<1>4. QED
  BY <1>2, <1>3

\* The row after a save is the entity that was saved, but for a description that
\* the entity has as undefined.
SavedAs(row, entity) ==
    /\ row \in Todo
    /\ row.status = entity.status /\ row.archived = entity.archived
    /\ row.deleted = entity.deleted
    /\ Tells(entity.content, row.content)
    /\ entity.content \in Content => row.content = entity.content

LEMMA SavedType ==
    ASSUME TInv, NEW i \in Requests, pc[i] \in {"save", "sync"}
    PROVE  /\ Saved(i) \in [Todos -> Todo \cup {NoTodo}]
           /\ \A t \in Todos : todos[t] # NoTodo => Saved(i)[t] # NoTodo
           /\ \A t \in Todos : t \in On(i) => SavedAs(Saved(i)[t], Edited(i, t))
           /\ \A t \in Todos : t \notin On(i) => Saved(i)[t] = todos[t]
<1>1. ASSUME NEW t \in Todos, t \in On(i)
      PROVE  SavedAs(Saved(i)[t], Edited(i, t))
  <2>1. Edited(i, t) \in TodoEntity
    BY <1>1, EditedType
  <2>2. CASE Op(i) = "create"
    <3>1. Saved(i)[t] = Edited(i, t) /\ Edited(i, t) \in Todo
      BY <1>1, <2>2, EditedType DEF Saved
    <3>2. Edited(i, t).content \in Content
      BY <3>1 DEF Todo
    <3>3. Tells(Edited(i, t).content, Edited(i, t).content)
      BY <3>2 DEF Tells, Content
    <3>4. QED
      BY <3>1, <3>3 DEF SavedAs
  <2>3. CASE Op(i) # "create"
    <3> DEFINE e == Edited(i, t)
               c == Stored(e.content, todos[t].content)
    <3>1. todos[t] \in Todo
      BY <1>1, <2>3 DEF TInv, TypeOK, Shape
    <3>2. e.content \in Text /\ todos[t].content \in Content
      BY <2>1, <3>1 DEF TodoEntity, Todo
    <3>3. /\ c \in Content /\ Tells(e.content, c)
          /\ e.content \in Content => c = e.content
      BY <3>2, StoredType
    <3>4. Saved(i)[t] = [e EXCEPT !.content = c]
      BY <1>1, <2>1, <2>3 DEF Saved, TodoEntity
    <3>5. Saved(i)[t] = [status |-> e.status, content |-> c,
                         archived |-> e.archived, deleted |-> e.deleted]
      BY <2>1, <3>4 DEF TodoEntity
    <3> HIDE DEF c
    <3>6. Saved(i)[t] \in Todo
      BY <2>1, <3>3, <3>5 DEF Todo, TodoEntity
    <3>7. QED
      BY <3>3, <3>5, <3>6 DEF SavedAs
  <2>4. QED
    BY <2>2, <2>3
<1>2. ASSUME NEW t \in Todos, t \notin On(i)
      PROVE  Saved(i)[t] = todos[t]
  BY <1>2 DEF Saved
<1>3. Saved(i) = [t \in Todos |-> Saved(i)[t]]
  BY DEF Saved
<1>4. QED
  BY <1>1, <1>2, <1>3, NoTodoNotTodo DEF TInv, TypeOK, SavedAs

\* What a step of a request must keep for the next await to have its shape.
LEMMA ProgressTInv ==
    ASSUME TInv, TypeOK', NEW i \in Requests, pc[i] \in Awaits,
           pc' = [pc EXCEPT ![i] = pc'[i]], arg' = arg,
           pc'[i] \in Awaits \cup {"done"},
           \A t \in Todos : todos[t] # NoTodo => todos'[t] # NoTodo,
           \A j \in Requests : j # i => held'[j] = held[j],
           pc'[i] \in TodoAwaits => pc[i] \in TodoAwaits,
           pc'[i] = "check" => Op(i) = "update",
           pc'[i] = "read" => Op(i) # "create",
           pc'[i] \notin {"readStatus", "countTodos"},
           pc'[i] = "saveStatus" => pc[i] = "readStatus",
           pc'[i] = "dropStatus" => pc[i] = "countTodos",
           HasRead(i)' => \A t \in On(i) : held'[i][t] \in Todo
    PROVE  TInv'
<1>1. ASSUME NEW j \in Requests, j # i
      PROVE  pc'[j] = pc[j] /\ (HasRead(j)' <=> HasRead(j))
  BY <1>1 DEF TInv, TypeOK, HasRead, Op
<1>2. \A j \in Requests : pc[j] # "new" => On(j) \subseteq Todos
  BY DEF TInv, Shape, Arg, On
<1>3. \A j \in Requests : pc'[j] # "new" => pc[j] # "new"
  BY <1>1 DEF Awaits
<1>4. /\ \A j \in Requests : pc'[j] # "new" => arg'[j] \in Arg
      /\ \A j \in Requests : pc'[j] # "new" /\ Op(j)' = "create" =>
            /\ arg'[j].content \in Content
            /\ \A t \in On(j)' : To(j, t)' \in StatusIds
      /\ \A j \in Requests : pc'[j] # "new" /\ Op(j)' # "create" =>
            \A t \in On(j)' : todos'[t] # NoTodo
      /\ \A j \in Requests : pc'[j] # "new" /\ Op(j)' # "reorder" =>
            \A t, u \in On(j)' : t = u
  BY <1>2, <1>3 DEF TInv, Shape, Op, On, To
<1>5. /\ \A j \in Requests : pc'[j] \in TodoAwaits => Op(j)' \in TodoOps
      /\ \A j \in Requests : pc'[j] = "check" =>
            Op(j)' \in {"create", "update", "reorder"}
      /\ \A j \in Requests : pc'[j] = "read" => Op(j)' # "create"
      /\ \A j \in Requests : pc'[j] \in {"readStatus", "saveStatus"} =>
            Op(j)' = "updateStatus" /\ arg'[j].column \in StatusIds
      /\ \A j \in Requests : pc'[j] \in {"countTodos", "dropStatus"} =>
            Op(j)' = "deleteStatus" /\ arg'[j].column \in StatusIds
  BY <1>1 DEF TInv, Shape, Op, TodoAwaits
<1>6. \A j \in Requests : HasRead(j)' => \A t \in On(j)' : held'[j][t] \in Todo
  BY <1>1 DEF TInv, Shape, On
<1>7. QED
  BY <1>4, <1>5, <1>6 DEF TInv, Shape

LEMMA TodoTInv ==
    ASSUME TInv, NEW i \in Requests, TodoStep(i)
    PROVE  TInv'
<1> USE DEF TInv, Advance
<1>1. pc[i] \in TodoAwaits /\ pc[i] \in Awaits
  BY DEF TodoStep, TodoAwaits, Awaits, Check, Read, Save, SoftDelete, Sync, Index
<1>2. arg[i] \in Arg /\ On(i) \subseteq Todos
  BY <1>1 DEF Shape, Arg, On, TodoAwaits
<1>3. CASE Check(i)
  <2>1. PICK where \in {"read", "save", "done"} :
          /\ pc' = [pc EXCEPT ![i] = where]
          /\ where = "save" => Op(i) # "reorder"
          /\ where = "read" => Op(i) # "create"
    BY <1>3 DEF Check
  <2>2. UNCHANGED <<todos, statuses, held, indexed, arg>>
    BY <1>3 DEF Check
  <2>3. TypeOK'
    BY <2>1, <2>2 DEF TypeOK, Awaits
  <2>4. pc[i] = "check" /\ pc'[i] = where
    BY <1>3, <2>1 DEF Check, TypeOK
  <2>5. HasRead(i)' => \A t \in On(i) : held'[i][t] \in Todo
    BY <2>1, <2>2, <2>4 DEF Shape, HasRead, Op
  <2>6. QED
    BY <1>1, <2>1, <2>2, <2>3, <2>4, <2>5, ProgressTInv
    DEF Awaits, TodoAwaits
<1>4. CASE Read(i)
  <2>1. PICK where \in {"check", "save", "done"} :
          /\ pc' = [pc EXCEPT ![i] = where]
          /\ where = "check" => Op(i) = "update"
          /\ \/ where = "done" /\ held' = held
             \/ /\ \A t \in On(i) : IsLive(t)
                /\ held' = [held EXCEPT ![i] =
                      [t \in Todos |-> IF t \in On(i) THEN todos[t]
                                                      ELSE NoTodo]]
    BY <1>4 DEF Read, StatusChanged
  <2>2. UNCHANGED <<todos, statuses, indexed, arg>>
    BY <1>4 DEF Read
  <2>3. TypeOK'
    BY <2>1, <2>2 DEF TypeOK, Awaits
  <2>4. pc[i] = "read" /\ pc'[i] = where
    BY <1>4, <2>1 DEF Read, TypeOK
  <2>5. HasRead(i)' => \A t \in On(i) : held'[i][t] \in Todo
    <3>1. SUFFICES ASSUME where # "done", NEW t \in On(i)
                   PROVE  held'[i][t] \in Todo
      BY <2>1, <2>4 DEF HasRead
    <3>2. held'[i][t] = todos[t] /\ todos[t] # NoTodo
      BY <1>2, <2>1, <3>1 DEF TypeOK, IsLive
    <3>3. QED
      BY <1>2, <3>1, <3>2 DEF TypeOK
  <2>6. QED
    BY <1>1, <2>1, <2>2, <2>3, <2>4, <2>5, ProgressTInv
    DEF Awaits, TodoAwaits, TypeOK
<1>5. CASE Save(i)
  <2>1. PICK where \in {"sync", "index", "done"} : pc' = [pc EXCEPT ![i] = where]
    <3>1. (CASE Op(i) \in {"link", "reorder"} -> "done"
             [] StatusChanged(i, held[i]) -> "sync"
             [] OTHER -> "index") \in {"sync", "index", "done"}
      OBVIOUS
    <3>2. QED
      BY <1>5, <3>1 DEF Save
  <2>2. UNCHANGED <<statuses, held, indexed, arg>> /\ todos' = Saved(i)
    BY <1>5 DEF Save
  <2>3. TypeOK'
    BY <1>5, <2>1, <2>2, SavedType DEF Save, TypeOK, Awaits
  <2>4. pc[i] = "save" /\ pc'[i] = where
    BY <1>5, <2>1 DEF Save, TypeOK
  <2>5. HasRead(i)' => \A t \in On(i) : held'[i][t] \in Todo
    BY <2>2, <2>4 DEF Shape, HasRead, Op
  <2>6. QED
    BY <1>1, <2>1, <2>2, <2>3, <2>4, <2>5, SavedType, ProgressTInv
    DEF Awaits, TodoAwaits
<1>6. CASE SoftDelete(i)
  <2>1. /\ pc[i] = "save" /\ Op(i) = "delete"
        /\ pc' = [pc EXCEPT ![i] = "index"] /\ pc'[i] = "index"
        /\ UNCHANGED <<statuses, held, indexed, arg>>
    BY <1>6 DEF SoftDelete, TypeOK
  <2>2. \A t \in On(i) : todos[t] \in Todo
    BY <1>2, <2>1 DEF Shape, TypeOK
  <2>3. \A t \in On(i) : [todos[t] EXCEPT !.deleted = TRUE] \in Todo
    BY <2>2 DEF Todo
  <2>4. /\ todos' \in [Todos -> Todo \cup {NoTodo}]
        /\ \A t \in Todos : todos[t] # NoTodo => todos'[t] # NoTodo
    BY <1>6, <2>3, NoTodoNotTodo DEF SoftDelete, TypeOK
  <2>5. TypeOK'
    BY <2>1, <2>4 DEF TypeOK, Awaits
  <2>6. HasRead(i)' => \A t \in On(i) : held'[i][t] \in Todo
    BY <2>1 DEF Shape, HasRead, Op
  <2>7. QED
    BY <1>1, <2>1, <2>4, <2>5, <2>6, ProgressTInv DEF Awaits, TodoAwaits
<1>7. CASE Sync(i)
  <2>1. /\ pc[i] = "sync" /\ todos' = Saved(i)
        /\ pc' = [pc EXCEPT ![i] = "index"] /\ pc'[i] = "index"
        /\ UNCHANGED <<statuses, held, indexed, arg>>
    BY <1>7 DEF Sync, TypeOK
  <2>2. TypeOK'
    BY <2>1, SavedType DEF TypeOK, Awaits
  <2>3. HasRead(i)' => \A t \in On(i) : held'[i][t] \in Todo
    BY <2>1 DEF Shape, HasRead, Op
  <2>4. QED
    BY <1>1, <2>1, <2>2, <2>3, SavedType, ProgressTInv DEF Awaits, TodoAwaits
<1>8. CASE Index(i)
  <2>1. /\ pc[i] = "index"
        /\ pc' = [pc EXCEPT ![i] = "done"] /\ pc'[i] = "done"
        /\ UNCHANGED <<todos, statuses, held, arg>>
    BY <1>8 DEF Index, TypeOK
  <2>2. \A t \in On(i) : Edited(i, t).content \in Text
    BY <2>1, EditedType DEF TodoEntity
  <2>3. indexed' \in [Todos -> Text \cup {NotIndexed, Removed}]
    BY <1>8, <2>2 DEF Index, TypeOK
  <2>4. TypeOK'
    BY <2>1, <2>3 DEF TypeOK, Awaits
  <2>5. ~ HasRead(i)'
    BY <2>1 DEF HasRead, TypeOK
  <2>6. QED
    BY <1>1, <2>1, <2>4, <2>5, ProgressTInv DEF Awaits, TodoAwaits
<1>9. QED
  BY <1>3, <1>4, <1>5, <1>6, <1>7, <1>8 DEF TodoStep

LEMMA StatusTInv ==
    ASSUME TInv, NEW i \in Requests, StatusStep(i)
    PROVE  TInv'
<1>1. /\ pc' = [pc EXCEPT ![i] = pc'[i]]
      /\ pc'[i] \in {"saveStatus", "dropStatus", "done"}
      /\ pc'[i] = "saveStatus" => pc[i] = "readStatus"
      /\ pc'[i] = "dropStatus" => pc[i] = "countTodos"
  BY DEF StatusStep, ReadStatus, SaveStatus, CountTodos, DropStatus, Advance,
         TInv, TypeOK
<1>2. /\ pc[i] \in {"readStatus", "saveStatus", "countTodos", "dropStatus"}
      /\ UNCHANGED <<todos, held, indexed, arg>>
  BY DEF StatusStep, ReadStatus, SaveStatus, CountTodos, DropStatus, Advance
<1>3. statuses' \in [StatusIds -> {"none", Live, Deleted}]
  BY DEF StatusStep, ReadStatus, SaveStatus, CountTodos, DropStatus, TInv, TypeOK
<1>4. TypeOK'
  BY <1>1, <1>2, <1>3 DEF TInv, TypeOK, Awaits
<1>5. ~ HasRead(i)'
  BY <1>1, <1>2 DEF HasRead, TInv, TypeOK
<1>6. QED
  BY <1>1, <1>2, <1>4, <1>5, ProgressTInv DEF Awaits, TodoAwaits

LEMMA AbortTInv ==
    ASSUME TInv, NEW i \in Requests, Abort(i)
    PROVE  TInv'
<1>1. /\ pc[i] \in Awaits
      /\ pc' = [pc EXCEPT ![i] = "done"] /\ pc'[i] = "done"
      /\ UNCHANGED <<todos, statuses, held, indexed, arg>>
  BY DEF Abort, Advance, TInv, TypeOK
<1>2. TypeOK'
  BY <1>1 DEF TInv, TypeOK
<1>3. ~ HasRead(i)'
  BY <1>1 DEF HasRead, TInv, TypeOK
<1>4. QED
  BY <1>1, <1>2, <1>3, ProgressTInv DEF Awaits, TodoAwaits

LEMMA NextTInv == TInv /\ [Next]_vars => TInv'
<1>1. SUFFICES ASSUME TInv, [Next]_vars PROVE TInv'
  OBVIOUS
<1>2. CASE UNCHANGED vars
  BY <1>1, <1>2 DEF vars, TInv, TypeOK, Shape, HasRead, Op, On, To
<1>3. CASE CreateStatus
  BY <1>1, <1>3 DEF CreateStatus, TInv, TypeOK, Shape, HasRead, Op, On, To
<1>4. QED
  BY <1>1, <1>2, <1>3, ArriveTInv, TodoTInv, StatusTInv, AbortTInv DEF Next

\* Every state is well formed: in particular a save never writes a row from an
\* entity that was not read, nor a field that a body left out.
THEOREM TypeCorrect == Spec => []TypeOK
<1>1. TInv => TypeOK
  BY DEF TInv
<1>2. QED
  BY InitTInv, NextTInv, <1>1, PTL DEF Spec

-----------------------------------------------------------------------------
(***************************************************************************)
(* Columns.  A status can only be deleted when no live todo has it, no     *)
(* request has read a todo that has it and none is about to put a todo in  *)
(* it; the last two because the deletion runs alone.                       *)
(***************************************************************************)

\* The statuses that a request has read in its todos and will write back.
HeldStatusesLive ==
    \A i \in Requests : HasRead(i) /\ pc[i] # "index" =>
        \A t \in On(i) : statuses[held[i][t].status] = Live

\* The statuses that a request has checked, or found to be unchanged.
CheckedTarget(i) ==
    /\ Op(i) \in {"create", "update", "reorder"}
    /\ \/ pc[i] \in {"save", "sync"}
       \/ pc[i] = "read" /\ Op(i) = "reorder"

TargetsLive ==
    \A i \in Requests : CheckedTarget(i) =>
        \A t \in On(i) : To(i, t) # Keep => statuses[To(i, t)] = Live

DeletionAlone ==
    \A i, j \in InFlight : Op(i) = "deleteStatus" => i = j

Counted ==
    \A i \in Requests : pc[i] = "dropStatus" => TodosIn(arg[i].column) = {}

SInv ==
    /\ TInv
    /\ LiveTodoHasLiveStatus
    /\ HeldStatusesLive
    /\ TargetsLive
    /\ DeletionAlone
    /\ Counted

LEMMA InitSInv == Init => SInv
<1>1. SUFFICES ASSUME Init PROVE SInv
  OBVIOUS
<1>2. TInv
  BY <1>1, InitTInv
<1>3. QED
  BY <1>1, <1>2
  DEF Init, SInv, LiveTodoHasLiveStatus, IsLive, HeldStatusesLive, HasRead,
      TargetsLive, CheckedTarget, DeletionAlone, InFlight, Awaits, Counted

LEMMA ArriveSInv ==
    ASSUME SInv, "deleteStatus" \in Alone, NEW i \in Requests, Arrive(i)
    PROVE  SInv'
<1>1. TInv /\ TInv'
  BY ArriveTInv DEF SInv
<1>2. PICK where \in Awaits, a \in Arg :
        /\ Admitted(a.op, a.on)
        /\ pc' = [pc EXCEPT ![i] = where]
        /\ arg' = [arg EXCEPT ![i] = a]
        /\ where \in {"check", "read", "readStatus", "countTodos"}
        /\ where = "check" => a.op # "update"
        /\ where = "read" => a.op # "reorder"
  BY ArriveFacts
<1>3. UNCHANGED <<todos, statuses, held, indexed>> /\ pc[i] = "new"
  BY ArriveFacts
<1>4. /\ pc'[i] = where /\ arg'[i] = a
      /\ \A j \in Requests : j # i => pc'[j] = pc[j] /\ arg'[j] = arg[j]
  BY <1>1, <1>2 DEF TInv, TypeOK
<1>5. LiveTodoHasLiveStatus'
  BY <1>3 DEF SInv, LiveTodoHasLiveStatus, IsLive
<1>6. HeldStatusesLive' /\ TargetsLive'
  BY <1>2, <1>3, <1>4
  DEF SInv, HeldStatusesLive, TargetsLive, CheckedTarget, HasRead, Op, On, To
<1>7. DeletionAlone'
  <2>1. i \notin InFlight /\ InFlight' = InFlight \cup {i}
    BY <1>2, <1>3, <1>4 DEF InFlight, Awaits
  <2>2. \A j \in InFlight : "deleteStatus" \notin {a.op, arg[j].op}
    BY <1>2 DEF Admitted
  <2>3. QED
    BY <1>4, <2>1, <2>2 DEF SInv, DeletionAlone, Op, InFlight
<1>8. Counted'
  BY <1>2, <1>3, <1>4 DEF SInv, Counted, TodosIn, IsLive
<1>9. QED
  BY <1>1, <1>5, <1>6, <1>7, <1>8 DEF SInv

\* A step of one request: what remains to be shown of it.
LEMMA ProgressSInv ==
    ASSUME SInv, TInv', NEW i \in Requests, pc[i] \in Awaits,
           pc' = [pc EXCEPT ![i] = pc'[i]], arg' = arg,
           pc'[i] \in Awaits \cup {"done"},
           \A j \in Requests : j # i => held'[j] = held[j],
           \A s \in StatusIds : statuses[s] = Live => statuses'[s] = Live,
           LiveTodoHasLiveStatus',
           HasRead(i)' /\ pc'[i] # "index" =>
              \A t \in On(i) : statuses'[held'[i][t].status] = Live,
           CheckedTarget(i)' =>
              \A t \in On(i) : To(i, t) # Keep => statuses'[To(i, t)] = Live,
           pc'[i] = "dropStatus" => TodosIn(arg[i].column)' = {}
    PROVE  SInv'
<1>1. ASSUME NEW j \in Requests, j # i
      PROVE  /\ pc'[j] = pc[j]
             /\ HasRead(j)' <=> HasRead(j)
             /\ CheckedTarget(j)' <=> CheckedTarget(j)
  BY <1>1 DEF SInv, TInv, TypeOK, HasRead, CheckedTarget, Op
<1>2. HeldStatusesLive'
  <2>1. \A j \in Requests : HasRead(j) =>
            \A t \in On(j) : held[j][t].status \in StatusIds
    BY DEF SInv, TInv, Shape, Todo
  <2>2. QED
    BY <1>1, <2>1 DEF SInv, HeldStatusesLive, On
<1>3. TargetsLive'
  <2>1. \A j \in Requests : CheckedTarget(j) =>
            \A t \in On(j) : To(j, t) \in StatusIds \cup {Keep}
    BY DEF CheckedTarget, SInv, TInv, Shape, Arg, On, To
  <2>2. QED
    BY <1>1, <2>1 DEF SInv, TargetsLive, On, To
<1>4. InFlight' \subseteq InFlight /\ i \in InFlight
  BY <1>1 DEF InFlight
<1>5. DeletionAlone'
  BY <1>4 DEF SInv, DeletionAlone, Op
<1>6. Counted'
  <2>1. SUFFICES ASSUME NEW j \in Requests, j # i, pc[j] = "dropStatus"
                 PROVE  TodosIn(arg[j].column)' = {}
    BY <1>1 DEF Counted
  <2>2. j \in InFlight /\ Op(j) = "deleteStatus"
    BY <2>1 DEF InFlight, Awaits, SInv, TInv, Shape
  <2>3. QED
    BY <1>4, <2>1, <2>2 DEF SInv, DeletionAlone
<1>7. QED
  BY <1>2, <1>3, <1>5, <1>6 DEF SInv

LEMMA TodoSInv ==
    ASSUME SInv, NEW i \in Requests, TodoStep(i)
    PROVE  SInv'
<1> USE DEF Advance
<1>1. TInv /\ TInv' /\ TypeOK
  BY TodoTInv DEF SInv, TInv
<1>2. pc[i] \in TodoAwaits /\ pc[i] \in Awaits
  BY DEF TodoStep, TodoAwaits, Awaits, Check, Read, Save, SoftDelete, Sync, Index
<1>3. UNCHANGED <<statuses, arg>>
  BY DEF TodoStep, Check, Read, Save, SoftDelete, Sync, Index
<1>4. arg[i] \in Arg /\ On(i) \subseteq Todos
  BY <1>1, <1>2 DEF TInv, Shape, Arg, On, TodoAwaits
<1>5. todos' = todos => LiveTodoHasLiveStatus'
  BY <1>3 DEF SInv, LiveTodoHasLiveStatus, IsLive
<1>6. CASE Check(i)
  <2>1. PICK where \in {"read", "save", "done"} :
          /\ pc' = [pc EXCEPT ![i] = where]
          /\ where = "save" => Op(i) # "reorder"
          /\ where # "done" => \A u \in Targets(i) : statuses[u] = Live
    BY <1>6 DEF Check
  <2>2. pc[i] = "check" /\ pc'[i] = where /\ UNCHANGED <<todos, held>>
    BY <1>1, <1>6, <2>1 DEF Check, TypeOK
  <2>3. \A t \in On(i) : To(i, t) # Keep => To(i, t) \in Targets(i)
    BY DEF Targets
  <2>4. HasRead(i)' /\ pc'[i] # "index" =>
            \A t \in On(i) : statuses'[held'[i][t].status] = Live
    <3>1. SUFFICES ASSUME HasRead(i)'
                   PROVE  HasRead(i)
      BY <1>3, <2>2 DEF SInv, HeldStatusesLive
    <3>2. Op(i) \in {"create", "update", "reorder"}
      BY <1>1, <2>2 DEF TInv, Shape
    <3>3. QED
      BY <1>3, <2>1, <2>2, <3>1, <3>2 DEF HasRead, Op
  <2>5. QED
    BY <1>1, <1>2, <1>3, <1>5, <2>1, <2>2, <2>3, <2>4, ProgressSInv
    DEF Awaits, CheckedTarget, TypeOK
<1>7. CASE Read(i)
  <2>1. PICK where \in {"check", "save", "done"} :
          /\ pc' = [pc EXCEPT ![i] = where]
          /\ where = "save" => ~ StatusChanged(i, todos)
          /\ \/ where = "done" /\ held' = held
             \/ /\ \A t \in On(i) : IsLive(t)
                /\ held' = [held EXCEPT ![i] =
                      [t \in Todos |-> IF t \in On(i) THEN todos[t]
                                                      ELSE NoTodo]]
    BY <1>7 DEF Read
  <2>2. pc[i] = "read" /\ pc'[i] = where /\ UNCHANGED todos
    BY <1>1, <1>7, <2>1 DEF Read, TypeOK
  <2>3. where # "done" =>
            \A t \in On(i) : /\ held'[i][t] = todos[t]
                             /\ statuses[todos[t].status] = Live
    BY <1>1, <1>4, <2>1 DEF TypeOK, SInv, LiveTodoHasLiveStatus
  <2>4. CheckedTarget(i)' =>
            \A t \in On(i) : To(i, t) # Keep => statuses'[To(i, t)] = Live
    <3>1. SUFFICES ASSUME where = "save",
                          Op(i) \in {"create", "update", "reorder"},
                          NEW t \in On(i), To(i, t) # Keep
                   PROVE  statuses[To(i, t)] = Live
      BY <1>3, <2>1, <2>2 DEF CheckedTarget, Op
    <3>2. CASE Op(i) = "reorder"
      BY <2>2, <3>1, <3>2 DEF SInv, TargetsLive, CheckedTarget
    <3>3. CASE Op(i) = "update"
      <4>1. \A u \in On(i) : u = t
        BY <1>1, <2>2, <3>3 DEF TInv, Shape
      <4>2. To(i, t) = todos[t].status
        BY <2>1, <3>1, <3>3, <4>1 DEF StatusChanged
      <4>3. QED
        BY <2>3, <3>1, <4>2
    <3>4. CASE Op(i) = "create"
      BY <1>1, <2>2, <3>4 DEF TInv, Shape
    <3>5. QED
      BY <3>1, <3>2, <3>3, <3>4
  <2>5. HasRead(i)' /\ pc'[i] # "index" =>
            \A t \in On(i) : statuses'[held'[i][t].status] = Live
    BY <1>3, <2>2, <2>3 DEF HasRead
  <2>6. QED
    BY <1>1, <1>2, <1>3, <1>5, <2>1, <2>2, <2>4, <2>5, ProgressSInv
    DEF Awaits, TypeOK
<1>8. CASE Save(i) \/ Sync(i)
  <2>1. pc[i] \in {"save", "sync"} /\ todos' = Saved(i) /\ UNCHANGED held
    BY <1>8 DEF Save, Sync
  <2>2. PICK where \in {"sync", "index", "done"} :
          /\ pc' = [pc EXCEPT ![i] = where]
          /\ where = "sync" => pc[i] = "save"
    <3>1. (CASE Op(i) \in {"link", "reorder"} -> "done"
             [] StatusChanged(i, held[i]) -> "sync"
             [] OTHER -> "index") \in {"sync", "index", "done"}
      OBVIOUS
    <3>2. QED
      BY <1>8, <3>1 DEF Save, Sync
  <2>3. pc'[i] = where
    BY <1>1, <2>2 DEF TypeOK
  <2>4. Op(i) = "create" => \A t \in On(i) : To(i, t) \in StatusIds
    BY <1>1, <2>1 DEF TInv, Shape
  <2>5. ASSUME NEW t \in On(i)
        PROVE  statuses[Edited(i, t).status] = Live
    <3>1. Op(i) \in {"create", "update", "reorder"} /\ To(i, t) # Keep =>
              statuses[To(i, t)] = Live
      BY <2>1 DEF SInv, TargetsLive, CheckedTarget
    <3>2. Op(i) # "create" =>
              held[i][t] \in Todo /\ statuses[held[i][t].status] = Live
      BY <1>1, <2>1 DEF SInv, HeldStatusesLive, TInv, Shape, HasRead
    <3>3. CASE Op(i) = "create"
      <4>1. To(i, t) # Keep
        BY <2>4, <3>3, ConstantsAssumption
      <4>2. Edited(i, t).status = To(i, t)
        BY <3>3 DEF Edited
      <4>3. QED
        BY <3>1, <3>3, <4>1, <4>2
    <3>4. CASE Op(i) # "create"
      <4>1. Edited(i, t).status =
                IF Op(i) \in {"update", "reorder"}
                THEN Given(To(i, t), held[i][t].status) ELSE held[i][t].status
        BY <3>2, <3>4 DEF Edited, Todo
      <4>2. QED
        BY <3>1, <3>2, <3>4, <4>1 DEF Given
    <3>5. QED
      BY <3>3, <3>4
  <2>6. LiveTodoHasLiveStatus'
    BY <1>1, <1>3, <2>1, <2>5, SavedType
    DEF SInv, LiveTodoHasLiveStatus, IsLive, SavedAs
  <2>7. /\ HasRead(i)' /\ pc'[i] # "index" =>
              \A t \in On(i) : statuses'[held'[i][t].status] = Live
        /\ CheckedTarget(i)' =>
              \A t \in On(i) : To(i, t) # Keep => statuses'[To(i, t)] = Live
    BY <1>3, <2>1, <2>2, <2>3
    DEF SInv, HeldStatusesLive, TargetsLive, HasRead, CheckedTarget, Op
  <2>8. QED
    BY <1>1, <1>2, <1>3, <2>1, <2>2, <2>3, <2>6, <2>7, ProgressSInv DEF Awaits
<1>9. CASE SoftDelete(i) \/ Index(i)
  <2>1. PICK where \in {"index", "done"} : pc' = [pc EXCEPT ![i] = where]
    BY <1>9 DEF SoftDelete, Index
  <2>2. pc'[i] = where /\ UNCHANGED held
    BY <1>1, <1>9, <2>1 DEF TypeOK, SoftDelete, Index
  <2>3. LiveTodoHasLiveStatus'
    <3>1. CASE todos' = todos
      BY <1>5, <3>1
    <3>2. CASE SoftDelete(i)
      <4>1. \A t \in On(i) : todos[t] \in Todo
        BY <1>1, <1>4, <3>2 DEF SoftDelete, TInv, Shape, TypeOK
      <4>2. \A t \in On(i) : todos'[t].deleted
        BY <1>4, <3>2, <4>1 DEF SoftDelete, Todo
      <4>3. \A t \in Todos : t \notin On(i) => todos'[t] = todos[t]
        BY <3>2 DEF SoftDelete
      <4>4. QED
        BY <1>3, <4>2, <4>3 DEF SInv, LiveTodoHasLiveStatus, IsLive
    <3>3. QED
      BY <1>9, <3>1, <3>2 DEF Index
  <2>4. ~ CheckedTarget(i)' /\ ~ (HasRead(i)' /\ pc'[i] # "index")
    BY <2>2 DEF CheckedTarget, HasRead
  <2>5. QED
    BY <1>1, <1>2, <1>3, <2>1, <2>2, <2>3, <2>4, ProgressSInv DEF Awaits
<1>10. QED
  BY <1>6, <1>7, <1>8, <1>9 DEF TodoStep

LEMMA StatusSInv ==
    ASSUME SInv, NEW i \in Requests, StatusStep(i) \/ Abort(i)
    PROVE  SInv'
<1> USE DEF Advance
<1>1. TInv /\ TInv' /\ TypeOK
  BY StatusTInv, AbortTInv DEF SInv, TInv
<1>2. PICK where \in {"saveStatus", "dropStatus", "done"} :
        /\ pc' = [pc EXCEPT ![i] = where]
        /\ where = "dropStatus" =>
              CountTodos(i) /\ TodosIn(arg[i].column) = {}
  BY DEF StatusStep, ReadStatus, SaveStatus, CountTodos, DropStatus, Abort
<1>3. pc[i] \in Awaits /\ pc'[i] = where /\ UNCHANGED <<todos, arg, held>>
  BY <1>1, <1>2
  DEF StatusStep, ReadStatus, SaveStatus, CountTodos, DropStatus, Abort, Awaits,
      TypeOK
<1>4. CASE DropStatus(i)
  <2>1. /\ pc[i] = "dropStatus" /\ Op(i) = "deleteStatus"
        /\ arg[i].column \in StatusIds /\ TodosIn(arg[i].column) = {}
        /\ statuses' = [statuses EXCEPT ![arg[i].column] = Deleted]
        /\ pc' = [pc EXCEPT ![i] = "done"]
    BY <1>1, <1>4 DEF DropStatus, SInv, Counted, TInv, Shape
  <2>2. \A j \in Requests : pc'[j] \notin Awaits
    BY <1>1, <1>3, <2>1 DEF SInv, DeletionAlone, InFlight, TypeOK, Awaits
  <2>3. \A t \in Todos : IsLive(t) =>
            todos[t].status # arg[i].column /\ todos[t].status \in StatusIds
    BY <1>1, <2>1 DEF TodosIn, IsLive, TypeOK, Todo
  <2>4. LiveTodoHasLiveStatus'
    BY <1>1, <1>3, <2>1, <2>3 DEF SInv, LiveTodoHasLiveStatus, IsLive, TypeOK
  <2>5. QED
    BY <1>1, <2>2, <2>4
    DEF SInv, HeldStatusesLive, HasRead, TargetsLive, CheckedTarget,
        DeletionAlone, InFlight, Counted, Awaits
<1>5. CASE ~ DropStatus(i)
  <2>1. \A u \in StatusIds : statuses[u] = Live => statuses'[u] = Live
    BY <1>1, <1>5
    DEF StatusStep, ReadStatus, SaveStatus, CountTodos, Abort, TypeOK
  <2>2. LiveTodoHasLiveStatus'
    BY <1>1, <1>3, <2>1 DEF SInv, LiveTodoHasLiveStatus, IsLive, TypeOK, Todo
  <2>3. ~ CheckedTarget(i)' /\ ~ HasRead(i)'
    BY <1>3 DEF CheckedTarget, HasRead
  <2>4. where = "dropStatus" => TodosIn(arg[i].column)' = {}
    BY <1>2, <1>3 DEF TodosIn, IsLive
  <2>5. QED
    BY <1>1, <1>2, <1>3, <2>1, <2>2, <2>3, <2>4, ProgressSInv DEF Awaits
<1>6. QED
  BY <1>4, <1>5

LEMMA NextSInv ==
    ASSUME "deleteStatus" \in Alone
    PROVE  SInv /\ [Next]_vars => SInv'
<1>1. SUFFICES ASSUME SInv, [Next]_vars PROVE SInv'
  OBVIOUS
<1>2. TInv'
  BY <1>1, NextTInv DEF SInv
<1>3. CASE UNCHANGED vars
  BY <1>1, <1>2, <1>3
  DEF vars, SInv, LiveTodoHasLiveStatus, IsLive, HeldStatusesLive, HasRead,
      TargetsLive, CheckedTarget, DeletionAlone, InFlight, Counted, TodosIn,
      Op, On, To
<1>4. CASE CreateStatus
  <2>1. UNCHANGED <<todos, pc, arg, held, indexed>>
    BY <1>4 DEF CreateStatus
  <2>2. \A u \in StatusIds : statuses[u] = Live => statuses'[u] = Live
    BY <1>1, <1>4 DEF CreateStatus, SInv, TInv, TypeOK
  <2>3. LiveTodoHasLiveStatus'
    BY <1>1, <2>1, <2>2
    DEF SInv, LiveTodoHasLiveStatus, IsLive, TInv, TypeOK, Todo
  <2>4. HeldStatusesLive'
    BY <1>1, <2>1, <2>2
    DEF SInv, HeldStatusesLive, HasRead, TInv, Shape, Todo, Op, On
  <2>5. TargetsLive'
    <3>1. \A j \in Requests : CheckedTarget(j) =>
              \A t \in On(j) : To(j, t) \in StatusIds \cup {Keep}
      BY <1>1 DEF CheckedTarget, SInv, TInv, Shape, Arg, On, To
    <3>2. QED
      BY <1>1, <2>1, <2>2, <3>1
      DEF SInv, TargetsLive, CheckedTarget, Op, On, To
  <2>6. DeletionAlone' /\ Counted'
    BY <1>1, <2>1
    DEF SInv, DeletionAlone, InFlight, Counted, TodosIn, IsLive, Op
  <2>7. QED
    BY <1>2, <2>3, <2>4, <2>5, <2>6 DEF SInv
<1>5. QED
  BY <1>1, <1>3, <1>4, ArriveSInv, TodoSInv, StatusSInv DEF Next

\* If the deletions of statuses run alone, every todo that is not deleted has a
\* status that is not deleted, whatever the other requests write back.
THEOREM ColumnsKept ==
    ASSUME "deleteStatus" \in Alone
    PROVE  Spec => []LiveTodoHasLiveStatus
<1>1. SInv => LiveTodoHasLiveStatus
  BY DEF SInv
<1>2. QED
  BY InitSInv, NextSInv, <1>1, PTL DEF Spec

-----------------------------------------------------------------------------
(***************************************************************************)
(* Deletions of todos.  Whatever a request is about to write over is not   *)
(* deleted: it was not when the request read it, and a deletion has run    *)
(* alone since.                                                            *)
(***************************************************************************)
Writes(i) == HasRead(i) /\ pc[i] # "index"

NewRowsFree ==
    \A i \in Requests : pc[i] \in {"check", "save"} /\ Op(i) = "create" =>
        \A t \in On(i) :
            /\ todos[t] = NoTodo
            /\ \A j \in Requests : pc[j] # "new" /\ t \in On(j) => j = i

WrittenRowsLive ==
    \A i \in Requests : Writes(i) => \A t \in On(i) : IsLive(t)

HeldRowsLive ==
    \A i \in Requests : HasRead(i) => \A t \in On(i) : ~ held[i][t].deleted

OnlyUpdatesSync ==
    \A i \in Requests : /\ pc[i] = "sync" => Op(i) = "update"
                        /\ pc[i] = "index" => Op(i) # "reorder"

TodoDeletionAlone ==
    \A i, j \in InFlight : \A t \in On(i) \cap On(j) : Op(i) = "delete" => i = j

DInv ==
    /\ TInv
    /\ NewRowsFree
    /\ WrittenRowsLive
    /\ HeldRowsLive
    /\ OnlyUpdatesSync
    /\ TodoDeletionAlone

LEMMA InitDInv == Init => DInv
<1>1. SUFFICES ASSUME Init PROVE DInv
  OBVIOUS
<1>2. TInv
  BY <1>1, InitTInv
<1>3. QED
  BY <1>1, <1>2
  DEF Init, DInv, NewRowsFree, WrittenRowsLive, Writes, HasRead, HeldRowsLive,
      OnlyUpdatesSync, TodoDeletionAlone, InFlight, Awaits

LEMMA ArriveDInv ==
    ASSUME DInv, "delete" \in Alone, NEW i \in Requests, Arrive(i)
    PROVE  DInv'
<1>1. TInv /\ TInv'
  BY ArriveTInv DEF DInv
<1>2. PICK where \in Awaits, a \in Arg :
        /\ Admitted(a.op, a.on)
        /\ pc' = [pc EXCEPT ![i] = where]
        /\ arg' = [arg EXCEPT ![i] = a]
        /\ where \in {"check", "read", "readStatus", "countTodos"}
        /\ where = "check" => a.op # "update"
        /\ a.op = "create" =>
              \A t \in a.on :
                  /\ todos[t] = NoTodo
                  /\ \A j \in Requests : pc[j] # "new" => t \notin arg[j].on
        /\ a.op # "create" => \A t \in a.on : todos[t] # NoTodo
  BY ArriveFacts
<1>3. UNCHANGED <<todos, statuses, held, indexed>> /\ pc[i] = "new"
  BY ArriveFacts
<1>4. /\ pc'[i] = where /\ arg'[i] = a
      /\ \A j \in Requests : j # i => pc'[j] = pc[j] /\ arg'[j] = arg[j]
  BY <1>1, <1>2 DEF TInv, TypeOK
<1>5. NewRowsFree'
  <2>1. SUFFICES ASSUME NEW j \in Requests, NEW k \in Requests,
                        pc'[j] \in {"check", "save"}, Op(j)' = "create",
                        NEW t \in On(j)', pc'[k] # "new", t \in On(k)', k # j
                 PROVE  FALSE
    <3>1. ASSUME NEW j \in Requests, pc'[j] \in {"check", "save"},
                 Op(j)' = "create", NEW t \in On(j)'
          PROVE  todos'[t] = NoTodo
      BY <1>2, <1>3, <1>4, <3>1 DEF DInv, NewRowsFree, Op, On
    <3>2. QED
      BY <2>1, <3>1 DEF NewRowsFree
  <2>2. CASE j = i
    BY <1>2, <1>3, <1>4, <2>1, <2>2 DEF Op, On
  <2>3. CASE k = i
    <3>1. pc[j] \in {"check", "save"} /\ Op(j) = "create" /\ t \in On(j)
      BY <1>4, <2>1, <2>3 DEF Op, On
    <3>2. todos[t] = NoTodo /\ pc[j] # "new" /\ t \in a.on
      BY <1>4, <2>1, <2>3, <3>1 DEF DInv, NewRowsFree, On
    <3>3. QED
      BY <1>2, <3>1, <3>2 DEF On
  <2>4. CASE j # i /\ k # i
    BY <1>4, <2>1, <2>4 DEF DInv, NewRowsFree, Op, On
  <2>5. QED
    BY <2>2, <2>3, <2>4
<1>6. WrittenRowsLive' /\ HeldRowsLive' /\ OnlyUpdatesSync'
  BY <1>2, <1>3, <1>4
  DEF DInv, WrittenRowsLive, Writes, HeldRowsLive, HasRead, OnlyUpdatesSync,
      IsLive, Op, On
<1>7. TodoDeletionAlone'
  <2>1. i \notin InFlight /\ InFlight' = InFlight \cup {i}
    BY <1>2, <1>3, <1>4 DEF InFlight, Awaits
  <2>2. \A j \in InFlight : a.on \cap arg[j].on # {} =>
            "delete" \notin {a.op, arg[j].op}
    BY <1>2 DEF Admitted
  <2>3. QED
    BY <1>4, <2>1, <2>2 DEF DInv, TodoDeletionAlone, Op, On, InFlight
<1>8. QED
  BY <1>1, <1>5, <1>6, <1>7 DEF DInv

LEMMA ProgressDInv ==
    ASSUME DInv, TInv', NEW i \in Requests, pc[i] \in Awaits,
           pc' = [pc EXCEPT ![i] = pc'[i]], arg' = arg,
           pc'[i] \in Awaits \cup {"done"},
           \A j \in Requests : j # i => held'[j] = held[j],
           \A t \in Todos : t \notin On(i) => todos'[t] = todos[t],
           todos' = todos \/ (\A t \in On(i) : IsLive(t)')
                          \/ Op(i) = "delete",
           pc'[i] \in {"check", "save"} =>
              pc[i] \in {"check", "save"} \/ Op(i) # "create",
           pc'[i] \in {"check", "save"} => todos' = todos,
           pc'[i] = "sync" => Op(i) = "update",
           pc'[i] = "index" => Op(i) # "reorder",
           HasRead(i)' => \A t \in On(i) : ~ held'[i][t].deleted,
           Writes(i)' => \A t \in On(i) : IsLive(t)'
    PROVE  DInv'
<1>1. ASSUME NEW j \in Requests, j # i
      PROVE  /\ pc'[j] = pc[j]
             /\ HasRead(j)' <=> HasRead(j)
             /\ Writes(j)' <=> Writes(j)
  BY <1>1 DEF DInv, TInv, TypeOK, HasRead, Writes, Op
<1>2. InFlight' \subseteq InFlight /\ i \in InFlight
  BY <1>1 DEF InFlight
<1>3. TodoDeletionAlone'
  BY <1>2 DEF DInv, TodoDeletionAlone, Op, On
<1>4. HeldRowsLive' /\ OnlyUpdatesSync'
  BY <1>1 DEF DInv, HeldRowsLive, OnlyUpdatesSync, Op, On
<1>5. \A j \in Requests : pc[j] # "new" => On(j) \subseteq Todos
  BY DEF DInv, TInv, Shape, Arg, On
<1>6. NewRowsFree'
  <2>1. SUFFICES ASSUME NEW j \in Requests, pc'[j] \in {"check", "save"},
                        Op(j) = "create", NEW t \in On(j)
                 PROVE  /\ todos'[t] = NoTodo
                        /\ \A k \in Requests :
                              pc'[k] # "new" /\ t \in On(k) => k = j
    BY DEF NewRowsFree, Op, On
  <2>2. pc[j] \in {"check", "save"}
    BY <1>1, <2>1
  <2>3. /\ todos[t] = NoTodo
        /\ \A k \in Requests : pc[k] # "new" /\ t \in On(k) => k = j
    BY <2>1, <2>2 DEF DInv, NewRowsFree
  <2>4. \A k \in Requests : pc'[k] # "new" => pc[k] # "new"
    BY <1>1 DEF Awaits
  <2>5. todos'[t] = todos[t]
    BY <1>5, <2>1, <2>2, <2>3 DEF Awaits
  <2>6. QED
    BY <2>3, <2>4, <2>5
<1>7. WrittenRowsLive'
  <2>1. SUFFICES ASSUME NEW j \in Requests, j # i, Writes(j), NEW t \in On(j)
                 PROVE  IsLive(t)'
    BY <1>1 DEF WrittenRowsLive, On
  <2>2. IsLive(t)
    BY <2>1 DEF DInv, WrittenRowsLive
  <2>3. j \in InFlight /\ pc[j] # "new"
    BY <2>1 DEF Writes, HasRead, InFlight, Awaits
  <2>4. CASE t \notin On(i)
    BY <1>5, <2>1, <2>2, <2>3, <2>4 DEF IsLive
  <2>5. CASE t \in On(i)
    <3>1. Op(i) # "delete"
      BY <1>2, <2>1, <2>3, <2>5 DEF DInv, TodoDeletionAlone
    <3>2. QED
      BY <2>2, <2>5, <3>1 DEF IsLive
  <2>6. QED
    BY <2>4, <2>5
<1>8. QED
  BY <1>3, <1>4, <1>6, <1>7 DEF DInv

\* What a save writes over its todos: entities that are not deleted.
LEMMA EditedLive ==
    ASSUME DInv, NEW i \in Requests, pc[i] \in {"save", "sync"},
           NEW t \in On(i)
    PROVE  Edited(i, t) \in TodoEntity /\ ~ Edited(i, t).deleted
<1>1. Edited(i, t) \in TodoEntity
  BY EditedType DEF DInv
<1>2. CASE Op(i) = "create"
  BY <1>1, <1>2 DEF Edited
<1>3. CASE Op(i) # "create"
  <2>1. held[i][t] \in Todo /\ ~ held[i][t].deleted
    BY <1>3 DEF DInv, HeldRowsLive, HasRead, TInv, Shape
  <2>2. CASE Op(i) \in {"update", "reorder"}
    <3>1. Edited(i, t) = [held[i][t] EXCEPT
                             !.status = Given(To(i, t), @),
                             !.content = Assigned(arg[i].content, @)]
      BY <2>2 DEF Edited
    <3>2. QED
      BY <1>1, <2>1, <3>1 DEF Todo
  <2>3. CASE Op(i) \notin {"update", "reorder"}
    BY <1>1, <1>3, <2>1, <2>3 DEF Edited, Todo
  <2>4. QED
    BY <1>1, <2>2, <2>3
<1>4. QED
  BY <1>1, <1>2, <1>3

LEMMA TodoDInv ==
    ASSUME DInv, NEW i \in Requests, TodoStep(i)
    PROVE  DInv'
<1> USE DEF Advance
<1>1. TInv /\ TInv' /\ TypeOK
  BY TodoTInv DEF DInv, TInv
<1>2. pc[i] \in TodoAwaits /\ pc[i] \in Awaits
  BY DEF TodoStep, TodoAwaits, Awaits, Check, Read, Save, SoftDelete, Sync, Index
<1>3. UNCHANGED <<statuses, arg>>
  BY DEF TodoStep, Check, Read, Save, SoftDelete, Sync, Index
<1>4. arg[i] \in Arg /\ On(i) \subseteq Todos
  BY <1>1, <1>2 DEF TInv, Shape, Arg, On, TodoAwaits
<1>5. CASE Check(i)
  <2>1. PICK where \in {"read", "save", "done"} :
          pc' = [pc EXCEPT ![i] = where]
    BY <1>5 DEF Check
  <2>2. pc[i] = "check" /\ pc'[i] = where /\ UNCHANGED <<todos, held>>
    BY <1>1, <1>5, <2>1 DEF Check, TypeOK
  <2>3. Op(i) = "reorder" => where # "save"
    BY <1>1, <1>5, <2>1 DEF Check, TypeOK
  <2>4. HasRead(i)' => HasRead(i) /\ pc[i] # "index"
    BY <1>1, <1>3, <2>2, <2>3 DEF HasRead, Op, TInv, Shape
  <2>5. /\ HasRead(i)' => \A t \in On(i) : ~ held'[i][t].deleted
        /\ Writes(i)' => \A t \in On(i) : IsLive(t)'
    BY <2>2, <2>4
    DEF DInv, HeldRowsLive, WrittenRowsLive, Writes, IsLive
  <2>6. QED
    BY <1>1, <1>2, <1>3, <2>1, <2>2, <2>5, ProgressDInv DEF Awaits
<1>6. CASE Read(i)
  <2>1. PICK where \in {"check", "save", "done"} :
          /\ pc' = [pc EXCEPT ![i] = where]
          /\ \/ where = "done" /\ held' = held
             \/ /\ \A t \in On(i) : IsLive(t)
                /\ held' = [held EXCEPT ![i] =
                      [t \in Todos |-> IF t \in On(i) THEN todos[t]
                                                      ELSE NoTodo]]
    BY <1>6 DEF Read
  <2>2. pc[i] = "read" /\ pc'[i] = where /\ UNCHANGED todos
    BY <1>1, <1>6, <2>1 DEF Read, TypeOK
  <2>3. Op(i) # "create"
    BY <1>1, <2>2 DEF TInv, Shape
  <2>4. where # "done" =>
            \A t \in On(i) : IsLive(t)' /\ ~ held'[i][t].deleted
    BY <1>1, <1>4, <2>1, <2>2 DEF TypeOK, IsLive
  <2>5. /\ HasRead(i)' => \A t \in On(i) : ~ held'[i][t].deleted
        /\ Writes(i)' => \A t \in On(i) : IsLive(t)'
    BY <2>2, <2>4 DEF HasRead, Writes
  <2>6. \A j \in Requests : j # i => held'[j] = held[j]
    BY <1>1, <2>1 DEF TypeOK
  <2>7. QED
    BY <1>1, <1>2, <1>3, <2>1, <2>2, <2>3, <2>5, <2>6, ProgressDInv DEF Awaits
<1>7. CASE Save(i) \/ Sync(i)
  <2>1. pc[i] \in {"save", "sync"} /\ todos' = Saved(i) /\ UNCHANGED held
    BY <1>7 DEF Save, Sync
  <2>2. PICK where \in {"sync", "index", "done"} :
          /\ pc' = [pc EXCEPT ![i] = where]
          /\ where = "sync" => Op(i) = "update"
          /\ where = "index" => Op(i) # "reorder"
    <3>1. (CASE Op(i) \in {"link", "reorder"} -> "done"
             [] StatusChanged(i, held[i]) -> "sync"
             [] OTHER -> "index") \in {"sync", "index", "done"}
      OBVIOUS
    <3>2. (CASE Op(i) \in {"link", "reorder"} -> "done"
             [] StatusChanged(i, held[i]) -> "sync"
             [] OTHER -> "index") = "sync" => Op(i) = "update"
      BY DEF StatusChanged
    <3>3. (CASE Op(i) \in {"link", "reorder"} -> "done"
             [] StatusChanged(i, held[i]) -> "sync"
             [] OTHER -> "index") = "index" => Op(i) # "reorder"
      OBVIOUS
    <3>4. Sync(i) => Op(i) = "update"
      BY DEF Sync, DInv, OnlyUpdatesSync
    <3>5. QED
      BY <1>7, <3>1, <3>2, <3>3, <3>4 DEF Save, Sync
  <2>3. pc'[i] = where
    BY <1>1, <2>2 DEF TypeOK
  <2>4. \A t \in On(i) : IsLive(t)'
    BY <1>4, <2>1, EditedLive, SavedType, NoTodoNotTodo, <1>1 DEF IsLive, SavedAs
  <2>5. \A t \in Todos : t \notin On(i) => todos'[t] = todos[t]
    BY <1>1, <2>1, SavedType
  <2>6. HasRead(i)' => HasRead(i)
    BY <1>3, <2>1, <2>2, <2>3 DEF HasRead, Op
  <2>7. HasRead(i)' => \A t \in On(i) : ~ held'[i][t].deleted
    BY <2>1, <2>6 DEF DInv, HeldRowsLive
  <2>8. QED
    BY <1>1, <1>2, <1>3, <2>1, <2>2, <2>3, <2>4, <2>5, <2>7, ProgressDInv
    DEF Awaits
<1>8. CASE SoftDelete(i) \/ Index(i)
  <2>1. PICK where \in {"index", "done"} :
          /\ pc' = [pc EXCEPT ![i] = where]
          /\ where = "index" => Op(i) # "reorder"
    BY <1>8 DEF SoftDelete, Index
  <2>2. pc'[i] = where /\ UNCHANGED held
    BY <1>1, <1>8, <2>1 DEF TypeOK, SoftDelete, Index
  <2>3. /\ todos' = todos \/ Op(i) = "delete"
        /\ \A t \in Todos : t \notin On(i) => todos'[t] = todos[t]
    BY <1>8 DEF SoftDelete, Index
  <2>4. ~ Writes(i)' /\ (HasRead(i)' => HasRead(i))
    BY <1>3, <1>8, <2>2 DEF Writes, HasRead, SoftDelete, Index, Op
  <2>5. HasRead(i)' => \A t \in On(i) : ~ held'[i][t].deleted
    BY <2>2, <2>4 DEF DInv, HeldRowsLive
  <2>6. QED
    BY <1>1, <1>2, <1>3, <2>1, <2>2, <2>3, <2>4, <2>5, ProgressDInv DEF Awaits
<1>9. QED
  BY <1>5, <1>6, <1>7, <1>8 DEF TodoStep

LEMMA StatusDInv ==
    ASSUME DInv, NEW i \in Requests, StatusStep(i) \/ Abort(i)
    PROVE  DInv'
<1> USE DEF Advance
<1>1. TInv /\ TInv' /\ TypeOK
  BY StatusTInv, AbortTInv DEF DInv, TInv
<1>2. PICK where \in {"saveStatus", "dropStatus", "done"} :
        pc' = [pc EXCEPT ![i] = where]
  BY DEF StatusStep, ReadStatus, SaveStatus, CountTodos, DropStatus, Abort
<1>3. pc[i] \in Awaits /\ pc'[i] = where /\ UNCHANGED <<todos, arg, held>>
  BY <1>1, <1>2
  DEF StatusStep, ReadStatus, SaveStatus, CountTodos, DropStatus, Abort, Awaits,
      TypeOK
<1>4. ~ HasRead(i)' /\ ~ Writes(i)'
  BY <1>3 DEF HasRead, Writes
<1>5. QED
  BY <1>1, <1>2, <1>3, <1>4, ProgressDInv DEF Awaits

LEMMA NextDInv ==
    ASSUME "delete" \in Alone
    PROVE  DInv /\ [Next]_vars => DInv'
<1>1. SUFFICES ASSUME DInv, [Next]_vars PROVE DInv'
  OBVIOUS
<1>2. TInv'
  BY <1>1, NextTInv DEF DInv
<1>3. CASE UNCHANGED vars \/ CreateStatus
  <2>1. UNCHANGED <<todos, pc, arg, held>>
    BY <1>3 DEF vars, CreateStatus
  <2>2. QED
    BY <1>1, <1>2, <2>1
    DEF DInv, NewRowsFree, WrittenRowsLive, Writes, HasRead, HeldRowsLive,
        OnlyUpdatesSync, TodoDeletionAlone, InFlight, IsLive, Op, On
<1>4. QED
  BY <1>1, <1>3, ArriveDInv, TodoDInv, StatusDInv DEF Next

\* A step brings no deleted row back.
LEMMA StepKeepsDeleted ==
    ASSUME DInv, [Next]_vars, NEW t \in Todos,
           todos[t] # NoTodo, todos[t].deleted
    PROVE  ~ IsLive(t)'
<1>1. CASE todos' = todos
  BY <1>1 DEF IsLive
<1>2. ASSUME NEW i \in Requests, Save(i) \/ Sync(i)
      PROVE  ~ IsLive(t)'
  <2>1. pc[i] \in {"save", "sync"} /\ todos' = Saved(i)
    BY <1>2 DEF Save, Sync
  <2>2. t \notin On(i)
    <3>1. CASE Op(i) = "create"
      BY <2>1, <3>1 DEF DInv, OnlyUpdatesSync, NewRowsFree
    <3>2. CASE Op(i) # "create"
      BY <2>1, <3>2 DEF DInv, WrittenRowsLive, Writes, HasRead, IsLive
    <3>3. QED
      BY <3>1, <3>2
  <2>3. todos'[t] = todos[t]
    BY <2>1, <2>2, SavedType DEF DInv
  <2>4. QED
    BY <2>3 DEF IsLive
<1>3. ASSUME NEW i \in Requests, SoftDelete(i)
      PROVE  ~ IsLive(t)'
  <2>1. todos[t] \in Todo
    BY DEF DInv, TInv, TypeOK
  <2>2. todos'[t].deleted
    BY <1>3, <2>1 DEF SoftDelete, Todo
  <2>3. QED
    BY <2>2 DEF IsLive
<1>4. QED
  BY <1>1, <1>2, <1>3
  DEF Next, vars, Arrive, StartCreate, StartUpdate, StartOnTodo, StartReorder,
      StartOnStatus, Start, TodoStep, Check, Read, Index, StatusStep, ReadStatus,
      SaveStatus, CountTodos, DropStatus, Abort, CreateStatus

\* If the deletion of a todo runs alone on it, no later write of any request,
\* with whatever it read and at whichever of its awaits, brings the todo back.
THEOREM DeletionFinal ==
    ASSUME "delete" \in Alone
    PROVE  Spec => DeletedStaysDeleted
<1>1. DInv /\ [Next]_vars =>
        [\A t \in Todos :
            todos[t] # NoTodo /\ todos[t].deleted => ~ IsLive(t)']_vars
  BY StepKeepsDeleted
<1>2. QED
  BY InitDInv, NextDInv, <1>1, PTL DEF Spec, DeletedStaysDeleted

-----------------------------------------------------------------------------
(***************************************************************************)
(* The index follows the todo, if what edits, archives or deletes a todo   *)
(* runs alone on it and nothing fails.  The other requests save the whole  *)
(* entity as well, which changes whether the row is archived, but not its  *)
(* content; so what was handed to the index stays right even if a stale    *)
(* entity is yet to be saved.                                              *)
(***************************************************************************)
Edits == {"update", "archive", "delete"}

EditsAlone ==
    \A i, j \in InFlight : \A t \in On(i) \cap On(j) : Op(i) \in Edits => i = j

ReorderKeepsContent ==
    \A i \in Requests : pc[i] # "new" /\ Op(i) = "reorder" => arg[i].content = SameText

\* The entity that a request has yet to save has the content of the row.
KnowsContent ==
    \A i \in Requests : HasRead(i) /\ pc[i] \in {"check", "save"} =>
        \A t \in On(i) : held[i][t].content = todos[t].content

\* What a request that has saved will hand over is in the row.
HandsOver(i, t) ==
    IF Op(i) = "delete" THEN todos[t] # NoTodo /\ todos[t].deleted
    ELSE /\ IsLive(t) /\ Tells(Edited(i, t).content, todos[t].content)
         /\ Op(i) = "archive" => todos[t].archived
WillIndex ==
    \A i \in Requests : pc[i] \in {"sync", "index"} => \A t \in On(i) : HandsOver(i, t)

IndexesSoon(t) == \E i \in Requests : pc[i] \in {"sync", "index"} /\ t \in On(i)

\* On the board, or about to be by a save of what was read.
OnBoard(t) ==
    /\ IsLive(t)
    /\ \/ ~ todos[t].archived
       \/ \E i \in Requests : Writes(i) /\ t \in On(i) /\ ~ held[i][t].archived

Followed ==
    \A t \in Todos : todos[t] # NoTodo /\ ~ IndexesSoon(t) =>
        /\ todos[t].deleted => indexed[t] = Removed
        /\ OnBoard(t) => Tells(indexed[t], todos[t].content)

FInv ==
    DInv /\ EditsAlone /\ ReorderKeepsContent /\ KnowsContent /\ WillIndex /\ Followed

LEMMA InitFInv == Init => FInv
<1>1. SUFFICES ASSUME Init PROVE FInv
  OBVIOUS
<1>2. DInv
  BY <1>1, InitDInv
<1>3. QED
  BY <1>1, <1>2
  DEF Init, FInv, EditsAlone, InFlight, Awaits, ReorderKeepsContent, KnowsContent, HasRead,
      WillIndex, Followed

\* Requests that do not step keep what the parts of FInv say of them.
LEMMA OthersKeep ==
    ASSUME DInv, NEW i \in Requests,
           \A j \in Requests \ {i} : pc'[j] = pc[j] /\ arg'[j] = arg[j] /\ held'[j] = held[j]
    PROVE  /\ \A j \in Requests \ {i} :
                 /\ HasRead(j)' <=> HasRead(j)
                 /\ Writes(j)' <=> Writes(j)
                 /\ Op(j)' = Op(j) /\ On(j)' = On(j)
                 /\ \A t : Edited(j, t)' = Edited(j, t)
           /\ \A j \in Requests : HasRead(j) \/ pc[j] \in {"sync", "index"} => On(j) \subseteq Todos
BY DEF HasRead, Writes, Op, On, To, Edited, DInv, TInv, Shape, Arg

LEMMA ArriveReorder ==
    ASSUME TInv, NEW i \in Requests, Arrive(i), Op(i)' = "reorder"
    PROVE  arg'[i].content = SameText
<1>1. arg \in [Requests -> Arg \cup {NoArg}]
  BY DEF TInv, TypeOK
<1>2. ASSUME NEW where, NEW op, NEW on, NEW to, NEW content, NEW column,
             Start(i, where, op, on, to, content, column)
      PROVE  op = "reorder" /\ arg'[i].content = content
  BY <1>1, <1>2 DEF Start, Op
<1>3. StartReorder(i)
  BY <1>2 DEF Arrive, StartCreate, StartUpdate, StartOnTodo, StartOnStatus
<1>4. QED
  BY <1>2, <1>3 DEF StartReorder

LEMMA ArriveFInv ==
    ASSUME FInv, "delete" \in Alone, NEW i \in Requests, Arrive(i), EditsAlone'
    PROVE  FInv'
<1>1. DInv /\ DInv' /\ TInv
  BY ArriveDInv DEF FInv, DInv
<1>2. PICK where \in Awaits, a \in Arg :
        /\ pc' = [pc EXCEPT ![i] = where]
        /\ arg' = [arg EXCEPT ![i] = a]
        /\ where \in {"check", "read", "readStatus", "countTodos"}
        /\ where = "check" => a.op # "update"
  BY ArriveFacts
<1>3. UNCHANGED <<todos, statuses, held, indexed>> /\ pc[i] = "new"
  BY ArriveFacts
<1>4. /\ pc'[i] = where /\ arg'[i] = a
      /\ \A j \in Requests \ {i} : pc'[j] = pc[j] /\ arg'[j] = arg[j] /\ held'[j] = held[j]
  BY <1>1, <1>2, <1>3 DEF TInv, TypeOK
<1>5. ~ HasRead(i)' /\ ~ HasRead(i) /\ ~ Writes(i)' /\ ~ Writes(i)
  BY <1>2, <1>3, <1>4 DEF HasRead, Writes, Op
<1>6. ReorderKeepsContent'
  BY <1>1, <1>4, ArriveReorder DEF FInv, ReorderKeepsContent, Op
<1>7. KnowsContent' /\ WillIndex'
  BY <1>1, <1>2, <1>3, <1>4, <1>5, OthersKeep
  DEF FInv, KnowsContent, WillIndex, HandsOver, IsLive
<1>8. \A t \in Todos : /\ IndexesSoon(t)' <=> IndexesSoon(t)
                       /\ OnBoard(t)' <=> OnBoard(t)
  BY <1>1, <1>2, <1>3, <1>4, <1>5, OthersKeep DEF IndexesSoon, OnBoard, IsLive
<1>9. Followed'
  BY <1>3, <1>8 DEF FInv, Followed
<1>10. QED
  BY <1>1, <1>6, <1>7, <1>9 DEF FInv

LEMMA QuietFInv ==
    ASSUME FInv, DInv', NEW i \in Requests,
           \/ Check(i) \/ StatusStep(i)
           \/ Read(i)
    PROVE  FInv'
<1> USE DEF Advance
<1>1. DInv /\ TInv /\ TypeOK /\ NoTodo \notin Todo
  BY NoTodoNotTodo DEF FInv, DInv, TInv
<1>2. PICK where \in {"check", "read", "save", "saveStatus", "dropStatus", "done"} :
        pc' = [pc EXCEPT ![i] = where]
  BY DEF Check, Read, StatusStep, ReadStatus, SaveStatus, CountTodos, DropStatus
<1>3. /\ pc'[i] = where /\ UNCHANGED <<todos, indexed, arg>>
      /\ pc[i] \in Awaits \ {"save", "sync", "index"}
      /\ \A j \in Requests \ {i} : pc'[j] = pc[j] /\ arg'[j] = arg[j] /\ held'[j] = held[j]
  BY <1>1, <1>2
  DEF Check, Read, StatusStep, ReadStatus, SaveStatus, CountTodos, DropStatus, TypeOK, Awaits
<1>4. EditsAlone' /\ ReorderKeepsContent'
  BY <1>3 DEF FInv, EditsAlone, ReorderKeepsContent, InFlight, Op, On, Awaits
<1>5. On(i)' = On(i) /\ Op(i)' = Op(i) /\ (HasRead(i)' => pc'[i] \in {"check", "save"})
  BY <1>2, <1>3 DEF On, Op, HasRead
<1>6. ASSUME HasRead(i)', NEW t \in On(i)
      PROVE  /\ held'[i][t].content = todos[t].content
             /\ held'[i][t].archived = todos[t].archived \/ (Writes(i) /\ held'[i] = held[i])
  <2>1. CASE Read(i)
    <3>1. held'[i] = [u \in Todos |-> IF u \in On(i) THEN todos[u] ELSE NoTodo]
      BY <1>1, <1>3, <1>6, <2>1 DEF Read, HasRead, TypeOK
    <3>2. t \in Todos
      BY <1>1, <1>3, <1>6 DEF TInv, Shape, Arg, On, Awaits
    <3>3. QED
      BY <3>1, <3>2
  <2>2. CASE Check(i)
    <3>1. pc[i] = "check" /\ held' = held /\ Op(i) # "create"
      BY <1>5, <1>6, <2>2 DEF Check, HasRead
    <3>2. Op(i) = "update"
      BY <1>1, <1>3, <1>5, <1>6, <2>2, <3>1 DEF Check, HasRead, TInv, Shape, TypeOK
    <3>3. HasRead(i) /\ Writes(i)
      BY <3>1, <3>2 DEF HasRead, Writes
    <3>4. QED
      BY <1>6, <3>1, <3>3 DEF FInv, KnowsContent
  <2>3. CASE StatusStep(i)
    BY <1>1, <1>5, <1>6, <2>3
    DEF StatusStep, ReadStatus, SaveStatus, CountTodos, DropStatus, TypeOK
  <2>4. QED
    BY <2>1, <2>2, <2>3
<1>7. KnowsContent' /\ WillIndex'
  BY <1>1, <1>2, <1>3, <1>5, <1>6, OthersKeep
  DEF FInv, KnowsContent, WillIndex, HandsOver, IsLive
<1>8. \A t \in Todos : /\ IndexesSoon(t)' <=> IndexesSoon(t)
                       /\ OnBoard(t)' => OnBoard(t)
  BY <1>1, <1>2, <1>3, <1>5, <1>6, OthersKeep DEF IndexesSoon, OnBoard, IsLive, Writes
<1>9. Followed'
  BY <1>3, <1>8 DEF FInv, Followed
<1>10. QED
  BY <1>4, <1>7, <1>9 DEF FInv

\* What a save does to the content: the requests that may overlap keep it.
LEMMA SavedContent ==
    ASSUME FInv, NEW i \in Requests, pc[i] \in {"save", "sync"}, Op(i) # "delete",
           NEW t \in On(i)
    PROVE  /\ Edited(i, t) \in TodoEntity /\ ~ Edited(i, t).deleted
           /\ Op(i) = "archive" => Edited(i, t).archived
           /\ Op(i) \notin Edits \cup {"create"} =>
                 /\ Edited(i, t).content = todos[t].content
                 /\ todos[t].content \in Content
           /\ Op(i) \in {"link", "reorder"} => Edited(i, t).archived = held[i][t].archived
<1>1. Edited(i, t) \in TodoEntity /\ ~ Edited(i, t).deleted
  BY EditedLive DEF FInv
<1>2. Op(i) \in TodoOps
  BY DEF FInv, DInv, TInv, Shape, TodoAwaits
<1>3. Op(i) # "create" => held[i][t] \in Todo
  BY DEF FInv, DInv, TInv, Shape, HasRead
<1>4. Op(i) = "archive" => Edited(i, t).archived
  BY <1>3 DEF Edited, Todo
<1>5. CASE Op(i) \notin Edits \cup {"create"}
  <2>1. pc[i] = "save"
    BY <1>5 DEF FInv, DInv, OnlyUpdatesSync, Edits
  <2>2. held[i][t].content = todos[t].content /\ held[i][t].content \in Content
    BY <1>3, <1>5, <2>1 DEF FInv, KnowsContent, HasRead, Todo
  <2>3. CASE Op(i) = "reorder"
    <3>1. arg[i].content = SameText
      BY <2>1, <2>3 DEF FInv, ReorderKeepsContent
    <3>2. Assigned(SameText, held[i][t].content) = held[i][t].content
      BY <2>2 DEF Assigned, SameText, Given, Content
    <3>3. Edited(i, t) = [held[i][t] EXCEPT
              !.status = Given(To(i, t), held[i][t].status),
              !.content = Assigned(arg[i].content, held[i][t].content)]
      BY <1>3, <2>3 DEF Edited, Todo
    <3>4. Edited(i, t).content = held[i][t].content /\ Edited(i, t).archived = held[i][t].archived
      BY <1>3, <1>5, <3>1, <3>2, <3>3 DEF Todo
    <3>5. QED
      BY <1>1, <1>4, <2>2, <2>3, <3>4
  <2>4. CASE Op(i) # "reorder"
    <3>1. Op(i) \in {"unarchive", "link"}
      BY <1>2, <1>5, <2>4 DEF TodoOps, Edits
    <3>2. QED
      BY <1>1, <1>3, <1>4, <2>2, <3>1 DEF Edited, Todo
  <2>5. QED
    BY <2>3, <2>4
<1>6. QED
  BY <1>1, <1>4, <1>5 DEF Edits

LEMMA SaveFInv ==
    ASSUME FInv, DInv', NEW i \in Requests, Save(i) \/ Sync(i)
    PROVE  FInv'
<1> USE DEF Advance
<1>1. DInv /\ TInv /\ TypeOK /\ NoTodo \notin Todo
  BY NoTodoNotTodo DEF FInv, DInv, TInv
<1>2. /\ pc[i] \in {"save", "sync"} /\ Op(i) # "delete" /\ todos' = Saved(i)
      /\ UNCHANGED <<arg, held, indexed>>
      /\ pc[i] = "sync" => Op(i) = "update"
  BY <1>1 DEF Save, Sync, DInv, OnlyUpdatesSync
<1>3. PICK where \in {"sync", "index", "done"} :
        /\ pc' = [pc EXCEPT ![i] = where]
        /\ where = "done" => pc[i] = "save" /\ Op(i) \in {"link", "reorder"}
  <2>1. CASE Save(i)
    <3> DEFINE next == CASE Op(i) \in {"link", "reorder"} -> "done"
                         [] StatusChanged(i, held[i]) -> "sync"
                         [] OTHER -> "index"
    <3>1. StatusChanged(i, held[i]) => Op(i) \notin {"link", "reorder"}
      BY DEF StatusChanged
    <3>2. next \in {"sync", "index", "done"} /\ (next = "done" => Op(i) \in {"link", "reorder"})
      BY <3>1
    <3>3. pc' = [pc EXCEPT ![i] = next] /\ pc[i] = "save"
      BY <2>1 DEF Save
    <3>4. QED
      BY <3>2, <3>3
  <2>2. CASE Sync(i)
    BY <2>2 DEF Sync
  <2>3. QED
    BY <2>1, <2>2
<1>4. /\ pc'[i] = where /\ Op(i)' = Op(i) /\ On(i)' = On(i)
      /\ \A t : Edited(i, t)' = Edited(i, t)
      /\ \A j \in Requests \ {i} : pc'[j] = pc[j] /\ arg'[j] = arg[j] /\ held'[j] = held[j]
  BY <1>1, <1>2, <1>3 DEF TypeOK, Op, On, To, Edited
<1>5. EditsAlone' /\ ReorderKeepsContent'
  BY <1>2, <1>3, <1>4 DEF FInv, EditsAlone, ReorderKeepsContent, InFlight, Op, On, Awaits
<1>6. /\ \A t \in On(i) : t \in Todos /\ SavedAs(todos'[t], Edited(i, t)) /\ todos'[t] \in Todo
      /\ \A t \in Todos \ On(i) : todos'[t] = todos[t]
  <2>1. On(i) \subseteq Todos
    BY <1>1, <1>2 DEF TInv, Shape, Arg, On
  <2>2. QED
    BY <1>1, <1>2, <2>1, SavedType DEF SavedAs
\* Whoever else is about to save, or to be indexed, is no edit if i is on its todo.
<1>7. ASSUME NEW j \in Requests \ {i}, NEW t \in On(i) \cap On(j), pc[j] \in Awaits
      PROVE  /\ Op(i) \notin Edits \cup {"create"} /\ Op(j) \notin Edits
             /\ todos'[t].content = todos[t].content /\ IsLive(t)'
  <2>1. i \in InFlight /\ j \in InFlight
    BY <1>2, <1>7 DEF InFlight, Awaits
  <2>2. Op(i) \notin Edits /\ Op(j) \notin Edits
    BY <1>7, <2>1 DEF FInv, EditsAlone
  <2>3. pc[i] = "save"
    BY <1>2, <2>2 DEF Edits
  <2>4. Op(i) # "create"
    BY <1>1, <1>7, <2>3 DEF DInv, NewRowsFree, Awaits
  <2>5. QED
    BY <1>1, <1>2, <1>6, <1>7, <2>2, <2>4, SavedContent DEF IsLive, SavedAs
<1>8. KnowsContent'
  <2>1. SUFFICES ASSUME NEW j \in Requests, HasRead(j)', pc'[j] \in {"check", "save"},
                        NEW t \in On(j)'
                 PROVE  held'[j][t].content = todos'[t].content
    BY DEF KnowsContent
  <2>2. j # i /\ HasRead(j) /\ pc[j] \in {"check", "save"} /\ t \in On(j) /\ t \in Todos
    BY <1>1, <1>3, <1>4, <2>1, OthersKeep
  <2>3. held'[j][t].content = todos[t].content
    BY <1>4, <2>2 DEF FInv, KnowsContent
  <2>4. QED
    BY <1>6, <1>7, <2>2, <2>3 DEF Awaits
<1>9. WillIndex'
  <2>1. ASSUME pc'[i] \in {"sync", "index"}, NEW t \in On(i)
        PROVE  HandsOver(i, t)'
    BY <1>1, <1>2, <1>4, <1>6, <2>1, SavedContent DEF HandsOver, IsLive, SavedAs
  <2>2. ASSUME NEW j \in Requests \ {i}, pc[j] \in {"sync", "index"}, NEW t \in On(j)
        PROVE  HandsOver(j, t)'
    <3>1. t \in Todos /\ HandsOver(j, t)
      BY <1>1, <1>4, <2>2, OthersKeep DEF FInv, WillIndex
    <3>2. CASE t \notin On(i)
      BY <1>1, <1>4, <1>6, <3>1, <3>2, OthersKeep DEF HandsOver, IsLive
    <3>3. CASE t \in On(i)
      <4>1. /\ Op(j) \notin Edits /\ Op(j)' = Op(j) /\ Edited(j, t)' = Edited(j, t)
            /\ todos'[t].content = todos[t].content /\ IsLive(t)'
        BY <1>1, <1>4, <1>7, <2>2, <3>3, OthersKeep DEF Awaits
      <4>2. QED
        BY <3>1, <4>1 DEF HandsOver, Edits
    <3>4. QED
      BY <3>2, <3>3
  <2>3. QED
    BY <1>1, <1>4, <2>1, <2>2, OthersKeep DEF WillIndex
<1>10. Followed'
  <2>1. SUFFICES ASSUME NEW t \in Todos, todos'[t] # NoTodo, ~ IndexesSoon(t)'
                 PROVE  /\ todos'[t].deleted => indexed'[t] = Removed
                        /\ OnBoard(t)' => Tells(indexed'[t], todos'[t].content)
    BY DEF Followed
  <2>2. CASE t \notin On(i)
    <3>1. ~ IndexesSoon(t)
      BY <1>1, <1>4, <2>1, <2>2, OthersKeep DEF IndexesSoon
    <3>2. OnBoard(t)' => OnBoard(t)
      BY <1>1, <1>4, <1>6, <2>2, OthersKeep DEF OnBoard, IsLive
    <3>3. QED
      BY <1>2, <1>6, <2>1, <2>2, <3>1, <3>2 DEF FInv, Followed
  <2>3. CASE t \in On(i)
    <3>1. where = "done" /\ pc[i] = "save" /\ Op(i) \in {"link", "reorder"}
      BY <1>3, <1>4, <2>1, <2>3 DEF IndexesSoon
    <3>2. ~ IndexesSoon(t)
      BY <1>1, <1>4, <2>1, <2>3, <3>1, OthersKeep DEF IndexesSoon
    <3>3. Writes(i) /\ IsLive(t)
      BY <1>1, <2>3, <3>1 DEF Writes, HasRead, DInv, WrittenRowsLive
    <3>4. /\ ~ todos'[t].deleted /\ todos'[t].content = todos[t].content
          /\ todos'[t].archived = held[i][t].archived
      BY <1>2, <1>6, <2>3, <3>1, SavedContent DEF Edits, SavedAs
    <3>5. ~ Writes(i)'
      BY <1>4, <3>1 DEF Writes, HasRead
    <3>6. OnBoard(t)' => OnBoard(t)
      BY <1>1, <1>4, <2>3, <3>3, <3>4, <3>5, OthersKeep DEF OnBoard
    <3>7. QED
      BY <1>2, <3>2, <3>3, <3>4, <3>6 DEF FInv, Followed, IsLive
  <2>4. QED
    BY <2>2, <2>3
<1>11. QED
  BY <1>5, <1>8, <1>9, <1>10 DEF FInv

LEMMA DeleteFInv ==
    ASSUME FInv, DInv', NEW i \in Requests, SoftDelete(i)
    PROVE  FInv'
<1> USE DEF Advance
<1>1. DInv /\ TInv /\ TypeOK /\ NoTodo \notin Todo
  BY NoTodoNotTodo DEF FInv, DInv, TInv
<1>2. /\ pc[i] = "save" /\ Op(i) = "delete" /\ pc'[i] = "index"
      /\ pc' = [pc EXCEPT ![i] = "index"]
      /\ UNCHANGED <<arg, held, indexed>>
      /\ \A j \in Requests \ {i} : pc'[j] = pc[j] /\ arg'[j] = arg[j] /\ held'[j] = held[j]
  BY <1>1 DEF SoftDelete, TypeOK
<1>3. EditsAlone' /\ ReorderKeepsContent'
  BY <1>1, <1>2 DEF FInv, EditsAlone, ReorderKeepsContent, InFlight, Op, On, Awaits
<1>4. /\ \A t \in On(i) : t \in Todos /\ todos[t] \in Todo /\ todos'[t] \in Todo /\ todos'[t].deleted
      /\ \A t \in Todos \ On(i) : todos'[t] = todos[t]
  <2>1. \A t \in On(i) : t \in Todos /\ IsLive(t)
    BY <1>1, <1>2 DEF DInv, WrittenRowsLive, Writes, HasRead, TInv, Shape, Arg, On
  <2>2. \A t \in On(i) : todos[t] \in Todo
    BY <1>1, <2>1 DEF IsLive, TypeOK
  <2>3. QED
    BY <2>1, <2>2 DEF SoftDelete, Todo
<1>5. \A j \in Requests \ {i} : pc[j] \in Awaits => On(i) \cap On(j) = {}
  BY <1>2 DEF FInv, EditsAlone, InFlight, Awaits, Edits
<1>6. ~ HasRead(i)' \/ pc'[i] = "index"
  BY <1>2
<1>7. KnowsContent'
  <2>1. SUFFICES ASSUME NEW j \in Requests, HasRead(j)', pc'[j] \in {"check", "save"},
                        NEW t \in On(j)'
                 PROVE  held'[j][t].content = todos'[t].content
    BY DEF KnowsContent
  <2>2. j # i /\ HasRead(j) /\ pc[j] \in {"check", "save"} /\ t \in On(j) /\ t \in Todos
    BY <1>1, <1>2, <2>1, OthersKeep
  <2>3. QED
    BY <1>2, <1>4, <1>5, <2>2 DEF FInv, KnowsContent, Awaits
<1>8. WillIndex'
  <2>1. ASSUME NEW t \in On(i)
        PROVE  HandsOver(i, t)'
    BY <1>1, <1>2, <1>4, <2>1 DEF HandsOver, Op
  <2>2. ASSUME NEW j \in Requests \ {i}, pc[j] \in {"sync", "index"}, NEW t \in On(j)
        PROVE  HandsOver(j, t)'
    <3>1. t \in Todos /\ HandsOver(j, t) /\ t \notin On(i)
      BY <1>1, <1>2, <1>5, <2>2, OthersKeep DEF FInv, WillIndex, Awaits
    <3>2. QED
      BY <1>1, <1>2, <1>4, <3>1, OthersKeep DEF HandsOver, IsLive
  <2>3. QED
    BY <1>1, <1>2, <2>1, <2>2, OthersKeep DEF WillIndex, On
<1>9. Followed'
  <2>1. SUFFICES ASSUME NEW t \in Todos, todos'[t] # NoTodo, ~ IndexesSoon(t)'
                 PROVE  /\ todos'[t].deleted => indexed'[t] = Removed
                        /\ OnBoard(t)' => Tells(indexed'[t], todos'[t].content)
    BY DEF Followed
  <2>2. t \notin On(i)
    BY <1>2, <2>1 DEF IndexesSoon, On
  <2>3. ~ IndexesSoon(t)
    BY <1>1, <1>2, <2>1, <2>2, OthersKeep DEF IndexesSoon
  <2>4. OnBoard(t)' => OnBoard(t)
    BY <1>1, <1>2, <1>4, <2>2, OthersKeep DEF OnBoard, IsLive, On, Writes
  <2>5. QED
    BY <1>2, <1>4, <2>1, <2>2, <2>3, <2>4 DEF FInv, Followed
<1>10. QED
  BY <1>3, <1>7, <1>8, <1>9 DEF FInv

LEMMA IndexFInv ==
    ASSUME FInv, DInv', NEW i \in Requests, Index(i)
    PROVE  FInv'
<1> USE DEF Advance
<1>1. DInv /\ TInv /\ TypeOK /\ NoTodo \notin Todo
  BY NoTodoNotTodo DEF FInv, DInv, TInv
<1>2. /\ pc[i] = "index" /\ pc'[i] = "done"
      /\ pc' = [pc EXCEPT ![i] = "done"]
      /\ UNCHANGED <<arg, held, todos>>
      /\ \A j \in Requests \ {i} : pc'[j] = pc[j] /\ arg'[j] = arg[j] /\ held'[j] = held[j]
  BY <1>1 DEF Index, TypeOK
<1>3. EditsAlone' /\ ReorderKeepsContent'
  BY <1>1, <1>2 DEF FInv, EditsAlone, ReorderKeepsContent, InFlight, Op, On, Awaits
<1>4. /\ \A t \in Todos \cap On(i) : /\ Op(i) \in {"archive", "delete"} => indexed'[t] = Removed
                                     /\ Op(i) \notin {"archive", "delete"} =>
                                           indexed'[t] = Edited(i, t).content
      /\ \A t \in Todos \ On(i) : indexed'[t] = indexed[t]
  BY DEF Index
<1>5. ~ HasRead(i)' /\ ~ Writes(i)' /\ ~ Writes(i)
  BY <1>2 DEF HasRead, Writes
<1>6. KnowsContent' /\ WillIndex'
  BY <1>1, <1>2, <1>5, OthersKeep DEF FInv, KnowsContent, WillIndex, HandsOver, IsLive
<1>7. Followed'
  <2>1. SUFFICES ASSUME NEW t \in Todos, todos'[t] # NoTodo, ~ IndexesSoon(t)'
                 PROVE  /\ todos'[t].deleted => indexed'[t] = Removed
                        /\ OnBoard(t)' => Tells(indexed'[t], todos'[t].content)
    BY DEF Followed
  <2>2. OnBoard(t)' => OnBoard(t)
    BY <1>1, <1>2, <1>5, OthersKeep DEF OnBoard, IsLive
  <2>3. CASE t \notin On(i)
    <3>1. ~ IndexesSoon(t)
      BY <1>1, <1>2, <2>1, <2>3, OthersKeep DEF IndexesSoon
    <3>2. QED
      BY <1>2, <1>4, <2>1, <2>2, <2>3, <3>1 DEF FInv, Followed
  <2>4. CASE t \in On(i)
    <3>1. HandsOver(i, t)
      BY <1>2, <2>4 DEF FInv, WillIndex
    <3>2. CASE Op(i) = "delete"
      BY <1>2, <1>4, <2>2, <2>4, <3>1, <3>2 DEF HandsOver, OnBoard, IsLive
    <3>3. CASE Op(i) = "archive"
      <4>1. \A j \in Requests : Writes(j) => t \notin On(j)
        BY <1>2, <1>5, <2>4, <3>3
        DEF FInv, EditsAlone, Edits, InFlight, Awaits, Writes, HasRead
      <4>2. ~ OnBoard(t)
        BY <3>1, <3>3, <4>1 DEF HandsOver, OnBoard
      <4>3. QED
        BY <1>2, <2>2, <3>1, <3>3, <4>2 DEF HandsOver, IsLive
    <3>4. CASE Op(i) \notin {"archive", "delete"}
      BY <1>2, <1>4, <2>4, <3>1, <3>4 DEF HandsOver, IsLive
    <3>5. QED
      BY <3>2, <3>3, <3>4
  <2>5. QED
    BY <2>3, <2>4
<1>8. QED
  BY <1>3, <1>6, <1>7 DEF FInv

LEMMA CalmFInv ==
    ASSUME FInv, "delete" \in Alone, EditsAlone',
           \/ CreateStatus \/ UNCHANGED vars
           \/ \E i \in Requests : Arrive(i) \/ TodoStep(i) \/ StatusStep(i)
    PROVE  FInv'
<1>1. DInv
  BY DEF FInv
<1>2. CASE CreateStatus \/ UNCHANGED vars
  <2>1. DInv'
    BY <1>1, <1>2, NextDInv DEF Next
  <2>2. UNCHANGED <<todos, pc, arg, held, indexed>>
    BY <1>2 DEF CreateStatus, vars
  <2>3. KnowsContent' /\ WillIndex' /\ ReorderKeepsContent' /\ EditsAlone'
    BY <2>2 DEF FInv, KnowsContent, WillIndex, HandsOver, IsLive, Edited, HasRead, Op, On, To,
                ReorderKeepsContent
  <2>4. \A t \in Todos : /\ IndexesSoon(t)' <=> IndexesSoon(t)
                         /\ OnBoard(t)' <=> OnBoard(t)
    BY <2>2 DEF IndexesSoon, OnBoard, Writes, HasRead, IsLive, On, Op
  <2>5. Followed'
    BY <2>2, <2>4 DEF FInv, Followed
  <2>6. QED
    BY <2>1, <2>3, <2>5 DEF FInv
<1>3. ASSUME NEW i \in Requests, Arrive(i)
      PROVE  FInv'
  BY <1>3, ArriveFInv
<1>4. ASSUME NEW i \in Requests, TodoStep(i) \/ StatusStep(i)
      PROVE  FInv'
  <2>1. DInv'
    BY <1>1, <1>4, TodoDInv, StatusDInv
  <2>2. QED
    BY <1>4, <2>1, QuietFInv, SaveFInv, DeleteFInv, IndexFInv DEF TodoStep
<1>5. QED
  BY <1>2, <1>3, <1>4

LEMMA FollowedIndex == FInv => IndexFollowsTodo
<1>1. SUFFICES ASSUME FInv, NEW t \in Todos, todos[t] # NoTodo,
                      \A i \in InFlight : t \notin On(i)
               PROVE  /\ todos[t].deleted => indexed[t] = Removed
                      /\ ~ todos[t].deleted /\ ~ todos[t].archived =>
                            Tells(indexed[t], todos[t].content)
  BY DEF IndexFollowsTodo
<1>2. ~ IndexesSoon(t)
  BY <1>1 DEF IndexesSoon, InFlight, Awaits
<1>3. QED
  BY <1>1, <1>2 DEF FInv, Followed, OnBoard, IsLive

\* For TodoSearch: what a use case hands to the index is a call of it.
LEMMA HandedIsText ==
    ASSUME TInv, NEW i \in Requests, Index(i), NEW t \in On(i)
    PROVE  /\ t \in Todos /\ indexed'[t] \in Text \cup {Removed}
           /\ indexed'[t] = Removed => todos[t] \in Todo
<1>1. pc[i] = "index" /\ t \in Todos
  BY DEF Index, TInv, Shape, Arg, On
<1>2. Edited(i, t).content \in Text
  BY <1>1, EditedType DEF TodoEntity
<1>3. indexed'[t] = IF Op(i) \in {"archive", "delete"} THEN Removed ELSE Edited(i, t).content
  BY <1>1 DEF Index
<1>4. CASE Op(i) \in {"archive", "delete"}
  <2>1. todos[t] # NoTodo
    BY <1>1, <1>4 DEF TInv, Shape
  <2>2. QED
    BY <1>1, <1>3, <1>4, <2>1 DEF TInv, TypeOK
<1>5. CASE Op(i) \notin {"archive", "delete"}
  BY <1>1, <1>2, <1>3, <1>5, ConstantsAssumption
<1>6. QED
  BY <1>4, <1>5

\* For TodoSearch: what a use case hands to the index is what its todo is, and
\* it is about one todo.
LEMMA HandedIsTrue ==
    ASSUME FInv, NEW i \in Requests, Index(i), NEW t \in On(i)
    PROVE  /\ On(i) = {t} /\ t \in Todos /\ todos[t] \in Todo
           /\ \/ indexed'[t] = Removed
              \/ ~ todos[t].deleted /\ Tells(indexed'[t], todos[t].content)
           /\ UNCHANGED todos
           /\ \A u \in Todos \ {t} :
                 indexed'[u] = indexed[u] /\ (IndexesSoon(u)' <=> IndexesSoon(u))
<1>1. DInv /\ TInv /\ TypeOK
  BY DEF FInv, DInv, TInv
<1>2. /\ pc[i] = "index" /\ UNCHANGED <<todos, arg>>
      /\ pc' = [pc EXCEPT ![i] = "done"]
  BY DEF Index, Advance
<1>3. t \in Todos /\ \A u \in On(i) : u = t
  BY <1>1, <1>2 DEF DInv, OnlyUpdatesSync, TInv, Shape, Arg, On
<1>4. HandsOver(i, t)
  BY <1>2 DEF FInv, WillIndex
<1>5. todos[t] \in Todo
  BY <1>1, <1>3, <1>4 DEF HandsOver, IsLive, TypeOK
<1>6. indexed'[t] = IF Op(i) \in {"archive", "delete"} THEN Removed ELSE Edited(i, t).content
  BY <1>3 DEF Index
<1>7. Op(i) \notin {"archive", "delete"} =>
         ~ todos[t].deleted /\ Tells(Edited(i, t).content, todos[t].content)
  BY <1>4 DEF HandsOver, IsLive
<1>8. ASSUME NEW u \in Todos \ {t}
      PROVE  indexed'[u] = indexed[u] /\ (IndexesSoon(u)' <=> IndexesSoon(u))
  <2>1. u \notin On(i)
    BY <1>3, <1>8
  <2>2. indexed'[u] = indexed[u]
    BY <2>1 DEF Index
  <2>3. \A j \in Requests \ {i} : pc'[j] = pc[j]
    BY <1>1, <1>2 DEF TypeOK
  <2>4. QED
    BY <1>2, <2>1, <2>2, <2>3 DEF IndexesSoon, On
<1>9. QED
  BY <1>2, <1>3, <1>5, <1>6, <1>7, <1>8

\* For TodoSearch: until a use case hands over, a todo of which the index has
\* been told stays what it is, but for its status and whether it is archived.
LEMMA ToldStays ==
    ASSUME FInv, NEW t \in Todos, todos'[t] # NoTodo, ~ IndexesSoon(t)',
           \/ CreateStatus
           \/ \E i \in Requests :
                 \/ Arrive(i) \/ Check(i) \/ Read(i) \/ Save(i) \/ SoftDelete(i)
                 \/ Sync(i) \/ StatusStep(i)
    PROVE  /\ todos[t] # NoTodo /\ ~ IndexesSoon(t) /\ indexed'[t] = indexed[t]
           /\ todos'[t].content = todos[t].content
           /\ todos'[t].deleted <=> todos[t].deleted
<1> USE DEF Advance
<1>1. DInv /\ TInv /\ TypeOK
  BY DEF FInv, DInv, TInv
<1>2. indexed' = indexed
  BY ArriveFacts
  DEF CreateStatus, Check, Read, Save, SoftDelete, Sync, StatusStep, ReadStatus, SaveStatus,
      CountTodos, DropStatus
<1>3. CASE CreateStatus
  BY <1>2, <1>3 DEF CreateStatus, IndexesSoon, On
<1>4. ASSUME NEW i \in Requests, Arrive(i)
      PROVE  UNCHANGED todos /\ ~ IndexesSoon(t)
  <2>1. PICK where \in Awaits, a \in Arg :
          /\ pc' = [pc EXCEPT ![i] = where]
          /\ arg' = [arg EXCEPT ![i] = a]
    BY <1>4, ArriveFacts
  <2>2. /\ pc[i] = "new" /\ UNCHANGED todos
        /\ \A j \in Requests \ {i} : pc'[j] = pc[j] /\ arg'[j] = arg[j]
    BY <1>1, <1>4, <2>1, ArriveFacts DEF TypeOK
  <2>3. QED
    BY <2>2 DEF IndexesSoon, On
<1>5. ASSUME NEW i \in Requests, Check(i) \/ Read(i) \/ StatusStep(i)
      PROVE  UNCHANGED todos /\ ~ IndexesSoon(t)
  <2>1. /\ pc[i] \notin {"sync", "index"} /\ UNCHANGED <<todos, arg>>
        /\ \A j \in Requests \ {i} : pc'[j] = pc[j]
    BY <1>1, <1>5
    DEF Check, Read, StatusStep, ReadStatus, SaveStatus, CountTodos, DropStatus, TypeOK
  <2>2. QED
    BY <2>1 DEF IndexesSoon, On
<1>6. ASSUME NEW i \in Requests, Save(i) \/ SoftDelete(i) \/ Sync(i)
      PROVE  /\ todos[t] # NoTodo /\ ~ IndexesSoon(t)
             /\ todos'[t].content = todos[t].content
             /\ todos'[t].deleted <=> todos[t].deleted
  <2>1. /\ pc[i] \in {"save", "sync"} /\ UNCHANGED arg
        /\ \A j \in Requests \ {i} : pc'[j] = pc[j]
    BY <1>1, <1>6 DEF Save, SoftDelete, Sync, TypeOK
  <2>2. CASE t \notin On(i)
    <3>1. todos'[t] = todos[t]
      BY <1>1, <1>6, <2>1, <2>2, SavedType DEF Save, SoftDelete, Sync
    <3>2. QED
      BY <2>1, <2>2, <3>1 DEF IndexesSoon, On
  <2>3. CASE t \in On(i)
    <3>1. pc'[i] \notin {"sync", "index"}
      BY <2>1, <2>3 DEF IndexesSoon, On
    <3>2. Save(i) /\ pc[i] = "save" /\ Op(i) # "delete"
      BY <1>1, <1>6, <3>1 DEF Save, SoftDelete, Sync, TypeOK
    <3>3. Op(i) \in {"link", "reorder"}
      <4>1. (CASE Op(i) \in {"link", "reorder"} -> "done"
               [] StatusChanged(i, held[i]) -> "sync"
               [] OTHER -> "index") \in {"sync", "index"} \/ Op(i) \in {"link", "reorder"}
        OBVIOUS
      <4>2. QED
        BY <1>1, <3>1, <3>2, <4>1 DEF Save, TypeOK
    <3>4. /\ Edited(i, t).content = todos[t].content /\ ~ Edited(i, t).deleted
          /\ todos[t].content \in Content
      BY <2>3, <3>2, <3>3, SavedContent DEF Edits
    <3>5. SavedAs(todos'[t], Edited(i, t))
      BY <1>1, <2>3, <3>2, SavedType DEF Save
    <3>6. IsLive(t)
      BY <1>1, <2>3, <3>2, <3>3 DEF DInv, WrittenRowsLive, Writes, HasRead
    <3>7. \A j \in Requests \ {i} : pc[j] \in {"sync", "index"} => t \notin On(j)
      BY <2>1 DEF IndexesSoon, On
    <3>8. QED
      BY <3>2, <3>4, <3>5, <3>6, <3>7 DEF IsLive, IndexesSoon, SavedAs
  <2>4. QED
    BY <2>2, <2>3
<1>7. QED
  BY <1>2, <1>3, <1>4, <1>5, <1>6

\* If Alone says so, what edits, archives or deletes a todo runs alone on it.
LEMMA AloneKeepsEdits ==
    ASSUME Edits \subseteq Alone, FInv, [Next]_vars
    PROVE  EditsAlone'
<1>1. TypeOK /\ EditsAlone
  BY DEF FInv, DInv, TInv
<1>2. ASSUME NEW i \in Requests, Arrive(i)
      PROVE  EditsAlone'
  <2>1. PICK where \in Awaits, a \in Arg :
          /\ Admitted(a.op, a.on)
          /\ pc' = [pc EXCEPT ![i] = where]
          /\ arg' = [arg EXCEPT ![i] = a]
    BY <1>2, ArriveFacts
  <2>2. /\ pc'[i] = where /\ arg'[i] = a /\ pc[i] = "new"
        /\ \A j \in Requests : j # i => pc'[j] = pc[j] /\ arg'[j] = arg[j]
    BY <1>1, <1>2, <2>1, ArriveFacts DEF TypeOK
  <2>3. i \notin InFlight /\ InFlight' = InFlight \cup {i}
    BY <2>1, <2>2 DEF InFlight, Awaits
  <2>4. \A j \in InFlight : a.on \cap arg[j].on # {} => {a.op, arg[j].op} \cap Edits = {}
    BY <2>1 DEF Admitted
  <2>5. QED
    BY <1>1, <2>2, <2>3, <2>4 DEF EditsAlone, Op, On, InFlight
<1>3. ASSUME NEW i \in Requests, TodoStep(i) \/ StatusStep(i) \/ Abort(i)
      PROVE  EditsAlone'
  <2>1. InFlight' \subseteq InFlight /\ UNCHANGED arg
    BY <1>1, <1>3
    DEF TodoStep, StatusStep, Abort, Check, Read, Save, SoftDelete, Sync, Index, ReadStatus,
        SaveStatus, CountTodos, DropStatus, Advance, InFlight, Awaits, TypeOK
  <2>2. QED
    BY <1>1, <2>1 DEF EditsAlone, Op, On
<1>4. CASE CreateStatus \/ UNCHANGED vars
  BY <1>1, <1>4 DEF CreateStatus, vars, EditsAlone, InFlight, Op, On
<1>5. QED
  BY <1>2, <1>3, <1>4 DEF Next

\* IndexFollowsTodo of TodoLifecycle, if what edits, archives or deletes a todo runs alone
\* on it and no call fails: the last call that the use cases made to TodoIndexingService
\* matches what the todo has become, although others save whole entities meanwhile.
THEOREM IndexFollows ==
    ASSUME Edits \subseteq Alone, Faults = FALSE
    PROVE  Spec => []IndexFollowsTodo
<1>1. FInv /\ [Next]_vars => FInv'
  <2>1. SUFFICES ASSUME FInv, [Next]_vars PROVE FInv'
    OBVIOUS
  <2>2. EditsAlone' /\ "delete" \in Alone
    BY <2>1, AloneKeepsEdits DEF Edits
  <2>3. \A i \in Requests : ~ Abort(i)
    BY DEF Abort
  <2>4. QED
    BY <2>1, <2>2, <2>3, CalmFInv DEF Next
<1>2. QED
  BY <1>1, InitFInv, FollowedIndex, PTL DEF Spec

\* CalmIndexFollowsTodo of MCTodoLifecycle: the same of the calm part of its behaviours.
THEOREM CalmIndexFollows ==
    ASSUME "delete" \in Alone, Edits \subseteq CalmAlone
    PROVE  MCSpec => []CalmIndexFollowsTodo
<1> DEFINE Inv == calm \in BOOLEAN /\ (calm => FInv)
<1>1. MCInit => Inv
  BY InitFInv, PartsAssumption DEF MCInit
<1>2. Inv /\ [MCNext]_<<vars, calm>> => Inv'
  <2>1. SUFFICES ASSUME Inv, [MCNext]_<<vars, calm>>, calm'
                 PROVE  FInv'
    BY DEF MCNext
  <2>2. calm' = calm /\ FInv
    BY <2>1 DEF MCNext
  <2>3. CASE UNCHANGED vars
    <3>1. EditsAlone'
      BY <2>2, <2>3 DEF vars, FInv, EditsAlone, InFlight, Op, On
    <3>2. QED
      BY <2>2, <2>3, <3>1, CalmFInv
  <2>4. CASE CalmNext
    <3>1. EditsAlone'
      BY <2>4 DEF CalmNext, AloneOnTodo, EditsAlone
    <3>2. QED
      BY <2>2, <2>4, <3>1, CalmFInv DEF CalmNext
  <2>5. QED
    BY <2>1, <2>2, <2>3, <2>4 DEF MCNext
<1>3. Inv => CalmIndexFollowsTodo
  BY FollowedIndex DEF CalmIndexFollowsTodo
<1>4. QED
  BY <1>1, <1>2, <1>3, PTL DEF MCSpec
=============================================================================
