-------------------------- MODULE TodoSearch_proofs --------------------------
(***************************************************************************)
(* Theorems about TodoSearch, for any number of requests, todos, rows,     *)
(* statuses and texts.  What was proved of its two parts is used as it  *)
(* is: a step of the whole is a step of each, or leaves it alone.          *)
(***************************************************************************)
EXTENDS TodoSearch, EmbeddingIndex_proofs

\* The lemmas about TodoLifecycle, of the board.
BoardProofs == INSTANCE TodoLifecycle_proofs
    WITH Todos <- Records, NoTodo <- NoRow, Faults <- FALSE,
         pc <- useCase, arg <- body, held <- entity,
         Parts <- {TRUE}, CalmAlone <- Alone, MaxFaulty <- 0, calm <- TRUE

\* What those lemmas assume of the constants.
LEMMA BoardConstants ==
    /\ NoRow \notin BoardProofs!Todo
    /\ NoArg \notin BoardProofs!Arg
    /\ Keep \notin StatusIds \cup Titles \cup Descriptions \cup {NoText, Unset}
    /\ Unset \notin Descriptions \cup {NoText}
    /\ NotIndexed \notin BoardProofs!Text /\ Removed \notin BoardProofs!Text
    /\ NotIndexed # Removed
    /\ Alone \subseteq BoardProofs!Ops
    /\ FALSE \in BOOLEAN
    /\ {TRUE} \subseteq BOOLEAN
BY BoardAssumption
DEF Board!Todo, Board!Arg, Board!Ops, Board!Content, Board!Body, Board!Text,
    BoardProofs!Todo, BoardProofs!Arg, BoardProofs!Ops, BoardProofs!Content,
    BoardProofs!Body, BoardProofs!Text

\* The board of TodoSearch is the one that the lemmas are about.
LEMMA SameBoard ==
    /\ Board!Init => BoardProofs!Init
    /\ Board!CreateStatus => BoardProofs!CreateStatus
    /\ \A i : Board!On(i) = BoardProofs!On(i)
    /\ Board!InFlight = BoardProofs!InFlight
    /\ \A i \in Requests : Board!Arrive(i) => BoardProofs!Arrive(i)
    /\ \A i \in Requests : Board!Check(i) => BoardProofs!Check(i)
    /\ \A i \in Requests : Board!Read(i) => BoardProofs!Read(i)
    /\ \A i \in Requests : Board!Save(i) => BoardProofs!Save(i)
    /\ \A i \in Requests : Board!SoftDelete(i) => BoardProofs!SoftDelete(i)
    /\ \A i \in Requests : Board!Sync(i) => BoardProofs!Sync(i)
    /\ \A i \in Requests : Board!Index(i) => BoardProofs!Index(i)
    /\ \A i \in Requests : Board!StatusStep(i) => BoardProofs!StatusStep(i)
    /\ \A t : Board!IsLive(t) <=> BoardProofs!IsLive(t)
<1>1. Board!Init => BoardProofs!Init
  BY DEF Board!Init, BoardProofs!Init
<1>2. Board!CreateStatus => BoardProofs!CreateStatus
  BY DEF Board!CreateStatus, BoardProofs!CreateStatus, Board!Live, BoardProofs!Live
<1>3. \A i : Board!On(i) = BoardProofs!On(i)
  BY DEF Board!On, BoardProofs!On
<1>4. Board!InFlight = BoardProofs!InFlight
  BY DEF Board!InFlight, BoardProofs!InFlight, Board!Awaits, BoardProofs!Awaits
<1>5. \A i \in Requests : Board!Arrive(i) => BoardProofs!Arrive(i)
  BY DEF Board!Arrive, BoardProofs!Arrive, Board!StartCreate, BoardProofs!StartCreate,
      Board!StartUpdate, BoardProofs!StartUpdate, Board!StartOnTodo,
      BoardProofs!StartOnTodo, Board!StartReorder, BoardProofs!StartReorder,
      Board!StartOnStatus, BoardProofs!StartOnStatus, Board!Start, BoardProofs!Start,
      Board!Admitted, BoardProofs!Admitted, Board!InFlight, BoardProofs!InFlight,
      Board!Awaits, BoardProofs!Awaits, Board!Nowhere, BoardProofs!Nowhere,
      Board!SameText, BoardProofs!SameText, Board!Content, BoardProofs!Content,
      Board!Body, BoardProofs!Body
<1>6. \A i \in Requests : Board!Check(i) => BoardProofs!Check(i)
  BY DEF Board!Check, BoardProofs!Check, Board!Targets, BoardProofs!Targets, Board!To,
      BoardProofs!To, Board!On, BoardProofs!On, Board!Op, BoardProofs!Op, Board!Advance,
      BoardProofs!Advance, Board!Live, BoardProofs!Live
<1>7. \A i \in Requests : Board!Read(i) => BoardProofs!Read(i)
  BY DEF Board!Read, BoardProofs!Read, Board!On, BoardProofs!On, Board!Op,
      BoardProofs!Op, Board!To, BoardProofs!To, Board!IsLive, BoardProofs!IsLive,
      Board!Advance, BoardProofs!Advance, Board!StatusChanged, BoardProofs!StatusChanged
<1>8. \A i \in Requests : Board!Save(i) => BoardProofs!Save(i)
  BY DEF Board!Save, BoardProofs!Save, Board!Saved, BoardProofs!Saved, Board!Edited,
      BoardProofs!Edited, Board!Stored, BoardProofs!Stored, Board!Assigned,
      BoardProofs!Assigned, Board!Given, BoardProofs!Given, Board!On, BoardProofs!On,
      Board!Op, BoardProofs!Op, Board!To, BoardProofs!To, Board!Advance,
      BoardProofs!Advance, Board!StatusChanged, BoardProofs!StatusChanged
<1>9. \A i \in Requests : Board!SoftDelete(i) => BoardProofs!SoftDelete(i)
  BY DEF Board!SoftDelete, BoardProofs!SoftDelete, Board!On, BoardProofs!On, Board!Op,
      BoardProofs!Op, Board!Advance, BoardProofs!Advance
<1>10. \A i \in Requests : Board!Sync(i) => BoardProofs!Sync(i)
  BY DEF Board!Sync, BoardProofs!Sync, Board!Saved, BoardProofs!Saved, Board!Edited,
      BoardProofs!Edited, Board!Stored, BoardProofs!Stored, Board!Assigned,
      BoardProofs!Assigned, Board!Given, BoardProofs!Given, Board!On, BoardProofs!On,
      Board!Op, BoardProofs!Op, Board!To, BoardProofs!To, Board!Advance,
      BoardProofs!Advance
<1>11. \A i \in Requests : Board!Index(i) => BoardProofs!Index(i)
  BY DEF Board!Index, BoardProofs!Index, Board!Edited, BoardProofs!Edited,
      Board!Assigned, BoardProofs!Assigned, Board!Given,
      BoardProofs!Given, Board!On, BoardProofs!On, Board!Op, BoardProofs!Op, Board!To,
      BoardProofs!To, Board!Advance, BoardProofs!Advance
<1>12. \A i \in Requests : Board!StatusStep(i) => BoardProofs!StatusStep(i)
  BY DEF Board!StatusStep, BoardProofs!StatusStep, Board!ReadStatus,
      BoardProofs!ReadStatus, Board!SaveStatus, BoardProofs!SaveStatus,
      Board!CountTodos, BoardProofs!CountTodos, Board!DropStatus,
      BoardProofs!DropStatus, Board!Advance, BoardProofs!Advance, Board!Live,
      BoardProofs!Live, Board!Deleted, BoardProofs!Deleted, Board!TodosIn,
      BoardProofs!TodosIn, Board!IsLive, BoardProofs!IsLive
<1>13. \A t : Board!IsLive(t) <=> BoardProofs!IsLive(t)
  BY DEF Board!IsLive, BoardProofs!IsLive
<1>14. QED
  BY <1>1, <1>2, <1>3, <1>4, <1>5, <1>6, <1>7, <1>8, <1>9, <1>10, <1>11, <1>12, <1>13

-----------------------------------------------------------------------------
(* A step of the whole is a step of each part, or leaves it alone. *)

\* What use cases do before they hand over.
QuietBoard ==
    \/ BoardProofs!CreateStatus
    \/ \E i \in Requests :
          \/ BoardProofs!Arrive(i) \/ BoardProofs!Check(i) \/ BoardProofs!Read(i)
          \/ BoardProofs!Save(i) \/ BoardProofs!SoftDelete(i) \/ BoardProofs!Sync(i)
          \/ BoardProofs!StatusStep(i)

BoardSame == UNCHANGED BoardProofs!vars

LEMMA BoardMoves ==
    ASSUME SearchNext \/ UNCHANGED <<vars, boardVars>>
    PROVE  /\ BoardStep => QuietBoard
           /\ \A i \in Requests : HandOver(i) => BoardProofs!Index(i)
           /\ \/ BoardProofs!CreateStatus \/ BoardSame
              \/ \E i \in Requests : \/ BoardProofs!Arrive(i) \/ BoardProofs!TodoStep(i)
                                     \/ BoardProofs!StatusStep(i)
<1>1. BoardStep => QuietBoard
  BY SameBoard DEF BoardStep, QuietBoard
<1>2. \A i \in Requests : HandOver(i) => BoardProofs!Index(i)
  BY SameBoard DEF HandOver
<1>3. IndexStep \/ (\E i \in Requests : IndexTodo(i)) \/ UNCHANGED <<vars, boardVars>> =>
         BoardSame
  BY DEF IndexStep, IndexTodo, boardVars, BoardProofs!vars, BoardSame
<1>4. QED
  BY <1>1, <1>2, <1>3 DEF SearchNext, QuietBoard, BoardProofs!TodoStep

LEMMA BoardNext ==
    ASSUME SearchNext \/ UNCHANGED <<vars, boardVars>>
    PROVE  [BoardProofs!Next]_(BoardProofs!vars)
BY BoardMoves DEF BoardProofs!Next, BoardSame

\* If what edits, archives or deletes a todo runs alone on it, the board has
\* told the index the truth whenever it has told it anything.
LEMMA BoardStaysTrue ==
    ASSUME BoardProofs!Edits \subseteq Alone, BoardProofs!FInv,
           SearchNext \/ UNCHANGED <<vars, boardVars>>
    PROVE  BoardProofs!FInv'
<1>1. BoardProofs!EditsAlone'
  BY BoardConstants, BoardNext, BoardProofs!AloneKeepsEdits
<1>2. "delete" \in Alone
  BY DEF BoardProofs!Edits
<1>3. QED
  BY <1>1, <1>2, BoardConstants, BoardMoves, BoardProofs!CalmFInv DEF BoardSame

\* KnownBy of a todo with this content, after the index was told this text.
Known(content, text) ==
    {content} \cup {c \in Board!Content : /\ c = [content EXCEPT !.description = NoText]
                                         /\ text = [c EXCEPT !.description = Unset]}

LEMMA JoinedText ==
    /\ BoardProofs!Content \subseteq Contents
    /\ \A text \in BoardProofs!Text : Joined(text) \in Contents
<1>1. BoardProofs!Content \subseteq Contents
  BY BoardAssumption DEF Board!Content, BoardProofs!Content
<1>2. ASSUME NEW text \in BoardProofs!Text
      PROVE  Joined(text) \in BoardProofs!Content
  BY <1>2 DEF Joined, BoardProofs!Text, BoardProofs!Content
<1>3. QED
  BY <1>1, <1>2

\* A text that tells the content is joined to one that the todo is known by.
LEMMA JoinedKnown ==
    ASSUME NEW content \in BoardProofs!Content, NEW text, BoardProofs!Tells(text, content)
    PROVE  text \in BoardProofs!Text /\ Joined(text) \in Known(content, text)
<1>1. /\ content.title \in Titles /\ content.description \in Descriptions \cup {NoText}
      /\ content = [title |-> content.title, description |-> content.description]
  BY DEF BoardProofs!Content
<1>2. /\ text = [title |-> content.title, description |-> text.description]
      /\ text.description \in {content.description, Unset}
  BY DEF BoardProofs!Tells
<1>3. text \in BoardProofs!Text
  BY <1>1, <1>2 DEF BoardProofs!Text
<1>4. CASE text.description # Unset
  BY <1>1, <1>2, <1>3, <1>4 DEF Joined, Known
<1>5. CASE text.description = Unset
  <2> DEFINE c == [title |-> content.title, description |-> NoText]
  <2>1. c \in Board!Content /\ c = [content EXCEPT !.description = NoText]
    BY <1>1 DEF Board!Content
  <2>2. Joined(text) = c /\ text = [c EXCEPT !.description = Unset]
    BY <1>2, <1>5 DEF Joined
  <2> HIDE DEF c
  <2>3. QED
    BY <1>3, <2>1, <2>2 DEF Known
<1>6. QED
  BY <1>4, <1>5, <1>3

\* A call that a use case hands over is one that EmbeddingIndex admits, ...
LEMMA HandingStarts ==
    ASSUME BoardProofs!TInv, NEW i \in Requests, HandOver(i)
    PROVE  StartReindex(i) \/ StartRemoveIndex(i)
<1>1. BoardProofs!Index(i)
  BY SameBoard DEF HandOver
<1>2. PICK t \in BoardProofs!On(i), u \in Users :
         IF indexed'[t] = Removed
         THEN Start(i, [user |-> u, key |-> t, content |-> todos[t].content], "lookup")
         ELSE Start(i, [user |-> u, key |-> t, content |-> Joined(indexed'[t])], "find")
  BY SameBoard DEF HandOver
<1>3. /\ t \in Records /\ indexed'[t] \in BoardProofs!Text \cup {Removed}
      /\ indexed'[t] = Removed => todos[t] \in BoardProofs!Todo
  BY <1>1, BoardConstants, BoardProofs!HandedIsText
<1>4. CASE indexed'[t] = Removed
  <2>1. todos[t].content \in Contents
    BY <1>3, <1>4, JoinedText DEF BoardProofs!Todo
  <2>2. QED
    BY <1>2, <1>3, <1>4, <2>1 DEF StartRemoveIndex
<1>5. CASE indexed'[t] # Removed
  <2>1. Joined(indexed'[t]) \in Contents
    BY <1>3, <1>5, JoinedText
  <2>2. QED
    BY <1>2, <1>3, <1>5, <2>1 DEF StartReindex
<1>6. QED
  BY <1>4, <1>5

\* ... and for one todo of the board, with a text that it is known by.
LEMMA Handing ==
    ASSUME BoardProofs!FInv, NEW i \in Requests, HandOver(i)
    PROVE  \E t \in Records, a \in Arg, where \in {"find", "lookup"} :
              /\ Start(i, a, where) /\ a.key = t
              /\ \/ where = "lookup" /\ indexed'[t] = Removed
                 \/ /\ where = "find" /\ indexed'[t] # Removed
                    /\ ~ todos[t].deleted
                    /\ a.content \in Known(todos[t].content, indexed'[t])
              /\ UNCHANGED todos
              /\ \A u \in Records \ {t} :
                    /\ indexed'[u] = indexed[u]
                    /\ BoardProofs!IndexesSoon(u)' <=> BoardProofs!IndexesSoon(u)
<1>1. BoardProofs!Index(i)
  BY SameBoard DEF HandOver
<1>2. PICK t \in BoardProofs!On(i), u \in Users :
         IF indexed'[t] = Removed
         THEN Start(i, [user |-> u, key |-> t, content |-> todos[t].content], "lookup")
         ELSE Start(i, [user |-> u, key |-> t, content |-> Joined(indexed'[t])], "find")
  BY SameBoard DEF HandOver
<1>3. /\ t \in Records /\ todos[t] \in BoardProofs!Todo
      /\ \/ indexed'[t] = Removed
         \/ ~ todos[t].deleted /\ BoardProofs!Tells(indexed'[t], todos[t].content)
      /\ UNCHANGED todos
      /\ \A v \in Records \ {t} :
            /\ indexed'[v] = indexed[v]
            /\ BoardProofs!IndexesSoon(v)' <=> BoardProofs!IndexesSoon(v)
  BY <1>1, BoardConstants, BoardProofs!HandedIsTrue
<1>4. todos[t].content \in BoardProofs!Content /\ todos[t].content \in Contents
  BY <1>3, JoinedText DEF BoardProofs!Todo
<1> DEFINE a(c) == [user |-> u, key |-> t, content |-> c]
<1>5. \A c \in Contents : a(c) \in Arg /\ a(c).key = t /\ a(c).content = c
  BY <1>3 DEF Arg, Keys
<1>6. CASE indexed'[t] = Removed
  <2>1. Start(i, a(todos[t].content), "lookup")
    BY <1>2, <1>6
  <2> HIDE DEF a
  <2>2. QED
    BY <1>3, <1>4, <1>5, <1>6, <2>1
<1>7. CASE indexed'[t] # Removed
  <2>1. Start(i, a(Joined(indexed'[t])), "find")
    BY <1>2, <1>7
  <2>2. /\ Joined(indexed'[t]) \in Contents
        /\ Joined(indexed'[t]) \in Known(todos[t].content, indexed'[t])
    BY <1>3, <1>4, <1>7, JoinedText, JoinedKnown
  <2> HIDE DEF a
  <2>3. QED
    BY <1>3, <1>5, <1>7, <2>1, <2>2
<1>8. QED
  BY <1>6, <1>7

\* POST /rag/index of a todo that is on the board, with its text.
LEMMA Indexing ==
    ASSUME BoardProofs!TInv, NEW i \in Requests, IndexTodo(i)
    PROVE  \E t \in Records, a \in Arg :
              /\ Start(i, a, "find") /\ a.key = t /\ a.content = todos[t].content
              /\ todos[t] # NoRow /\ ~ todos[t].deleted
              /\ StartIndexRecord(i)
<1>1. PICK t \in Records :
        /\ todos[t] # NoRow /\ ~ todos[t].deleted
        /\ Start(i, [user |-> Creator[t], key |-> t, content |-> todos[t].content], "find")
  BY DEF IndexTodo, Board!IsLive
<1>2. todos[t] \in BoardProofs!Todo
  BY <1>1 DEF BoardProofs!TInv, BoardProofs!TypeOK
<1>3. todos[t].content \in Contents
  BY <1>2, JoinedText DEF BoardProofs!Todo
<1> DEFINE a == [user |-> Creator[t], key |-> t, content |-> todos[t].content]
<1>4. a \in Arg /\ a.key = t /\ a.content = todos[t].content
  BY <1>3, ConstantsAssumption DEF Arg, Keys
<1>5. Start(i, a, "find") /\ StartIndexRecord(i)
  BY <1>1, <1>3 DEF StartIndexRecord
<1> HIDE DEF a
<1>6. QED
  BY <1>1, <1>4, <1>5

LEMMA IndexNext ==
    ASSUME BoardProofs!TInv, SearchNext \/ UNCHANGED <<vars, boardVars>>
    PROVE  [Next]_vars
<1>1. CASE BoardStep \/ UNCHANGED <<vars, boardVars>>
  <2>1. UNCHANGED vars
    BY <1>1 DEF BoardStep
  <2>2. QED
    BY <2>1
<1>2. CASE IndexStep
  BY <1>2 DEF IndexStep, Next, Fault
<1>3. ASSUME NEW i \in Requests, HandOver(i) \/ IndexTodo(i)
      PROVE  Arrive(i)
  BY <1>3, HandingStarts, Indexing DEF Arrive
<1>4. QED
  BY <1>1, <1>2, <1>3 DEF SearchNext, Next

\* A composition of the two: its behaviours are behaviours of either part, so
\* that what was proved of EmbeddingIndex and of TodoLifecycle, when nothing
\* fails there, is true of it.
THEOREM SearchComposes == SearchSpec => Spec /\ BoardProofs!Spec
<1>1. SearchInit => Init /\ BoardProofs!Init
  BY SameBoard DEF SearchInit
<1>2. BoardProofs!Init => BoardProofs!TInv
  BY BoardConstants, BoardProofs!InitTInv
<1>3. BoardProofs!TInv /\ [BoardProofs!Next]_(BoardProofs!vars) => BoardProofs!TInv'
  BY BoardConstants, BoardProofs!NextTInv
<1>4. [SearchNext]_<<vars, boardVars>> => [BoardProofs!Next]_(BoardProofs!vars)
  BY BoardNext
<1>5. BoardProofs!TInv /\ [SearchNext]_<<vars, boardVars>> => [Next]_vars
  BY IndexNext
<1>6. QED
  BY <1>1, <1>2, <1>3, <1>4, <1>5, PTL DEF SearchSpec, Spec, BoardProofs!Spec

-----------------------------------------------------------------------------
(***************************************************************************)
(* What the index knows of a record, if requests for it wait for one       *)
(* another: all calls that reached it since are to remove it, or all are   *)
(* to index the same text.                                                 *)
(***************************************************************************)
NoneFound == \A i \in Requests : pc[i] = "insert" => RowsOf(arg[i].key) = {}

Gone(k) ==
    /\ \A i \in RequestsOn(k) : pc[i] \in {"lookup", "remove"}
    /\ RequestsOn(k) = {} => RowsOf(k) = {}

Kept(k, c) ==
    /\ \A i \in RequestsOn(k) : pc[i] \notin {"lookup", "remove"} /\ arg[i].content = c
    /\ RequestsOn(k) = {} => \E r \in RowsOf(k) : sources[r].hash = c

\* A row PENDING or PROCESSING is about to have a job, or has one.
StatusKnown ==
    \A r \in Rows : Exists(r) =>
        /\ sources[r].status = "pending" =>
              \/ \E i \in Requests : pc[i] = "enqueue" /\ seen[i].id = r
              \/ ~ NoneWaits(r)
        /\ sources[r].status = "processing" => \E w \in Workers : Works(w, r)

RInv == NInv /\ NoneFound /\ StatusKnown

LEMMA InitRInv == Init => RInv
BY InitNInv DEF Init, RInv, NoneFound, StatusKnown, Exists

LEMMA StartKeeps ==
    ASSUME RInv, Arrivals = "serial", NEW i \in Requests, NEW a \in Arg,
           NEW where \in {"find", "lookup"}, Start(i, a, where)
    PROVE  /\ NoneFound' /\ StatusKnown'
           /\ where = "lookup" => Gone(a.key)'
           /\ where = "find" => Kept(a.key, a.content)'
           /\ \A k : k # a.key => /\ Gone(k) => Gone(k)'
                                  /\ \A c : Kept(k, c) => Kept(k, c)'
<1>1. TypeOK
  BY DEF RInv, NInv, SInv, IInv, TInv
<1>2. /\ pc[i] = "new" /\ pc'[i] = where /\ arg'[i] = a /\ RequestsOn(a.key) = {}
      /\ \A j \in Requests \ {i} : pc'[j] = pc[j] /\ arg'[j] = arg[j]
      /\ UNCHANGED <<sources, seen, queue, worker>>
  BY <1>1 DEF Start, Admitted, TypeOK, queueVars
<1>3. \A k : RowsOf(k)' = RowsOf(k)
  BY <1>2 DEF RowsOf, Exists
<1>4. NoneFound'
  BY <1>2, <1>3 DEF RInv, NoneFound
<1>5. \A j \in Requests : pc[j] = "enqueue" => pc'[j] = "enqueue" /\ seen'[j] = seen[j]
  BY <1>2
<1>6. \A r \in Rows : /\ NoneWaits(r)' <=> NoneWaits(r)
                      /\ \A w \in Workers : Works(w, r)' <=> Works(w, r)
  BY <1>2 DEF NoneWaits, Waits, Works
<1>7. StatusKnown'
  BY <1>2, <1>5, <1>6 DEF RInv, StatusKnown, Exists
<1>8. RequestsOn(a.key)' = {i}
  BY <1>2 DEF RequestsOn, InFlight
<1>9. (where = "lookup" => Gone(a.key)') /\ (where = "find" => Kept(a.key, a.content)')
  BY <1>2, <1>8 DEF Gone, Kept
<1>10. ASSUME NEW k, k # a.key
       PROVE  /\ Gone(k) => Gone(k)'
              /\ \A c : Kept(k, c) => Kept(k, c)'
  <2>1. /\ RequestsOn(k)' = RequestsOn(k)
        /\ \A j \in RequestsOn(k) : pc'[j] = pc[j] /\ arg'[j] = arg[j]
    BY <1>2, <1>10 DEF RequestsOn, InFlight
  <2>2. QED
    BY <1>2, <1>3, <2>1 DEF Gone, Kept
<1>11. QED
  BY <1>4, <1>7, <1>9, <1>10

\* The row that a request touches is the row of its key.
LEMMA TouchedRow ==
    ASSUME NInv, NInv', NEW i \in Requests, RequestStep(i), NEW r \in Rows,
           sources'[r] # sources[r]
    PROVE  /\ Exists(r) => sources[r].key = arg[i].key
           /\ Exists(r)' => sources'[r].key = arg[i].key
           /\ pc[i] \in {"update", "insert", "remove"}
           /\ pc[i] = "remove" => r = seen[i].id /\ ~ Exists(r)'
           /\ pc[i] # "remove" => /\ pc'[i] = "enqueue" /\ seen'[i].id = r
                                  /\ sources'[r].status = "pending"
<1> USE DEF NInv, SInv, IInv, TInv
<1>1. UNCHANGED arg
  BY RequestMoves
<1>2. ~ Find(i) /\ ~ Purge(i) /\ ~ Enqueue(i) /\ ~ Lookup(i)
  BY DEF Find, Purge, Enqueue, Lookup
<1>3. CASE Update(i)
  <2>1. /\ pc[i] = "update" /\ pc'[i] = "enqueue" /\ seen' = seen
    BY <1>3, UpdateFinds DEF Update, Advance, TypeOK
  <2>2. r = seen[i].id /\ sources'[r].status = "pending"
    BY <1>3, UpdatedRow
  <2>3. Holds(i) /\ Holds(i)'
    BY <2>1, EntityNotNoRow DEF Shape, Holding, Holds
  <2>4. QED
    BY <1>1, <2>1, <2>2, <2>3 DEF Binding
<1>4. CASE Insert(i)
  <2>1. PICK q \in Rows \ born :
          /\ ~ Exists(q)
          /\ \A p \in Rows : p # q => sources'[p] = sources[p]
          /\ sources'[q].status = "pending"
          /\ seen'[i].id = q /\ seen'[i] \in Entity
          /\ pc'[i] = "enqueue"
    BY <1>4, InsertedRow
  <2>2. r = q /\ Holds(i)' /\ pc[i] = "insert"
    BY <1>4, <2>1, EntityNotNoRow DEF Holds, Insert
  <2>3. QED
    BY <1>1, <2>1, <2>2 DEF Binding
<1>5. CASE Remove(i)
  <2>1. pc[i] = "remove" /\ r = seen[i].id /\ ~ Exists(r)'
    BY <1>5 DEF Remove, TypeOK, Exists
  <2>2. Holds(i)
    BY <2>1, EntityNotNoRow DEF Shape, Holding, Holds
  <2>3. QED
    BY <1>1, <2>1, <2>2 DEF Binding
<1>6. QED
  BY <1>2, <1>3, <1>4, <1>5 DEF RequestStep

\* What a step of request i leaves alone.
LEMMA OtherKeys ==
    ASSUME NInv, NInv', NEW i \in Requests, RequestStep(i), NEW k, k # arg[i].key
    PROVE  /\ RowsOf(k)' = RowsOf(k)
           /\ \A r \in RowsOf(k) : sources'[r] = sources[r]
           /\ RequestsOn(k)' = RequestsOn(k)
           /\ \A j \in RequestsOn(k) : j # i
<1>1. ASSUME NEW r \in Rows
      PROVE  /\ r \in RowsOf(k)' <=> r \in RowsOf(k)
             /\ r \in RowsOf(k) => sources'[r] = sources[r]
  <2>1. CASE sources'[r] = sources[r]
    BY <2>1 DEF RowsOf, Exists
  <2>2. CASE sources'[r] # sources[r]
    BY <2>2, TouchedRow DEF RowsOf
  <2>3. QED
    BY <2>1, <2>2
<1>2. UNCHANGED arg /\ \A j \in Requests \ {i} : pc'[j] = pc[j]
  BY RequestMoves DEF NInv
<1>3. QED
  BY <1>1, <1>2 DEF RowsOf, RequestsOn

LEMMA RequestKeeps ==
    ASSUME RInv, NInv', NEW i \in Requests, RequestStep(i)
    PROVE  /\ NoneFound'
           /\ \A k : /\ Gone(k) => Gone(k)'
                     /\ \A c : Kept(k, c) => Kept(k, c)'
<1> USE DEF RInv, NInv, SInv, IInv, TInv
<1>0. PICK key : key = arg[i].key
  OBVIOUS
<1> USE <1>0
<1>1. /\ pc[i] \in InFlight /\ UNCHANGED arg
      /\ \A j \in Requests \ {i} : pc'[j] = pc[j] /\ seen'[j] = seen[j]
  BY RequestMoves
<1>2. RequestsOn(key) = {i} /\ \A j \in RequestsOn(key)' : j = i
  BY <1>1 DEF RequestsOn, OneRequestPerKey
<1>3. pc'[i] \in InFlight => RequestsOn(key)' = {i}
  BY <1>1, <1>2 DEF RequestsOn
<1>4. NoneFound'
  <2>1. SUFFICES ASSUME NEW j \in Requests, pc'[j] = "insert"
                 PROVE  {r \in Rows : Exists(r)' /\ sources'[r].key = arg[j].key} = {}
    BY <1>1 DEF NoneFound, RowsOf
  <2>2. CASE j = i
    <3>1. Find(i)
      BY <1>1, <2>1, <2>2
      DEF RequestStep, Find, Purge, Update, Insert, Enqueue, Lookup, Remove, Advance, TypeOK
    <3>2. RowsOf(key) = {} /\ UNCHANGED sources
      BY <2>1, <2>2, <3>1 DEF Find, Advance, TypeOK
    <3>3. QED
      BY <2>2, <3>2 DEF RowsOf, Exists
  <2>3. CASE j # i
    <3>1. pc[j] = "insert" /\ RowsOf(arg[j].key) = {}
      BY <1>1, <2>1, <2>3 DEF NoneFound
    <3>2. arg[j].key # key
      BY <1>1, <2>3, <3>1 DEF OneRequestPerKey, InFlight
    <3>3. ASSUME NEW k, k # key, RowsOf(k) = {}
          PROVE  {r \in Rows : Exists(r)' /\ sources'[r].key = k} = {}
      BY <3>3, OtherKeys DEF RowsOf
    <3>4. QED
      BY <3>1, <3>2, <3>3
  <2>4. QED
    BY <2>2, <2>3
<1>5. ASSUME NEW k, k # key
      PROVE  /\ Gone(k) => Gone(k)'
             /\ \A c : Kept(k, c) => Kept(k, c)'
  <2>1. /\ RowsOf(k)' = RowsOf(k)
        /\ \A r \in RowsOf(k) : sources'[r] = sources[r]
        /\ RequestsOn(k)' = RequestsOn(k)
        /\ \A j \in RequestsOn(k) : pc'[j] = pc[j]
    BY <1>1, <1>5, OtherKeys DEF RequestsOn
  <2>2. QED
    BY <1>1, <2>1 DEF Gone, Kept
<1>6. Gone(key) => Gone(key)'
  <2>1. SUFFICES ASSUME Gone(key), ~ Gone(key)' PROVE FALSE
    OBVIOUS
  <2>2. pc[i] \in {"lookup", "remove"}
    BY <1>2, <2>1 DEF Gone
  <2>3. CASE Lookup(i)
    <3>1. CASE pc'[i] = "remove"
      BY <1>2, <1>3, <2>1, <3>1 DEF Gone, InFlight
    <3>2. CASE pc'[i] # "remove"
      <4>1. RowsOf(key) = {} /\ UNCHANGED sources /\ pc'[i] = "done"
        BY <2>3, <3>2 DEF Lookup, Advance, TypeOK
      <4>2. RowsOf(key)' = {}
        BY <1>1, <4>1 DEF RowsOf, Exists
      <4>3. RequestsOn(key)' = {}
        BY <1>2, <4>1 DEF RequestsOn, InFlight
      <4>4. QED
        BY <2>1, <4>2, <4>3 DEF Gone
    <3>3. QED
      BY <3>1, <3>2
  <2>4. CASE Remove(i)
    <3>1. pc[i] = "remove" /\ pc'[i] = "done" /\ Holds(i) /\ Exists(seen[i].id)
          /\ seen[i].id \in Rows
      BY <2>4, HoldsEntity, EntityNotNoRow
      DEF Remove, Advance, TypeOK, Shape, Holding, Holds, HeldRowLives
    <3>2. sources[seen[i].id].key = key
      BY <3>1 DEF Binding
    <3>3. \A r \in Rows : r # seen[i].id => sources'[r] = sources[r]
      BY <2>4, <3>1 DEF Remove, TypeOK
    <3>4. sources'[seen[i].id] = NoRow
      BY <2>4, <3>1 DEF Remove, TypeOK
    <3>5. RowsOf(key)' = {}
      <4>1. SUFFICES ASSUME NEW r \in Rows, Exists(r)', sources'[r].key = key PROVE FALSE
        BY <1>1 DEF RowsOf
      <4>2. r # seen[i].id
        BY <3>4, <3>3, <4>1 DEF Exists
      <4>3. sources'[r] = sources[r]
        BY <3>3, <4>2
      <4>4. Exists(r) /\ sources[r].key = key
        BY <4>1, <4>3 DEF Exists
      <4>5. QED
        BY <3>1, <3>2, <4>2, <4>4 DEF OneRowPerKey
    <3>6. RequestsOn(key)' = {}
      BY <1>2, <3>1 DEF RequestsOn, InFlight
    <3>7. QED
      BY <2>1, <3>5, <3>6 DEF Gone
  <2>5. QED
    BY <2>2, <2>3, <2>4 DEF RequestStep, Find, Purge, Update, Insert, Enqueue
<1>7. ASSUME NEW c, Kept(key, c)
      PROVE  Kept(key, c)'
  <2>1. pc[i] \notin {"lookup", "remove"} /\ arg[i].content = c
    BY <1>2, <1>7 DEF Kept
  <2>2. pc'[i] \in {"purge", "update", "insert", "enqueue"} => Kept(key, c)'
    <3>1. SUFFICES ASSUME pc'[i] \in {"purge", "update", "insert", "enqueue"}
                   PROVE  Kept(key, c)'
      OBVIOUS
    <3>2. RequestsOn(key)' = {i}
      BY <1>3, <3>1 DEF InFlight
    <3>3. QED
      BY <1>1, <2>1, <3>1, <3>2 DEF Kept
  <2>3. ASSUME pc'[i] = "done", NEW r \in RowsOf(key)', sources'[r].hash = c
        PROVE  Kept(key, c)'
    <3>1. RequestsOn(key)' = {}
      BY <1>2, <2>3 DEF RequestsOn, InFlight
    <3>2. QED
      BY <1>1, <2>3, <3>1 DEF Kept
  <2>4. CASE Find(i)
    <3>1. CASE pc'[i] = "done"
      <4>1. PICK r \in RowsOf(key) : sources[r].hash = c
        BY <2>1, <2>4, <3>1 DEF Find, Advance, TypeOK
      <4>2. r \in RowsOf(key)' /\ sources'[r].hash = c
        BY <1>1, <2>4, <4>1 DEF Find, RowsOf, Exists
      <4>3. QED
        BY <2>3, <3>1, <4>2
    <3>2. CASE pc'[i] # "done"
      <4>1. pc'[i] \in {"purge", "insert"}
        BY <2>4, <3>2 DEF Find, Advance, TypeOK
      <4>2. QED
        BY <2>2, <4>1
    <3>3. QED
      BY <3>1, <3>2
  <2>5. CASE Purge(i) \/ Update(i)
    <3>1. Purge(i) => pc'[i] = "update"
      BY DEF Purge, Advance, TypeOK
    <3>2. Update(i) => pc'[i] = "enqueue"
      BY UpdateFinds DEF Advance, TypeOK
    <3>3. QED
      BY <2>2, <2>5, <3>1, <3>2
  <2>6. CASE Insert(i)
    <3>1. RowsOf(key) = {}
      BY <2>6 DEF Insert, NoneFound
    <3>2. pc'[i] = "enqueue"
      BY <2>6, <3>1 DEF Insert, Advance, TypeOK
    <3>3. QED
      BY <2>2, <3>2
  <2>7. CASE Enqueue(i)
    <3>1. /\ pc[i] = "enqueue" /\ pc'[i] = "done" /\ UNCHANGED sources
          /\ Holds(i) /\ Exists(seen[i].id) /\ seen[i].id \in Rows
      BY <2>7, HoldsEntity, EntityNotNoRow
      DEF Enqueue, Advance, TypeOK, Shape, Holding, Holds, HeldRowLives
    <3>2. sources[seen[i].id].key = key /\ sources[seen[i].id].hash = c
      BY <2>1, <3>1 DEF Binding, Handed
    <3>3. seen[i].id \in RowsOf(key)' /\ sources'[seen[i].id].hash = c
      BY <1>1, <3>1, <3>2 DEF RowsOf, Exists
    <3>4. QED
      BY <2>3, <3>1, <3>3
  <2>8. QED
    BY <2>1, <2>4, <2>5, <2>6, <2>7 DEF RequestStep, Lookup, Remove
<1>8. QED
  BY <1>4, <1>5, <1>6, <1>7

\* A worker leaves the keys and the texts of the rows.
LEMMA WorkerKeeps ==
    ASSUME RInv, NEW w \in Workers, WorkerStep(w) \/ EmbedFault(w)
    PROVE  /\ NoneFound'
           /\ \A k : /\ Gone(k) => Gone(k)'
                     /\ \A c : Kept(k, c) => Kept(k, c)'
<1>1. /\ UNCHANGED <<pc, arg, seen>>
      /\ \A r \in Rows : Exists(r)' <=> Exists(r)
      /\ \A r \in Rows : Exists(r) => /\ sources'[r].hash = sources[r].hash
                                      /\ sources'[r].key = sources[r].key
  BY WorkerRows DEF RInv
<1>2. \A k : /\ RowsOf(k)' = RowsOf(k)
             /\ RequestsOn(k)' = RequestsOn(k)
             /\ \A r \in RowsOf(k) : sources'[r].hash = sources[r].hash
  BY <1>1 DEF RowsOf, RequestsOn
<1>3. NoneFound'
  BY <1>1, <1>2 DEF RInv, NoneFound
<1>4. QED
  BY <1>1, <1>2, <1>3 DEF Gone, Kept

LEMMA RequestStatus ==
    ASSUME RInv, NInv', NEW i \in Requests, RequestStep(i)
    PROVE  StatusKnown'
<1> USE DEF RInv, NInv, SInv, IInv, TInv
<1>1. /\ pc[i] \in InFlight /\ UNCHANGED <<arg, worker>>
      /\ \A j \in Requests \ {i} : pc'[j] = pc[j] /\ seen'[j] = seen[j]
  BY RequestMoves
<1>2. \A j \in OpenJobs : j # i /\ j \in Requests /\ seen'[j] = seen[j]
  BY <1>1, OpenIsDone DEF InFlight
<1>3. \A r \in Rows, w \in Workers : Works(w, r) => Works(w, r)'
  BY <1>1, <1>2 DEF Works, OpenJobs, ActiveJobs
<1>4. \A r \in Rows : ~ NoneWaits(r) => ~ NoneWaits(r)'
  <2>1. SUFFICES ASSUME NEW r \in Rows, NEW n \in 1 .. Len(queue), seen[queue[n]].id = r
                 PROVE  n \in 1 .. Len(queue') /\ seen'[queue'[n]].id = r
    BY DEF NoneWaits, Waits
  <2>2. seen'[queue[n]] = seen[queue[n]]
    BY <1>2, <2>1 DEF OpenJobs, WaitingJobs
  <2>3. CASE Enqueue(i)
    <3>1. /\ queue' = Append(queue, i) /\ queue \in Seq(Requests)
      BY <2>3 DEF Enqueue, TypeOK
    <3>2. n \in 1 .. Len(queue') /\ queue'[n] = queue[n]
      BY <2>1, <3>1
    <3>3. QED
      BY <2>1, <2>2, <3>2
  <2>4. CASE ~ Enqueue(i)
    <3>1. UNCHANGED queue
      BY <2>4 DEF RequestStep, Find, Purge, Update, Insert, Lookup, Remove, queueVars
    <3>2. QED
      BY <2>1, <2>2, <3>1
  <2>5. QED
    BY <2>3, <2>4
<1>5. ASSUME pc[i] = "enqueue", NEW r \in Rows, seen[i].id = r
      PROVE  ~ NoneWaits(r)'
  <2>1. Enqueue(i)
    BY <1>5 DEF RequestStep, Find, Purge, Update, Insert, Enqueue, Lookup, Remove
  <2>2. queue' = Append(queue, i) /\ queue \in Seq(Requests) /\ UNCHANGED seen
    BY <2>1 DEF Enqueue, TypeOK
  <2>3. Len(queue) + 1 \in 1 .. Len(queue') /\ queue'[Len(queue) + 1] = i
    BY <2>2
  <2>4. QED
    BY <1>5, <2>2, <2>3 DEF NoneWaits, Waits
<1>6. SUFFICES ASSUME NEW r \in Rows, Exists(r)'
               PROVE  /\ sources'[r].status = "pending" =>
                            \/ \E j \in Requests : pc'[j] = "enqueue" /\ seen'[j].id = r
                            \/ ~ NoneWaits(r)'
                      /\ sources'[r].status = "processing" =>
                            \E w \in Workers : Works(w, r)'
  BY DEF StatusKnown
<1>7. CASE sources'[r] # sources[r]
  BY <1>6, <1>7, TouchedRow
<1>8. CASE sources'[r] = sources[r]
  <2>1. Exists(r)
    BY <1>6, <1>8 DEF Exists
  <2>2. sources[r].status = "processing" => \E w \in Workers : Works(w, r)'
    BY <1>3, <2>1 DEF StatusKnown
  <2>3. ASSUME NEW j \in Requests, pc[j] = "enqueue", seen[j].id = r
        PROVE  \/ pc'[j] = "enqueue" /\ seen'[j].id = r
               \/ ~ NoneWaits(r)'
    BY <1>1, <1>5, <2>3
  <2>4. QED
    BY <1>4, <1>8, <2>1, <2>2, <2>3 DEF StatusKnown
<1>9. QED
  BY <1>7, <1>8

LEMMA WorkerStatus ==
    ASSUME RInv, SteadyHost, NEW w \in Workers, WorkerStep(w) \/ EmbedFault(w)
    PROVE  StatusKnown'
<1> USE DEF RInv, NInv, SInv, IInv, TInv
<1>1. /\ UNCHANGED <<pc, arg, seen>>
      /\ \A r \in Rows : Exists(r)' <=> Exists(r)
      /\ \A v \in Workers : v = w
  BY WorkerRows DEF SteadyHost
<1>2. CASE Take(w)
  <2>1. /\ worker[w] = Idle /\ queue # <<>> /\ queue' = Tail(queue)
        /\ worker' = [worker EXCEPT ![w] = [pc |-> "embed", job |-> Head(queue)]]
        /\ sources' = WithStatus(seen[Head(queue)].id, "processing")
    BY <1>2 DEF Take, RowOf
  <2>2. /\ Len(queue') = Len(queue) - 1 /\ Len(queue) \in Nat /\ Len(queue) > 0
        /\ \A n \in 1 .. Len(queue') : queue'[n] = queue[n + 1]
        /\ Head(queue) = queue[1]
    BY <2>1 DEF TypeOK
  <2>0. PICK q : q = seen[Head(queue)].id
    OBVIOUS
  <2> USE <2>0
  <2>3. q \in Rows
    <3>1. Head(queue) \in OpenJobs
      BY <2>1, WaitingTail DEF TypeOK, OpenJobs
    <3>2. QED
      BY <3>1, OpenIsDone DEF Entity
  <2>4. worker'[w] = [pc |-> "embed", job |-> Head(queue)] /\ worker'[w] # Idle
    BY <2>1 DEF TypeOK, Idle
  <2>5. Works(w, q)'
    BY <1>1, <2>4 DEF Works
  <2>6. /\ \A r \in Rows : r # q => sources'[r] = sources[r]
        /\ Exists(q) => sources'[q].status = "processing"
    BY <2>1, <2>3, StatusSet DEF Statuses
  <2>7. ASSUME NEW r \in Rows, r # q, ~ NoneWaits(r)
        PROVE  ~ NoneWaits(r)'
    <3>1. PICK n \in 1 .. Len(queue) : seen[queue[n]].id = r
      BY <2>7 DEF NoneWaits, Waits
    <3>2. n # 1
      BY <2>2, <2>7, <3>1
    <3>3. n - 1 \in 1 .. Len(queue') /\ (n - 1) + 1 = n
      BY <2>2, <3>1, <3>2
    <3>4. queue'[n - 1] = queue[n]
      BY <2>2, <3>3
    <3>5. QED
      BY <1>1, <3>1, <3>3, <3>4 DEF NoneWaits, Waits
  <2>8. \A r \in Rows : ~ Works(w, r)
    BY <2>1 DEF Works
  <2>9. ASSUME NEW r \in Rows, Exists(r)', r # q
        PROVE  /\ sources'[r].status = "pending" =>
                     \/ \E j \in Requests : pc'[j] = "enqueue" /\ seen'[j].id = r
                     \/ ~ NoneWaits(r)'
               /\ sources'[r].status # "processing"
    <3>1. Exists(r) /\ sources'[r] = sources[r]
      BY <1>1, <2>6, <2>9
    <3>2. sources[r].status # "processing"
      BY <1>1, <2>8, <3>1 DEF StatusKnown
    <3>3. QED
      BY <1>1, <2>7, <2>9, <3>1, <3>2 DEF StatusKnown
  <2>10. Exists(q)' => sources'[q].status = "processing"
    BY <1>1, <2>3, <2>6
  <2>11. QED
    BY <2>3, <2>5, <2>9, <2>10 DEF StatusKnown
<1>3. CASE SaveChunks(w) \/ EmbedFault(w)
  <2>1. /\ worker[w] # Idle /\ worker[w] \in Active
        /\ UNCHANGED <<sources, queue>>
    BY <1>3, AtWork DEF SaveChunks, EmbedFault
  <2>2. PICK p \in {"complete", "fail"} : worker' = [worker EXCEPT ![w].pc = p]
    BY <1>3 DEF SaveChunks, EmbedFault, Step
  <2>3. worker'[w] = [pc |-> p, job |-> worker[w].job]
    <3>1. worker'[w] = [worker[w] EXCEPT !.pc = p]
      BY <2>2 DEF TypeOK
    <3>2. QED
      BY <2>1, <3>1 DEF Active
  <2>4. worker'[w] # Idle /\ worker'[w].job = worker[w].job
    BY <2>3 DEF Idle
  <2>5. \A r \in Rows : /\ Works(w, r)' <=> Works(w, r)
                        /\ NoneWaits(r)' <=> NoneWaits(r)
    BY <1>1, <2>1, <2>4 DEF Works, NoneWaits, Waits
  <2>6. QED
    BY <1>1, <2>1, <2>5 DEF StatusKnown, Exists
<1>4. CASE Complete(w) \/ Fail(w)
  <2> DEFINE q == seen[worker[w].job].id
  <2>1. PICK s \in {"completed", "failed"} : sources' = WithStatus(q, s)
    BY <1>4 DEF Complete, Fail, RowOf, JobOf
  <2>2. worker[w] # Idle /\ q \in Rows /\ UNCHANGED queue
    BY <1>4, AtWork DEF Complete, Fail
  <2>3. /\ \A r \in Rows : r # q => sources'[r] = sources[r]
        /\ Exists(q) => sources'[q].status = s
    BY <2>1, <2>2, StatusSet DEF Statuses
  <2>4. \A r \in Rows : r # q => ~ Works(w, r)
    BY DEF Works
  <2>5. \A r \in Rows : NoneWaits(r)' <=> NoneWaits(r)
    BY <1>1, <2>2 DEF NoneWaits, Waits
  <2> HIDE DEF q
  <2>6. QED
    BY <1>1, <2>2, <2>3, <2>4, <2>5 DEF StatusKnown
<1>5. QED
  BY <1>2, <1>3, <1>4 DEF WorkerStep


-----------------------------------------------------------------------------
(***************************************************************************)
(* What the board has told the index of a todo, the index knows: nothing   *)
(* of a deleted todo, and a text that the todo is known by.                *)
(***************************************************************************)
Told(t) == todos[t] # NoRow /\ ~ BoardProofs!IndexesSoon(t)

TodoTold(t) == Told(t) =>
    /\ todos[t].deleted => Gone(t)
    /\ ~ todos[t].deleted /\ BoardProofs!Tells(indexed[t], todos[t].content) =>
          \E c \in KnownBy(t) : Kept(t, c)

SearchInv == RInv /\ BoardProofs!FInv /\ \A t \in Records : TodoTold(t)

LEMMA InitSearchInv == SearchInit => SearchInv
<1>1. SUFFICES ASSUME SearchInit PROVE SearchInv
  OBVIOUS
<1>2. Init /\ BoardProofs!Init
  BY <1>1, SameBoard DEF SearchInit
<1>3. \A t \in Records : todos[t] = NoRow
  BY <1>2 DEF BoardProofs!Init
<1>4. QED
  BY <1>2, <1>3, InitRInv, BoardConstants, BoardProofs!InitFInv
  DEF SearchInv, TodoTold, Told

LEMMA TodoHasText ==
    ASSUME BoardProofs!FInv, NEW t \in Records, todos[t] # NoRow
    PROVE  todos[t].content \in BoardProofs!Content
<1>1. todos[t] \in BoardProofs!Todo
  BY DEF BoardProofs!FInv, BoardProofs!DInv, BoardProofs!TInv, BoardProofs!TypeOK
<1>2. QED
  BY <1>1 DEF BoardProofs!Todo

\* The calls for a todo go on; nothing happens on the board.
LEMMA StillTold ==
    ASSUME SearchInv, UNCHANGED boardVars, NEW t \in Records,
           Gone(t) => Gone(t)', \A c : Kept(t, c) => Kept(t, c)'
    PROVE  TodoTold(t)'
<1>1. UNCHANGED <<todos, useCase, body, indexed>>
  BY DEF boardVars
<1>2. Told(t)' <=> Told(t)
  BY <1>1 DEF Told, BoardProofs!IndexesSoon, BoardProofs!On
<1>3. KnownBy(t)' = KnownBy(t)
  BY <1>1 DEF KnownBy
<1>4. (\E c \in KnownBy(t) : Kept(t, c)) => \E c \in KnownBy(t) : Kept(t, c)'
  OBVIOUS
<1>5. QED
  BY <1>1, <1>2, <1>3, <1>4 DEF SearchInv, TodoTold

LEMMA BoardStepTold ==
    ASSUME SearchInv, BoardStep, NEW t \in Records
    PROVE  TodoTold(t)'
<1>1. QuietBoard
  BY BoardMoves DEF SearchNext
<1>2. /\ UNCHANGED vars
      /\ Gone(t)' <=> Gone(t)
      /\ \A c : Kept(t, c)' <=> Kept(t, c)
  BY DEF BoardStep, vars, Gone, Kept, RequestsOn, RowsOf, Exists
<1>3. SUFFICES ASSUME Told(t)'
               PROVE  /\ todos'[t].deleted => Gone(t)'
                      /\ /\ ~ todos'[t].deleted
                         /\ BoardProofs!Tells(indexed'[t], todos'[t].content)
                         => \E c \in KnownBy(t)' : Kept(t, c)'
  BY DEF TodoTold
<1>4. /\ todos[t] # NoRow /\ ~ BoardProofs!IndexesSoon(t) /\ indexed'[t] = indexed[t]
      /\ todos'[t].content = todos[t].content
      /\ todos'[t].deleted <=> todos[t].deleted
  BY <1>1, <1>3, BoardConstants, BoardProofs!ToldStays DEF QuietBoard, SearchInv, Told
<1>5. KnownBy(t)' = KnownBy(t)
  BY <1>4 DEF KnownBy
<1>6. QED
  BY <1>2, <1>4, <1>5 DEF SearchInv, TodoTold, Told

LEMMA HandOverTold ==
    ASSUME SearchInv, Arrivals = "serial", NEW i \in Requests, HandOver(i)
    PROVE  /\ NoneFound' /\ StatusKnown'
           /\ \A u \in Records : TodoTold(u)'
<1>1. PICK t \in Records, a \in Arg, where \in {"find", "lookup"} :
         /\ Start(i, a, where) /\ a.key = t
         /\ \/ where = "lookup" /\ indexed'[t] = Removed
            \/ /\ where = "find" /\ indexed'[t] # Removed
               /\ ~ todos[t].deleted
               /\ a.content \in Known(todos[t].content, indexed'[t])
         /\ UNCHANGED todos
         /\ \A u \in Records \ {t} :
               /\ indexed'[u] = indexed[u]
               /\ BoardProofs!IndexesSoon(u)' <=> BoardProofs!IndexesSoon(u)
  BY Handing DEF SearchInv
<1>2. /\ NoneFound' /\ StatusKnown'
      /\ where = "lookup" => Gone(a.key)'
      /\ where = "find" => Kept(a.key, a.content)'
      /\ \A k : k # a.key => /\ Gone(k) => Gone(k)'
                             /\ \A c : Kept(k, c) => Kept(k, c)'
  BY <1>1, StartKeeps DEF SearchInv
<1>3. TodoTold(t)'
  <2>1. KnownBy(t)' = Known(todos[t].content, indexed'[t])
    BY <1>1 DEF KnownBy, Known
  <2>2. SUFFICES ASSUME todos[t] # NoRow
                 PROVE  /\ todos[t].deleted => Gone(t)'
                        /\ /\ ~ todos[t].deleted
                           /\ BoardProofs!Tells(indexed'[t], todos[t].content)
                           => \E c \in KnownBy(t)' : Kept(t, c)'
    BY <1>1 DEF TodoTold, Told
  <2>3. ~ BoardProofs!Tells(Removed, todos[t].content)
    BY <2>2, TodoHasText, JoinedKnown, BoardConstants DEF SearchInv
  <2>4. QED
    BY <1>1, <1>2, <2>1, <2>3
<1>4. ASSUME NEW u \in Records \ {t}
      PROVE  TodoTold(u)'
  <2>1. KnownBy(u)' = KnownBy(u)
    BY <1>1 DEF KnownBy
  <2>2. Told(u)' <=> Told(u)
    BY <1>1 DEF Told
  <2>3. /\ Gone(u) => Gone(u)'
        /\ (\E c \in KnownBy(u) : Kept(u, c)) => \E c \in KnownBy(u) : Kept(u, c)'
    BY <1>1, <1>2, <1>4
  <2>4. QED
    BY <1>1, <2>1, <2>2, <2>3 DEF SearchInv, TodoTold
<1>5. QED
  BY <1>2, <1>3, <1>4

LEMMA IndexTodoTold ==
    ASSUME SearchInv, Arrivals = "serial", NEW i \in Requests, IndexTodo(i)
    PROVE  /\ NoneFound' /\ StatusKnown'
           /\ \A u \in Records : TodoTold(u)'
<1>1. BoardProofs!TInv /\ UNCHANGED boardVars
  BY DEF SearchInv, BoardProofs!FInv, BoardProofs!DInv, IndexTodo
<1>2. PICK t \in Records, a \in Arg :
         /\ Start(i, a, "find") /\ a.key = t /\ a.content = todos[t].content
         /\ todos[t] # NoRow /\ ~ todos[t].deleted
         /\ StartIndexRecord(i)
  BY <1>1, Indexing
<1>3. /\ NoneFound' /\ StatusKnown'
      /\ Kept(a.key, a.content)'
      /\ \A k : k # a.key => /\ Gone(k) => Gone(k)'
                             /\ \A c : Kept(k, c) => Kept(k, c)'
  BY <1>2, StartKeeps DEF SearchInv
<1>4. UNCHANGED todos
  BY <1>1 DEF boardVars
<1>5. a.content \in KnownBy(t)'
  BY <1>2, <1>4 DEF KnownBy
<1>6. TodoTold(t)'
  BY <1>2, <1>3, <1>4, <1>5 DEF TodoTold
<1>7. ASSUME NEW u \in Records \ {t}
      PROVE  TodoTold(u)'
  <2>1. (Gone(u) => Gone(u)') /\ (\A c : Kept(u, c) => Kept(u, c)')
    BY <1>2, <1>3, <1>7
  <2>2. QED
    BY <1>1, <2>1, StillTold
<1>8. QED
  BY <1>3, <1>6, <1>7

LEMMA NextSearchInv ==
    ASSUME Arrivals = "serial", SteadyHost, BoardProofs!Edits \subseteq Alone,
           SearchInv, SearchNext \/ UNCHANGED <<vars, boardVars>>
    PROVE  SearchInv'
<1>1. BoardProofs!FInv /\ BoardProofs!TInv /\ RInv /\ NInv
  BY DEF SearchInv, BoardProofs!FInv, BoardProofs!DInv, RInv
<1>2. BoardProofs!FInv'
  BY <1>1, BoardStaysTrue
<1>3. NInv'
  BY <1>1, IndexNext, NextNInv
<1>4. SUFFICES NoneFound' /\ StatusKnown' /\ \A t \in Records : TodoTold(t)'
  BY <1>2, <1>3 DEF SearchInv, RInv
<1>5. UNCHANGED vars => NoneFound' /\ StatusKnown'
  BY <1>1 DEF RInv, vars, NoneFound, StatusKnown, RowsOf, Exists, NoneWaits, Waits, Works
<1>6. CASE UNCHANGED <<vars, boardVars>>
  <2>1. ASSUME NEW t \in Records
        PROVE  TodoTold(t)'
    <3>1. (Gone(t) => Gone(t)') /\ (\A c : Kept(t, c) => Kept(t, c)')
      BY <1>6 DEF vars, Gone, Kept, RequestsOn, RowsOf, Exists
    <3>2. QED
      BY <1>6, <3>1, StillTold
  <2>2. QED
    BY <1>5, <1>6, <2>1
<1>7. CASE BoardStep
  BY <1>5, <1>7, BoardStepTold DEF BoardStep
<1>8. CASE IndexStep
  <2>1. /\ NoneFound' /\ StatusKnown'
        /\ \A k : /\ Gone(k) => Gone(k)'
                  /\ \A c : Kept(k, c) => Kept(k, c)'
    BY <1>1, <1>3, <1>8, RequestKeeps, RequestStatus, WorkerKeeps, WorkerStatus
    DEF IndexStep
  <2>2. ASSUME NEW t \in Records
        PROVE  TodoTold(t)'
    BY <1>8, <2>1, StillTold DEF IndexStep
  <2>3. QED
    BY <2>1, <2>2
<1>9. ASSUME NEW i \in Requests, HandOver(i) \/ IndexTodo(i)
      PROVE  NoneFound' /\ StatusKnown' /\ \A t \in Records : TodoTold(t)'
  BY <1>9, HandOverTold, IndexTodoTold
<1>10. QED
  BY <1>6, <1>7, <1>8, <1>9 DEF SearchNext

-----------------------------------------------------------------------------
(* What a search finds when all is through. *)

\* The row of a record that is through has been worked off.
LEMMA ThroughSettled ==
    ASSUME RInv, NEW r \in Rows, Exists(r), QuiescentOn(sources[r].key)
    PROVE  sources[r].status \in {"completed", "failed"}
<1> USE DEF RInv, NInv, SInv, IInv, TInv
<1>1. sources[r] \in Source /\ sources[r].status \in Statuses
  BY DEF TypeOK, Exists, Source
<1>2. ASSUME NEW i \in Requests, Holds(i), seen[i].id = r
      PROVE  pc[i] \notin InFlight /\ i \notin OpenJobs
  <2>1. arg[i].key = sources[r].key
    BY <1>2 DEF Binding
  <2>2. QED
    BY <2>1 DEF QuiescentOn, RequestsOn, JobsOn
<1>3. \A j \in OpenJobs : seen[j].id # r
  BY <1>2, OpenIsDone, EntityNotNoRow DEF Holds
<1>4. NoneWaits(r) /\ \A w \in Workers : ~ Works(w, r)
  BY <1>3 DEF NoneWaits, Waits, Works, OpenJobs, WaitingJobs, ActiveJobs
<1>5. \A i \in Requests : ~ (pc[i] = "enqueue" /\ seen[i].id = r)
  BY <1>2, EntityNotNoRow DEF Shape, Holding, Holds, InFlight
<1>6. QED
  BY <1>1, <1>4, <1>5 DEF StatusKnown, Statuses

\* A chunk of the index is one of the row of its record.
LEMMA ChunkOfKey ==
    ASSUME NInv, NEW b \in chunks
    PROVE  b.row \in RowsOf(arg[b.job].key)
<1>1. /\ b.row \in Rows /\ b.job \in Requests
      /\ Exists(b.row) /\ Holds(b.job) /\ b.row = seen[b.job].id
  BY BatchType DEF NInv, SInv, IInv, TInv, ChunkOwned
<1>2. sources[b.row].key = arg[b.job].key
  BY <1>1 DEF NInv, SInv, IInv, Binding
<1>3. QED
  BY <1>1, <1>2 DEF RowsOf

LEMMA SearchInvFollows == SearchInv => SearchFollowsTodo
<1>1. SUFFICES ASSUME SearchInv, NEW t \in Records, todos[t] # NoRow, Through(t)
               PROVE  /\ todos[t].deleted => \A c \in Contents : ~ Finds(t, c)
                      /\ ~ todos[t].deleted /\ ~ todos[t].archived =>
                            \E r \in RowsOf(t) :
                                /\ sources[r].hash \in KnownBy(t)
                                /\ \/ Finds(t, sources[r].hash)
                                   \/ sources[r].status = "failed"
  BY DEF SearchFollowsTodo
<1>2. NInv /\ RInv /\ BoardProofs!FInv
  BY <1>1 DEF SearchInv, RInv
<1>3. \A i \in BoardProofs!InFlight : t \notin BoardProofs!On(i)
  BY <1>1, SameBoard DEF Through
<1>4. ~ BoardProofs!IndexesSoon(t)
  BY <1>3 DEF BoardProofs!IndexesSoon, BoardProofs!InFlight, BoardProofs!Awaits
<1>5. BoardProofs!IndexFollowsTodo
  BY <1>2, BoardConstants, BoardProofs!FollowedIndex
<1>6. ~ todos[t].deleted /\ ~ todos[t].archived =>
          BoardProofs!Tells(indexed[t], todos[t].content)
  BY <1>1, <1>3, <1>5 DEF BoardProofs!IndexFollowsTodo
<1>7. TodoTold(t) /\ Told(t) /\ QuiescentOn(t) /\ RequestsOn(t) = {}
  BY <1>1, <1>4 DEF SearchInv, Told, Through, QuiescentOn
<1>8. CASE todos[t].deleted
  <2>1. RowsOf(t) = {}
    BY <1>7, <1>8 DEF TodoTold, Gone
  <2>2. QED
    BY <1>2, <1>8, <2>1, ChunkOfKey DEF Finds
<1>9. CASE ~ todos[t].deleted /\ ~ todos[t].archived
  <2>1. PICK r \in RowsOf(t) : sources[r].hash \in KnownBy(t)
    BY <1>6, <1>7, <1>9 DEF TodoTold, Kept
  <2>2. r \in Rows /\ Exists(r) /\ sources[r].key = t
    BY DEF RowsOf
  <2>3. CASE sources[r].status = "failed"
    BY <1>9, <2>1, <2>3
  <2>4. CASE sources[r].status # "failed"
    <3>1. Completed(r)
      BY <1>2, <1>7, <2>2, <2>4, ThroughSettled DEF Completed
    <3>2. PICK b \in ChunksOf(r) : ContentOf(b) = sources[r].hash
      BY <1>2, <1>7, <2>2, <3>1, NInvCompleted DEF CompletedHasCurrentContent
    <3>3. b \in chunks /\ b.row = r
      BY <3>2 DEF ChunksOf
    <3>4. arg[b.job].key = t
      BY <1>2, <2>2, <3>3, ChunkOfKey DEF RowsOf
    <3>5. Finds(t, sources[r].hash)
      BY <3>2, <3>3, <3>4 DEF Finds
    <3>6. QED
      BY <1>9, <2>1, <3>5
  <2>5. QED
    BY <2>3, <2>4
<1>10. QED
  BY <1>8, <1>9

\* If the requests for a record wait for one another, no fault but one of the
\* provider strikes and what edits, archives or deletes a todo runs alone on it,
\* a search finds a todo on the board by its text, unless the provider failed for
\* that text, and finds nothing of a deleted todo, once all is through.  After
\* an updateTask that left the description out, the text may be the title alone.
THEOREM SearchFollows ==
    ASSUME Arrivals = "serial", SteadyHost, BoardProofs!Edits \subseteq Alone
    PROVE  SearchSpec => []SearchFollowsTodo
<1>1. SearchInit => SearchInv
  BY InitSearchInv
<1>2. SearchInv /\ [SearchNext]_<<vars, boardVars>> => SearchInv'
  BY NextSearchInv
<1>3. SearchInv => SearchFollowsTodo
  BY SearchInvFollows
<1>4. QED
  BY <1>1, <1>2, <1>3, PTL DEF SearchSpec
=============================================================================
