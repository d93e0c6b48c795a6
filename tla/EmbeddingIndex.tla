--------------------------- MODULE EmbeddingIndex ---------------------------
(***************************************************************************)
(* The RAG indexing pipeline: IndexingService (called by the indexing      *)
(* controller and, without being awaited, by the todo use cases), the      *)
(* BullMQ queue 'embedding-queue', and EmbeddingQueueProcessor.            *)
(*                                                                         *)
(* A request is one invocation of an IndexingService operation.  Each of   *)
(* its awaited database or queue calls is one action, so requests and      *)
(* workers interleave at every await.  A request enqueues at most one job, *)
(* so a job carries the identity of the request that enqueued it.          *)
(*                                                                         *)
(* Data is abstracted: a content stands for its SHA-256 hash (hashContent  *)
(* is taken to be injective), and all the chunks that one run of a job     *)
(* inserts (one transaction, chunkRepo.save) are one batch.                *)
(***************************************************************************)
EXTENDS Naturals, Sequences, FiniteSets

CONSTANTS
    Requests,   \* identities of the requests, each used at most once
    Workers,    \* BullMQ workers of the queue (concurrency 1 each)
    Users,      \* users that call the API
    Records,    \* todos and posts: keys (sourceType, sourceId) of database rows
    Customs,    \* keys (CUSTOM, uuid) available to POST /rag/index/custom
    Creator,    \* Creator[k]: the user in column user_id of record k
    Contents,   \* contents a record can have
    Rows,       \* primary keys available to embedding_source
    NoRow,      \* no embedding_source row, and no entity in a request
    NoArg,      \* the argument of a request that has not arrived
    Arrivals,   \* how requests arrive: see Admitted
    Faults,     \* faults of the environment: see the actions named *Fault
    MaxStalled, \* BullMQ's maxStalledCount, 1 by default
    MaxCrashes  \* bound on the crashes of the process

Keys == Records \cup Customs

ASSUME ConstantsAssumption ==
    /\ Records \cap Customs = {}
    /\ Creator \in [Records -> Users]
    /\ NoRow \notin [id : Rows, user : Users]
    /\ NoRow \notin [key : Keys, user : Users, hash : Contents,
                     status : {"pending", "processing", "completed", "failed"}]
    /\ NoArg \notin [user : Users, key : Keys, content : Contents]
    /\ Arrivals \in {"overlapping", "serial"}
    /\ Faults \subseteq {"embed", "store", "crash"}
    /\ MaxStalled \in Nat
    /\ MaxCrashes \in Nat

Statuses == {"pending", "processing", "completed", "failed"}

Arg == [user : Users, key : Keys, content : Contents]

\* What a request holds of the source entity it read or created: the columns
\* that no code assigns after the insert (its key is the request's own).
Entity == [id : Rows, user : Users]

Source == [key : Keys, user : Users, hash : Contents, status : Statuses]

(***************************************************************************)
(* Where a request is: the await it is about to make.  "find", "purge",    *)
(* "update", "insert" and "enqueue" are the awaits of indexRecord;         *)
(* "lookup" and "remove" those of removeIndex.                             *)
(***************************************************************************)
InFlight == {"find", "purge", "update", "insert", "enqueue",
             "lookup", "remove"}

VARIABLES
    sources,  \* table embedding_source: sources[r] is a Source or NoRow
    chunks,   \* table embedding_chunk: batches [row, job, run]
    born,     \* primary keys handed out so far (uuids are not reused)
    pc,       \* pc[i]: "new", an await in InFlight, or "done"
    arg,      \* arg[i]: user, key and content of request i
    seen,     \* seen[i]: the source entity that request i holds
    queue,    \* waiting jobs of embedding-queue, next job first
    worker,   \* worker[w]: the job in process() and where it is
    stalled,  \* active jobs whose worker died, not yet found by BullMQ
    stalls,   \* stalls[j]: BullMQ's stalled counter of job j; it gave up the
              \* job if the counter is past MaxStalled
    crashes   \* number of crashes so far

vars == <<sources, chunks, born, pc, arg, seen, queue, worker, stalled,
          stalls, crashes>>

requestVars == <<pc, arg, seen>>
queueVars == <<queue, worker, stalled, stalls, crashes>>

Idle == [pc |-> "idle"]
Active == [pc : {"embed", "complete", "fail"}, job : Requests]
Batch == [row : Rows, job : Requests, run : 0 .. MaxStalled]

TypeOK ==
    /\ sources \in [Rows -> Source \cup {NoRow}]
    /\ chunks \subseteq Batch
    /\ born \subseteq Rows
    /\ pc \in [Requests -> {"new", "done"} \cup InFlight]
    /\ arg \in [Requests -> Arg \cup {NoArg}]
    /\ seen \in [Requests -> Entity \cup {NoRow}]
    /\ queue \in Seq(Requests)
    /\ worker \in [Workers -> Active \cup {Idle}]
    /\ stalled \subseteq Requests
    /\ stalls \in [Requests -> 0 .. MaxStalled + 1]
    /\ crashes \in 0 .. MaxCrashes

Init ==
    /\ sources = [r \in Rows |-> NoRow]
    /\ chunks = {}
    /\ born = {}
    /\ pc = [i \in Requests |-> "new"]
    /\ arg = [i \in Requests |-> NoArg]
    /\ seen = [i \in Requests |-> NoRow]
    /\ queue = <<>>
    /\ worker = [w \in Workers |-> Idle]
    /\ stalled = {}
    /\ stalls = [j \in Requests |-> 0]
    /\ crashes = 0

-----------------------------------------------------------------------------
(* Reading the tables. *)

Exists(r) == sources[r] # NoRow

\* findBySource: the rows of key k; the unique index leaves at most one.
RowsOf(k) == {r \in Rows : Exists(r) /\ sources[r].key = k}

\* The batches that the foreign key attaches to row r.
ChunksOf(r) == {c \in chunks : c.row = r}

\* The primary keys an insert may generate: uuids are not used again.
ReusableIds == {r \in Rows : ~ Exists(r)}
FreshIds == Rows \ born

\* updateStatus: an UPDATE by primary key, without effect on a missing row.
WithStatus(r, s) ==
    [sources EXCEPT ![r] = IF @ = NoRow THEN @ ELSE [@ EXCEPT !.status = s]]

\* The jobs that BullMQ holds: waiting, active, or active with a dead worker.
WaitingJobs == {queue[n] : n \in 1 .. Len(queue)}
ActiveJobs == {worker[w].job : w \in {v \in Workers : worker[v] # Idle}}
OpenJobs == WaitingJobs \cup ActiveJobs \cup stalled

(***************************************************************************)
(* The assumption a run makes on the arrival of requests.  Nothing in the  *)
(* code serialises them: "overlapping" is what the code admits, "serial"   *)
(* says how much the callers must wait for a stronger guarantee.           *)
(*   overlapping  any request at any time                                  *)
(*   serial       a request for a key waits for the earlier ones           *)
(***************************************************************************)
RequestsOn(k) == {i \in Requests : pc[i] \in InFlight /\ arg[i].key = k}
JobsOn(k) == {j \in OpenJobs : arg[j].key = k}

Admitted(k) == Arrivals = "overlapping" \/ RequestsOn(k) = {}

-----------------------------------------------------------------------------
(* Requests. *)

Start(i, a, where) ==
    /\ pc[i] = "new"
    /\ Admitted(a.key)
    /\ pc' = [pc EXCEPT ![i] = where]
    /\ arg' = [arg EXCEPT ![i] = a]
    /\ UNCHANGED <<sources, chunks, born, seen, queueVars>>

Advance(i, where) ==
    /\ pc' = [pc EXCEPT ![i] = where]
    /\ UNCHANGED arg

\* reindexAsync after a todo was created, updated or unarchived by any member.
StartReindex(i) ==
    \E k \in Records, u \in Users, c \in Contents :
        Start(i, [user |-> u, key |-> k, content |-> c], "find")

\* POST /rag/index: getRecordContent admits the creator of the record only.
StartIndexRecord(i) ==
    \E k \in Records, c \in Contents :
        Start(i, [user |-> Creator[k], key |-> k, content |-> c], "find")

\* POST /rag/index/custom: the key is a new uuid.
StartIndexCustom(i) ==
    \E k \in Customs, u \in Users, c \in Contents :
        /\ \A j \in Requests : pc[j] # "new" => arg[j].key # k
        /\ Start(i, [user |-> u, key |-> k, content |-> c], "find")

\* Mutant of StartUpdateCustom: the ownership check is missing.
StartUpdateCustomOfAnyone(i) ==
    \E r \in Rows, u \in Users, c \in Contents :
        /\ Exists(r)
        /\ sources[r].key \in Customs
        /\ Start(i, [user |-> u, key |-> sources[r].key, content |-> c],
                 "find")

\* PUT /rag/index/custom/:sourceId: the row must be the user's, and CUSTOM.
StartUpdateCustom(i) ==
    \E r \in Rows, u \in Users, c \in Contents :
        /\ Exists(r)
        /\ sources[r].user = u
        /\ sources[r].key \in Customs
        /\ Start(i, [user |-> u, key |-> sources[r].key, content |-> c],
                 "find")

\* DELETE /rag/index/:sourceId: the row must be the user's.
StartRemoveSource(i) ==
    \E r \in Rows, u \in Users, c \in Contents :
        /\ Exists(r)
        /\ sources[r].user = u
        /\ Start(i, [user |-> u, key |-> sources[r].key, content |-> c],
                 "lookup")

\* removeIndexAsync after a todo was deleted or archived, and reindexIfChanged
\* with a blank content.
StartRemoveIndex(i) ==
    \E k \in Records, u \in Users, c \in Contents :
        Start(i, [user |-> u, key |-> k, content |-> c], "lookup")

\* indexRecord: findBySource and the comparison of the hashes.
Find(i) ==
    LET found == RowsOf(arg[i].key) IN
    /\ pc[i] = "find"
    /\ \/ /\ found = {}
          /\ Advance(i, "insert")
          /\ UNCHANGED seen
       \/ \E r \in found :
            /\ seen' = [seen EXCEPT ![i] =
                            [id |-> r, user |-> sources[r].user]]
            /\ \/ /\ sources[r].hash = arg[i].content
                  /\ Advance(i, "done")
               \/ /\ sources[r].hash # arg[i].content
                  /\ Advance(i, "purge")
    /\ UNCHANGED <<sources, chunks, born, queueVars>>

\* indexRecord: removeChunks of a source whose content changed.
Purge(i) ==
    /\ pc[i] = "purge"
    /\ chunks' = chunks \ ChunksOf(seen[i].id)
    /\ Advance(i, "update")
    /\ UNCHANGED <<sources, born, seen, queueVars>>

(***************************************************************************)
(* indexRecord: sourceRepository.save of an entity that was read.  TypeORM *)
(* updates the row; if it is gone, save inserts the entity again, under    *)
(* the id, key and user it was read with.  That insert is rejected when    *)
(* another row took the key.                                               *)
(***************************************************************************)
Update(i) ==
    LET r == seen[i].id IN
    /\ pc[i] = "update"
    /\ \/ /\ Exists(r)
          /\ sources' = [sources EXCEPT ![r].hash = arg[i].content,
                                        ![r].status = "pending"]
          /\ Advance(i, "enqueue")
       \/ /\ ~ Exists(r)
          /\ RowsOf(arg[i].key) = {}
          /\ sources' = [sources EXCEPT ![r] =
                [key |-> arg[i].key, user |-> seen[i].user,
                 hash |-> arg[i].content, status |-> "pending"]]
          /\ Advance(i, "enqueue")
       \/ /\ ~ Exists(r)
          /\ RowsOf(arg[i].key) # {}
          /\ Advance(i, "done")
          /\ UNCHANGED sources
    /\ UNCHANGED <<chunks, born, seen, queueVars>>

(***************************************************************************)
(* indexRecord: create and save of a new source, under a fresh id; the     *)
(* unique index rejects it when another request inserted the key since.    *)
(***************************************************************************)
Insert(i) ==
    /\ pc[i] = "insert"
    /\ \/ /\ RowsOf(arg[i].key) = {}
          /\ \E r \in FreshIds :
                /\ born' = born \cup {r}
                /\ seen' = [seen EXCEPT ![i] =
                                [id |-> r, user |-> arg[i].user]]
                /\ sources' = [sources EXCEPT ![r] =
                      [key |-> arg[i].key, user |-> arg[i].user,
                       hash |-> arg[i].content, status |-> "pending"]]
          /\ Advance(i, "enqueue")
       \/ /\ RowsOf(arg[i].key) # {}
          /\ Advance(i, "done")
          /\ UNCHANGED <<sources, born, seen>>
    /\ UNCHANGED <<chunks, queueVars>>

\* Mutants of Enqueue: the newest job is next; the job is not added.
EnqueueLifo(i) ==
    /\ pc[i] = "enqueue"
    /\ queue' = <<i>> \o queue
    /\ Advance(i, "done")
    /\ UNCHANGED <<sources, chunks, born, seen, worker, stalled, stalls,
                   crashes>>
EnqueueNothing(i) ==
    /\ pc[i] = "enqueue"
    /\ Advance(i, "done")
    /\ UNCHANGED <<sources, chunks, born, seen, queueVars>>

\* indexRecord: embeddingQueue.add, the last await.
Enqueue(i) ==
    /\ pc[i] = "enqueue"
    /\ queue' = Append(queue, i)
    /\ Advance(i, "done")
    /\ UNCHANGED <<sources, chunks, born, seen, worker, stalled, stalls,
                   crashes>>

\* removeIndex: findBySource.
Lookup(i) ==
    LET found == RowsOf(arg[i].key) IN
    /\ pc[i] = "lookup"
    /\ \/ /\ found = {}
          /\ Advance(i, "done")
          /\ UNCHANGED seen
       \/ \E r \in found :
            /\ seen' = [seen EXCEPT ![i] =
                            [id |-> r, user |-> sources[r].user]]
            /\ Advance(i, "remove")
    /\ UNCHANGED <<sources, chunks, born, queueVars>>

\* removeIndex: sourceRepository.remove, a DELETE by id; the foreign key
\* deletes the chunks with the row.
Remove(i) ==
    /\ pc[i] = "remove"
    /\ sources' = [sources EXCEPT ![seen[i].id] = NoRow]
    /\ chunks' = chunks \ ChunksOf(seen[i].id)
    /\ Advance(i, "done")
    /\ UNCHANGED <<born, seen, queueVars>>

\* A database or queue call of the request rejects: indexRecord throws, the
\* controller answers an error and reindexAsync logs a warning.
StoreFault(i) ==
    /\ "store" \in Faults
    /\ pc[i] \in InFlight
    /\ Advance(i, "done")
    /\ UNCHANGED <<sources, chunks, born, seen, queueVars>>

-----------------------------------------------------------------------------
(* Workers: EmbeddingQueueProcessor.process. *)

JobOf(w) == worker[w].job
RowOf(j) == seen[j].id

Step(w, where) == worker' = [worker EXCEPT ![w].pc = where]
Release(w) == worker' = [worker EXCEPT ![w] = Idle]

\* The worker fetches a job and process sets the source to PROCESSING.
Take(w) ==
    /\ worker[w] = Idle
    /\ queue # <<>>
    /\ queue' = Tail(queue)
    /\ worker' = [worker EXCEPT ![w] = [pc |-> "embed", job |-> Head(queue)]]
    /\ sources' = WithStatus(RowOf(Head(queue)), "processing")
    /\ UNCHANGED <<chunks, born, requestVars, stalled, stalls, crashes>>

\* Mutant of SaveChunks: no foreign key ties chunks to a source.
SaveChunksUnchecked(w) ==
    LET j == JobOf(w) IN
    /\ worker[w].pc = "embed"
    /\ chunks' = chunks \cup
          {[row |-> RowOf(j), job |-> j, run |-> stalls[j]]}
    /\ Step(w, "complete")
    /\ UNCHANGED <<sources, born, requestVars, queue, stalled, stalls,
                   crashes>>

\* The embeddings have arrived; chunkRepo.save inserts the chunks, unless the
\* foreign key rejects them because the source was removed meanwhile.
SaveChunks(w) ==
    LET j == JobOf(w) IN
    /\ worker[w].pc = "embed"
    /\ \/ /\ Exists(RowOf(j))
          /\ chunks' = chunks \cup
                {[row |-> RowOf(j), job |-> j, run |-> stalls[j]]}
          /\ Step(w, "complete")
       \/ /\ ~ Exists(RowOf(j))
          /\ Step(w, "fail")
          /\ UNCHANGED chunks
    /\ UNCHANGED <<sources, born, requestVars, queue, stalled, stalls,
                   crashes>>

\* The source is set to COMPLETED and the job ends.
Complete(w) ==
    /\ worker[w].pc = "complete"
    /\ sources' = WithStatus(RowOf(JobOf(w)), "completed")
    /\ Release(w)
    /\ UNCHANGED <<chunks, born, requestVars, queue, stalled, stalls, crashes>>

\* Mutant of Fail: the catch block only throws the error again.
FailLeavesStatus(w) ==
    /\ worker[w].pc = "fail"
    /\ Release(w)
    /\ UNCHANGED <<sources, chunks, born, requestVars, queue, stalled, stalls,
                   crashes>>

\* The catch block: the source is set to FAILED and the error is thrown again.
\* The job was added without attempts, so BullMQ moves it to its failed set.
Fail(w) ==
    /\ worker[w].pc = "fail"
    /\ sources' = WithStatus(RowOf(JobOf(w)), "failed")
    /\ Release(w)
    /\ UNCHANGED <<chunks, born, requestVars, queue, stalled, stalls, crashes>>

\* Mutant of EmbedFault: the provider's error is swallowed.
EmbedFaultSwallowed(w) ==
    /\ "embed" \in Faults
    /\ worker[w].pc = "embed"
    /\ Step(w, "complete")
    /\ UNCHANGED <<sources, chunks, born, requestVars, queue, stalled, stalls,
                   crashes>>

\* The embedding provider answers an error or times out.
EmbedFault(w) ==
    /\ "embed" \in Faults
    /\ worker[w].pc = "embed"
    /\ Step(w, "fail")
    /\ UNCHANGED <<sources, chunks, born, requestVars, queue, stalled, stalls,
                   crashes>>

\* A database call of process rejects: in the try block it leads to the catch
\* block, in the catch block the job ends with the status as it was.
WorkerStoreFault(w) ==
    /\ "store" \in Faults
    /\ worker[w] # Idle
    /\ IF worker[w].pc = "fail" THEN Release(w) ELSE Step(w, "fail")
    /\ UNCHANGED <<sources, chunks, born, requestVars, queue, stalled, stalls,
                   crashes>>

-----------------------------------------------------------------------------
(***************************************************************************)
(* The process dies and docker-compose restarts it: the requests and the   *)
(* workers, which share it, are gone; the tables and the queue remain.     *)
(***************************************************************************)
CrashFault ==
    /\ "crash" \in Faults
    /\ crashes < MaxCrashes
    /\ crashes' = crashes + 1
    /\ pc' = [i \in Requests |-> IF pc[i] \in InFlight THEN "done" ELSE pc[i]]
    /\ worker' = [w \in Workers |-> Idle]
    /\ stalled' = stalled \cup ActiveJobs
    /\ UNCHANGED <<sources, chunks, born, arg, seen, queue, stalls>>

\* Mutant of Redeliver: the limit is ignored.
RedeliverUnlimited(j) ==
    /\ j \in stalled
    /\ stalls' = [stalls EXCEPT ![j] = @ + 1]
    /\ stalled' = stalled \ {j}
    /\ queue' = <<j>> \o queue
    /\ UNCHANGED <<sources, chunks, born, requestVars, worker, crashes>>

\* BullMQ finds an active job without a lock: it waits again, first in line.
Redeliver(j) ==
    /\ j \in stalled
    /\ stalls[j] < MaxStalled
    /\ stalls' = [stalls EXCEPT ![j] = @ + 1]
    /\ stalled' = stalled \ {j}
    /\ queue' = <<j>> \o queue
    /\ UNCHANGED <<sources, chunks, born, requestVars, worker, crashes>>

\* ... or it has stalled too often: BullMQ fails it without calling process, so
\* the source keeps the status that the worker which died had set.
GiveUp(j) ==
    /\ j \in stalled
    /\ stalls[j] = MaxStalled
    /\ stalls' = [stalls EXCEPT ![j] = @ + 1]
    /\ stalled' = stalled \ {j}
    /\ UNCHANGED <<sources, chunks, born, requestVars, queue, worker, crashes>>

-----------------------------------------------------------------------------
Arrive(i) ==
    \/ StartReindex(i) \/ StartIndexRecord(i) \/ StartIndexCustom(i)
    \/ StartUpdateCustom(i) \/ StartRemoveSource(i) \/ StartRemoveIndex(i)

RequestStep(i) ==
    \/ Find(i) \/ Purge(i) \/ Update(i) \/ Insert(i) \/ Enqueue(i)
    \/ Lookup(i) \/ Remove(i)

WorkerStep(w) == Take(w) \/ SaveChunks(w) \/ Complete(w) \/ Fail(w)

QueueStep(j) == Redeliver(j) \/ GiveUp(j)

Fault ==
    \/ \E i \in Requests : StoreFault(i)
    \/ \E w \in Workers : EmbedFault(w) \/ WorkerStoreFault(w)
    \/ CrashFault

Next ==
    \/ \E i \in Requests : Arrive(i) \/ RequestStep(i) \/ QueueStep(i)
    \/ \E w \in Workers : WorkerStep(w)
    \/ Fault

Spec == Init /\ [][Next]_vars

(***************************************************************************)
(* Fairness.  A handler that was entered runs on (its awaits are bounded   *)
(* by the drivers' timeouts), the worker loop takes jobs while there are   *)
(* any (the provider calls carry a timeout), and BullMQ checks for stalled *)
(* jobs periodically.  Users need not call and nothing needs to fail.      *)
(***************************************************************************)
FairSpec ==
    /\ Spec
    /\ \A i \in Requests : WF_vars(RequestStep(i)) /\ WF_vars(QueueStep(i))
    /\ \A w \in Workers : WF_vars(WorkerStep(w))

-----------------------------------------------------------------------------
(* Properties. *)

QuiescentOn(k) == RequestsOn(k) = {} /\ JobsOn(k) = {}

Completed(r) == Exists(r) /\ sources[r].status = "completed"

Processing(r) == Exists(r) /\ sources[r].status = "processing"

\* BullMQ gave up a job for row r.
GivenUp(r) ==
    \E j \in Requests : stalls[j] > MaxStalled /\ seen[j] # NoRow /\ RowOf(j) = r

ContentOf(c) == arg[c.job].content

\* However requests, workers and crashes interleave, a batch of chunks hangs on
\* an existing source of the very record it was computed for, and a record
\* never has two sources: although find and save are separate calls, a save may
\* bring a removed source back, and a job may outlive the source it is for.
IndexIntegrity ==
    /\ \A c \in chunks :
          Exists(c.row) /\ sources[c.row].key = arg[c.job].key
    /\ \A r, s \in Rows :
          Exists(r) /\ Exists(s) /\ sources[r].key = sources[s].key => r = s

\* The ownership checks of the controller, made on a read that may be stale when
\* indexRecord runs, keep custom content apart: what is searchable under a
\* custom source (vectorSearch filters on the chunk's user) belongs to the
\* user of the source, whom the resolver compares with the caller.
CustomIsolation ==
    \A c \in chunks :
        sources[c.row].key \in Customs =>
            arg[c.job].user = sources[c.row].user

\* A source is not left COMPLETED and empty: once the requests and the jobs for
\* a record are through, COMPLETED means there are chunks, although a request
\* may purge the chunks between a worker's insert and its COMPLETED.
CompletedHasChunks ==
    \A r \in Rows :
        Completed(r) /\ QuiescentOn(sources[r].key) => ChunksOf(r) # {}

\* If requests for a record do not overlap, COMPLETED means that the record's
\* current content is searchable, whatever jobs for older contents did, and
\* in whichever of them the provider failed.
CompletedHasCurrentContent ==
    \A r \in Rows :
        Completed(r) /\ QuiescentOn(sources[r].key) =>
            \E c \in ChunksOf(r) : ContentOf(c) = sources[r].hash

\* If requests for a record do not overlap, a source that removeIndex deleted
\* stays deleted: re-indexing the record creates a new source, and no save
\* brings the old id, for which jobs may be waiting, back.
RemovedStaysRemoved ==
    [][\A r \in born : ~ Exists(r) => ~ Exists(r)']_vars

\* A source that waits for its chunks, PENDING or PROCESSING, ends COMPLETED,
\* FAILED or removed, whatever else is requested meanwhile, unless the process
\* dies: it may then have saved the source and not added the job.
StatusSettles ==
    \A r \in Rows :
        (Exists(r) /\ sources[r].status \in {"pending", "processing"})
            ~> \/ Exists(r) => sources[r].status \in {"completed", "failed"}
               \/ crashes > 0

\* A source is left PROCESSING for ever only by a job that BullMQ gave up
\* because its worker died once more than maxStalledCount allows.  A crash
\* before that delivers the job again, and any later job of the source, too,
\* ends it COMPLETED, FAILED or removed.  (No call to the store fails here:
\* the catch block of process cannot set FAILED if its own call fails.)
ProcessingEnds ==
    \A r \in Rows :
        Processing(r) ~> \/ ~ Processing(r)
                         \/ GivenUp(r) /\ \A j \in OpenJobs : RowOf(j) # r

\* embedding-queue.processor.ts:95 says of a job whose run failed "BullMQ will
\* handle retry": the job would be waiting again.
FailedJobIsRetried ==
    [][\A w \in Workers : Fail(w) => JobOf(w) \in OpenJobs']_vars
=============================================================================
