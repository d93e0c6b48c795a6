# todo-rag-api in TLA+

Specifications of the parts of todo-rag-api whose correctness depends on what happens *between*
calls: TLC checks them on small instances, TLAPS proves the central facts for all instances.
Paths below are relative to the repository's root; `RAG` abbreviates `src/api/rag`, `TODO`
abbreviates `src/api/todo`.

1. [The system](#1-the-system)
2. [What makes it hard](#2-what-makes-it-hard)
3. [The modules and the code](#3-the-modules-and-the-code)
4. [The runs](#4-the-runs)
5. [The proofs](#5-the-proofs)
6. [Where the code disagrees with what is said of it](#6-where-the-code-disagrees-with-what-is-said-of-it)
7. [What is not modelled](#7-what-is-not-modelled)
8. [Plan](#8-plan)

## 1. The system

A NestJS server: HTTP controllers call services and use cases, these read and save TypeORM
entities in PostgreSQL, keep tokens in Redis, hand work to BullMQ queues (also in Redis) and call
an embedding provider, a language model and Jira. Every handler is an async function of one Node
process, which runs other handlers at each `await`; several replicas of the process may run as
well. No transaction spans two calls, and no lock is taken.

| Component | State | Operations | Interacts with | Hard | Correct if |
|---|---|---|---|---|---|
| **RAG indexing** `RAG/services/indexing.service.ts`, `src/background/queues/embedding-queue/` | `embedding_source`, `embedding_chunk`, the queue | index, re-index, remove, custom sources; the worker's `process` | called by todo use cases without await; the queue; the provider | overlap of requests and jobs, stale saves, crash, redelivery | one source per record, chunks belong to their source and user, COMPLETED means searchable, nothing is PROCESSING for ever but what BullMQ gave up |
| **Todos and columns** `TODO/use-cases/`, `TODO/repositories/` | `todo`, `todo_status` | create, update, move, archive, unarchive, delete, reorder, link; columns; listings, counts, positions | Jira sync, indexing, project access | whole-entity saves after long awaits, check-then-act on columns, fire-and-forget index calls; one condition written out in many queries | every todo is in a live column, deleted is final, the index follows, the queries agree |
| **Todo search** `TODO/services/todo-indexing.service.ts`, `RAG/services/search.service.ts` | the two above | the index calls of the use cases, vector search | todos, indexing | calls that are not awaited overtake each other | a todo is found by its text, a deleted one is not |
| **Accounts** `src/api/user`, `src/api/auth/auth.service.ts` | `user`, tokens in the cache | register, Google, verify, resend, forgot, reset, change, edit, remove | cache, e-mail queue | exists-then-insert, whole-entity saves, cache and mail not atomic | one account per address, verified and removed are final, the last mail works, tokens work once |
| **Sessions** `auth.service.ts`, `src/guards/auth.guard.ts` | `session`, blacklist in the cache | sign in, refresh, logout, password change, removal | accounts, guard | refresh compares and replaces in two calls; logout and change race with sign in | a refresh token works once; after logout or change of password the old tokens do not |
| **Workspaces** `src/api/workspace/services/` | `workspace`, `workspace_member`, `workspace_invitation` | members, invite, revoke, accept, transfer, delete | accounts, e-mail queue, projects | stale saves of invitations, transfer without a transaction | one owner, revoked is final, an accepted invitation gives one membership |
| **Projects** `src/api/project/services/` | `project`, `project_member`, `project_invitation` | as above, and settings, default workspace | workspaces, todos, chat | as above; read-merge-save of settings | as above; no setting is lost |
| **Jira integration** `src/api/jira-integration/` | `jira_integration`, `jira_status_mapping` | connect, change, disconnect, map columns, move issues | todos | soft deletes under unique indexes that are not partial; encryption at every save; second attempt of the client | mappings are replaced as a whole, a token without a colon decrypts, an issue moves once |
| **RAG chat** `RAG/services/rag*.ts`, `RAG/intent`, `RAG/guard`, `RAG/tools` | `rag_conversation`, `rag_message` | query, confirm a tool, delete; guard, router, classifier | todos, search, language model | pairs saved in two calls, confirmation not bound to a proposal | history in order, deletions only on a confirmation |
| **Comments** `TODO/use-cases/*comment*`, `*attachment*` | `todo_comment`, `todo_attachment`, `todo_activity` | add, edit, delete, upload, discard | object store | comment and images in two calls, whole saves | an answered comment has its images, deleted is final |
| **Chunking, providers** `RAG/services/chunking.service.ts`, `RAG/providers/` | none | pure | indexing, chat | text lost at boundaries | chunks cover the text |
| **Listings** `src/utils/*-pagination.ts` | none | pages by cursor, by offset | users, all lists | rows come and go between pages; rounding of cursors | everything is shown once |
| **E-mail queue** `src/background/queues/email-queue/` | BullMQ jobs | send, three attempts, limiter | accounts, invitations | a mail is sent more than once | each mail is sent |
| **Posts, storage, health, home, platform** | `post` | CRUD, signing of URLs | — | — | — |

`PROJECT.json` lists the hazards of this code line by line, each with the properties that
catch it.

## 2. What makes it hard

Three idioms of the code return in every component, and every module models them in the same way.

* **Find, await, save.** An entity is read, other calls are awaited (up to a language model or
  Jira, seconds), and the *whole* entity is saved. TypeORM compares it with the row as it is at the
  time of the save, also if the row was soft-deleted, and writes every column that differs. What
  another request changed meanwhile goes back to what was read, `deleted_at = null` included.
  If the row was removed, `save` inserts it again. An entity read with `select` saves only the
  selected columns. In the models a request *holds* what it read (`seen`, `held`), and `Update` or
  `Save` writes it over what is there.
* **Check, then act.** A test (no such row, column empty, token equal) and the write that relies
  on it are separate calls. In the models they are separate actions. Unique indexes and foreign
  keys are part of the writing action, as a disjunct that rejects.
* **Do one thing, then another.** Two writes without a transaction (row then queue, cache then
  mail, table then cache): a rejection or a crash can fall between. `StoreFault`, `CrashFault`
  and `Abort` end a request at any await; what it wrote stays.

Each module therefore has a `pc` per request whose values name the awaits, one action per await,
and, where a property needs one, an assumption on arrivals as a CONSTANT. The code makes nobody
wait, which is the value `"overlapping"` (`Arrivals` of `EmbeddingIndex`) or `{}` (`Alone` of
`TodoLifecycle`, `Apart` of `UserAccount`, `Membership` and `RagChat`). Other values say *how much* callers would have to wait for a guarantee that the code alone does not give:
such a property names its assumption in its comment, its run and its theorem.

## 3. The modules and the code

### `EmbeddingIndex`: the RAG indexing pipeline

*Code.* `IndexingService`, its callers `IndexingController` and `TodoIndexingService`,
the queue `embedding-queue` and `EmbeddingQueueProcessor`.

*State.* `sources`, `chunks`: the two tables (`born`: the primary keys ever used). `queue`, `worker`,
`stalled`, `stalls`: what BullMQ keeps of a job. `pc`, `arg`, `seen`: the suspended calls of
`indexRecord` and `removeIndex`. `crashes` counts crashes.

*Actions.* `Start...`: the six ways a request arrives. `Find`, `Purge`, `Update`, `Insert`,
`Enqueue`: the awaits of `indexRecord`; `Lookup`, `Remove`: those of `removeIndex`. `Take`,
`SaveChunks`, `Complete`, `Fail`: the steps of `process`. The unique index on (source_type,
source_id) can reject `Insert` and `Update`; the foreign key rejects `SaveChunks` for a removed
source and cascades in `Remove`. `StoreFault`, `EmbedFault`, `WorkerStoreFault`, `CrashFault`
are failures; `Redeliver` and `GiveUp` are BullMQ's check for stalled jobs (external).

*Abstractions.* A content is a model value and stands for its own hash (SHA-256 taken to be
injective); the chunks of one job are one batch with the job's identity, because they are saved
by one call; vectors are left out.

### `TodoLifecycle`: todos and columns of one project

*Code.* The use cases of `TODO/use-cases`, `todo-jira-sync.service.ts`, the repositories' reads
and saves.

*State.* `todos`, `statuses`: the tables. `pc`, `arg`, `held`: the requests. `indexed`: the last call
that was handed to the index for a todo. A content is a title and a description. The tool `updateTask`
passes a description that the model leaves out as an explicit `undefined` (`Unset`): `Object.assign` puts it
on the entity (`Assigned`), TypeORM leaves the column alone (`Stored`), and the index is handed the entity.

*Actions.* `Check` (columns), `Read`, `Save`, `SoftDelete`, `Sync` (the second save, after Jira
answered or failed), `Index`; `CreateStatus`, `ReadStatus`, `SaveStatus`, `CountTodos`, `DropStatus`;
`Abort`. Access checks and validations that refuse a request change nothing and are left out. The
columns of one reorder are checked in one step, although the code awaits one call for each.

*Noticed.* An update of an archived todo indexes it again, so `IndexFollowsTodo` says nothing of
archived todos; and after an `updateTask` without a description the index has the title alone, which it
excepts by name (`Tells`). An update whose body gives `projectId` can move a todo to another project; the
model has one project.

### `UserAccount`: the accounts of one address

*Code.* `UserService`, and `AuthService` but for sessions; `UserEntity.hashPassword`.

*State.* `rows`: the table. `cached`: the tokens in Redis, by kind and user. `mails`: the mails handed to
the queue; `last`, `used`: history, the last mailed token and the tokens that saved something. `pc`,
`arg`, `held`: the requests.

*Actions.* `FindNone`, `FindByEmail`, `FindById`, `Insert`, `SetToken`, `MailToken`, `CheckToken`, `Save`,
`EraseToken`, `Abort`; `Expire` is Redis (external). A password is what was hashed and
how often, because `@BeforeUpdate` hashes what the entity holds, be it a password or a hash.
An operation that read the user whole (`Whole`) saves it whole; `resetPassword` and `changePassword`
read `select: ['id', 'password']` and save the password only.

*Assumptions.* Two tokens of one user are different: JWTs carry the second of their signing. A token
lives longer than the request that made it.

### `TodoSearch`: todos and their index together

*Code.* `TodoIndexingService`, `IndexingController.indexRecord` and
`EmbeddingChunkRepository.vectorSearch`, between the use cases and the pipeline.

*State.* That of `EmbeddingIndex`, which it extends, and of `TodoLifecycle`, which it instantiates as
`Board` with the records as todos. *Actions.* `BoardStep` is a step of a use case before its index
call, `IndexStep` one of the pipeline, `HandOver` the one that both take part in: the use case is
answered, and the call of `indexRecord` or `removeIndex` begins. `IndexTodo` is `POST /rag/index`.
`Finds` is what a search by a text returns, `Joined` the text that `TodoIndexingService` makes of a title and a
description, `KnownBy` the texts by which a todo may be found: its own, and its title alone after an `updateTask`
without a description.

### `Membership` and `InvitationLifecycle`: workspaces and projects

*Code.* The services of `src/api/workspace` and `src/api/project`, and `RagSettingsService`. The two
kinds of space run the same code on two pairs of tables; `kind` says which one a behaviour is about.

*State.* `space`, `members`, `invitations`, `defaults`: the rows. `mailed`, `last`, `lapsed`: the tokens.
`heldSpace`, `heldMember`, `heldInvitation`: the entities as each request read them.

*Actions.* One per await of `update`, `delete`, `updateProjectSettings`, `ensureDefaultWorkspace`, member
`invite`, `update`, `remove`, `transferOwner` (whose two saves run in parallel: `SaveOwner`, `SaveOld` in
either order), invitation `create`, `revoke`, `preview`, `accept`; `Lapse` is time, `Abort` a failure.
The unique indexes are `UserIndex` and `PendingIndex`, `RejectMember` is what they do.

*Not access.* `Collaborates` says who has a row as a member, or owns or created the space. For a project that
is not the right to open it: `ProjectAccessService` looks at the project's workspace alone, and every project
made through the API has one. What the checks of access make of the rows is in `Queries`.

*Abstraction.* `InvitationLifecycle` is what an invitation promises, in six transitions of one variable;
`EveryInvitationLives` is `InvitationLifecycle!Spec` under the mapping `Phase`: the status of the row,
and "joined" while the request that inserted the member has yet to save ACCEPTED.

### `Sessions`: the sessions of one account

*Code.* `AuthService.signIn`, `googleLogin`, `refreshToken`, `logout`, `verifyAccessToken`, `changePassword`,
`resetPassword`, `UserService.remove`, and `AuthGuard` (`Accepts`).

*State.* `account`, `sessions`, `banned`; `signed`, `expired`: the pairs of tokens in the order of their
signing, of which the oldest access tokens have expired. A session, a hash, a password and a pair of
tokens are named by the request that made them. *Actions.* `OpenSession`, `FindUser`, `Rotate`,
`BanSession`, `CloseSession`, `SavePassword`, `RevokeSessions`, `EraseUser`, `Expire`, `Fault`.

### `JiraIntegration`: the integration of one project

*Code.* `JiraIntegrationService`, `JiraClientService`, and `encryptApiToken`, the hook of the entity
(`@BeforeInsert`, `@BeforeUpdate`) that encrypts what has no colon, and passes what has one for encrypted.

*State.* `integration`, `mappings`: rows that are deleted softly and still counted by the unique indexes, so
one per project and per column, ever. `moved`, `attempts`: what Jira did. A token that is given has a colon or
not, for the DTO refuses neither. *Actions.* Connecting, deleting, `upsertTransitionMappings`, and the move of an
issue: version 2 of Jira's interface, on 404 version 3; every call may fail before or after Jira has carried it
out, and one with a token that was not encrypted fails before it is sent, in `decryptToken`.

### `TodoComments`: comments, images and activities of one todo

*Code.* The use cases of comments and attachments, and `TodoActivityService`, whose call is not awaited.
*Actions.* `InsertComment`, `FindAttachments`, `Attach`, `SaveComment`, `EraseComment`, `InsertAttachment`,
`DropAttachment`, `RecordActivity`, `Fault`.

### `RagChat`: one conversation

*Code.* `RagService.query`, `TaskAgentService.chat`, `TaskToolFactory`, `RagConversationService`,
`RagMessageRepository`.

*State.* `live`, `title`, `messages`: the rows; `things`, `changes`: what tools work on. `intent`, `seen`,
`proposed`: what a query has found out so far. *Actions.* `ClassifyQuery`, `ReadHistory`, `CallTool`,
`FinishAgent`, `Confirm`, `SaveUser`, `SaveAssistant`, `SetTitle`, `RemoveConversation`, `LosesConversation`
(the foreign key), `Fault`. What the model answers, which tools it calls and with what input are choices; which
tools exist, which intent permits which, and which wait for a confirmation are the code's.

### `IntentClassification`, `Chunking`, `Queries`: algorithms

Operators without state. `IntentClassification`: the patterns of `RuleBasedGuardService` on words that
stand for their alternatives, the thresholds of `IntentRouterService`, the search for a JSON object in a
reply (`LlmClassifierService`), and what `RagService` and `OutputValidatorService` let through.
`Chunking`: `ChunkingService` with an alphabet of a letter, a terminator and a line break. `Queries`: the
checks of `ProjectAccessService` and `WorkspaceAccessService`, the conditions of the queries that repeat
them, the listing, counting and positions of `TodoRepository`, and pages by offset.

### `UserPages`: a client that pages through the users

*Code.* `UserService.loadMoreUsers` and the `Paginator` of `src/utils/cursor-pagination.ts`. The client goes
forward and back while users register and are removed; the column has microseconds, a cursor has
milliseconds.

## 4. The runs

Each run is one question, or the questions on one component. All runs that pass visit their whole
state space. Those of requests set `CHECK_DEADLOCK FALSE`, because every request arrives once and the
system then really stops.

| Run | Question | Assumes | Distinct states |
|---|---|---|---|
| `index` | `TypeOK`, `IndexIntegrity`, `CustomIsolation`: requests of two users on a todo and a custom source, provider, store and two crashes, redelivery | — | 1,707,857 |
| `settles` | liveness: `StatusSettles`, `ProcessingEnds` | fairness below; two crashes; the store does not fail | 551,387 |
| `search` | `SearchFollowsTodo`; `CompletedHasChunks`, `CompletedHasCurrentContent`, `RemovedStaysRemoved`: older jobs neither win over newer content nor revive a source | index calls on one record wait for each other, not for jobs; update, archive and delete run alone on their todo; no crash | 1,064,354 |
| `retry` | is a failed job retried? (no) | — | violation |
| `todos` | `TypeOK`, `LiveTodoHasLiveStatus`, `DeletedStaysDeleted` with faults; `CalmIndexFollowsTodo` without | deletions of a column and of a todo run alone; for the index update and archive too | 295,121 |
| `drop` | is a column with todos kept? (no) | — | violation |
| `accounts` | `TypeOK`, `OneLiveAccount`, `VerifiedStaysVerified`, `RemovedAccountStaysRemoved` with faults; `CalmMailsWorkOnce` without | the pairs in `Apart` do not overlap | 198,113 |
| `signin` | does a password keep signing in? (no) | — | violation |
| `members` | `CollaboratorsKeptOnce`, `SettingsKept`, `LastInvitationWorks`, `RemovalsStand`, and the refinement `EveryInvitationLives`, with faults | the pairs in `Orderly` do not overlap | 196,164 |
| `chat` | `TranscriptIsFaithful`, `AgentKnowsAnswered`, `DeletionsAreConfirmed`, `ConversationStays`, with faults | a conversation is not deleted while a query runs on it | 566,640 |
| `services` | sessions (`EndedSessionsStayEnded`, `RefreshTokenWorksOnce`), Jira (`IssuesMoveAsConfigured`), comments (`CommentsAreKept`), pages (`PagesAreComplete`), with faults | — | 797,737 |
| `algorithms` | `IntentIsClear`, `NoCodeAnswered`, `ChunksKeepText`, `AccessAgrees`, `TodoQueriesAgree` over all bounded inputs | — | 351,192 |

**Runs with parts.** `todos` and `accounts` choose initially between a part with faults and one that is
`calm` (a variable of the MC module that never changes), in which nothing fails and, in `todos`, what
`CalmAlone` names runs alone too: a failure between the save and the index call, or between the cache and
the mail, leaves the two apart, so `IndexFollowsTodo`, `LastMailWorks` and `TokenResetsOnce` are stated of
the calm part. `search` chooses whether index requests come from the board
(`fed`) or from anywhere. `services` holds four components that share nothing: a behaviour is of one of them
(`part`), and the others stay as they are. `algorithms` has no steps: a state is an input. A property that
is a conjunction of named ones ("`TranscriptIsFaithful == AnsweredIsRecorded /\ AnswersFollowQuestions`")
is listed with a mutant for each of the parts that one can break.

**Bounds, and why they are enough.** Each request runs once, so the number of requests bounds
everything. The races here are between two requests and, in the index, a job that one of them
left behind, so three requests reach them: two that collide and one that made the state they
collide on. `search`, `todos` (calm), `accounts` and `services` have four, because three in turn are needed
before an old job is behind, or a third changes what two race on. Two contents tell old from new. As many
row identities as inserts can succeed: a fresh uuid is never used again (in `search` requests on one record
take turns, so two of its inserts can succeed; four rows give the same states). An update gives the title or the
description, not both, in the calm part of `todos`, and no title in `search`. Two users tell an owner
from another, three an owner, a member and an invitee. `MaxStalled = 1` is BullMQ's default; `MaxCrashes` is
2, so that a redelivered job can crash as well and be given up, in the liveness run too, which keeps to two
rows. `HistoryLimit = 3` is reached
by the two exchanges that precede a third; `MaxCalls = 1` is a tool between two answers. `MaxExpired = 1` lets a blacklist expire while a session is
still refreshed. Six registrations of two to a millisecond fill three pages of `Limit` 2. In `algorithms`
texts have up to 8 letters with chunks of 4 and overlaps of 2 (all the loops of `recursiveSplit` and
`splitBySentences` are entered), replies up to 7 tokens (a string with an escaped quote within braces).

**The assumptions are needed.** Changing the constants of a run so shows it:
`overlapping` arrivals violate the properties of `search`, and so does leaving any of update, archive and
delete out of `Alone`; crashes, store faults or a second worker violate `CompletedHasChunks`; `Alone = {}`
violates every property of `TodoLifecycle` but its type invariant; each pair in the `Apart` of `accounts`
and in the `Orderly` of `members` and `chat` is needed by one of the run's properties.

**Fairness** (`FairSpec` of `EmbeddingIndex`, for `settles`). Weak fairness of each request's own
steps: a handler that was entered runs on, its calls are bounded by the drivers' timeouts. Of each
worker: the BullMQ loop takes jobs while there are any, and provider calls have a timeout. Of each
stalled job: BullMQ checks periodically. Nothing is assumed of arrivals, faults or crashes.
`StatusSettles` excuses crashes: a process that dies after `save` and before `add` leaves a row
PENDING for which there is no job. `ProcessingEnds` does not: it says that a row stops being PROCESSING unless
its job was given up (`GivenUp`), which takes a second crash, and no other job is open for the row; then
nothing in the code ever sets the status. Store faults are not in this run: one in the `catch` of the processor
leaves a row PROCESSING as well (section 6).

**Mutants.** For every property of a passing run a module defines, next to the operator it
replaces, a version with a plausible mistake ("Mutant of ..."), under which the run finds the
property violated; `PROJECT.json` has the pairs.

## 5. The proofs

One proof module per component (`Services_proofs` for sessions, Jira, comments and pages together), one for the
composition `TodoSearch`, and one for the algorithms. Every invariant and every action property that a passing
run checks is the subject of a theorem. The theorems hold for all sets of requests, users, rows and
contents, for every number of crashes, and, unless stated, from the named assumptions on the constants only:
`ConstantsAssumption` (the special values are not elements of the sets); `PagesAssumption` (times are
numbers, finitely many, and a page has room for somebody, as `page-options.dto.ts:14-19` asks);
`ChunkingAssumption`, `QueriesAssumption` (sizes and limits are natural numbers, "no value" is none of the
values) and, for the run's bounds, `BoundsAssumption`.

The theorems on algorithms say more than the run. `AnySpec` begins with any input: sequences of any length over all
strings, boards of any finite number of todos, lists of any length; `AnySpec => []P` and `MCSpec => []P` are both
proved, and the second follows from the first, for the run's inputs are among them (`RunsAreAny`).

| Theorem | States | Extra assumption |
|---|---|---|
| `EmbeddingIndex_proofs!TypeCorrect` | `Spec => []TypeOK` | — |
| `EmbeddingIndex_proofs!Integrity` | `Spec => []IndexIntegrity` | — |
| `EmbeddingIndex_proofs!Isolation` | `Spec => []CustomIsolation` | — |
| `EmbeddingIndex_proofs!CompletedNotEmpty` | `Spec => []CompletedHasChunks` | `SteadyHost`: one worker, neither crashes nor store faults |
| `EmbeddingIndex_proofs!CompletedIsCurrent` | `Spec => []CompletedHasCurrentContent` | `SteadyHost`; `Arrivals = "serial"`: requests on one record take turns |
| `EmbeddingIndex_proofs!RemovalStands` | `Spec => RemovedStaysRemoved` | `Arrivals = "serial"` |
| `TodoLifecycle_proofs!TypeCorrect` | `Spec => []TypeOK` | — |
| `TodoLifecycle_proofs!ColumnsKept` | `Spec => []LiveTodoHasLiveStatus` | deletions of columns run alone |
| `TodoLifecycle_proofs!DeletionFinal` | `Spec => DeletedStaysDeleted` | deletions of todos run alone |
| `TodoLifecycle_proofs!IndexFollows` | `Spec => []IndexFollowsTodo` | no call fails; `Edits` (update, archive, delete) run alone on their todo |
| `TodoLifecycle_proofs!CalmIndexFollows` | `MCSpec => []CalmIndexFollowsTodo` | the same, of the calm part |
| `TodoSearch_proofs!SearchComposes` | `SearchSpec => Spec /\ BoardProofs!Spec`: the composition implements both parts | — |
| `TodoSearch_proofs!SearchFollows` | `SearchSpec => []SearchFollowsTodo` | `Arrivals = "serial"`; `SteadyHost`; `Edits` run alone on their todo |
| `UserAccount_proofs!TypeCorrect` | `Spec => []TypeOK` | — |
| `UserAccount_proofs!OneAccount` | `Spec => []OneLiveAccount` | — |
| `UserAccount_proofs!VerificationFinal` | `Spec => VerifiedStaysVerified` | verifyEmail and edits do not overlap |
| `UserAccount_proofs!RemovalFinal` | `Spec => RemovedAccountStaysRemoved` | removals overlap neither edits nor verifyEmail |
| `UserAccount_proofs!ResetsOnce` | `Spec => []TokenResetsOnce` | no call fails; `ResetsApart`: two resetPassword do not overlap |
| `UserAccount_proofs!MailsWork` | `Spec => []LastMailWorks` | no call fails; `MailsApart`: requests for mails of one kind overlap neither one another nor the use of such a mail |
| `UserAccount_proofs!CalmMails` | `MCSpec => []CalmMailsWorkOnce` | `ResetsApart`, `MailsApart` |
| `Services_proofs!RefreshOnce` | `Spec => []RefreshTokenWorksOnce` | — |
| `Services_proofs!Ended` | `Spec => []EndedSessionsStayEnded` | — |
| `Membership_proofs!TypeCorrect` | `Spec => []TypeOK` | — |
| `Membership_proofs!InvitationsLive` | `Spec => EveryInvitationLives` (refinement) | `SavesApart`: requests that save an invitation do not overlap |
| `Membership_proofs!DeletedStays` | `Spec => DeletedSpaceStaysDeleted` | `DeletionsApart`: a deletion overlaps nothing that saves the space |
| `Membership_proofs!SettingsStay` | `Spec => []SettingsKept` | `SettingsApart`: settings overlap neither settings nor edits |
| `Membership_proofs!RemovalsHold` | `Spec => RemovalsStand` | `DeletionsApart`; `HandoversApart`, `DismissalsApart`: transfers overlap neither one another nor changes of members, and a removal overlaps no save of a member but an accept's |
| `Membership_proofs!LastMailHolds` | `Spec => []LastInvitationWorks` | `InvitesApart`: two requests for a mail do not overlap |
| `Membership_proofs!CollaboratorsOnce` | `Spec => []CollaboratorsKeptOnce` | `TransfersApart`: transfers overlap neither one another nor what saves a member or the workspace; `DismissalsApart`; `CreationsApart`: first projects do not overlap |
| `RagChat_proofs!TypeCorrect` | `Spec => []TypeOK` | — |
| `RagChat_proofs!DeletionsConfirmed` | `Spec => []DeletionsAreConfirmed` | — |
| `RagChat_proofs!Transcript` | `Spec => []TranscriptIsFaithful` | `RemovalApart`: the conversation is not removed while a query runs |
| `RagChat_proofs!AgentKnows` | `Spec => []AgentKnowsAnswered` | `RemovalApart` |
| `RagChat_proofs!ConversationKept` | `Spec => ConversationStays` | `RemovalApart` |
| `Services_proofs!ServicesTypes` | `MCSpec => []ServicesTypeOK` | — |
| `Services_proofs!IssuesMove` | `MCSpec => []IssuesMoveAsConfigured` | — |
| `Services_proofs!CommentsKept` | `MCSpec => CommentsAreKept` | — |
| `Services_proofs!PagesComplete` | `MCSpec => PagesAreComplete` | — |
| `Algorithms_proofs!IntentClear` | `AnySpec => []IntentIsClear`, and of `MCSpec` | — |
| `Algorithms_proofs!NoCode` | `AnySpec => []NoCodeAnswered`, and of `MCSpec` | — |
| `Algorithms_proofs!ChunksKeep` | `AnySpec => []ChunksKeepText`, and of `MCSpec` | — |
| `Algorithms_proofs!AccessAgree` | `AnySpec => []AccessAgrees`, and of `MCSpec` | — |
| `Algorithms_proofs!TodoQueriesRight` | `AnySpec => []TodoQueriesAgree`, and of `MCSpec` | `Board`: todos are finitely many, and no two were saved at the same time |

The theorems assume less than the runs: `todos` keeps two kinds of deletion alone, and each theorem only
the one it needs; `accounts` and `members` rule out more pairs than the theorems do.

**Along which argument.**

* *Types* are inductive once it is known what a request holds at each await (`Shape`): a request
  about to update holds an entity, a job that is open has an argument. In `EmbeddingIndex` also that a job is in
  one place at a time (`Once`), so that it is counted as stalled at most once more than BullMQ allows.
* *`IndexIntegrity`* is not inductive: `Update` may insert a removed entity again, for which jobs
  are waiting. `Binding` says that all requests that ever held an id agree on its key and user, and
  so does the row if it exists; it rests on ids never being used twice. With it, a revived row is
  still the row its jobs have in mind (`IInv`).
* *`CustomIsolation`* adds `OneUserPerCustom`: all requests on a custom source, the entities
  they hold and its row have one user (`CInv`).
* *`CompletedHasChunks`* (`Filled`): a row without chunks that is COMPLETED, or that the worker is
  about to set so, has a purge behind it, and the request of that purge or its job is still on its
  way to the row.
* *`RemovedStaysRemoved`*: with requests that take turns nobody removes the row that a request holds
  (`HeldRowLives`), so `save` updates it, and an insert takes a new id.
* *`CompletedHasCurrentContent`* (`Current`): the content of a row is on its way (`Rewritten`: a request is about
  to write or to enqueue it), or the last waiting job for the row carries it (`LastWaits`), or no job waits
  and the running one carries it (`LastRuns`), or all are through and COMPLETED tells the truth
  (`Settled`). Jobs of older contents come before the last one, so what they leave does not last.
* *`LiveTodoHasLiveStatus`* (`SInv`): the columns that requests have checked, and those of the
  todos they hold, are live; deleting a column may rely on its count because it runs alone.
* *`DeletedStaysDeleted`* (`DInv`): the rows that a request will write are live until it has.
* *`IndexFollowsTodo`* (`FInv`): who saves a whole todo beside an edit changes whether it is archived and not
  its content (`KnowsContent`), so what was handed to the index stays right (`Followed`), also if a stale
  entity is yet to bring the todo back on the board (`OnBoard`); and what an edit that has saved will hand
  over is in the row (`WillIndex`), or all of it but a description that the entity has as undefined (`Tells`).
* *`SearchFollowsTodo`* (`SearchInv`) joins the two parts, whose invariants are used as they are: `BoardProofs`
  instantiates the lemmas about `TodoLifecycle`. A step of the whole is a step of each part or leaves it alone
  (`BoardNext`, `IndexNext`). What is added says what the index knows of a todo (`TodoTold`): if the board told
  it to remove the todo, every call still under way is a removal and no row is left behind them (`Gone`); if it
  told a text, every call under way carries that text, and behind them a row has it (`Kept`). And a row that is
  PENDING or PROCESSING is one for which a job is still to be added, waits or runs (`StatusKnown`).
* *`OneLiveAccount`* is proved of every write: none goes round the index.
* *`VerifiedStaysVerified`* and *`RemovedAccountStaysRemoved`*: an edit about to save agrees with the
  row on `verified` (`EditKnows`), and whoever saves a user whole holds one that is not removed, as
  the row is not (`WholeLive`).
* *`TokenResetsOnce`* and *`LastMailWorks`* rest on `OInv`: each token was signed by one request, and all
  that hold it, in the cache, a mail or a request, hold it for the same user and kind. Then a used
  token that is still in the cache is about to be erased (`UsedIsErased`), so no reset that comes later
  passes its check; and what a request is about to mail is in the cache (`ToMail`), because nobody
  else sets or erases a token of the kind for the same user meanwhile (`Separate`). The registration
  needs no assumption for this: its mail is the first to its account (`RegisterFirst`).
* *`RefreshTokenWorksOnce`* (`RefreshInv`): a hash that was replaced never returns to the table, because
  the hash a refresh writes is new; so who comes after an answered use finds another.
* *`EndedSessionsStayEnded`*: a session whose row is gone stays gone, because `Rotate` updates and
  does not insert (`LogoutInv`, `ChangeInv`), and what signs after a removal was in flight before it
  (`RemoveInv`). The part on access tokens needs that tokens expire in the order of their signing.
* *`EveryInvitationLives`*: the initial state maps to the initial state of `InvitationLifecycle`, and each
  step to one of its steps or a stutter. The strengthening says what a request holds: while it may
  save an invitation nobody else does (`SavesApart`), so that the row is as it was read, and a
  membership has the request's own identity only if that request inserted it.
* *`SettingsKept`*, *`DeletedSpaceStaysDeleted`*: whoever is about to save the space holds the row with the
  settings that are there (`SavesSettings`), or holds a live row of a live space (`SavesLive`).
* *`RemovedMemberStaysOut`*: a row that is about to be saved is there already or was made by the request that
  saves it (`RowOf`), because nobody removes rows meanwhile; and a row with the identity of a request
  exists only once that request has read (`Idents`), so what a save adds is always new.
* *`LastInvitationWorks`*: the token of a pending invitation was mailed last, or the very request that saved it is
  about to mail it or failed before it did (`TokenIsLast`, `Unmailed`), also after earlier requests failed;
  a save by a request that mails nothing leaves no invitation pending (`RowsToSave`).
* *`CollaboratorsKeptOnce`*: uniqueness of rows is proved of every write (`OneRowPerUser`), that of the default workspace
  from `NoneToInsert`. Neither "the owner is no member" nor "who joined still collaborates" is inductive,
  for `transferOwner` breaks both between its calls. `TransferRow` says how far each transfer has come and
  what then holds of owner and members, `OwnerOut` and `Between` are the two claims with the exceptions
  that a transfer under way makes, and `Removers` says that a removal takes rows of its own user only.
  Each step is shown to keep all this (`Good`), or it breaks off a transfer (`Broken`), after which
  the property asks nothing more.
* *`TranscriptIsFaithful`*, *`AgentKnowsAnswered`* (`CInv` of `RagChat_proofs`): a query in flight keeps its
  conversation alive (`QueriesLive`), so from its first save on its question is in the transcript, and behind
  it only what overlaps it wrote (`Asking`); what came before a request stays ended (`Past`).
  *`ConversationStays`*: who still takes the conversation for untitled overlaps whoever titled it (`TitleKnown`).
* *`DeletionsAreConfirmed`* is inductive with the tools that a confirmation has carried out (`Carried`).
* *`IssuesMoveAsConfigured`*, of three parts. Every token that a row or a request has is encrypted once, or not at
  all if it was given with a colon (`StoredWell`), and is no older than the last upsert that was alone with its token
  (`RowNoOlder`, `HeldNoOlder`); what is sent to Jira carries one that decrypts (`SendsDecrypted`). A replacement that
  came after all others has found all live mappings and leaves only its own (`ReplacementStages`). An
  integration or a mapping that lives after it was taken away was renewed meanwhile, and so was what
  a request had read of it (`RemovalsLast`, `MappingsLast`).
* *`CommentsAreKept`*: what a request is about to save or attach lives, or was deleted by one that had not ended
  when it came (`RowsGone`); an image leaves the comment that it was answered for only by a request that
  names it, or by an update that overlaps, because one that came later has read it (`ImagesKept`,
  `ImagesRead`).
* *`PagesAreComplete`*: in an order by time everybody has a rank, the number of those who are newer, and no two
  have the same (`Ranked`), so a first page is the newest (`Newest`) and a page back is the oldest of the newer
  ones (`Oldest`), without any induction over lists. What a forward walk has shown is in order and ends with the
  page (`WalkInOrder`), the cursors are the page's ends (`Cursors`), and everybody who was known, stayed and is
  not older than the page's end was shown, or shares the millisecond of an end (`WalkComplete`).

* *The algorithms* loop and sum, and a claim about a loop is one about all numbers. `Least` (every set of natural
  numbers that has an element has a least one, from the library's facts on well-founded relations) gives
  `Induct`: a set of numbers that has 0, and with every number the next one, has them all. Each loop is
  given a set of its own, the numbers of steps after which its invariant holds. `FoldExists` says that
  a fold over a sequence is such a loop, `SumIs` that a sum over a set adds up whatever the order, and
  `MaxInside` and `MinOfSet` what the largest and the least element of a set of numbers is.
* *`IntentIsClear`*: of the winner of the router (`RouterRight`) the second-best row is either of the same intent or
  too far away. The scan for an object (`ScanSees`) knows after each token whether it is in a string and how
  deep it is, as `Quotes` and `Depth` count them from the beginning; the first return to depth 0 ends it.
* *`ChunksKeepText`*: each of the loops of `recursiveSplit` and `splitBySentences` keeps `Keeps`: the chunks so far are
  numbered, none is blank, and a letter that was taken together with a terminator behind it is in a chunk or in
  the text that is being collected, which is pushed at the end. Overlaps and trimming only add text or take white space (`TrimKeeps`,
  `OverlapTyped`). Sentences are found by a run of its own (`MatchesRun`), in which an ended sentence is in
  the list or still in the match; paragraphs by their rank among the starts (`NthIsAll`).
* *`TodoQueriesAgree`*: the groups partition what they count (`GroupsAdd`), so their sum is the count without a
  filter. The most recent todos up to a limit are as many as the limit or all of them (`MostRecent`), because
  no two share a rank. Pages continue one another (`PagesContinue`) up to the last row.
  *`AccessAgrees`*, a set of equivalences between what is found, listed or assignable and what the checks
  allow, with the exceptions on their right-hand sides, and *`NoCodeAnswered`* go through the cases of the tables and of what the model said.

**Only model-checked.**

* `StatusSettles` and `ProcessingEnds`: liveness under fairness is out of the prover's reach.
* The three violations.

## 6. Where the code disagrees with what is said of it

Shown by runs:

* `retry`: `embedding-queue.processor.ts:95` says "BullMQ will handle retry"; jobs are added
  without `attempts`, and the default is one.
* `drop`: `todo-status.controller.ts:89` says "blocked if it has todos"; the count and the deletion are
  two calls, and a todo can enter between.
* `signin`: the README's "Sign in and sign up via email"; an edit of the profile hashes the stored hash
  again, and the password no longer matches.

Noticed while modelling, and stated as exceptions in the properties:

* *Indexing.* `indexing.service.ts:89` says "only if its content has changed"; two overlapping calls with one
  new content both find the old hash and both embed. A FAILED source is not indexed again until its text
  changes, since an equal hash returns early. `vectorSearch` asks neither for the status of the source nor
  for the todo, so a late job of an older text leaves chunks that are found beside the new ones. A todo that
  another member edits is indexed for that member, and its creator no longer finds it. `TodoIndexingService`
  stores no `projectId`, so a search filtered by project finds only what `POST /rag/index` indexed.
* *PROCESSING for ever.* BullMQ gives a job up that stalls a second time (`maxStalledCount`, 1) without a word to
  the processor, and if the store fails in the `catch` of `process` (`embedding-queue.processor.ts:93`) the FAILED
  is lost: in both cases the row stays PROCESSING, until its text changes. A job that is delivered again after its
  chunks were saved saves them a second time (the models do not tell the copies apart).
* *Todos.* The agent's `updateTask` gives `description: undefined` when the model leaves the description out
  (`task-tool.factory.ts:385-390`): the row keeps it, but the entity that `update-todo.use-case.ts:123` hands to the
  index has lost it, and search knows the todo by its title alone until it is indexed again. Moving a todo does not index it, although the indexed text holds the column's name. An update of
  an archived todo indexes it again. PATCH resets priority and order, whose DTOs have initial values
  (`create-todo.req.dto.ts:47`, `create-todo-status.req.dto.ts:16`).
* *Sessions.* An access token signed after the one that logged out outlives the blacklist
  (`auth.service.ts:295-299`). `resetPassword` keeps all sessions; `changePassword` and the removal of a user leave
  the access tokens valid until they expire. Two overlapping uses of one refresh token are both answered, a crash
  between the replacement of the hash and the answer leaves the client without a token that works, and a sign-in
  that compared the old password before `changePassword` can open its session after the others were closed.
* *Invitations.* Of two overlapping accepts the second lets a member back in who was removed between them, and a
  revoke that overlaps an accept is lost; this is why they are apart in `members`.
* *Settings.* Of two overlapping changes of a project's settings, or a change and an edit of the project, one can be
  lost (`rag-settings.service.ts:50`).
* *Access.* `assertAssignableUser` refuses the owner of the workspace if he did not create the project, and takes
  collaborators of a project, and members of a deleted workspace, who cannot read. Who joined or created a project of
  a workspace without a part in the workspace gets 404 from the access check, though the queries find its todos and
  the list of projects shows it, with a right that nothing enforces. `AccessAgrees` names these cases and says that
  there are no others. In `project.service.ts:50-64` and `workspace.service.ts:33-40`
  the search text filters the last alternative of the condition only.
* *Pages.* Users who share the millisecond of a page's end are skipped. `nextPage` and `previousPage` of
  `offset-pagination.dto.ts:33-41` are always undefined.
* *Jira.* A project whose integration was deleted can never be connected again, and a mapping that was taken out
  never be put back: the unique indexes count what is softly deleted. A token that is given with a colon, which
  `upsert-jira-integration.req.dto.ts:21-22` allows, passes for encrypted (`jira-integration.entity.ts:125`): it is
  stored in the clear, and every call with it fails in `decryptToken`.
* *Chat.* `findRecentConversationMessages` returns the oldest 20 messages. A confirmation is not compared with a
  proposal. `deleteTaskStatus`, `createTaskStatus` and `updateTaskStatusDefinition` are permitted by no intent,
  though `task-agent.service.ts:144` tells the model to use them. An agent that fails after its tools
  had effects leaves no message.
* *Chunking.* A last sentence without a terminator is lost when its paragraph is split, and so are terminators at
  its beginning; a chunk may hold nothing but the overlap of the one before.

## 7. What is not modelled

The e-mail worker (renders and sends, keeps nothing; where tokens and mails part is in `UserAccount` and
`Membership`), posts (plain CRUD), object storage (signs URLs, keeps no state), and the platform:
HTTP, validation, configuration, decorators, logging, translations, mail templates. Within the modelled
components: labels, priorities and assignees of todos; user names; distances and ranks of a search; the
fallback between language models, which tries one after the other. Out of scope: what models and providers answer, and failures of PostgreSQL or Redis that lose what
they confirmed. One project, one account, one space and one conversation at a time: the code relates two of a
kind nowhere, except that an update can move a todo to another project.

## 8. Plan

Done, in this order: `EmbeddingIndex`, `TodoLifecycle`, `UserAccount`, then `Membership` with its abstract
specification, `Sessions`, the composition `TodoSearch`, `RagChat`, `JiraIntegration`, `TodoComments`, `UserPages`
and the algorithms. What would add most next:

1. `UserAccount` composed with `Sessions` through the password and the removal of the account.
2. `TodoComments` composed with `RagChat`, whose tools write comments.
