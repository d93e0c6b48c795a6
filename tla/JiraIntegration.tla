-------------------------- MODULE JiraIntegration --------------------------
(***************************************************************************)
(* The Jira integration of one project: its row in jira_integration, the   *)
(* mappings of the project's statuses to Jira transitions, and the calls   *)
(* that JiraClientService makes with them (JiraIntegrationService).        *)
(*                                                                         *)
(* Both tables are deleted from softly, and both unique indexes count rows *)
(* that are deleted.  So there is at most one row per project, and one per *)
(* status, ever.  What a request configures is named by the request.       *)
(* Requests of users who do not own the project are refused at once and    *)
(* left out, and so is domain, e-mail and project key: they are saved as   *)
(* the token is, but always given.                                         *)
(***************************************************************************)
EXTENDS Naturals, FiniteSets

CONSTANTS
    Requests, \* identities of the requests, each used at most once
    Statuses, \* the statuses of the project
    None,     \* no row, no request
    Faults    \* whether a call of a request may reject

Ops == {"upsert", "delete", "replace", "sync"}

VARIABLES
    integration, \* the row, or None
    mappings,    \* the row of each status, or None
    moved,       \* [by, to, token]: the transitions that Jira carried out
    attempts,    \* how often Jira carried out the transition of request i
    pc, arg,     \* of request i: its next await, its operation and input
    held,        \* the integration that it has read
    found,       \* the statuses whose mappings it has read
    via,         \* the transition it asks Jira for
    before       \* the requests that had ended when it started

tables == <<integration, mappings>>
jira == <<moved, attempts>>
read == <<held, found, via>>
vars == <<tables, jira, pc, arg, read, before>>

\* What an upsert gives: no token, one without ":", or one with it, which
\* UpsertJiraIntegrationReqDto does not refuse.
Given == {"none", "plain", "colon"}

\* The token that a request gave, encrypted so many times.
Token == [of : Requests, encrypted : 0 .. 2]
Integration == [token : Token, deleted : BOOLEAN]
Mapping == [by : Requests, deleted : BOOLEAN]
Awaits == {"save", "erase", "read", "write", "take", "map", "call", "again"}

TypeOK ==
    /\ integration \in Integration \cup {None}
    /\ mappings \in [Statuses -> Mapping \cup {None}]
    /\ moved \subseteq [by : Requests, to : Requests, token : Requests]
    /\ attempts \in [Requests -> Nat]
    /\ pc \in [Requests -> Awaits \cup {"new", "done", "failed"}]
    /\ arg \in [Requests -> [op : Ops \cup {"none"}, token : Given, on : SUBSET Statuses]]
    /\ held \in [Requests -> Integration \cup {None}]
    /\ found \in [Requests -> SUBSET Statuses]
    /\ via \in [Requests -> Requests \cup {None}]
    /\ before \in [Requests -> SUBSET Requests]
    /\ \A s \in Statuses : mappings[s] # None => integration # None

Init ==
    /\ integration = None
    /\ mappings = [s \in Statuses |-> None]
    /\ moved = {} /\ attempts = [i \in Requests |-> 0]
    /\ pc = [i \in Requests |-> "new"]
    /\ arg = [i \in Requests |-> [op |-> "none", token |-> "none", on |-> {}]]
    /\ held = [i \in Requests |-> None]
    /\ found = [i \in Requests |-> {}]
    /\ via = [i \in Requests |-> None]
    /\ before = [i \in Requests |-> {}]

-----------------------------------------------------------------------------
Op(i) == arg[i].op
Done == {i \in Requests : pc[i] = "done"}
Gives(i) == arg[i].token # "none"
Live(row) == row # None /\ ~ row.deleted

\* findIntegrationByProjectId, after validateProjectBelongsToUser.
Found == IF Live(integration) THEN integration ELSE None
LiveMappings == {s \in Statuses : Live(mappings[s])}

Start(i, where, op, token, on) ==
    /\ pc[i] = "new"
    /\ pc' = [pc EXCEPT ![i] = where]
    /\ arg' = [arg EXCEPT ![i] = [op |-> op, token |-> token, on |-> on]]
    /\ held' = [held EXCEPT ![i] = Found]
    /\ before' = [before EXCEPT ![i] = {j \in Requests : pc[j] \in {"done", "failed"}}]
    /\ UNCHANGED <<tables, jira, found, via>>

At(i, where, next) == pc[i] = where /\ pc' = [pc EXCEPT ![i] = next] /\ UNCHANGED <<arg, before>>

\* validateAuthConfig: the first time a token is required.
StartUpsert(i) == \E given \in Given :
    (Found # None \/ given # "none") /\ Start(i, "save", "upsert", given, {})

\* Mutant of Encrypted: without the look for ":".
EncryptedAlways(token) == [token EXCEPT !.encrypted = IF @ = 2 THEN 2 ELSE @ + 1]

\* What is encrypted contains ":", and so may what a user gave.
HasColon(token) == token.encrypted > 0 \/ arg[token.of].token = "colon"

\* encryptApiToken before insert and update: what contains ":" passes for encrypted.
Encrypted(token) == IF HasColon(token) THEN token ELSE [token EXCEPT !.encrypted = 1]

\* The entity that request i saves; it was live when it was read.
Configured(i) ==
    [token |-> Encrypted(IF Gives(i) THEN [of |-> i, encrypted |-> 0] ELSE held[i].token),
     deleted |-> FALSE]

\* An insert fails on UQ_jira_integration_project_id, whatever became of the row.
SaveIntegration(i) ==
    LET fits == held[i] # None \/ integration = None
    IN /\ At(i, "save", IF fits THEN "done" ELSE "failed")
       /\ integration' = IF fits THEN Configured(i) ELSE integration
       /\ UNCHANGED <<mappings, jira, read>>

\* Without an integration there is nothing to do.
StartDelete(i) == Start(i, IF Found = None THEN "done" ELSE "erase", "delete", "none", {})
EraseIntegration(i) ==
    /\ At(i, "erase", "done")
    /\ integration' = [integration EXCEPT !.deleted = TRUE]
    /\ UNCHANGED <<mappings, jira, read>>

\* requireIntegration.
StartReplace(i) == \E on \in SUBSET Statuses :
    Found # None /\ Start(i, "read", "replace", "none", on)

ReadMappings(i) ==
    /\ At(i, "read", "write")
    /\ found' = [found EXCEPT ![i] = LiveMappings]
    /\ UNCHANGED <<tables, jira, held, via>>

\* One transaction.  A mapping that was read is updated, and revived if it was
\* deleted since; another is inserted and fails on a row, deleted or not.
WriteMappings(i) ==
    LET fits == \A s \in arg[i].on \ found[i] : mappings[s] = None
    IN /\ At(i, "write", IF fits THEN "take" ELSE "failed")
       /\ mappings' = IF ~ fits THEN mappings
                      ELSE [s \in Statuses |-> IF s \in arg[i].on
                                               THEN [by |-> i, deleted |-> FALSE]
                                               ELSE mappings[s]]
       /\ UNCHANGED <<integration, jira, read>>

\* Mutant of TakeOut: it takes out what it has written.
TakeOutOfRequested(i) ==
    /\ At(i, "take", "done")
    /\ mappings' = [s \in Statuses |-> IF s \in found[i] \cap arg[i].on
                                       THEN [mappings[s] EXCEPT !.deleted = TRUE]
                                       ELSE mappings[s]]
    /\ UNCHANGED <<integration, jira, read>>

TakeOut(i) ==
    /\ At(i, "take", "done")
    /\ mappings' = [s \in Statuses |-> IF s \in found[i] \ arg[i].on
                                       THEN [mappings[s] EXCEPT !.deleted = TRUE]
                                       ELSE mappings[s]]
    /\ UNCHANGED <<integration, jira, read>>

\* syncTodoStatusTransition of a linked todo that is in the project.
StartSync(i) == \E s \in Statuses :
    Start(i, IF Found = None THEN "done" ELSE "map", "sync", "none", {s})

\* Mutant of FindMapping: with what was deleted.
FindAnyMapping(i) == \E s \in arg[i].on :
    /\ At(i, "map", IF mappings[s] = None THEN "done" ELSE "call")
    /\ via' = [via EXCEPT ![i] = IF mappings[s] = None THEN None ELSE mappings[s].by]
    /\ UNCHANGED <<tables, jira, held, found>>

\* Without a mapping the todo stays PENDING.
FindMapping(i) == \E s \in arg[i].on :
    /\ At(i, "map", IF Live(mappings[s]) THEN "call" ELSE "done")
    /\ via' = [via EXCEPT ![i] = IF Live(mappings[s]) THEN mappings[s].by ELSE None]
    /\ UNCHANGED <<tables, jira, held, found>>

\* Jira carries out the transition.
Carries(i) ==
    /\ moved' = moved \cup {[by |-> i, to |-> via[i], token |-> held[i].token.of]}
    /\ attempts' = [attempts EXCEPT ![i] = @ + 1]

\* decryptToken throws on what was not encrypted, before anything is sent.
Decrypts(i) == held[i].token.encrypted = 1

\* Version 2 answers, or 404 and has done nothing, or fails in any other way,
\* which may be after Jira has done it.
CallJira(i) ==
    /\ UNCHANGED <<tables, read>>
    /\ \/ At(i, "call", "failed") /\ UNCHANGED jira
       \/ (At(i, "call", "done") \/ At(i, "call", "failed")) /\ Decrypts(i) /\ Carries(i)
       \/ At(i, "call", "again") /\ Decrypts(i) /\ UNCHANGED jira

\* Version 3, once.
CallAgain(i) ==
    /\ UNCHANGED <<tables, read>>
    /\ \/ At(i, "again", "done") /\ Carries(i)
       \/ At(i, "again", "failed") /\ (Carries(i) \/ UNCHANGED jira)

Fault(i) ==
    /\ Faults
    /\ pc[i] \in Awaits \ {"call", "again"}
    /\ At(i, pc[i], "failed")
    /\ UNCHANGED <<tables, jira, read>>

Next == \E i \in Requests :
    \/ StartUpsert(i) \/ SaveIntegration(i) \/ StartDelete(i) \/ EraseIntegration(i)
    \/ StartReplace(i) \/ ReadMappings(i) \/ WriteMappings(i) \/ TakeOut(i)
    \/ StartSync(i) \/ FindMapping(i) \/ CallJira(i) \/ CallAgain(i) \/ Fault(i)

Spec == Init /\ [][Next]_vars

-----------------------------------------------------------------------------
\* The stored token is what the last upsert with a token gave; only upserts
\* that overlap, one of which saves the token it had read, may lose it.  It is
\* encrypted exactly once, however often the row was saved since, but for a
\* token that was given with ":": that one is stored in the clear.
TokenDecrypts == integration # None =>
    /\ arg[integration.token.of].token \in {"plain", "colon"}
    /\ integration.token.encrypted = IF arg[integration.token.of].token = "plain" THEN 1 ELSE 0
    /\ \A i \in Done :
          /\ Op(i) = "upsert" /\ Gives(i)
          /\ \A k \in Requests : Op(k) = "upsert" /\ k # i => k \in before[i] \/ i \in before[k]
          => integration.token.of = i \/ i \in before[integration.token.of]

\* A replacement that nothing overlapped leaves exactly its mappings, whatever
\* earlier replacements left half done.
ReplacementIsComplete == \A i \in Done :
    Op(i) = "replace" /\ (\A j \in Requests : Op(j) = "replace" /\ j # i => j \in before[i])
        => LiveMappings = arg[i].on /\ \A s \in arg[i].on : mappings[s].by = i

\* Nothing moves in Jira for who comes after the removal of the integration
\* or of the mapping, nor by a token with ":", and one request moves an issue
\* at most once, although the client may call twice.
MovedByMappings ==
    /\ \A i \in Requests : attempts[i] <= 1
    /\ \A move \in moved : arg[move.token].token = "plain"
    /\ \A move \in moved : \A j \in Done :
          /\ j \in before[move.by]
          /\ \/ Op(j) = "delete"
             \/ Op(j) = "replace" /\ arg[move.by].on \cap arg[j].on = {}
          => \E k \in Requests \ {j} : /\ Op(k) \in {"upsert", "replace"}
                                       /\ k \notin before[j]
=============================================================================
