------------------------------ MODULE RagChat ------------------------------
(***************************************************************************)
(* One conversation with the assistant: the queries and confirmations of   *)
(* its user, the tools the agent calls for them, the pairs of messages     *)
(* they leave, and the removal of the conversation                         *)
(* (RagService, RagConversationService, TaskAgentService, TaskToolFactory).*)
(*                                                                         *)
(* Each await of a request is one action, except that awaits which touch   *)
(* no shared state are part of the next.  A request that is refused where  *)
(* it arrives changes nothing and is left out.  What the language model    *)
(* does is any choice among the tools that the intent permits.             *)
(***************************************************************************)
EXTENDS IntentClassification

CONSTANTS
    Requests,
    Things,       \* what tools may delete
    DeletedBy,    \* the tool that deletes each thing
    None,         \* no thing and no title
    Said,         \* the intents that classification may answer
    Used,         \* the tools that an agent may try
    HistoryLimit, \* 20
    MaxCalls,     \* bound on the calls of one agent; the code stops after 5 steps
    Apart,        \* pairs of operations whose requests do not overlap
    Faults        \* whether a call of a request may reject

Ops == {"query", "confirm", "delete"}

\* What each tool does: read, write, or propose a deletion.
ProjectTools == [listProjects |-> "read", createProject |-> "write",
                 updateProject |-> "write", deleteProject |-> "propose"]
StatusTools == [listTaskStatuses |-> "read", createTaskStatus |-> "write",
                updateTaskStatusDefinition |-> "write", deleteTaskStatus |-> "propose"]
FindTools == [findTasks |-> "read", getTaskDetails |-> "read",
              listTaskComments |-> "read", createTaskComment |-> "write",
              getDashboardStats |-> "read", countTasks |-> "read"]
TaskTools == [createTask |-> "write", updateTask |-> "write", deleteTask |-> "propose",
              linkJiraIssue |-> "write", updateTaskStatus |-> "write"]
Tools ==
    LET Both(f, g) == [tool \in DOMAIN f \cup DOMAIN g |->
                          IF tool \in DOMAIN f THEN f[tool] ELSE g[tool]]
    IN Both(Both(ProjectTools, StatusTools), Both(FindTools, TaskTools))

\* The switch of executeConfirmedTool.
Confirmable == {"deleteProject", "deleteTaskStatus", "deleteTask"}

ASSUME ConstantsAssumption ==
    /\ DeletedBy \in [Things -> Confirmable]
    /\ None \notin Things \cup Requests
    /\ Said \subseteq AiIntent
    /\ Used \subseteq DOMAIN Tools
    /\ HistoryLimit \in Nat /\ MaxCalls \in Nat
    /\ Apart \subseteq SUBSET Ops
    /\ Faults \in BOOLEAN

VARIABLES
    live, title, \* of the row of the conversation; the title by who gave it
    messages,    \* its messages in the order of created_at
    things,      \* the things that exist
    changes,     \* [by, tool]: what requests changed through tools
    pc, arg,     \* of request i: its next await and what it asks
    intent,      \* its intent
    untitled,    \* whether the conversation had no title when i read it
    seen,        \* the history that it read
    calls,       \* the calls of its agent
    answer,      \* who worded its answer
    before       \* the requests that had ended when it started

conversation == <<live, title, messages>>
world == <<things, changes>>
locals == <<intent, untitled, seen, calls, answer>>
vars == <<conversation, world, pc, arg, locals, before>>

Role == {"user", "assistant"}
Message == [role : Role, by : Requests]
Call == [tool : DOMAIN Tools, on : Things \cup {None}, failed : BOOLEAN]
Awaits == {"classify", "confirm", "history", "agent", "saveUser",
           "saveAssistant", "title", "remove"}
Wordings == {"none", "agent", "apology", "count", "stats", "refusal",
             "unclear", "proposal", "confirmed"}

TypeOK ==
    /\ live \in BOOLEAN
    /\ title \in Requests \cup {None, "given"}
    /\ messages \in Seq(Message)
    /\ things \subseteq Things
    /\ changes \subseteq [by : Requests, tool : DOMAIN Tools]
    /\ pc \in [Requests -> Awaits \cup {"new", "done", "failed"}]
    /\ arg \in [Requests -> [op : Ops \cup {"none"}, on : Things \cup {None}]]
    /\ intent \in [Requests -> AiIntent \cup {"none"}]
    /\ untitled \in [Requests -> BOOLEAN]
    /\ seen \in [Requests -> Seq(Message)]
    /\ \A i \in Requests : Len(seen[i]) <= HistoryLimit /\ Len(calls[i]) <= MaxCalls
    /\ calls \in [Requests -> Seq(Call)]
    /\ answer \in [Requests -> Wordings]
    /\ before \in [Requests -> SUBSET Requests]

\* A conversation was created, with a title or without.
Init ==
    /\ live = TRUE /\ title \in {None, "given"}
    /\ messages = <<>>
    /\ things = Things /\ changes = {}
    /\ pc = [i \in Requests |-> "new"]
    /\ arg = [i \in Requests |-> [op |-> "none", on |-> None]]
    /\ intent = [i \in Requests |-> "none"]
    /\ untitled = [i \in Requests |-> FALSE]
    /\ seen = [i \in Requests |-> <<>>]
    /\ calls = [i \in Requests |-> <<>>]
    /\ answer = [i \in Requests |-> "none"]
    /\ before = [i \in Requests |-> {}]

-----------------------------------------------------------------------------
\* Mutant of InFlight: the answer does not wait for the title.
InFlightUntilAnswer == {i \in Requests : pc[i] \in Awaits \ {"title"}}

InFlight == {i \in Requests : pc[i] \in Awaits}
Op(i) == arg[i].op
Answered == {i \in Requests : pc[i] = "done" /\ Op(i) # "delete"}
Overlap(i, j) == i \notin before[j] /\ j \notin before[i]

(***************************************************************************)
(* The assumption a run makes on the arrival of requests.  Nothing in the  *)
(* code makes the requests of one conversation wait, which is Apart = {}.  *)
(***************************************************************************)
Admitted(op) == \A i \in InFlight : {op, Op(i)} \notin Apart

\* getConversation finds the row.
Start(i, where, op, on) ==
    /\ pc[i] = "new" /\ live /\ Admitted(op)
    /\ pc' = [pc EXCEPT ![i] = where]
    /\ arg' = [arg EXCEPT ![i] = [op |-> op, on |-> on]]
    /\ untitled' = [untitled EXCEPT ![i] = title = None]
    /\ before' = [before EXCEPT ![i] = {j \in Requests : pc[j] \in {"done", "failed"}}]
    /\ UNCHANGED <<conversation, world, intent, seen, calls, answer>>

StartQuery(i) == Start(i, "classify", "query", None)
\* Tool and input are the caller's; nothing is compared with a proposal.
StartConfirm(i) == \E thing \in Things : Start(i, "confirm", "confirm", thing)
StartDelete(i) == Start(i, "remove", "delete", None)

At(i, where, next) == pc[i] = where /\ pc' = [pc EXCEPT ![i] = next] /\ UNCHANGED <<arg, before>>

\* The last step of a request: what it held is gone.
End(i, where, how) ==
    /\ At(i, where, how)
    /\ intent' = [intent EXCEPT ![i] = "none"]
    /\ untitled' = [untitled EXCEPT ![i] = FALSE]
    /\ seen' = [seen EXCEPT ![i] = <<>>]
    /\ calls' = [calls EXCEPT ![i] = <<>>]
    /\ answer' = [answer EXCEPT ![i] = "none"]

\* A call that request i awaits rejects, and the request with it.
Fault(i) ==
    /\ Faults
    /\ pc[i] \in Awaits \ {"classify"}
    /\ End(i, pc[i], "failed")
    /\ UNCHANGED <<conversation, world>>

\* executeConfirmedTool: the use case deletes the thing or does not find it.
Confirm(i) ==
    LET thing == arg[i].on
    IN IF thing \in things
       THEN /\ At(i, "confirm", "saveUser")
            /\ things' = things \ {thing}
            /\ changes' = changes \cup {[by |-> i, tool |-> DeletedBy[thing]]}
            /\ answer' = [answer EXCEPT ![i] = "confirmed"]
            /\ UNCHANGED <<conversation, intent, untitled, seen, calls>>
       ELSE End(i, "confirm", "failed") /\ UNCHANGED <<conversation, world>>

\* classify never rejects.
ClassifyQuery(i) ==
    \E rule \in Said \cup {"none"}, router, llm \in Said \cup {"failed"} :
        LET t == Classify(rule, router, llm)
            closed == t \in {"OUT_OF_SCOPE", "AMBIGUOUS"}
        IN /\ t \in Said
           /\ At(i, "classify", IF closed THEN "saveUser" ELSE "history")
           /\ intent' = [intent EXCEPT ![i] = t]
           /\ answer' = [answer EXCEPT ![i] =
                  CASE t = "OUT_OF_SCOPE" -> "refusal"
                    [] t = "AMBIGUOUS" -> "unclear"
                    [] OTHER -> @]
           /\ UNCHANGED <<conversation, world, untitled, seen, calls>>

\* Mutants of Recent: without take; with one message fewer.
RecentAll == messages
RecentButOne == SubSeq(messages, 1, Min({HistoryLimit, Len(messages)}) - 1)

\* ASC with take: the oldest ones.
Recent == SubSeq(messages, 1, Min({HistoryLimit, Len(messages)}))

\* Settings and chunks are read before, and only a rejection of that matters.
ReadHistory(i) ==
    /\ At(i, "history", "agent")
    /\ seen' = [seen EXCEPT ![i] = Recent]
    /\ UNCHANGED <<conversation, world, intent, untitled, calls, answer>>

Permitted(i) == IntentToolPermissions[intent[i]]

\* Mutant of CallTool: requireConfirmation is left out.
CallToolAtOnce(i) ==
    /\ pc[i] = "agent" /\ Len(calls[i]) < MaxCalls
    /\ \E tool \in Permitted(i) \cap Used, on \in Things :
          /\ Tools[tool] = "propose" /\ DeletedBy[on] = tool
          /\ calls' = [calls EXCEPT ![i] = Append(@, [tool |-> tool, on |-> on, failed |-> FALSE])]
          /\ things' = things \ {on}
    /\ UNCHANGED <<conversation, changes, pc, arg, intent, untitled, seen, answer, before>>

\* A read changes nothing, a write may throw (the agent is told and goes on),
\* and what would delete only proposes to.
CallTool(i) ==
    /\ pc[i] = "agent" /\ Len(calls[i]) < MaxCalls
    /\ \E tool \in Permitted(i) \cap Used :
          \E on \in IF Tools[tool] = "propose"
                    THEN {thing \in Things : DeletedBy[thing] = tool} ELSE {None},
             failed \in IF Tools[tool] = "propose" THEN {FALSE} ELSE BOOLEAN :
              /\ calls' = [calls EXCEPT ![i] =
                     Append(@, [tool |-> tool, on |-> on, failed |-> failed])]
              /\ changes' = IF Tools[tool] = "write" /\ ~ failed
                            THEN changes \cup {[by |-> i, tool |-> tool]} ELSE changes
    /\ UNCHANGED <<conversation, things, pc, arg, intent, untitled, seen, answer, before>>

\* The first proposal is the pending confirmation, its wording the answer.
Proposed(i) == SelectSeq(calls[i], LAMBDA call : Tools[call.tool] = "propose")

FinishAgent(i) ==
    /\ At(i, "agent", "saveUser")
    /\ \E code, leak, named \in BOOLEAN :
          LET text == IF Proposed(i) # <<>> THEN Plain("proposal")
                      ELSE Text("agent", code, leak)
              safe == BuildSafeAgentText(text, intent[i], calls[i],
                                         [code |-> named, leak |-> FALSE])
          IN answer' = [answer EXCEPT ![i] = Validate(safe, intent[i]).by]
    /\ UNCHANGED <<conversation, world, intent, untitled, seen, calls>>

\* Inserting a message; its foreign key wants the conversation.
Insert(i, role) == live /\ messages' = Append(messages, [role |-> role, by |-> i])
LosesConversation(i) ==
    /\ ~ live
    /\ pc[i] \in {"saveUser", "saveAssistant"}
    /\ End(i, pc[i], "failed")
    /\ UNCHANGED <<conversation, world>>

\* Mutant of SaveUser: the pair goes on without its first message.
SaveUserSwallowed(i) ==
    /\ (Insert(i, "user") \/ (Faults /\ UNCHANGED messages))
    /\ At(i, "saveUser", "saveAssistant")
    /\ UNCHANGED <<live, title, world, locals>>

SaveUser(i) ==
    /\ Insert(i, "user")
    /\ At(i, "saveUser", "saveAssistant")
    /\ UNCHANGED <<live, title, world, locals>>

\* Mutant of Titles: a given title does not count.
TitlesFirst(i) == Op(i) = "query" /\ intent[i] \notin {"OUT_OF_SCOPE", "AMBIGUOUS"} /\ seen[i] = <<>>

\* Whether request i goes on to setTitleIfEmpty.
Titles(i) ==
    /\ Op(i) = "query" /\ intent[i] \notin {"OUT_OF_SCOPE", "AMBIGUOUS"}
    /\ seen[i] = <<>> /\ untitled[i]

\* Mutant of SaveAssistant: a failure is only logged.
SaveAssistantSwallowed(i) ==
    /\ (Insert(i, "assistant") \/ (Faults /\ UNCHANGED messages))
    /\ End(i, "saveAssistant", "done")
    /\ UNCHANGED <<live, title, world>>

\* Then the intent is logged, which never rejects.
SaveAssistant(i) ==
    /\ Insert(i, "assistant")
    /\ IF Titles(i) THEN At(i, "saveAssistant", "title") /\ UNCHANGED locals
                    ELSE End(i, "saveAssistant", "done")
    /\ UNCHANGED <<live, title, world>>

\* The row is saved as it was read: one that was removed is inserted again.
SetTitle(i) ==
    /\ End(i, "title", "done")
    /\ title' = i /\ live' = TRUE
    /\ UNCHANGED <<messages, world>>

\* Removing the row cascades to its messages.
RemoveConversation(i) ==
    /\ End(i, "remove", "done")
    /\ live' = FALSE /\ messages' = <<>>
    /\ UNCHANGED <<title, world>>

Next == \E i \in Requests :
    \/ StartQuery(i) \/ StartConfirm(i) \/ StartDelete(i) \/ Fault(i)
    \/ Confirm(i) \/ ClassifyQuery(i) \/ ReadHistory(i) \/ CallTool(i) \/ FinishAgent(i)
    \/ SaveUser(i) \/ SaveAssistant(i) \/ LosesConversation(i)
    \/ SetTitle(i) \/ RemoveConversation(i)

Spec == Init /\ [][Next]_vars

-----------------------------------------------------------------------------
Recorded(i) == \E j, k \in DOMAIN messages :
    /\ j < k
    /\ messages[j] = [role |-> "user", by |-> i]
    /\ messages[k] = [role |-> "assistant", by |-> i]

\* As long as the conversation lives, every answer that was given is in it,
\* after the message it answers.  Needs {"delete", "query"} in Apart: a title
\* saved late brings the conversation back without its messages.
AnsweredIsRecorded == live => \A i \in Answered : Recorded(i)

\* What the model is shown next time alternates: whatever fails, an answer
\* stands behind its question, and only messages of requests that overlapped
\* are between the two.
AnswersFollowQuestions ==
    \A k \in DOMAIN messages : messages[k].role = "assistant" =>
        \E j \in 1 .. k - 1 :
            /\ messages[j] = [role |-> "user", by |-> messages[k].by]
            /\ \A l \in j + 1 .. k - 1 : Overlap(messages[l].by, messages[k].by)

\* The two calls of saveMessagePair leave a transcript of what was said.
TranscriptIsFaithful == AnsweredIsRecorded /\ AnswersFollowQuestions

\* The agent knows every exchange that ended before its request began, until
\* the history is full.
AgentKnowsAnswered ==
    \A i \in Requests, j \in Requests :
        /\ pc[i] = "agent" /\ live /\ j \in before[i] \cap Answered
        => \/ Len(seen[i]) = HistoryLimit
           \/ \E k \in DOMAIN seen[i] : seen[i][k] = [role |-> "assistant", by |-> j]

\* Whatever is gone was named by a confirmation of the user, however the
\* agent was talked into it; and one that was answered has deleted it.
DeletionsAreConfirmed ==
    /\ \A thing \in Things \ things :
          \E i \in Requests : Op(i) = "confirm" /\ arg[i].on = thing /\ pc[i] # "confirm"
    /\ \A i \in Answered : Op(i) = "confirm" =>
          [by |-> i, tool |-> DeletedBy[arg[i].on]] \in changes

\* A title, given or taken from the first question, stays: only a question
\* that overlapped the first replaces it.
TitleStays ==
    [][title # None => \E i, j \in Requests : title = j /\ title' = i /\ Overlap(i, j)]_title

\* A conversation that was removed does not come back.  Needs
\* {"delete", "query"} in Apart.
RemovedStaysRemoved == [][live' => live]_live

\* setTitleIfEmpty, which saves the conversation as it was read, undoes neither.
ConversationStays == TitleStays /\ RemovedStaysRemoved
=============================================================================
