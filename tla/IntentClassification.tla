------------------------ MODULE IntentClassification ------------------------
(***************************************************************************)
(* How a chat message gets its intent, and what the intent then permits.   *)
(*                                                                         *)
(* Three classifiers are asked in turn: patterns (RuleBasedGuardService),  *)
(* the nearest examples by embedding (IntentRouterService) and a language  *)
(* model (LlmClassifierService), whose reply is searched for a JSON        *)
(* object.  OutputValidatorService looks at the answer afterwards.         *)
(*                                                                         *)
(* A message is a sequence of words in their normalized spelling, two      *)
(* words that a pattern wants together being one.  A similarity is an      *)
(* integer, in percent.                                                    *)
(***************************************************************************)
EXTENDS Integers, Sequences, FiniteSets, SequencesExt

AiIntent ==
    {"TASK_CREATE", "TASK_UPDATE", "TASK_DELETE", "TASK_SEARCH",
     "PROJECT_MANAGE", "COMMENT_CREATE", "COMMENT_SEARCH", "TAG_MANAGE",
     "STATUS_UPDATE", "DASHBOARD_QUERY", "STANDUP_REPORT", "TODO_HELP",
     "OUT_OF_SCOPE", "AMBIGUOUS"}

-----------------------------------------------------------------------------
\* The pattern lists of the guard.
TodoLike ==
    {"task", "todo", "cong viec", "viec", "nhac toi", "nho", "remind me",
     "deadline", "project", "board", "comment", "ghi chu", "tag", "label",
     "status", "trang thai", "dashboard", "thong ke", "tien do", "standup",
     "risk", "rui ro", "next action", "action item", "de xuat", "hanh dong",
     "blocker", "blocked", "hanh dong tiep theo"}
OutOfScope ==
    {"landing page", "react component", "code giup", "translate",
     "blog post", "essay", "giai toan", "gia bitcoin", "thoi tiet"}
\* viet.*html and the like: the first word, and one of the second after it.
OutOfScopePairs == {<<"viet", {"html", "code", "email"}>>, <<"dich", {"sang"}>>}
StandupReport == {"standup", "next action", "hanh dong tiep theo", "action item"}
CreateVerbs == {"tao", "them", "create", "add"}
CreateNouns == {"task", "todo", "cong viec", "viec"}

Has(message, words) == \E k \in DOMAIN message : message[k] \in words
Before(message, first, second) ==
    \E j, k \in DOMAIN message : j < k /\ message[j] = first /\ message[k] \in second

AsksToCreate(message) ==
    \E k \in 1 .. Len(message) - 1 : message[k] \in CreateVerbs /\ message[k + 1] \in CreateNouns
AsksForReport(message) ==
    Has(message, StandupReport) \/ Before(message, "de xuat", {"hanh dong"})
IsOutOfScope(message) ==
    \/ Has(message, OutOfScope)
    \/ \E pair \in OutOfScopePairs : Before(message, pair[1], pair[2])

\* Mutant of GuardCheck: the refusal comes first and spares no word of the domain.
GuardCheckRefusesFirst(message) ==
    IF IsOutOfScope(message) THEN "OUT_OF_SCOPE"
    ELSE IF AsksToCreate(message) THEN "TASK_CREATE"
    ELSE IF AsksForReport(message) THEN "STANDUP_REPORT"
    ELSE "none"

GuardCheck(message) ==
    IF AsksToCreate(message) THEN "TASK_CREATE"
    ELSE IF AsksForReport(message) THEN "STANDUP_REPORT"
    ELSE IF IsOutOfScope(message) /\ ~ Has(message, TodoLike) THEN "OUT_OF_SCOPE"
    ELSE "none"

-----------------------------------------------------------------------------
MinSimilarity == 72
MinMargin == 5

\* Mutant of DecideIntent: the runner-up is the second row, whatever its intent.
DecideIntentBySecondRow(rows) ==
    IF rows = <<>> THEN "AMBIGUOUS"
    ELSE IF rows[1].similarity < MinSimilarity THEN "AMBIGUOUS"
    ELSE IF Len(rows) > 1 /\ rows[2].intent # rows[1].intent
            /\ rows[1].similarity - rows[2].similarity < MinMargin THEN "AMBIGUOUS"
    ELSE rows[1].intent

\* The best row of an intent counts.  rows: sequence of [intent, similarity].
DecideIntent(rows) ==
    LET Intents == {rows[k].intent : k \in DOMAIN rows}
        Scores(t) == {rows[k].similarity : k \in {l \in DOMAIN rows : rows[l].intent = t}}
        Score(t) == Max({0} \cup Scores(t))
        Second(t) == Max({0} \cup {Score(u) : u \in Intents \ {t}})
        Clear == {t \in Intents : /\ Score(t) >= MinSimilarity
                                  /\ Score(t) - Second(t) >= MinMargin}
    IN IF Clear = {} THEN "AMBIGUOUS" ELSE CHOOSE t \in Clear : TRUE

-----------------------------------------------------------------------------
\* A reply of the language model: a sequence of these.  "fence" stands for
\* ``` with or without json, "word" for any other text.
ReplyTokens == {"open", "close", "quote", "backslash", "fence", "word"}

\* What the scan of extractFirstJsonObject knows after one more token.
Scan(at, token) ==
    IF at.escaped THEN [at EXCEPT !.escaped = FALSE]
    ELSE IF token = "backslash" THEN [at EXCEPT !.escaped = TRUE]
    ELSE IF token = "quote" THEN [at EXCEPT !.inString = ~ @]
    ELSE IF at.inString THEN at
    ELSE IF token = "open" THEN [at EXCEPT !.depth = @ + 1]
    ELSE IF token = "close" THEN [at EXCEPT !.depth = @ - 1]
    ELSE at

\* Mutant of ExtractFirstJsonObject: braces count inside strings, too.
ExtractCountingAllBraces(text) ==
    LET Braces(k) == {j \in 1 .. k : text[j] = "open"}
        Opened == {k \in DOMAIN text : text[k] = "open"}
        Ends == {k \in DOMAIN text :
                     /\ Braces(k) # {}
                     /\ Cardinality(Braces(k)) =
                            Cardinality({j \in Min(Braces(k)) .. k : text[j] = "close"})}
    IN IF Ends = {} THEN <<>> ELSE SubSeq(text, Min(Opened), Min(Ends))

\* The object, or <<>> where the code has undefined.
ExtractFirstJsonObject(text) ==
    LET Opened == {k \in DOMAIN text : text[k] = "open"}
        start == Min(Opened)
        at[k \in start - 1 .. Len(text)] ==
            IF k < start THEN [depth |-> 0, inString |-> FALSE, escaped |-> FALSE]
            ELSE Scan(at[k - 1], text[k])
        Ends == {k \in start .. Len(text) : at[k].depth = 0}
    IN IF Opened = {} THEN <<>>
       ELSE IF Ends = {} THEN <<>>
       ELSE SubSeq(text, start, Min(Ends))

\* What parseJson hands to JSON.parse, or <<>> where it throws before.
JsonCandidate(text) ==
    LET Fences == {k \in DOMAIN text : text[k] = "fence"}
        first == Min(Fences)
        second == Min(Fences \ {first})
    IN IF Cardinality(Fences) > 1 /\ second > first + 1
       THEN SubSeq(text, first + 1, second - 1)
       ELSE ExtractFirstJsonObject(text)

-----------------------------------------------------------------------------
\* IntentClassifierService: a router that throws is ambiguous, and what is
\* ambiguous goes to the language model, whose failure is ambiguous, too.
Classify(rule, router, llm) ==
    IF rule # "none" THEN rule
    ELSE IF router \notin {"failed", "AMBIGUOUS"} THEN router
    ELSE IF llm = "failed" THEN "AMBIGUOUS"
    ELSE llm

-----------------------------------------------------------------------------
ReadTools == [
    PROJECT |-> {"listProjects"},
    STATUS |-> {"listTaskStatuses"},
    TASK |-> {"findTasks", "getTaskDetails", "countTasks"},
    COMMENT |-> {"listTaskComments"},
    DASHBOARD |-> {"getDashboardStats", "countTasks"}]

WriteTools == [
    PROJECT |-> {"createProject", "updateProject", "deleteProject"},
    STATUS |-> {"createTaskStatus", "updateTaskStatusDefinition", "deleteTaskStatus"},
    TASK |-> {"createTask", "updateTask", "deleteTask", "updateTaskStatus"},
    COMMENT |-> {"createTaskComment"},
    JIRA |-> {"linkJiraIssue"}]

IntentToolPermissions == [
    TASK_CREATE |-> ReadTools.PROJECT \cup ReadTools.STATUS \cup {"createTask"},
    TASK_UPDATE |-> ReadTools.TASK \cup {"updateTask", "linkJiraIssue"},
    TASK_DELETE |-> ReadTools.TASK \cup {"deleteTask"},
    TASK_SEARCH |-> ReadTools.PROJECT \cup ReadTools.STATUS \cup ReadTools.TASK,
    PROJECT_MANAGE |-> ReadTools.PROJECT \cup WriteTools.PROJECT,
    COMMENT_CREATE |-> ReadTools.TASK \cup {"createTaskComment"},
    COMMENT_SEARCH |-> ReadTools.TASK \cup ReadTools.COMMENT,
    TAG_MANAGE |-> ReadTools.TASK \cup {"updateTask"},
    STATUS_UPDATE |-> ReadTools.TASK \cup ReadTools.STATUS \cup {"updateTaskStatus"},
    DASHBOARD_QUERY |-> ReadTools.PROJECT \cup ReadTools.STATUS \cup ReadTools.DASHBOARD,
    STANDUP_REPORT |-> ReadTools.PROJECT \cup ReadTools.STATUS \cup ReadTools.DASHBOARD
                           \cup {"findTasks", "getTaskDetails"},
    TODO_HELP |-> {}, OUT_OF_SCOPE |-> {}, AMBIGUOUS |-> {}]

-----------------------------------------------------------------------------
(***************************************************************************)
(* A text that may be answered: by whom it is worded, and whether it holds *)
(* program code or the reasoning of the model.  calls are the tool calls   *)
(* in their order, [tool, failed, ...]; named is what the names of         *)
(* projects and columns in their outputs would add to the text.            *)
(***************************************************************************)
Text(by, code, leak) == [by |-> by, code |-> code, leak |-> leak]
Plain(by) == Text(by, FALSE, FALSE)

\* Mutant of BuildSafeAgentText: only a dashboard query is looked at.
BuildSafeAgentTextOfDashboard(text, intent, calls, named) ==
    IF intent = "DASHBOARD_QUERY" /\ text.leak THEN Plain("apology") ELSE text

BuildSafeAgentText(text, intent, calls, named) ==
    LET Of(tool) == SelectSeq(calls, LAMBDA call : call.tool = tool)
        Counted(tool) == Of(tool) # <<>> /\ ~ Last(Of(tool)).failed
        counted == IF Counted("countTasks") THEN "count"
                   ELSE IF Counted("getDashboardStats") THEN "stats" ELSE "apology"
    IN IF ~ text.leak THEN text
       ELSE IF intent = "DASHBOARD_QUERY" /\ counted # "apology"
            THEN Text(counted, named.code, named.leak)
       ELSE Plain("apology")

Validate(text, intent) ==
    IF intent = "OUT_OF_SCOPE" \/ text.code THEN Plain("refusal") ELSE text
=============================================================================
