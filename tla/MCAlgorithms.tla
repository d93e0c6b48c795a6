---------------------------- MODULE MCAlgorithms ----------------------------
(***************************************************************************)
(* IntentClassification, Chunking and Queries for TLC.  They are pure: a   *)
(* state is one input of one of them, and nothing happens to it.           *)
(***************************************************************************)
EXTENDS IntentClassification, Chunking, Queries, TLC

CONSTANTS MaxText, MaxReply, MaxRows, MaxPage

ASSUME BoundsAssumption ==
    {MaxText, MaxReply, MaxRows, MaxPage} \subseteq Nat /\ None \notin {"s", "t"}

VARIABLES about, input
vars == <<about, input>>

UpTo(S, n) == UNION {[1 .. k -> S] : k \in 0 .. n}

Words == {"tao", "task", "landing page", "viet", "html", "standup", "de xuat", "other"}
Examples == [intent : {"TASK_CREATE", "TASK_SEARCH", "TODO_HELP"}, similarity : {60, 72, 75, 80}]
Calls == [tool : {"countTasks", "getDashboardStats"}, failed : BOOLEAN]
Worded == [code : BOOLEAN, leak : BOOLEAN]
Todos == [status : {"s", "t"}, archived : BOOLEAN, deleted : BOOLEAN, due : Due,
          position : 0 .. 1, updated : 1 .. 2]

\* One todo is updated after the other, and they have positions of their own
\* on a board.
Boards ==
    {{pair[1], pair[2]} : pair \in
        {p \in [1 .. 2 -> Todos] : /\ p[1].updated = 1 /\ p[2].updated = 2
                                   /\ p[1].status = p[2].status => p[1].position # p[2].position
                                   /\ ~ p[1].deleted}}

MCInit ==
    \/ about = "message" /\ input \in UpTo(Words, 3)
    \/ about = "rows" /\ input \in UpTo(Examples, MaxRows)
    \/ about = "reply" /\ input \in UpTo(ReplyTokens, MaxReply)
    \/ about = "answer" /\ input \in [intent : {"DASHBOARD_QUERY", "TASK_CREATE", "OUT_OF_SCOPE"},
                                      text : Worded, named : Worded, calls : UpTo(Calls, 2)]
    \/ about = "text" /\ input \in UpTo({"a", ".", "n"}, MaxText)
    \/ about = "world" /\ input \in World
    \/ about = "board" /\ input \in Boards
    \/ about = "pages" /\ input \in [total : 0 .. MaxPage, limit : 1 .. MaxPage]

MCSpec == MCInit /\ [][UNCHANGED vars]_vars

-----------------------------------------------------------------------------
\* RuleBasedGuardService refuses nothing that speaks of the domain, and calls
\* nothing a creation or report that lacks the words for it.
GuardNeverRefusesTodo == about = "message" =>
    /\ GuardCheck(input) = "OUT_OF_SCOPE" => \A k \in DOMAIN input : input[k] \notin TodoLike
    /\ GuardCheck(input) \in {"TASK_CREATE", "STANDUP_REPORT"} =>
          \E k \in DOMAIN input : input[k] \in CreateNouns \cup StandupReport \cup {"de xuat"}

\* IntentRouterService decides for the intent of every example that is close
\* enough and that no example of another intent is nearly as close as, and for
\* nothing if there is no such example.  rows is in the order in which the
\* query returned it, nearest first or not.
RouterDecidesClearly == about = "rows" =>
    LET Wins(j) == /\ input[j].similarity >= MinSimilarity
                   /\ \A k \in DOMAIN input : input[k].intent = input[j].intent
                          \/ input[j].similarity - input[k].similarity >= MinMargin
    IN /\ \A j \in DOMAIN input : Wins(j) => DecideIntent(input) = input[j].intent
       /\ (\A j \in DOMAIN input : ~ Wins(j)) => DecideIntent(input) = "AMBIGUOUS"

\* A quote, brace or backslash is escaped if an odd number of backslashes is
\* right before it, and counts if an even number of quotes comes before.
Escapes(text, p) == {q \in 0 .. p - 1 : \A r \in q + 1 .. p - 1 : text[r] = "backslash"}
Escaped(text, p) == (p - 1 - Min(Escapes(text, p))) % 2 = 1
Quotes(text, p) == {q \in 1 .. p - 1 : text[q] = "quote" /\ ~ Escaped(text, q)}
Counts(text, p, brace) ==
    text[p] = brace /\ ~ Escaped(text, p) /\ Cardinality(Quotes(text, p)) % 2 = 0
Depth(text, n) == Cardinality({p \in 1 .. n : Counts(text, p, "open")})
                      - Cardinality({p \in 1 .. n : Counts(text, p, "close")})

\* LlmClassifierService: what is cut out of a reply without fences begins with
\* the first brace and is the shortest piece whose braces outside of strings
\* are balanced.
JsonFound == about = "reply" /\ "fence" \notin ToSet(input) =>
    LET found == JsonCandidate(input)
    IN found # <<>> =>
          /\ \A n \in 1 .. Len(found) - 1 : Depth(found, n) > 0
          /\ Depth(found, Len(found)) = 0
          /\ \E start \in DOMAIN input : /\ \A p \in 1 .. start - 1 : input[p] # "open"
                                         /\ SubSeq(input, start, start + Len(found) - 1) = found

\* The three stages that find the intent of a query: guard, router, classifier.
IntentIsClear == GuardNeverRefusesTodo /\ RouterDecidesClearly /\ JsonFound

\* RagService sends no text with program code, and no reasoning of the model
\* but what the names of projects and columns hold that it counted by.
NoCodeAnswered == about = "answer" =>
    LET safe == BuildSafeAgentText(Text("model", input.text.code, input.text.leak),
                                   input.intent, input.calls, input.named)
        sent == Validate(safe, input.intent)
    IN ~ sent.code /\ (sent.leak => input.named.leak /\ sent.by \in {"count", "stats"})

-----------------------------------------------------------------------------
Content == [k \in DOMAIN input |-> [kind |-> input[k], at |-> k]]

\* ChunkingService loses no letter of a sentence that is ended within its
\* paragraph, however it cuts.  (What is not ended may be lost.)
SentencesAreKept == about = "text" =>
    LET chunks == SplitText(Content)
        Kept(p) == \E chunk \in ToSet(chunks) : \E c \in ToSet(chunk.content) : c.at = p
        Ends(p, q) == /\ input[q] = "."
                      /\ \A r \in p .. q - 1 : ~ (input[r] = "n" /\ input[r + 1] = "n")
    IN \A p \in DOMAIN input :
          input[p] = "a" /\ (\E q \in p + 1 .. Len(input) : Ends(p, q)) => Kept(p)

\* The indexes of the chunks, under which the worker stores them, are 0, 1, ...
\* and no chunk is empty, although three loops count them.
ChunksAreNumbered == about = "text" =>
    LET chunks == SplitText(Content)
    IN \A k \in DOMAIN chunks : chunks[k].index = k - 1 /\ ~ Blank(chunks[k].content)

\* What ChunkingService makes of a text can be stored and searched.
ChunksKeepText == SentencesAreKept /\ ChunksAreNumbered

-----------------------------------------------------------------------------
Reads == CanRead(ProjectAccess(input))

\* Who created or joined a project that belongs to a workspace.  The check of
\* access looks at the workspace only and may refuse them.
Collaborates ==
    input.live /\ input.workspace # "none" /\ (input.creator \/ input.member # None)

\* The queries of TodoRepository and ProjectService.findAll do without
\* ProjectAccessService.  They find a project for everybody for whom it opens
\* it, and for nobody else but its collaborators, whom it may refuse.  A filter
\* of findAll hides nothing but from who is a member of the workspace only.
ReadersFind == about = "world" =>
    /\ Reaches(input) <=> Reads \/ Collaborates
    /\ Listed(input, TRUE) <=> Reads \/ Collaborates
    /\ Listed(input, FALSE) <=>
          \/ Listed(input, TRUE) /\ (input.creator \/ input.member # None)
          \/ ProjectAccess(input).isOwner

\* The lists of projects and of workspaces show who may read them the rights
\* that the services enforce, and the list of workspaces shows no others.
ListedAsEnforced == about = "world" =>
    /\ Reads =>
        LET listed == ListedAccess(input) enforced == ProjectAccess(input)
        IN /\ listed = enforced
           /\ CanWrite(listed) = CanWrite(enforced) /\ CanInvite(listed) = CanInvite(enforced)
    /\ IF ListedWorkspace(input) THEN ListedWorkspaceAccess(input) = WorkspaceAccess(input)
       ELSE ~ CanRead(WorkspaceAccess(input))

\* Who may be assigned the todos of a project: who may read it, but for an
\* owner of the workspace who is not its member and has no part in the project;
\* and, though they may be refused to read it, its collaborators and the members
\* of a workspace that is deleted.
ReadersAreAssignable == about = "world" =>
    LET ownsOnly == /\ input.workspace = "live" /\ input.owner
                    /\ ~ input.creator /\ input.member = None /\ input.workspaceMember = None
        ofDeleted == input.live /\ input.workspace = "deleted" /\ input.workspaceMember # None
    IN Assignable(input) <=> (Reads /\ ~ ownsOnly) \/ Collaborates \/ ofDeleted

\* The places that write out anew who may see a project agree on its readers,
\* and differ on nobody but those whom the three definitions name.
AccessAgrees == ReadersFind /\ ListedAsEnforced /\ ReadersAreAssignable

Filters == {None} \cup {t.status : t \in input}

\* The filters and the groups of countTasks and the dashboard, which say three
\* times what is overdue or due today, agree.
DueDatesAgree == about = "board" => \A s \in Filters :
    LET byDue == CountGroups(input, s)
        stats == DashboardStats(input)
    IN /\ \A d \in DueDates :
             CountTasks(input, s, d) = IF d \in DOMAIN byDue.groups THEN byDue.groups[d] ELSE 0
       /\ byDue.total = CountTasks(input, s, None)
       /\ s = None => /\ stats.overdue = CountTasks(input, s, "overdue")
                      /\ stats.dueToday = CountTasks(input, s, "today")
                      /\ stats.total = byDue.total
       /\ s # None /\ CountTasks(input, s, None) > 0 =>
             stats.byStatus[s] = CountTasks(input, s, None)

\* What the agent counts it finds, up to its limit, and the board shows it.
FoundIsCounted == about = "board" => \A s \in Filters :
    LET found == FindForAgent(input, s)
    IN /\ Cardinality(found) = Min({AgentLimit, CountTasks(input, s, None)})
       /\ found \subseteq ListTodos(input, s, FALSE)

\* A todo that enters a column comes after all that the column shows.
NewTodoIsLast == about = "board" => \A s \in {t.status : t \in input} :
    \A t \in ListTodos(input, s, FALSE) : t.position < NextPosition(input, s)

\* The pages of utils/offset-pagination up to totalPages show every row once.
PagesShowAllOnce == about = "pages" =>
    LET rows == [k \in 1 .. input.total |-> k]
    IN FlattenSeq([p \in 1 .. TotalPages(input.total, input.limit) |->
                      PageOf(rows, p, input.limit)]) = rows

\* What is counted, found, shown, paged and put in last place is the same todos.
TodoQueriesAgree == DueDatesAgree /\ FoundIsCounted /\ NewTodoIsLast /\ PagesShowAllOnce
=============================================================================
