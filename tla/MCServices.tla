----------------------------- MODULE MCServices -----------------------------
(***************************************************************************)
(* Sessions, JiraIntegration, TodoComments and UserPages for TLC.  They    *)
(* share no state: a behaviour is of one of them, and the others stay as   *)
(* they are initially.                                                     *)
(***************************************************************************)
EXTENDS Sessions, FiniteSets, TLC

CONSTANTS Statuses, Keys, Times, PerMilli, Limit,
          MaxExpired \* the access tokens that expire while the run lasts

VARIABLES
    integration, mappings, moved, attempts, jiraPc, jiraArg, held, found, via, jiraBefore,
    comments, attachments, activities, telling, commentPc, commentArg, commentHeld,
        commentBefore,
    users, removed, page, afterCursor, beforeCursor, walked, ends, forward, known,
    part \* the component whose behaviour it is

Jira == INSTANCE JiraIntegration WITH pc <- jiraPc, arg <- jiraArg, before <- jiraBefore
Comments == INSTANCE TodoComments WITH pc <- commentPc, arg <- commentArg,
                                       held <- commentHeld, before <- commentBefore
Pages == INSTANCE UserPages WITH after <- afterCursor, before <- beforeCursor

jiraVars == <<integration, mappings, moved, attempts, jiraPc, jiraArg, held, found, via,
              jiraBefore>>
commentVars == <<comments, attachments, activities, telling, commentPc, commentArg,
                 commentHeld, commentBefore>>
pageVars == <<users, removed, page, afterCursor, beforeCursor, walked, ends, forward, known>>

MCInit ==
    /\ part \in {"sessions", "jira", "comments", "pages"}
    /\ Init /\ Jira!Init /\ Comments!Init /\ Pages!Init
    /\ part # "pages" => users = {}

MCNext ==
    /\ \/ part = "sessions" /\ Next /\ expired' <= MaxExpired
          /\ UNCHANGED <<jiraVars, commentVars, pageVars>>
       \/ part = "jira" /\ Jira!Next /\ UNCHANGED <<vars, commentVars, pageVars>>
       \/ part = "comments" /\ Comments!Next /\ UNCHANGED <<vars, jiraVars, pageVars>>
       \/ part = "pages" /\ Pages!Next /\ UNCHANGED <<vars, jiraVars, commentVars>>
    /\ UNCHANGED part

MCSpec == MCInit /\ [][MCNext]_<<vars, jiraVars, commentVars, pageVars, part>>

\* What stands for no row is not a row.
ASSUME RowsAssumption ==
    None \notin Jira!Integration \cup Jira!Mapping \cup Comments!Comment \cup Comments!Attachment

\* Times are counted from a first one on, and a page has room for somebody.
ASSUME PagesAssumption ==
    /\ Times \subseteq Nat /\ IsFiniteSet(Times)
    /\ PerMilli \in Nat \ {0} /\ Limit \in Nat \ {0}
    /\ None \notin Nat

Symmetry == Permutations(Requests) \cup Permutations(Statuses) \cup Permutations(Keys)

-----------------------------------------------------------------------------
\* The state of each component has its types: rows that refer to rows that
\* were there, and activities that are told of once.
ServicesTypeOK == TypeOK /\ Jira!TypeOK /\ Comments!TypeOK

\* JiraIntegrationService and JiraClientService: the token is the last that was
\* given, encrypted once unless it was given with ":" and then moves nothing, all
\* of the mappings are replaced or none, and an issue moves once and only by
\* mappings that are there.
IssuesMoveAsConfigured ==
    Jira!TokenDecrypts /\ Jira!ReplacementIsComplete /\ Jira!MovedByMappings

\* The use cases of comments: images stay with their comment, and what was
\* deleted stays deleted unless requests overlapped.
CommentsAreKept == []Comments!CommentKeepsItsImages /\ Comments!DeletedStaysDeleted

\* UserService.loadMoreUsers: no page is longer than PageOptionsDto.limit, going
\* forward shows nobody twice and leaves nobody out but in the millisecond of a
\* page's end, and going back shows the neighbours.
PagesAreComplete ==
    []Pages!TypeOK /\ []Pages!NobodyTwice /\ []Pages!EverybodyOnce /\ Pages!BackIsAdjacent
=============================================================================
