------------------------------ MODULE Queries ------------------------------
(***************************************************************************)
(* What a user may do in a project and what the queries find for that user *)
(* (ProjectAccessService, WorkspaceAccessService, ProjectService.findAll   *)
(* and TodoRepository), each a formula over the tables as they stand.      *)
(*                                                                         *)
(* A world w is what the tables say of one user and one project: whether   *)
(* the project lives, whether the user created it, the user's membership   *)
(* of it, its workspace, whether the user owns that, and the membership of *)
(* that.  Queries join no deleted workspace.                               *)
(***************************************************************************)
EXTENDS Integers, Sequences, FiniteSets, FiniteSetsExt

CONSTANTS
    None,      \* no membership, no filter, no due date
    AgentLimit \* how many todos findOwnedForAgent takes, 10

Permissions == {"READ", "WRITE", "WRITE_INVITE"}
DueDates == {"today", "overdue", "upcoming", "none"}

ASSUME QueriesAssumption ==
    None \notin Permissions \cup DueDates \cup Int /\ AgentLimit \in Nat

WritePermissions == {"WRITE", "WRITE_INVITE"}
World == [live : BOOLEAN, creator : BOOLEAN, member : Permissions \cup {None},
          workspace : {"none", "live", "deleted"}, owner : BOOLEAN,
          workspaceMember : Permissions \cup {None}]

NotFound == [isOwner |-> FALSE, permission |-> None]
Access(isOwner, permission) == [isOwner |-> isOwner, permission |-> permission]
Owned == Access(TRUE, "WRITE_INVITE")

WorkspaceAccess(w) ==
    IF w.workspace # "live" THEN NotFound
    ELSE IF w.owner THEN Owned
    ELSE Access(FALSE, w.workspaceMember)

\* The workspace alone decides if the project has one.
ProjectAccess(w) ==
    IF ~ w.live THEN NotFound
    ELSE IF w.workspace # "none" THEN WorkspaceAccess(w)
    ELSE IF w.creator THEN Owned
    ELSE Access(FALSE, w.member)

CanRead(access) == access # NotFound
CanWrite(access) == access.isOwner \/ access.permission \in WritePermissions
CanInvite(access) == access.isOwner \/ access.permission = "WRITE_INVITE"

\* Mutant of Assignable: the members of the workspace are forgotten.
AssignableInProject(w) == w.live /\ (w.creator \/ w.member # None)

Assignable(w) ==
    /\ w.live
    /\ \/ w.creator
       \/ w.workspace # "none" /\ w.workspaceMember # None
       \/ w.member # None

\* Mutant of Reaches: as the queries were before there were workspaces.
ReachesByProject(w) == w.live /\ (w.creator \/ w.member # None)

\* The condition that all queries on todos have in common.
Reaches(w) ==
    /\ w.live
    /\ \/ w.creator \/ w.member # None
       \/ w.workspace = "live" /\ (w.owner \/ w.workspaceMember # None)

\* ProjectService.findAll: the filters bind to the last alternative only.
Listed(w, passesFilters) ==
    /\ w.live
    /\ \/ w.creator \/ w.member # None
       \/ w.workspace = "live" /\ w.owner
       \/ w.workspace = "live" /\ w.workspaceMember # None /\ passesFilters

Given(permission) == IF permission = None THEN "READ" ELSE permission

\* Mutant of ListedAccess: the membership of the project comes first.
ListedAccessOfProject(w) ==
    IF w.creator THEN Owned
    ELSE IF w.member # None THEN Access(FALSE, w.member)
    ELSE IF w.workspace = "live" /\ w.owner THEN Owned
    ELSE Access(FALSE, Given(w.workspaceMember))

\* isOwner and getPermission of a row of findAll.
ListedAccess(w) ==
    IF w.workspace = "live"
    THEN IF w.owner THEN Owned
         ELSE Access(FALSE, IF w.workspaceMember # None THEN w.workspaceMember
                            ELSE Given(w.member))
    ELSE IF w.creator THEN Owned
    ELSE Access(FALSE, Given(w.member))

\* WorkspaceService.findAll; the rights of its rows.
ListedWorkspace(w) == w.workspace = "live" /\ (w.owner \/ w.workspaceMember # None)
ListedWorkspaceAccess(w) ==
    IF w.owner THEN Owned ELSE Access(FALSE, Given(w.workspaceMember))

-----------------------------------------------------------------------------
(* The todos of a project that the user reaches: sets of these.  A due date *)
(* is in days from today, and updated says in which order they were saved.  *)
Due == {None, -1, 0, 1}
Shown(todos) == {t \in todos : ~ t.deleted /\ ~ t.archived}
Matching(todos, status) == {t \in todos : status \in {None, t.status}}

\* createOwnedProjectQuery.
ListTodos(todos, status, archived) ==
    Matching({t \in todos : ~ t.deleted /\ t.archived = archived}, status)

\* Mutant of FindForAgent: what is archived is found, too.
FindForAgentArchived(todos, status) ==
    LET found == Matching({t \in todos : ~ t.deleted}, status)
    IN {t \in found : Cardinality({u \in found : u.updated > t.updated}) < AgentLimit}

\* findOwnedForAgent: the most recently updated.
FindForAgent(todos, status) ==
    LET found == Matching(Shown(todos), status)
    IN {t \in found : Cardinality({u \in found : u.updated > t.updated}) < AgentLimit}

\* Mutant of DueFilter: overdue is what is due up to today.
DueFilterUpToToday(todos, due) ==
    CASE due = None -> todos
      [] due = "today" -> {t \in todos : t.due = 0}
      [] due = "overdue" -> {t \in todos : t.due # None /\ t.due <= 0}
      [] due = "upcoming" -> {t \in todos : t.due # None /\ t.due > 0}
      [] due = "none" -> {t \in todos : t.due = None}

\* countTasks, params.dueDate: a comparison with NULL selects nothing.
DueFilter(todos, due) ==
    CASE due = None -> todos
      [] due = "today" -> {t \in todos : t.due = 0}
      [] due = "overdue" -> {t \in todos : t.due # None /\ t.due < 0}
      [] due = "upcoming" -> {t \in todos : t.due # None /\ t.due > 0}
      [] due = "none" -> {t \in todos : t.due = None}

\* countTasks, groupConfig.dueDate.
DueGroup(t) ==
    IF t.due = None THEN "none" ELSE IF t.due < 0 THEN "overdue"
    ELSE IF t.due = 0 THEN "today" ELSE "upcoming"

CountTasks(todos, status, due) == Cardinality(DueFilter(Matching(Shown(todos), status), due))

\* countTasks, groupBy: the total is the sum over the groups.
CountGroups(todos, status) ==
    LET found == Matching(Shown(todos), status)
        keys == {DueGroup(t) : t \in found}
        groups == [k \in keys |-> Cardinality({t \in found : DueGroup(t) = k})]
    IN [total |-> MapThenSumSet(LAMBDA k : groups[k], keys), groups |-> groups]

DashboardStats(todos) ==
    LET shown == Shown(todos)
    IN [total |-> Cardinality(shown),
        overdue |-> Cardinality({t \in shown : t.due # None /\ t.due < 0}),
        dueToday |-> Cardinality({t \in shown : t.due = 0}),
        byStatus |-> [s \in {t.status : t \in shown} |-> Cardinality(Matching(shown, s))]]

\* Mutant of NextPosition: as many as there are.
NextPositionByCount(todos, status) == Cardinality(Matching(Shown(todos), status))

\* getNextPosition: COALESCE(MAX(position), -1) + 1.
NextPosition(todos, status) ==
    Max({-1} \cup {t.position : t \in Matching(Shown(todos), status)}) + 1

-----------------------------------------------------------------------------
\* OffsetPaginationDto.totalPages, and a page of paginate (page from 1 on).
TotalPages(total, limit) == IF limit > 0 THEN (total + limit - 1) \div limit ELSE 0

\* Mutant of Offset: the pages are counted from 0.
OffsetFromZero(page, limit) == page * limit

Offset(page, limit) == IF page > 0 THEN (page - 1) * limit ELSE 0
PageOf(rows, page, limit) ==
    SubSeq(rows, Offset(page, limit) + 1, Min({Offset(page, limit) + limit, Len(rows)}))
=============================================================================
