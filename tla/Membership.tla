----------------------------- MODULE Membership -----------------------------
(***************************************************************************)
(* The collaborators of one space, a workspace or a project: its owner,    *)
(* its members and the invitations mailed for it.                          *)
(*                                                                         *)
(* WorkspaceInvitationService and ProjectInvitationService are the same    *)
(* code on two pairs of tables; kind says which.  Only a project refuses   *)
(* to invite a member, adds members directly and has settings; only a      *)
(* workspace changes its owner.  A request reads rows, awaits other calls  *)
(* and saves each row whole, as it was read.  Each await is one action; a  *)
(* request that is refused where it arrives changes nothing and is left    *)
(* out: access is tested there against the owner, who always has it.       *)
(*                                                                         *)
(* An address stands for its user.  Names and permissions are left out     *)
(* (Access is about permissions): a save writes them with the row.         *)
(***************************************************************************)
EXTENDS Naturals, FiniteSets

CONSTANTS
    Requests, \* identities of the requests, and of the rows and tokens they make
    Users,
    Nobody,   \* no user, no row and no token
    Apart,    \* pairs of operations whose requests do not overlap
    Faults    \* whether a call of a request may reject

WorkspaceOps == {"transfer"}
ProjectOps == {"settings", "addMember"}
Ops == WorkspaceOps \cup ProjectOps \cup
    {"updateSpace", "deleteSpace", "updateMember", "removeMember",
     "invite", "revoke", "preview", "accept", "createProject"}

Space == [owner : Users, settings : SUBSET Requests, deleted : BOOLEAN]

\* A member that was there from the start has its user for identity.
MemberIds == Requests \cup Users
Member == [id : MemberIds, user : Users]

Statuses == {"PENDING", "ACCEPTED", "REVOKED", "EXPIRED"}
Invitation == [status : Statuses, user : Users, token : Requests]

\* on: the row that the request names, or that a transfer is about to delete.
Arg == [op : Ops \cup {"none"}, user : Users \cup {Nobody}, on : MemberIds \cup {Nobody}]

ASSUME ConstantsAssumption ==
    /\ Nobody \notin Users \cup Requests \cup Invitation \cup Space \cup Member
    /\ Requests \cap Users = {}
    /\ Apart \subseteq SUBSET Ops
    /\ Faults \in BOOLEAN

VARIABLES
    kind,        \* "workspace" or "project"
    space,       \* its row
    members,     \* workspace_member or project_member
    invitations, \* invitations[n]: the row that request n inserted, or Nobody
    mailed,      \* the tokens handed to the e-mail queue
    last,        \* last[u]: the last of them for u
    lapsed,      \* the tokens that are older than INVITATION_TTL_MS
    defaults,    \* defaults[u]: workspaces that ensureDefaultWorkspace made for u
    pc, arg,     \* of request i: its next await and what it was given
    heldSpace, heldMember, heldInvitation \* the rows as request i read them

tables == <<kind, space, members, invitations, defaults>>
mail == <<mailed, last, lapsed>>
held == <<heldSpace, heldMember, heldInvitation>>
vars == <<tables, mail, pc, arg, held>>

Awaits == {"findDefault", "insertDefault", "saveSpace", "findMember",
           "saveMember", "deleteMember", "findOld", "findNext", "deleteNext",
           "saveBoth", "saveOwner", "saveOld", "findPending",
           "findInvitation", "saveInvitation", "mail", "findSpace",
           "insertMember"}
Ended == {"done", "refused", "failed"}

TypeOK ==
    /\ kind \in {"workspace", "project"}
    /\ space \in Space
    /\ members \subseteq Member
    /\ invitations \in [Requests -> Invitation \cup {Nobody}]
    /\ mailed \subseteq Requests /\ lapsed \subseteq Requests
    /\ last \in [Users -> Requests \cup {Nobody}]
    /\ defaults \in [Users -> SUBSET Requests]
    /\ pc \in [Requests -> {"new"} \cup Awaits \cup Ended]
    /\ arg \in [Requests -> Arg]
    /\ heldSpace \in [Requests -> Space \cup {Nobody}]
    /\ heldMember \in [Requests -> Member \cup {Nobody}]
    /\ heldInvitation \in [Requests -> [id : Requests, row : Invitation] \cup {Nobody}]

Init ==
    /\ kind \in {"workspace", "project"}
    /\ \E owner \in Users :
          /\ space = [owner |-> owner, settings |-> {}, deleted |-> FALSE]
          /\ members \in SUBSET {[id |-> u, user |-> u] : u \in Users \ {owner}}
    /\ invitations = [n \in Requests |-> Nobody]
    /\ mailed = {} /\ lapsed = {}
    /\ last = [u \in Users |-> Nobody]
    /\ defaults = [u \in Users |-> {}]
    /\ pc = [i \in Requests |-> "new"]
    /\ arg = [i \in Requests |-> [op |-> "none", user |-> Nobody, on |-> Nobody]]
    /\ heldSpace = [i \in Requests |-> Nobody]
    /\ heldMember = [i \in Requests |-> Nobody]
    /\ heldInvitation = [i \in Requests |-> Nobody]

-----------------------------------------------------------------------------
\* Mutant of InFlight: the last call of a request is not awaited.
InFlightUntilSaved == {i \in Requests : pc[i] \in Awaits \ {"saveSpace", "deleteMember"}}

InFlight == {i \in Requests : pc[i] \in Awaits}
Op(i) == arg[i].op
User(i) == arg[i].user

(***************************************************************************)
(* The assumption a run makes on the arrival of requests.  Nothing in the  *)
(* code makes requests wait, which is Apart = {}; other values say which   *)
(* pairs of operations must not overlap for a guarantee to hold; {op} is   *)
(* the pair of two requests of one kind.                                   *)
(***************************************************************************)
Admitted(op) == \A i \in InFlight : {op, Op(i)} \notin Apart

Start(i, where, op, user, on) ==
    /\ pc[i] = "new"
    /\ Admitted(op)
    /\ op \in WorkspaceOps => kind = "workspace"
    /\ op \in ProjectOps => kind = "project"
    /\ pc' = [pc EXCEPT ![i] = where]
    /\ arg' = [arg EXCEPT ![i] = [op |-> op, user |-> user, on |-> on]]
    /\ UNCHANGED <<tables, mail>>

Advance(i, where) == pc' = [pc EXCEPT ![i] = where] /\ UNCHANGED arg

\* getAccess of the access services: a space that was deleted is not found.
StartInSpace(i) ==
    /\ ~ space.deleted
    /\ heldSpace' = [heldSpace EXCEPT ![i] = space]
    /\ UNCHANGED <<heldMember, heldInvitation>>
    /\ \/ \E op \in {"updateSpace", "deleteSpace", "settings"} :
              Start(i, "saveSpace", op, Nobody, Nobody)
       \/ \E u \in Users \ {space.owner} :
              \/ Start(i, "findOld", "transfer", u, Nobody)
              \/ Start(i, "findMember", "addMember", u, Nobody)
              \/ Start(i, IF kind = "project" THEN "findMember" ELSE "findPending",
                       "invite", u, Nobody)
       \/ \E m \in members, op \in {"updateMember", "removeMember"} :
              Start(i, "findMember", op, m.user, m.id)
       \/ \E n \in Requests :
              /\ invitations[n] # Nobody
              /\ Start(i, "findInvitation", "revoke", invitations[n].user, n)

\* Mutant of StartWithToken: the status is not tested.
StartWithAnyToken(i) ==
    \E n \in Requests :
        LET row == invitations[n] IN
        /\ row # Nobody
        /\ row.token \in mailed \ lapsed
        /\ heldInvitation' = [heldInvitation EXCEPT ![i] = [id |-> n, row |-> row]]
        /\ Start(i, "findSpace", "accept", row.user, n)
        /\ UNCHANGED <<heldSpace, heldMember>>

\* preview and accept with a token from a mail: findByToken and expireIfNeeded.
\* An invitation that is not pending is refused.
StartWithToken(i) ==
    \E n \in Requests :
        LET row == invitations[n] IN
        /\ row # Nobody
        /\ row.token \in mailed
        /\ row.status = "PENDING"
        /\ \/ /\ row.token \in lapsed
              /\ heldInvitation' = [heldInvitation EXCEPT ![i] =
                    [id |-> n, row |-> [row EXCEPT !.status = "EXPIRED"]]]
              /\ Start(i, "saveInvitation", "preview", row.user, n)
           \/ /\ row.token \notin lapsed
              /\ heldInvitation' = [heldInvitation EXCEPT ![i] =
                    [id |-> n, row |-> row]]
              /\ Start(i, "findSpace", "accept", row.user, n)
        /\ UNCHANGED <<heldSpace, heldMember>>

\* ProjectService.create without a workspace.
StartCreateProject(i) ==
    \E u \in Users :
        /\ Start(i, "findDefault", "createProject", u, Nobody)
        /\ UNCHANGED held

-----------------------------------------------------------------------------
(* Spaces. *)

\* Mutant of SavedSpace: updateProjectSettings saves the settings given only.
SavedSpaceUnmerged(i) ==
    CASE Op(i) = "settings" -> [heldSpace[i] EXCEPT !.settings = {i}]
      [] Op(i) = "transfer" -> [heldSpace[i] EXCEPT !.owner = User(i)]
      [] Op(i) = "deleteSpace" -> [space EXCEPT !.deleted = TRUE]
      [] OTHER -> heldSpace[i]

\* Mutant of SavedSpace: a transfer takes the id of the member for the user's.
SavedSpaceMemberId(i) ==
    CASE Op(i) = "settings" -> [heldSpace[i] EXCEPT !.settings = @ \cup {i}]
      [] Op(i) = "transfer" -> [heldSpace[i] EXCEPT !.owner = arg[i].on]
      [] Op(i) = "deleteSpace" -> [space EXCEPT !.deleted = TRUE]
      [] OTHER -> heldSpace[i]

\* save of the entity that was read, with the request's own edit; softRemove,
\* which sets deleted_at in the row as it is.
SavedSpace(i) ==
    CASE Op(i) = "settings" -> [heldSpace[i] EXCEPT !.settings = @ \cup {i}]
      [] Op(i) = "transfer" -> [heldSpace[i] EXCEPT !.owner = User(i)]
      [] Op(i) = "deleteSpace" -> [space EXCEPT !.deleted = TRUE]
      [] OTHER -> heldSpace[i]

SaveSpace(i) ==
    /\ pc[i] = "saveSpace"
    /\ space' = SavedSpace(i)
    /\ Advance(i, "done")
    /\ UNCHANGED <<kind, members, invitations, defaults, mail, held>>

\* ensureDefaultWorkspace: the oldest workspace that the user owns ...
OwnsWorkspace(u) ==
    \/ defaults[u] # {}
    \/ kind = "workspace" /\ ~ space.deleted /\ space.owner = u

\* Mutant of FindDefault: the workspace is looked for by another name.
FindDefaultRenamed(i) ==
    /\ pc[i] = "findDefault"
    /\ Advance(i, "insertDefault")
    /\ UNCHANGED <<tables, mail, held>>

FindDefault(i) ==
    /\ pc[i] = "findDefault"
    /\ Advance(i, IF OwnsWorkspace(User(i)) THEN "done" ELSE "insertDefault")
    /\ UNCHANGED <<tables, mail, held>>

\* ... or a new one.  The project itself is inserted into it.
InsertDefault(i) ==
    /\ pc[i] = "insertDefault"
    /\ defaults' = [defaults EXCEPT ![User(i)] = @ \cup {i}]
    /\ Advance(i, "done")
    /\ UNCHANGED <<kind, space, members, invitations, mail, held>>

-----------------------------------------------------------------------------
(* Members. *)

MembersOf(u) == {m \in members : m.user = u}

\* The unique index on workspace_id, user_id, and that of projects.
UserIndex(table) == \A m, n \in table : m.user = n.user => m = n

\* update and remove find a member by its id, the others by its user.
FindMember(i) ==
    /\ pc[i] = "findMember"
    /\ LET found == IF Op(i) \in {"updateMember", "removeMember"}
                    THEN {m \in members : m.id = arg[i].on}
                    ELSE MembersOf(User(i))
           new == [id |-> i, user |-> User(i)]
       IN /\ heldMember' = [heldMember EXCEPT ![i] =
                IF found = {} THEN new ELSE CHOOSE m \in found : TRUE]
          /\ Advance(i, CASE Op(i) = "updateMember" /\ found # {} -> "saveMember"
                          [] Op(i) = "removeMember" /\ found # {} -> "deleteMember"
                          [] Op(i) = "addMember" -> "saveMember"
                          [] Op(i) = "invite" /\ found = {} -> "findPending"
                          [] Op(i) = "accept" /\ found = {} -> "insertMember"
                          [] Op(i) = "accept" /\ found # {} -> "saveInvitation"
                          [] OTHER -> "refused")
    /\ UNCHANGED <<tables, mail, heldSpace, heldInvitation>>

\* Mutant of PutMember: no UQ_workspace_member_workspace_user.
PutMemberUnchecked(i) ==
    /\ members' = members \cup {heldMember[i]}
    /\ UNCHANGED <<kind, space, invitations, defaults, mail, held>>

\* save inserts a row that is not there, be it new or removed since it was read.
PutMember(i) ==
    /\ UserIndex(members \cup {heldMember[i]})
    /\ members' = members \cup {heldMember[i]}
    /\ UNCHANGED <<kind, space, invitations, defaults, mail, held>>

SaveMember(i) ==
    /\ pc[i] = "saveMember"
    /\ PutMember(i)
    /\ Advance(i, "done")

InsertMember(i) ==
    /\ pc[i] = "insertMember"
    /\ PutMember(i)
    /\ Advance(i, "saveInvitation")

\* The index rejects the row of a user who has another one.
RejectMember(i) ==
    /\ pc[i] \in {"saveMember", "insertMember"}
    /\ ~ UserIndex(members \cup {heldMember[i]})
    /\ Advance(i, "failed")
    /\ UNCHANGED <<tables, mail, held>>

DeleteMember(i) ==
    /\ pc[i] = "deleteMember"
    /\ members' = {m \in members : m.id # heldMember[i].id}
    /\ Advance(i, "done")
    /\ UNCHANGED <<kind, space, invitations, defaults, mail, held>>

\* transferOwner: the rows of the old owner and of the new one ...
FindOld(i) ==
    /\ pc[i] = "findOld"
    /\ LET found == MembersOf(heldSpace[i].owner)
           new == [id |-> i, user |-> heldSpace[i].owner]
       IN heldMember' = [heldMember EXCEPT ![i] =
             IF found = {} THEN new ELSE CHOOSE m \in found : TRUE]
    /\ Advance(i, "findNext")
    /\ UNCHANGED <<tables, mail, heldSpace, heldInvitation>>

FindNext(i) ==
    /\ pc[i] = "findNext"
    /\ \/ /\ MembersOf(User(i)) = {}
          /\ Advance(i, "saveBoth")
       \/ \E m \in MembersOf(User(i)) :
              /\ arg' = [arg EXCEPT ![i].on = m.id]
              /\ pc' = [pc EXCEPT ![i] = "deleteNext"]
    /\ UNCHANGED <<tables, mail, held>>

\* Mutant of DeleteNext: the new owner stays a member.
DeleteNextNot(i) ==
    /\ pc[i] = "deleteNext"
    /\ Advance(i, "saveBoth")
    /\ UNCHANGED <<tables, mail, held>>

DeleteNext(i) ==
    /\ pc[i] = "deleteNext"
    /\ members' = {m \in members : m.id # arg[i].on}
    /\ Advance(i, "saveBoth")
    /\ UNCHANGED <<kind, space, invitations, defaults, mail, held>>

\* ... then Promise.all of two saves, in either order.
SaveOwner(i) ==
    /\ pc[i] \in {"saveBoth", "saveOwner"}
    /\ space' = SavedSpace(i)
    /\ Advance(i, IF pc[i] = "saveBoth" THEN "saveOld" ELSE "done")
    /\ UNCHANGED <<kind, members, invitations, defaults, mail, held>>

\* Mutant of SaveOld: the old owner is not made a member.
SaveOldNot(i) ==
    /\ pc[i] \in {"saveBoth", "saveOld"}
    /\ Advance(i, IF pc[i] = "saveBoth" THEN "saveOwner" ELSE "done")
    /\ UNCHANGED <<tables, mail, held>>

SaveOld(i) ==
    /\ pc[i] \in {"saveBoth", "saveOld"}
    /\ PutMember(i)
    /\ Advance(i, IF pc[i] = "saveBoth" THEN "saveOwner" ELSE "done")

-----------------------------------------------------------------------------
(* Invitations. *)

Pending(table, u) ==
    {n \in Requests :
        table[n] # Nobody /\ table[n].user = u /\ table[n].status = "PENDING"}

\* The unique index on the address of the pending invitations of a space.
PendingIndex(table) ==
    \A u \in Users : \A m, n \in Pending(table, u) : m = n

\* Mutant of FindPending: a pending invitation keeps its token.
FindPendingKeepsToken(i) ==
    /\ pc[i] = "findPending"
    /\ LET found == Pending(invitations, User(i))
           new == [status |-> "PENDING", user |-> User(i), token |-> i]
       IN heldInvitation' = [heldInvitation EXCEPT ![i] =
             IF found = {} THEN [id |-> i, row |-> new]
             ELSE LET n == CHOOSE n \in found : TRUE
                  IN [id |-> n, row |-> invitations[n]]]
    /\ Advance(i, "saveInvitation")
    /\ UNCHANGED <<tables, mail, heldSpace, heldMember>>

\* create: the pending invitation gets a new token, or a new row is made.
FindPending(i) ==
    /\ pc[i] = "findPending"
    /\ LET found == Pending(invitations, User(i))
           new == [status |-> "PENDING", user |-> User(i), token |-> i]
       IN heldInvitation' = [heldInvitation EXCEPT ![i] =
             IF found = {} THEN [id |-> i, row |-> new]
             ELSE LET n == CHOOSE n \in found : TRUE
                  IN [id |-> n, row |-> [invitations[n] EXCEPT !.token = i]]]
    /\ Advance(i, "saveInvitation")
    /\ UNCHANGED <<tables, mail, heldSpace, heldMember>>

\* revoke: the invitation by its id, whatever its status.
FindInvitation(i) ==
    /\ pc[i] = "findInvitation"
    /\ heldInvitation' = [heldInvitation EXCEPT ![i] =
          [id |-> arg[i].on,
           row |-> [invitations[arg[i].on] EXCEPT !.status = "REVOKED"]]]
    /\ Advance(i, "saveInvitation")
    /\ UNCHANGED <<tables, mail, heldSpace, heldMember>>

\* accept: the space is there and the user does not own it by now.
FindSpace(i) ==
    /\ pc[i] = "findSpace"
    /\ Advance(i, IF space.deleted \/ space.owner = User(i)
                  THEN "refused" ELSE "findMember")
    /\ UNCHANGED <<tables, mail, held>>

\* The row that save leaves: what was read, with the request's own change.
SavedInvitation(i) ==
    IF Op(i) = "accept" THEN [heldInvitation[i].row EXCEPT !.status = "ACCEPTED"]
    ELSE heldInvitation[i].row

SaveInvitation(i) ==
    /\ pc[i] = "saveInvitation"
    /\ LET table == [invitations EXCEPT ![heldInvitation[i].id] = SavedInvitation(i)]
       IN \/ /\ PendingIndex(table)
             /\ invitations' = table
             /\ Advance(i, CASE Op(i) = "invite" -> "mail"
                             [] Op(i) = "preview" -> "refused"
                             [] OTHER -> "done")
          \/ /\ ~ PendingIndex(table)
             /\ Advance(i, "failed")
             /\ UNCHANGED invitations
    /\ UNCHANGED <<kind, space, members, defaults, mail, held>>

\* emailQueue.add of the token whose hash was saved.
Mail(i) ==
    /\ pc[i] = "mail"
    /\ mailed' = mailed \cup {i}
    /\ last' = [last EXCEPT ![User(i)] = i]
    /\ Advance(i, "done")
    /\ UNCHANGED <<tables, lapsed, held>>

\* Seven days pass.
Lapse ==
    \E t \in mailed \ lapsed :
        /\ lapsed' = lapsed \cup {t}
        /\ UNCHANGED <<tables, mailed, last, pc, arg, held>>

\* A call of the request rejects or the process dies: the request ends, and
\* what it saved stays.
Abort(i) ==
    /\ Faults
    /\ pc[i] \in Awaits
    /\ Advance(i, "failed")
    /\ UNCHANGED <<tables, mail, held>>

-----------------------------------------------------------------------------
Arrive(i) == StartInSpace(i) \/ StartWithToken(i) \/ StartCreateProject(i)

SpaceStep(i) == SaveSpace(i) \/ FindDefault(i) \/ InsertDefault(i)

MemberStep(i) ==
    \/ FindMember(i) \/ SaveMember(i) \/ InsertMember(i) \/ RejectMember(i)
    \/ DeleteMember(i)
    \/ FindOld(i) \/ FindNext(i) \/ DeleteNext(i) \/ SaveOwner(i) \/ SaveOld(i)

InvitationStep(i) ==
    \/ FindPending(i) \/ FindInvitation(i) \/ FindSpace(i) \/ SaveInvitation(i)
    \/ Mail(i)

Next ==
    \/ \E i \in Requests :
          Arrive(i) \/ SpaceStep(i) \/ MemberStep(i) \/ InvitationStep(i) \/ Abort(i)
    \/ Lapse

Spec == Init /\ [][Next]_vars

-----------------------------------------------------------------------------
(* Properties. *)

Answered(i) == pc[i] = "done"

\* No transfer is under way, nor did one fail between its calls.
Settled == \A i \in Requests : Op(i) = "transfer" => pc[i] \in {"done", "refused"}

\* The space lists u.  In a workspace that is what WorkspaceAccessService asks
\* for; in a project it is what the member list, the assignees and the queries
\* of todos ask for.  It is not the right to open the project: every project
\* that is created has a workspace, and ProjectAccessService then looks at the
\* members of the workspace alone (Queries.ProjectAccess).
Collaborates(u) == u = space.owner \/ MembersOf(u) # {}

\* A user is a member once and has one pending invitation, however requests
\* that look for the row and then insert it overlap, and although a save can
\* bring back a row that was removed or a status that was changed.
OneRowPerUser == UserIndex(members) /\ PendingIndex(invitations)

\* If nothing that saves a member or the row of a workspace overlaps with a
\* transfer, the owner is not also a member of the workspace, so that nobody is
\* listed twice or can be removed from what he owns: neither create nor accept
\* make the owner a member, and transferOwner takes the new owner out.
OwnerIsNoMember == Settled => MembersOf(space.owner) = {}

\* Who accepted an invitation, was added, or gave the ownership away stays a
\* collaborator until he is removed: in particular, a transfer drops nobody else.
JoinedCollaborate ==
    \A i \in Requests :
        LET u == IF Op(i) = "transfer" THEN heldSpace[i].owner ELSE User(i) IN
        /\ Answered(i) /\ Op(i) \in {"accept", "addMember", "transfer"}
        /\ \A j \in Requests : Op(j) = "removeMember" => User(j) # u
        /\ Settled
        => Collaborates(u)

\* If members are not saved while they are removed, a member who was removed
\* does not come back with the save of a row read before: every row that
\* appears is a new one.
RemovedMemberStaysOut ==
    [][\A m \in members' \ members : m.id \in InFlight]_members

\* If a space is not edited while it is deleted, it stays deleted.
DeletedSpaceStaysDeleted == [][space.deleted => space'.deleted]_space

\* No save of a member, a workspace or a project as it was read brings back what
\* another request removed.
RemovalsStand == RemovedMemberStaysOut /\ DeletedSpaceStaysDeleted

\* If edits of a project do not overlap, no change of its settings is lost: they
\* are merged into what was read, and the project is saved whole.
SettingsKept ==
    \A i \in Requests :
        Answered(i) /\ Op(i) = "settings" => i \in space.settings

\* If two first projects of a user do not overlap, there is one "My Workspace".
OneDefaultWorkspace == \A u \in Users : Cardinality(defaults[u]) <= 1

\* Collaborators are kept, and kept once: what accept, addMember, transferOwner,
\* invite and ensureDefaultWorkspace leave for a user is one row of each table,
\* of a member or of an owner, and it is there.
CollaboratorsKeptOnce ==
    OneRowPerUser /\ OneDefaultWorkspace /\ OwnerIsNoMember /\ JoinedCollaborate

\* If mails for an address are not asked for while another request saves its
\* invitation, the last mail holds the token of the pending invitation, also if
\* invitations were mailed, revoked or failed before or since; only the request
\* that saved this token (a token is named after its request) may have yet to
\* hand it to the queue, or have failed before it did.
LastInvitationWorks ==
    \A n \in Requests :
        LET row == invitations[n] IN
        row # Nobody /\ row.status = "PENDING" =>
            last[row.user] = row.token \/ pc[row.token] \in {"mail", "failed"}

\* The phase of invitation n: its status, or "joined" while the request that
\* made the invitee a member has yet to save ACCEPTED.
Phase(n) ==
    IF invitations[n] = Nobody THEN "none"
    ELSE IF \E i \in InFlight :
              /\ Op(i) = "accept" /\ pc[i] = "saveInvitation"
              /\ heldInvitation[i].id = n /\ heldMember[i].id = i
         THEN "joined"
    ELSE invitations[n].status

Lifecycle == INSTANCE InvitationLifecycle
    WITH Ids <- Requests, phase <- [n \in Requests |-> Phase(n)]

\* If the requests that save an invitation do not overlap, each invitation goes
\* through the life that InvitationLifecycle promises: nobody joins through a
\* revoked or expired one, and no save of a row read before opens a closed one.
EveryInvitationLives == Lifecycle!Spec
=============================================================================
