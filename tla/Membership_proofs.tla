-------------------------- MODULE Membership_proofs --------------------------
(***************************************************************************)
(* Theorems about Membership, for any number of requests and users: types; *)
(* invitations, if their saves are apart; and what requests leave in the   *)
(* rows, if the operations that need it are apart: rows that are saved     *)
(* whole bring nothing back, the last mail for an address works, and       *)
(* collaborators are kept once.                                            *)
(***************************************************************************)
EXTENDS Membership, FiniteSetTheorems, TLAPS

-----------------------------------------------------------------------------
(***************************************************************************)
(* Type correctness, strengthened by what a request is and holds at each   *)
(* of its awaits.                                                          *)
(***************************************************************************)
\* The operations that pass each await.
Stages ==
    {<<"updateSpace", "saveSpace">>, <<"deleteSpace", "saveSpace">>, <<"settings", "saveSpace">>,
     <<"createProject", "findDefault">>, <<"createProject", "insertDefault">>,
     <<"addMember", "findMember">>, <<"addMember", "saveMember">>,
     <<"updateMember", "findMember">>, <<"updateMember", "saveMember">>,
     <<"removeMember", "findMember">>, <<"removeMember", "deleteMember">>,
     <<"transfer", "findOld">>, <<"transfer", "findNext">>, <<"transfer", "deleteNext">>,
     <<"transfer", "saveBoth">>, <<"transfer", "saveOwner">>, <<"transfer", "saveOld">>,
     <<"invite", "findMember">>, <<"invite", "findPending">>, <<"invite", "saveInvitation">>,
     <<"invite", "mail">>, <<"revoke", "findInvitation">>, <<"revoke", "saveInvitation">>,
     <<"preview", "saveInvitation">>, <<"accept", "findSpace">>, <<"accept", "findMember">>,
     <<"accept", "insertMember">>, <<"accept", "saveInvitation">>}

\* The operations that are about a user.
OnUser == Ops \ {"updateSpace", "deleteSpace", "settings"}
HoldsSpace == {"saveSpace", "findOld", "findNext", "deleteNext", "saveBoth", "saveOwner", "saveOld"}
HoldsMember == {"saveMember", "insertMember", "deleteMember",
                "findNext", "deleteNext", "saveBoth", "saveOwner", "saveOld"}
HoldsInvitation(i) ==
    pc[i] \in Awaits /\ (Op(i) \in {"accept", "preview"} \/ pc[i] = "saveInvitation")
Held == [id : Requests, row : Invitation]

Shape ==
    /\ \A i \in Requests : pc[i] \in Awaits => <<Op(i), pc[i]>> \in Stages
    /\ \A i \in Requests : Op(i) \in OnUser => User(i) \in Users
    /\ \A i \in Requests : Op(i) = "revoke" =>
          arg[i].on \in Requests /\ invitations[arg[i].on] \in Invitation
    /\ \A i \in Requests : pc[i] \in HoldsSpace => heldSpace[i] \in Space
    /\ \A i \in Requests : pc[i] \in HoldsMember => heldMember[i] \in Member
    /\ \A i \in Requests : HoldsInvitation(i) => heldInvitation[i] \in Held

TInv == TypeOK /\ Shape

LEMMA InitTInv == Init => TInv
<1>1. SUFFICES ASSUME Init PROVE TInv
  OBVIOUS
<1>2. PICK owner \in Users :
        /\ space = [owner |-> owner, settings |-> {}, deleted |-> FALSE]
        /\ members \in SUBSET {[id |-> u, user |-> u] : u \in Users \ {owner}}
  BY <1>1 DEF Init
<1>3. space \in Space /\ members \subseteq Member
  BY <1>2 DEF Space, Member, MemberIds
<1>4. TypeOK
  BY <1>1, <1>3 DEF Init, TypeOK, Arg, MemberIds
<1>5. Shape
  BY <1>1, <1>3 DEF Init, Shape, Awaits, OnUser, Ops, WorkspaceOps, ProjectOps, Op, User,
     HoldsSpace, HoldsMember, HoldsInvitation
<1>6. QED
  BY <1>4, <1>5 DEF TInv

\* What a request has read where it arrives.
ReadsSpace(i) ==
    /\ ~ space.deleted
    /\ heldSpace' = [heldSpace EXCEPT ![i] = space]
    /\ UNCHANGED <<heldMember, heldInvitation>>
ReadsInvitation(i, status) == \E n \in Requests :
    /\ invitations[n] \in Invitation /\ invitations[n].status = "PENDING"
    /\ heldInvitation' = [heldInvitation EXCEPT ![i] =
          [id |-> n, row |-> [invitations[n] EXCEPT !.status = status]]]
    /\ UNCHANGED <<heldSpace, heldMember>>

ArrivesAs(i, where, a) ==
    /\ Start(i, where, a.op, a.user, a.on)
    /\ <<a.op, where>> \in Stages
    /\ a.op \in OnUser => a.user \in Users
    /\ a.op = "revoke" => a.on \in Requests /\ invitations[a.on] \in Invitation
    /\ a.op = "createProject" => where = "findDefault" /\ UNCHANGED held
    /\ a.op = "accept" => where = "findSpace" /\ ReadsInvitation(i, "PENDING")
    /\ a.op = "preview" => ReadsInvitation(i, "EXPIRED")
    /\ a.op \notin {"createProject", "accept", "preview"} =>
          /\ ReadsSpace(i)
          /\ where \in {"saveSpace", "findOld", "findMember", "findPending", "findInvitation"}

LEMMA ArriveFacts ==
    ASSUME TInv, NEW i \in Requests, Arrive(i)
    PROVE  \E where \in Awaits, a \in Arg : a.op \in Ops /\ ArrivesAs(i, where, a)
<1>1. /\ members \subseteq Member /\ space \in Space /\ Nobody \notin Invitation
      /\ \A n \in Requests : invitations[n] # Nobody => invitations[n] \in Invitation
  BY ConstantsAssumption DEF TInv, TypeOK
<1>2. CASE StartInSpace(i)
  <2>1. ReadsSpace(i)
    BY <1>2 DEF StartInSpace, ReadsSpace
  <2>2. CASE \E op \in {"updateSpace", "deleteSpace", "settings"} :
                Start(i, "saveSpace", op, Nobody, Nobody)
    <3>1. PICK op \in {"updateSpace", "deleteSpace", "settings"} :
             Start(i, "saveSpace", op, Nobody, Nobody)
      BY <2>2
    <3>2. [op |-> op, user |-> Nobody, on |-> Nobody] \in Arg
      BY DEF Arg, Ops, ProjectOps
    <3>3. ArrivesAs(i, "saveSpace", [op |-> op, user |-> Nobody, on |-> Nobody])
      BY <2>1, <3>1 DEF ArrivesAs, Stages, OnUser
    <3>4. QED
      BY <3>2, <3>3 DEF Awaits, Ops, ProjectOps
  <2>3. CASE \E u \in Users : Start(i, "findOld", "transfer", u, Nobody)
    <3>1. PICK u \in Users : Start(i, "findOld", "transfer", u, Nobody)
      BY <2>3
    <3>2. [op |-> "transfer", user |-> u, on |-> Nobody] \in Arg
      BY DEF Arg, Ops, WorkspaceOps
    <3>3. ArrivesAs(i, "findOld", [op |-> "transfer", user |-> u, on |-> Nobody])
      BY <2>1, <3>1 DEF ArrivesAs, Stages, OnUser
    <3>4. QED
      BY <3>2, <3>3 DEF Awaits, Ops, WorkspaceOps
  <2>4. CASE \E u \in Users, op \in {"addMember", "invite"}, where \in {"findMember", "findPending"} :
                (op = "addMember" => where = "findMember") /\ Start(i, where, op, u, Nobody)
    <3>1. PICK u \in Users, op \in {"addMember", "invite"}, where \in {"findMember", "findPending"} :
             (op = "addMember" => where = "findMember") /\ Start(i, where, op, u, Nobody)
      BY <2>4
    <3>2. [op |-> op, user |-> u, on |-> Nobody] \in Arg
      BY DEF Arg, Ops, ProjectOps
    <3>3. ArrivesAs(i, where, [op |-> op, user |-> u, on |-> Nobody])
      BY <2>1, <3>1 DEF ArrivesAs, Stages, OnUser
    <3>4. QED
      BY <3>2, <3>3 DEF Awaits, Ops, ProjectOps
  <2>5. CASE \E m \in members, op \in {"updateMember", "removeMember"} :
                Start(i, "findMember", op, m.user, m.id)
    <3>1. PICK m \in members, op \in {"updateMember", "removeMember"} :
             Start(i, "findMember", op, m.user, m.id)
      BY <2>5
    <3>2. m.user \in Users /\ [op |-> op, user |-> m.user, on |-> m.id] \in Arg
      BY <1>1 DEF Arg, Ops, Member
    <3>3. ArrivesAs(i, "findMember", [op |-> op, user |-> m.user, on |-> m.id])
      BY <2>1, <3>1, <3>2 DEF ArrivesAs, Stages, OnUser
    <3>4. QED
      BY <3>2, <3>3 DEF Awaits, Ops
  <2>6. CASE \E n \in Requests :
                invitations[n] # Nobody /\ Start(i, "findInvitation", "revoke", invitations[n].user, n)
    <3>1. PICK n \in Requests :
             invitations[n] # Nobody /\ Start(i, "findInvitation", "revoke", invitations[n].user, n)
      BY <2>6
    <3>2. /\ invitations[n] \in Invitation /\ invitations[n].user \in Users
          /\ [op |-> "revoke", user |-> invitations[n].user, on |-> n] \in Arg
      BY <1>1, <3>1 DEF Arg, Ops, Invitation, MemberIds
    <3>3. ArrivesAs(i, "findInvitation", [op |-> "revoke", user |-> invitations[n].user, on |-> n])
      BY <2>1, <3>1, <3>2 DEF ArrivesAs, Stages, OnUser
    <3>4. QED
      BY <3>2, <3>3 DEF Awaits, Ops
  <2>7. QED
    BY <1>2, <2>2, <2>3, <2>4, <2>5, <2>6 DEF StartInSpace
<1>3. CASE StartWithToken(i)
  <2>1. PICK n \in Requests :
          /\ invitations[n] # Nobody /\ invitations[n].status = "PENDING"
          /\ \/ /\ heldInvitation' = [heldInvitation EXCEPT ![i] =
                       [id |-> n, row |-> [invitations[n] EXCEPT !.status = "EXPIRED"]]]
                /\ Start(i, "saveInvitation", "preview", invitations[n].user, n)
             \/ /\ heldInvitation' = [heldInvitation EXCEPT ![i] =
                       [id |-> n, row |-> invitations[n]]]
                /\ Start(i, "findSpace", "accept", invitations[n].user, n)
          /\ UNCHANGED <<heldSpace, heldMember>>
    BY <1>3 DEF StartWithToken
  <2>2. invitations[n] \in Invitation /\ invitations[n].user \in Users
    BY <1>1, <2>1 DEF Invitation
  <2>3. invitations[n] = [invitations[n] EXCEPT !.status = "PENDING"]
    BY <2>1, <2>2 DEF Invitation
  <2>4. CASE Start(i, "saveInvitation", "preview", invitations[n].user, n)
    <3> DEFINE a == [op |-> "preview", user |-> invitations[n].user, on |-> n]
    <3>1. a \in Arg
      BY <2>2 DEF Arg, Ops, MemberIds
    <3>2. arg'[i].op = "preview"
      BY <2>4 DEF Start, TInv, TypeOK
    <3>3. heldInvitation' = [heldInvitation EXCEPT ![i] =
              [id |-> n, row |-> [invitations[n] EXCEPT !.status = "EXPIRED"]]]
      BY <2>1, <3>2 DEF Start, TInv, TypeOK
    <3>4. ReadsInvitation(i, "EXPIRED")
      BY <2>1, <2>2, <3>3 DEF ReadsInvitation
    <3>5. ArrivesAs(i, "saveInvitation", a)
      BY <2>2, <2>4, <3>4 DEF ArrivesAs, Stages, OnUser
    <3>6. QED
      BY <3>1, <3>5 DEF Awaits, Ops
  <2>5. CASE Start(i, "findSpace", "accept", invitations[n].user, n)
    <3> DEFINE a == [op |-> "accept", user |-> invitations[n].user, on |-> n]
    <3>1. a \in Arg
      BY <2>2 DEF Arg, Ops, MemberIds
    <3>2. arg'[i].op = "accept"
      BY <2>5 DEF Start, TInv, TypeOK
    <3>3. heldInvitation' = [heldInvitation EXCEPT ![i] = [id |-> n, row |-> invitations[n]]]
      BY <2>1, <3>2 DEF Start, TInv, TypeOK
    <3>4. ReadsInvitation(i, "PENDING")
      BY <2>1, <2>2, <2>3, <3>3 DEF ReadsInvitation
    <3>5. ArrivesAs(i, "findSpace", a)
      BY <2>2, <2>5, <3>4 DEF ArrivesAs, Stages, OnUser
    <3>6. QED
      BY <3>1, <3>5 DEF Awaits, Ops
  <2>6. QED
    BY <2>1, <2>4, <2>5
<1>4. CASE StartCreateProject(i)
  <2>1. PICK u \in Users : Start(i, "findDefault", "createProject", u, Nobody) /\ UNCHANGED held
    BY <1>4 DEF StartCreateProject
  <2>2. [op |-> "createProject", user |-> u, on |-> Nobody] \in Arg
    BY DEF Arg, Ops
  <2>3. ArrivesAs(i, "findDefault", [op |-> "createProject", user |-> u, on |-> Nobody])
    BY <2>1 DEF ArrivesAs, Stages, OnUser
  <2>4. QED
    BY <2>2, <2>3 DEF Awaits, Ops
<1>5. QED
  BY <1>2, <1>3, <1>4 DEF Arrive

LEMMA ArriveTInv ==
    ASSUME TInv, NEW i \in Requests, Arrive(i)
    PROVE  TInv'
<1>1. PICK where \in Awaits, a \in Arg : a.op \in Ops /\ ArrivesAs(i, where, a)
  BY ArriveFacts
<1>2. /\ pc[i] = "new" /\ pc' = [pc EXCEPT ![i] = where]
      /\ arg' = [arg EXCEPT ![i] = [op |-> a.op, user |-> a.user, on |-> a.on]]
      /\ UNCHANGED <<kind, space, members, invitations, defaults, mailed, last, lapsed>>
  BY <1>1 DEF ArrivesAs, Start, tables, mail
<1>3. arg' = [arg EXCEPT ![i] = a] /\ arg'[i] = a /\ pc'[i] = where
  <2>1. a = [op |-> a.op, user |-> a.user, on |-> a.on]
    BY DEF Arg
  <2>2. QED
    BY <1>2, <2>1 DEF TInv, TypeOK
<1>4. \A j \in Requests \ {i} : pc'[j] = pc[j] /\ arg'[j] = arg[j]
  BY <1>2 DEF TInv, TypeOK
<1>5. \/ UNCHANGED held /\ a.op = "createProject" /\ where = "findDefault"
      \/ \E h \in Held : /\ heldInvitation' = [heldInvitation EXCEPT ![i] = h]
                        /\ UNCHANGED <<heldSpace, heldMember>>
                        /\ where \in {"findSpace", "saveInvitation"}
      \/ /\ heldSpace' = [heldSpace EXCEPT ![i] = space]
         /\ UNCHANGED <<heldMember, heldInvitation>>
         /\ a.op \notin {"accept", "preview"}
         /\ where \in {"saveSpace", "findOld", "findMember", "findPending", "findInvitation"}
  <2>1. CASE a.op = "createProject"
    <3>1. UNCHANGED held /\ where = "findDefault"
      BY <1>1, <2>1 DEF ArrivesAs
    <3>2. QED
      BY <2>1, <3>1
  <2>2. CASE a.op \in {"accept", "preview"}
    <3>1. PICK status \in {"PENDING", "EXPIRED"} : ReadsInvitation(i, status)
      BY <1>1, <2>2 DEF ArrivesAs
    <3>2. PICK n \in Requests :
            /\ invitations[n] \in Invitation
            /\ heldInvitation' = [heldInvitation EXCEPT ![i] =
                  [id |-> n, row |-> [invitations[n] EXCEPT !.status = status]]]
            /\ UNCHANGED <<heldSpace, heldMember>>
      BY <3>1 DEF ReadsInvitation
    <3>3. [id |-> n, row |-> [invitations[n] EXCEPT !.status = status]] \in Held
      BY <3>2 DEF Held, Invitation, Statuses
    <3>4. where \in {"findSpace", "saveInvitation"}
      BY <1>1, <2>2 DEF ArrivesAs, Stages
    <3>5. QED
      BY <3>2, <3>3, <3>4
  <2>3. CASE a.op \notin {"createProject", "accept", "preview"}
    BY <1>1, <2>3 DEF ArrivesAs, ReadsSpace
  <2>4. QED
    BY <2>1, <2>2, <2>3
<1>6. TypeOK'
  <2>1. /\ pc' \in [Requests -> {"new"} \cup Awaits \cup Ended]
        /\ arg' \in [Requests -> Arg]
    BY <1>2, <1>3 DEF TInv, TypeOK
  <2>2. /\ heldSpace' \in [Requests -> Space \cup {Nobody}]
        /\ heldMember' \in [Requests -> Member \cup {Nobody}]
        /\ heldInvitation' \in [Requests -> [id : Requests, row : Invitation] \cup {Nobody}]
    BY <1>5 DEF TInv, TypeOK, held, Held
  <2>3. QED
    BY <1>2, <2>1, <2>2 DEF TInv, TypeOK
<1>7. Shape'
  <2>1. \A j \in Requests \ {i} : /\ heldSpace'[j] = heldSpace[j]
                                 /\ heldMember'[j] = heldMember[j]
                                 /\ heldInvitation'[j] = heldInvitation[j]
    BY <1>5 DEF TInv, TypeOK, held
  <2>2. /\ \A j \in Requests : pc'[j] \in Awaits => <<Op(j)', pc'[j]>> \in Stages
        /\ \A j \in Requests : Op(j)' \in OnUser => User(j)' \in Users
        /\ \A j \in Requests : Op(j)' = "revoke" =>
              arg'[j].on \in Requests /\ invitations'[arg'[j].on] \in Invitation
    BY <1>1, <1>2, <1>3, <1>4 DEF TInv, Shape, Op, User, ArrivesAs
  <2>3. /\ pc'[i] \in HoldsSpace => heldSpace'[i] \in Space
        /\ pc'[i] \notin HoldsMember
        /\ HoldsInvitation(i)' => heldInvitation'[i] \in Held
    BY <1>3, <1>5 DEF TInv, TypeOK, HoldsSpace, HoldsMember, HoldsInvitation, Op
  <2>4. QED
    BY <1>2, <1>3, <1>4, <2>1, <2>2, <2>3 DEF TInv, Shape, HoldsInvitation, Op
<1>8. QED
  BY <1>6, <1>7 DEF TInv

\* A step of request i keeps Shape if it leaves the others alone, keeps rows of
\* invitations and holds what its next await needs.
Advances(i, next) ==
    /\ pc[i] \in Awaits /\ pc' = [pc EXCEPT ![i] = next]
    /\ UNCHANGED arg
    /\ \A n \in Requests : invitations[n] \in Invitation => invitations'[n] \in Invitation
    /\ \A j \in Requests \ {i} : /\ heldSpace'[j] = heldSpace[j]
                                /\ heldMember'[j] = heldMember[j]
                                /\ heldInvitation'[j] = heldInvitation[j]

LEMMA StepShape ==
    ASSUME TInv, NEW i \in Requests, NEW next \in Awaits \cup Ended,
           Advances(i, next),
           next \in Awaits => <<Op(i), next>> \in Stages,
           next \in HoldsSpace => heldSpace'[i] \in Space,
           next \in HoldsMember => heldMember'[i] \in Member,
           next \in Awaits /\ (Op(i) \in {"accept", "preview"} \/ next = "saveInvitation")
             => heldInvitation'[i] \in Held
    PROVE  Shape'
<1>1. pc'[i] = next /\ (\A j \in Requests \ {i} : pc'[j] = pc[j]) /\ UNCHANGED arg
  BY DEF Advances, TInv, TypeOK
<1>2. \A j \in Requests : pc'[j] \in Awaits => <<Op(j)', pc'[j]>> \in Stages
  BY <1>1 DEF TInv, Shape, Op
<1>3. \A j \in Requests : Op(j)' \in OnUser => User(j)' \in Users
  BY <1>1 DEF TInv, Shape, Op, User
<1>4. \A j \in Requests : Op(j)' = "revoke" =>
          arg'[j].on \in Requests /\ invitations'[arg'[j].on] \in Invitation
  BY <1>1 DEF Advances, TInv, Shape, Op
<1>5. /\ \A j \in Requests : pc'[j] \in HoldsSpace => heldSpace'[j] \in Space
      /\ \A j \in Requests : pc'[j] \in HoldsMember => heldMember'[j] \in Member
  BY <1>1 DEF Advances, TInv, Shape
<1>6. \A j \in Requests : HoldsInvitation(j)' => heldInvitation'[j] \in Held
  BY <1>1 DEF Advances, TInv, Shape, HoldsInvitation, Op
<1>7. QED
  BY <1>2, <1>3, <1>4, <1>5, <1>6 DEF Shape

LEMMA SpaceTInv ==
    ASSUME TInv, NEW i \in Requests, SpaceStep(i)
    PROVE  TInv'
<1>1. CASE SaveSpace(i)
  <2>1. pc[i] = "saveSpace" /\ space' = SavedSpace(i) /\ pc' = [pc EXCEPT ![i] = "done"]
        /\ UNCHANGED <<arg, kind, members, invitations, defaults, mailed, last, lapsed,
                      heldSpace, heldMember, heldInvitation>>
    BY <1>1 DEF SaveSpace, Advance, mail, held
  <2>2. heldSpace[i] \in Space /\ space \in Space
    BY <2>1 DEF TInv, TypeOK, Shape, HoldsSpace
  <2>3. space' \in Space
    <3>1. Op(i) \in {"updateSpace", "deleteSpace", "settings"}
      BY <2>1 DEF TInv, Shape, Stages, Awaits
    <3>2. QED
      BY <2>1, <2>2, <3>1 DEF SavedSpace, Space
  <2>4. TypeOK'
    BY <2>1, <2>3 DEF TInv, TypeOK, Ended
  <2>5. Advances(i, "done")
    BY <2>1 DEF Advances, Awaits
  <2>6. Shape'
    BY <2>5, StepShape DEF Ended, Awaits, HoldsSpace, HoldsMember
  <2>7. QED
    BY <2>4, <2>6 DEF TInv
<1>2. CASE FindDefault(i)
  <2>1. PICK next \in {"done", "insertDefault"} :
          /\ pc[i] = "findDefault" /\ pc' = [pc EXCEPT ![i] = next]
          /\ UNCHANGED <<arg, kind, space, members, invitations, defaults, mailed, last, lapsed,
                         heldSpace, heldMember, heldInvitation>>
    BY <1>2 DEF FindDefault, Advance, tables, mail, held
  <2>2. TypeOK'
    BY <2>1 DEF TInv, TypeOK, Awaits, Ended
  <2>3. Advances(i, next)
    BY <2>1 DEF Advances, Awaits
  <2>4. Op(i) = "createProject"
    BY <2>1 DEF TInv, Shape, Stages, Awaits
  <2>5. Shape'
    BY <2>1, <2>3, <2>4, StepShape DEF Ended, Awaits, HoldsSpace, HoldsMember, Stages
  <2>6. QED
    BY <2>2, <2>5 DEF TInv
<1>3. CASE InsertDefault(i)
  <2>1. /\ pc[i] = "insertDefault" /\ pc' = [pc EXCEPT ![i] = "done"]
        /\ defaults' = [defaults EXCEPT ![User(i)] = @ \cup {i}]
        /\ UNCHANGED <<arg, kind, space, members, invitations, mailed, last, lapsed,
                       heldSpace, heldMember, heldInvitation>>
    BY <1>3 DEF InsertDefault, Advance, mail, held
  <2>2. TypeOK'
    BY <2>1 DEF TInv, TypeOK, Ended
  <2>3. Advances(i, "done")
    BY <2>1 DEF Advances, Awaits
  <2>4. Shape'
    BY <2>3, StepShape DEF Ended, Awaits, HoldsSpace, HoldsMember
  <2>5. QED
    BY <2>2, <2>4 DEF TInv
<1>4. QED
  BY <1>1, <1>2, <1>3 DEF SpaceStep

\* What FindMember finds, or makes.
LEMMA FindMemberFacts ==
    ASSUME TInv, NEW i \in Requests, FindMember(i)
    PROVE  \E m \in Member, next \in Awaits \cup Ended :
             /\ \/ m \in members \/ next = "refused"
                \/ m.id = i /\ m.user = User(i) /\ MembersOf(User(i)) = {}
             /\ heldMember' = [heldMember EXCEPT ![i] = m]
             /\ pc[i] = "findMember" /\ pc' = [pc EXCEPT ![i] = next]
             /\ <<Op(i), next>> \in Stages \/ next = "refused"
             /\ next \in {"saveMember", "deleteMember", "findPending", "insertMember",
                          "saveInvitation", "refused"}
             /\ Op(i) \in {"updateMember", "removeMember"} /\ next # "refused" => m \in members
             /\ next = "insertMember" => m.id = i /\ m \notin members
             /\ Op(i) = "accept" /\ next = "saveInvitation" => m \in members
             /\ UNCHANGED <<arg, tables, mail, heldSpace, heldInvitation>>
<1>1. pc[i] = "findMember" /\ Op(i) \in {"addMember", "invite", "updateMember", "removeMember", "accept"}
  <2>1. pc[i] = "findMember"
    BY DEF FindMember
  <2>2. QED
    BY <2>1 DEF TInv, Shape, Stages, Awaits
<1>2. User(i) \in Users
  BY <1>1 DEF TInv, Shape, OnUser, Ops, ProjectOps
<1> DEFINE found == IF Op(i) \in {"updateMember", "removeMember"}
                    THEN {m \in members : m.id = arg[i].on}
                    ELSE MembersOf(User(i))
           new == [id |-> i, user |-> User(i)]
           m == IF found = {} THEN new ELSE CHOOSE m \in found : TRUE
           next == CASE Op(i) = "updateMember" /\ found # {} -> "saveMember"
                     [] Op(i) = "removeMember" /\ found # {} -> "deleteMember"
                     [] Op(i) = "addMember" -> "saveMember"
                     [] Op(i) = "invite" /\ found = {} -> "findPending"
                     [] Op(i) = "accept" /\ found = {} -> "insertMember"
                     [] Op(i) = "accept" /\ found # {} -> "saveInvitation"
                     [] OTHER -> "refused"
<1>3. /\ heldMember' = [heldMember EXCEPT ![i] = m]
      /\ pc' = [pc EXCEPT ![i] = next]
      /\ UNCHANGED <<arg, tables, mail, heldSpace, heldInvitation>>
  BY DEF FindMember, Advance
<1>4. found \subseteq members /\ members \subseteq Member
  BY DEF MembersOf, TInv, TypeOK
<1>5. new \in Member /\ new.id = i /\ new.user = User(i)
  BY <1>2 DEF Member, MemberIds
<1>6. found # {} => m \in members
  BY <1>4
<1>7. found = {} => m = new
  OBVIOUS
<1>8. m \in Member
  BY <1>4, <1>5, <1>6, <1>7
<1>9. Op(i) \notin {"updateMember", "removeMember"} => found = MembersOf(User(i))
  OBVIOUS
<1>10. /\ Op(i) = "updateMember" => next = IF found # {} THEN "saveMember" ELSE "refused"
       /\ Op(i) = "removeMember" => next = IF found # {} THEN "deleteMember" ELSE "refused"
       /\ Op(i) = "addMember" => next = "saveMember"
       /\ Op(i) = "invite" => next = IF found = {} THEN "findPending" ELSE "refused"
       /\ Op(i) = "accept" => next = IF found = {} THEN "insertMember" ELSE "saveInvitation"
  OBVIOUS
<1>11. new \in members /\ Op(i) = "accept" => found # {}
  BY <1>5, <1>9 DEF MembersOf
<1> HIDE DEF found, new, m, next
<1>12. <<Op(i), next>> \in Stages \/ next = "refused"
  BY <1>1, <1>10 DEF Stages
<1>13. next \in {"saveMember", "deleteMember", "findPending", "insertMember",
                 "saveInvitation", "refused"}
  BY <1>1, <1>10
<1>14. /\ Op(i) \in {"updateMember", "removeMember"} /\ next # "refused" => found # {}
       /\ next = "insertMember" => Op(i) = "accept" /\ found = {}
       /\ Op(i) = "accept" /\ next = "saveInvitation" => found # {}
  BY <1>1, <1>10
<1>15. QED
  <2>1. next \in Awaits \cup Ended
    BY <1>13 DEF Awaits, Ended
  <2>2. \/ m \in members \/ next = "refused"
        \/ m.id = i /\ m.user = User(i) /\ MembersOf(User(i)) = {}
    BY <1>1, <1>5, <1>6, <1>7, <1>9, <1>14
  <2>3. QED
    BY <1>1, <1>3, <1>5, <1>6, <1>7, <1>8, <1>11, <1>12, <1>13, <1>14, <2>1, <2>2

\* Putting a member is the save of what the request holds.
LEMMA PutFacts ==
    ASSUME TInv, NEW i \in Requests, PutMember(i), pc[i] \in HoldsMember
    PROVE  /\ heldMember[i] \in Member
           /\ members' = members \cup {heldMember[i]} /\ members' \subseteq Member
           /\ UserIndex(members')
           /\ UNCHANGED <<kind, space, invitations, defaults, mailed, last, lapsed,
                          heldSpace, heldMember, heldInvitation>>
<1>1. heldMember[i] \in Member /\ members \subseteq Member
  BY DEF TInv, TypeOK, Shape
<1>2. QED
  BY <1>1 DEF PutMember, mail, held

LEMMA MemberTInv ==
    ASSUME TInv, NEW i \in Requests, MemberStep(i)
    PROVE  TInv'
<1>1. CASE FindMember(i)
  <2>1. PICK m \in Member, next \in Awaits \cup Ended :
          /\ heldMember' = [heldMember EXCEPT ![i] = m]
          /\ pc[i] = "findMember" /\ pc' = [pc EXCEPT ![i] = next]
          /\ <<Op(i), next>> \in Stages \/ next = "refused"
          /\ next \in {"saveMember", "deleteMember", "findPending", "insertMember",
                       "saveInvitation", "refused"}
          /\ UNCHANGED <<arg, tables, mail, heldSpace, heldInvitation>>
    BY <1>1, FindMemberFacts
  <2>2. UNCHANGED <<arg, kind, space, members, invitations, defaults, mailed, last, lapsed,
                    heldSpace, heldInvitation>>
    BY <2>1 DEF tables, mail
  <2>3. TypeOK'
    BY <2>1, <2>2 DEF TInv, TypeOK
  <2>4. Advances(i, next) /\ heldMember'[i] = m
    BY <2>1, <2>2 DEF Advances, Awaits, TInv, TypeOK
  <2>5. next \in Awaits => <<Op(i), next>> \in Stages
    BY <2>1 DEF Awaits
  <2>6. next \notin HoldsSpace
    BY <2>1 DEF HoldsSpace
  <2>7. next \in Awaits /\ (Op(i) \in {"accept", "preview"} \/ next = "saveInvitation")
        => heldInvitation'[i] \in Held
    <3>1. Op(i) \in {"accept", "preview"} => heldInvitation[i] \in Held
      BY <2>1 DEF TInv, Shape, HoldsInvitation, Awaits
    <3>2. next = "saveInvitation" => Op(i) = "accept" \/ Op(i) = "invite" \/ Op(i) = "revoke" \/ Op(i) = "preview"
      BY <2>1 DEF Stages
    <3>3. <<Op(i), "findMember">> \in Stages
      BY <2>1 DEF TInv, Shape, Awaits
    <3>4. Op(i) = "invite" => next # "saveInvitation"
      BY <1>1, <2>1 DEF FindMember, Advance, TInv, TypeOK
    <3>5. QED
      BY <2>2, <3>1, <3>2, <3>3, <3>4 DEF Stages
  <2>8. Shape'
    BY <2>4, <2>5, <2>6, <2>7, StepShape
  <2>9. QED
    BY <2>3, <2>8 DEF TInv
<1>2. CASE SaveMember(i) \/ InsertMember(i)
  <2>1. PICK next \in {"done", "saveInvitation"} :
          /\ pc[i] \in {"saveMember", "insertMember"} /\ PutMember(i)
          /\ next = "saveInvitation" => pc[i] = "insertMember"
          /\ pc' = [pc EXCEPT ![i] = next] /\ UNCHANGED arg
    BY <1>2 DEF SaveMember, InsertMember, Advance
  <2>2. /\ members' \subseteq Member
        /\ UNCHANGED <<arg, kind, space, invitations, defaults, mailed, last, lapsed,
                       heldSpace, heldMember, heldInvitation>>
    BY <2>1, PutFacts DEF HoldsMember
  <2>3. TypeOK'
    BY <2>1, <2>2 DEF TInv, TypeOK, Awaits, Ended
  <2>4. Advances(i, next)
    BY <2>1, <2>2 DEF Advances, Awaits
  <2>5. next = "saveInvitation" => Op(i) = "accept" /\ heldInvitation[i] \in Held
    <3>1. <<Op(i), pc[i]>> \in Stages
      BY <2>1 DEF TInv, Shape, Awaits
    <3>2. next = "saveInvitation" => Op(i) = "accept"
      BY <2>1, <3>1 DEF Stages
    <3>3. QED
      BY <2>1, <3>2 DEF TInv, Shape, HoldsInvitation, Awaits
  <2>6. Shape'
    BY <2>2, <2>4, <2>5, StepShape DEF Stages, HoldsSpace, HoldsMember, Awaits, Ended
  <2>7. QED
    BY <2>3, <2>6 DEF TInv
<1>3. CASE RejectMember(i) \/ DeleteMember(i)
  <2>1. PICK next \in {"failed", "done"} :
          /\ pc[i] \in {"saveMember", "insertMember", "deleteMember"}
          /\ pc' = [pc EXCEPT ![i] = next] /\ members' \subseteq members
          /\ UNCHANGED <<arg, kind, space, invitations, defaults, mailed, last, lapsed,
                         heldSpace, heldMember, heldInvitation>>
    BY <1>3 DEF RejectMember, DeleteMember, Advance, tables, mail, held
  <2>2. TypeOK'
    BY <2>1 DEF TInv, TypeOK, Ended
  <2>3. Advances(i, next)
    BY <2>1 DEF Advances, Awaits
  <2>4. Shape'
    BY <2>3, StepShape DEF HoldsSpace, HoldsMember, Awaits, Ended
  <2>5. QED
    BY <2>2, <2>4 DEF TInv
<1>4. CASE FindOld(i)
  <2>1. pc[i] = "findOld" /\ Op(i) = "transfer" /\ heldSpace[i] \in Space
    BY <1>4 DEF FindOld, TInv, Shape, Stages, Awaits, HoldsSpace
  <2>2. PICK m \in Member :
          /\ heldMember' = [heldMember EXCEPT ![i] = m]
          /\ pc' = [pc EXCEPT ![i] = "findNext"]
          /\ UNCHANGED <<arg, kind, space, members, invitations, defaults, mailed, last, lapsed,
                         heldSpace, heldInvitation>>
    <3> DEFINE found == MembersOf(heldSpace[i].owner)
               new == [id |-> i, user |-> heldSpace[i].owner]
               m == IF found = {} THEN new ELSE CHOOSE m \in found : TRUE
    <3>1. new \in Member
      BY <2>1 DEF Member, MemberIds, Space
    <3>2. found \subseteq Member
      BY DEF MembersOf, TInv, TypeOK
    <3>3. m \in Member
      BY <3>1, <3>2
    <3>4. heldMember' = [heldMember EXCEPT ![i] = m]
      BY <1>4 DEF FindOld
    <3>5. QED
      BY <1>4, <3>3, <3>4 DEF FindOld, Advance, tables, mail
  <2>3. TypeOK'
    BY <2>2 DEF TInv, TypeOK, Awaits
  <2>4. Advances(i, "findNext") /\ heldMember'[i] \in Member
    BY <2>1, <2>2 DEF Advances, Awaits, TInv, TypeOK
  <2>5. Shape'
    BY <2>1, <2>2, <2>4, StepShape DEF Stages, HoldsSpace, HoldsMember, Awaits, Ended
  <2>6. QED
    BY <2>3, <2>5 DEF TInv
<1>5. CASE FindNext(i)
  <2>1. pc[i] = "findNext" /\ Op(i) = "transfer" /\ heldSpace[i] \in Space /\ heldMember[i] \in Member
    BY <1>5 DEF FindNext, TInv, Shape, Stages, Awaits, HoldsSpace, HoldsMember
  <2>2. UNCHANGED <<kind, space, members, invitations, defaults, mailed, last, lapsed,
                    heldSpace, heldMember, heldInvitation>>
    BY <1>5 DEF FindNext, tables, mail, held
  <2>3. CASE pc' = [pc EXCEPT ![i] = "saveBoth"] /\ UNCHANGED arg
    <3>1. TypeOK'
      BY <2>2, <2>3 DEF TInv, TypeOK, Awaits
    <3>2. Advances(i, "saveBoth")
      BY <2>1, <2>2, <2>3 DEF Advances, Awaits
    <3>3. Shape'
      BY <2>1, <2>2, <3>2, StepShape DEF Stages, HoldsSpace, HoldsMember, Awaits, Ended
    <3>4. QED
      BY <3>1, <3>3 DEF TInv
  <2>4. CASE \E m \in members : arg' = [arg EXCEPT ![i].on = m.id] /\ pc' = [pc EXCEPT ![i] = "deleteNext"]
    <3>1. PICK m \in members : arg' = [arg EXCEPT ![i].on = m.id] /\ pc' = [pc EXCEPT ![i] = "deleteNext"]
      BY <2>4
    <3>2. m.id \in MemberIds
      BY DEF TInv, TypeOK, Member
    <3>3. arg[i] \in Arg /\ arg[i].op = "transfer"
      BY <2>1 DEF TInv, TypeOK, Op
    <3>4. PICK a \in Arg : a.op = "transfer" /\ a.user = arg[i].user /\ arg' = [arg EXCEPT ![i] = a]
      BY <3>1, <3>2, <3>3 DEF Arg
    <3>5. TypeOK'
      BY <2>2, <3>1, <3>4 DEF TInv, TypeOK, Awaits
    <3>6. /\ pc'[i] = "deleteNext" /\ arg'[i] = a
          /\ \A j \in Requests \ {i} : pc'[j] = pc[j] /\ arg'[j] = arg[j]
      BY <3>1, <3>4 DEF TInv, TypeOK
    <3>7. /\ \A j \in Requests : pc'[j] \in Awaits => <<Op(j)', pc'[j]>> \in Stages
          /\ \A j \in Requests : Op(j)' = "revoke" =>
                arg'[j].on \in Requests /\ invitations'[arg'[j].on] \in Invitation
      BY <2>2, <3>4, <3>6 DEF TInv, Shape, Op, Stages
    <3>8. \A j \in Requests : Op(j)' \in OnUser => User(j)' \in Users
      BY <2>1, <3>4, <3>6 DEF TInv, Shape, Op, User, OnUser, Ops, WorkspaceOps
    <3>9. /\ \A j \in Requests : pc'[j] \in HoldsSpace => heldSpace'[j] \in Space
          /\ \A j \in Requests : pc'[j] \in HoldsMember => heldMember'[j] \in Member
          /\ \A j \in Requests : HoldsInvitation(j)' => heldInvitation'[j] \in Held
      BY <2>1, <2>2, <3>4, <3>6 DEF TInv, Shape, HoldsInvitation, Op
    <3>10. QED
      BY <3>5, <3>7, <3>8, <3>9 DEF TInv, Shape
  <2>5. QED
    BY <1>5, <2>3, <2>4 DEF FindNext, Advance, MembersOf
<1>6. CASE DeleteNext(i)
  <2>1. /\ pc[i] = "deleteNext" /\ pc' = [pc EXCEPT ![i] = "saveBoth"] /\ members' \subseteq members
        /\ UNCHANGED <<arg, kind, space, invitations, defaults, mailed, last, lapsed,
                       heldSpace, heldMember, heldInvitation>>
    BY <1>6 DEF DeleteNext, Advance, mail, held
  <2>2. Op(i) = "transfer" /\ heldSpace[i] \in Space /\ heldMember[i] \in Member
    BY <2>1 DEF TInv, Shape, Stages, Awaits, HoldsSpace, HoldsMember
  <2>3. TypeOK'
    BY <2>1 DEF TInv, TypeOK, Awaits
  <2>4. Advances(i, "saveBoth")
    BY <2>1 DEF Advances, Awaits
  <2>5. Shape'
    BY <2>1, <2>2, <2>4, StepShape DEF Stages, HoldsSpace, HoldsMember, Awaits, Ended
  <2>6. QED
    BY <2>3, <2>5 DEF TInv
<1>7. CASE SaveOwner(i) \/ SaveOld(i)
  <2>1. pc[i] \in {"saveBoth", "saveOwner", "saveOld"}
    BY <1>7 DEF SaveOwner, SaveOld
  <2>2. Op(i) = "transfer" /\ heldSpace[i] \in Space /\ heldMember[i] \in Member /\ User(i) \in Users
    BY <2>1 DEF TInv, Shape, Stages, Awaits, HoldsSpace, HoldsMember, OnUser, Ops, WorkspaceOps
  <2>3. PICK next \in {"saveOld", "saveOwner", "done"} :
          /\ pc' = [pc EXCEPT ![i] = next] /\ space' \in Space /\ members' \subseteq Member
          /\ UNCHANGED <<arg, kind, invitations, defaults, mailed, last, lapsed,
                         heldSpace, heldMember, heldInvitation>>
    <3>1. CASE SaveOwner(i)
      <4>1. SavedSpace(i) \in Space
        BY <2>2 DEF SavedSpace, Space
      <4>2. QED
        BY <3>1, <4>1 DEF SaveOwner, Advance, mail, held, TInv, TypeOK
    <3>2. CASE SaveOld(i)
      <4>1. /\ members' \subseteq Member
            /\ UNCHANGED <<kind, space, invitations, defaults, mailed, last, lapsed,
                           heldSpace, heldMember, heldInvitation>>
        BY <2>1, <3>2, PutFacts DEF SaveOld, HoldsMember
      <4>2. QED
        BY <3>2, <4>1 DEF SaveOld, Advance, TInv, TypeOK
    <3>3. QED
      BY <1>7, <3>1, <3>2
  <2>4. TypeOK'
    BY <2>3 DEF TInv, TypeOK, Awaits, Ended
  <2>5. Advances(i, next)
    BY <2>1, <2>3 DEF Advances, Awaits
  <2>6. Shape'
    BY <2>2, <2>3, <2>5, StepShape DEF Stages, HoldsSpace, HoldsMember, Awaits, Ended
  <2>7. QED
    BY <2>4, <2>6 DEF TInv
<1>8. QED
  BY <1>1, <1>2, <1>3, <1>4, <1>5, <1>6, <1>7 DEF MemberStep

\* What create finds, or makes: a pending row with the new token.
LEMMA FindPendingFacts ==
    ASSUME TInv, NEW i \in Requests, FindPending(i)
    PROVE  \E h \in Held :
             /\ pc[i] = "findPending" /\ Op(i) = "invite"
             /\ \/ h.id = i /\ h.row.status = "PENDING"
                \/ /\ invitations[h.id] \in Invitation /\ invitations[h.id].status = "PENDING"
                   /\ h.row = [invitations[h.id] EXCEPT !.token = i]
             /\ heldInvitation' = [heldInvitation EXCEPT ![i] = h]
             /\ pc' = [pc EXCEPT ![i] = "saveInvitation"]
             /\ UNCHANGED <<arg, tables, mail, heldSpace, heldMember>>
<1>1. pc[i] = "findPending" /\ Op(i) = "invite" /\ User(i) \in Users
  BY DEF FindPending, TInv, Shape, Stages, Awaits, OnUser, Ops
<1> DEFINE found == Pending(invitations, User(i))
           new == [status |-> "PENDING", user |-> User(i), token |-> i]
           fresh == [id |-> i, row |-> new]
           n == CHOOSE n \in found : TRUE
           again == [id |-> n, row |-> [invitations[n] EXCEPT !.token = i]]
<1>2. /\ heldInvitation' = [heldInvitation EXCEPT ![i] = IF found = {} THEN fresh ELSE again]
      /\ pc' = [pc EXCEPT ![i] = "saveInvitation"]
      /\ UNCHANGED <<arg, tables, mail, heldSpace, heldMember>>
  BY DEF FindPending, Advance
<1>3. CASE found = {}
  <2>1. fresh \in Held /\ fresh.id = i /\ fresh.row.status = "PENDING"
    BY <1>1 DEF Held, Invitation, Statuses
  <2>2. QED
    BY <1>1, <1>2, <1>3, <2>1
<1>4. CASE found # {}
  <2>1. n \in found
    BY <1>4
  <2>2. n \in Requests /\ invitations[n] \in Invitation /\ invitations[n].status = "PENDING"
    BY <2>1 DEF Pending, TInv, TypeOK
  <2>3. /\ again \in Held /\ again.id = n
        /\ again.row = [invitations[again.id] EXCEPT !.token = i]
    <3>1. [invitations[n] EXCEPT !.token = i] \in Invitation
      BY <2>2 DEF Invitation
    <3> HIDE DEF n
    <3>2. QED
      BY <2>2, <3>1 DEF Held
  <2>4. QED
    BY <1>1, <1>2, <1>4, <2>2, <2>3
<1>5. QED
  BY <1>3, <1>4

\* A save of an invitation writes what the request holds, or is rejected.
LEMMA SaveInvitationFacts ==
    ASSUME TInv, NEW i \in Requests, SaveInvitation(i)
    PROVE  /\ pc[i] = "saveInvitation" /\ heldInvitation[i] \in Held
           /\ Op(i) \in {"invite", "revoke", "preview", "accept"}
           /\ SavedInvitation(i) \in Invitation
           /\ UNCHANGED <<arg, kind, space, members, defaults, mailed, last, lapsed,
                          heldSpace, heldMember, heldInvitation>>
           /\ \/ /\ invitations' = [invitations EXCEPT ![heldInvitation[i].id] = SavedInvitation(i)]
                 /\ PendingIndex(invitations')
                 /\ \E next \in {"mail", "refused", "done"} :
                       /\ pc' = [pc EXCEPT ![i] = next]
                       /\ next = "mail" => Op(i) = "invite"
              \/ UNCHANGED invitations /\ pc' = [pc EXCEPT ![i] = "failed"]
<1>1. pc[i] = "saveInvitation"
  BY DEF SaveInvitation
<1>2. <<Op(i), "saveInvitation">> \in Stages /\ heldInvitation[i] \in Held
  BY <1>1 DEF TInv, Shape, HoldsInvitation, Awaits
<1>3. Op(i) \in {"invite", "revoke", "preview", "accept"}
  BY <1>2 DEF Stages
<1>4. SavedInvitation(i) \in Invitation
  BY <1>2 DEF SavedInvitation, Held, Invitation, Statuses
<1>5. UNCHANGED <<arg, kind, space, members, defaults, mailed, last, lapsed,
                  heldSpace, heldMember, heldInvitation>>
  BY DEF SaveInvitation, Advance, mail, held
<1>6. QED
  BY <1>1, <1>2, <1>3, <1>4, <1>5 DEF SaveInvitation, Advance

LEMMA InvitationTInv ==
    ASSUME TInv, NEW i \in Requests, InvitationStep(i)
    PROVE  TInv'
<1>1. CASE FindPending(i) \/ FindInvitation(i)
  <2>1. PICK h \in Held :
          /\ heldInvitation' = [heldInvitation EXCEPT ![i] = h]
          /\ pc[i] \in {"findPending", "findInvitation"} /\ pc' = [pc EXCEPT ![i] = "saveInvitation"]
          /\ Op(i) \in {"invite", "revoke"}
          /\ UNCHANGED <<arg, tables, mail, heldSpace, heldMember>>
    <3>1. CASE FindPending(i)
      <4>1. PICK h \in Held :
              /\ pc[i] = "findPending" /\ Op(i) = "invite"
              /\ \/ h.id = i /\ h.row.status = "PENDING"
                 \/ /\ invitations[h.id] \in Invitation /\ invitations[h.id].status = "PENDING"
                    /\ h.row = [invitations[h.id] EXCEPT !.token = i]
              /\ heldInvitation' = [heldInvitation EXCEPT ![i] = h]
              /\ pc' = [pc EXCEPT ![i] = "saveInvitation"]
              /\ UNCHANGED <<arg, tables, mail, heldSpace, heldMember>>
        BY <3>1, FindPendingFacts
      <4>2. QED
        BY <4>1
    <3>2. CASE FindInvitation(i)
      <4>1. pc[i] = "findInvitation" /\ Op(i) = "revoke"
        BY <3>2 DEF FindInvitation, TInv, Shape, Stages, Awaits
      <4>2. arg[i].on \in Requests /\ invitations[arg[i].on] \in Invitation
        BY <4>1 DEF TInv, Shape
      <4> DEFINE h == [id |-> arg[i].on,
                       row |-> [invitations[arg[i].on] EXCEPT !.status = "REVOKED"]]
      <4>3. h \in Held
        BY <4>2 DEF Held, Invitation, Statuses
      <4>4. /\ heldInvitation' = [heldInvitation EXCEPT ![i] = h]
            /\ pc' = [pc EXCEPT ![i] = "saveInvitation"]
            /\ UNCHANGED <<arg, tables, mail, heldSpace, heldMember>>
        BY <3>2 DEF FindInvitation, Advance
      <4> HIDE DEF h
      <4>5. QED
        BY <4>1, <4>3, <4>4
    <3>3. QED
      BY <1>1, <3>1, <3>2
  <2>2. UNCHANGED <<arg, kind, space, members, invitations, defaults, mailed, last, lapsed,
                    heldSpace, heldMember>>
    BY <2>1 DEF tables, mail
  <2>3. TypeOK'
    BY <2>1, <2>2 DEF TInv, TypeOK, Awaits, Held
  <2>4. Advances(i, "saveInvitation") /\ heldInvitation'[i] = h
    BY <2>1, <2>2 DEF Advances, Awaits, TInv, TypeOK
  <2>5. <<Op(i), "saveInvitation">> \in Stages
    BY <2>1 DEF Stages
  <2>6. Shape'
    BY <2>4, <2>5, StepShape DEF HoldsSpace, HoldsMember, Awaits
  <2>7. QED
    BY <2>3, <2>6 DEF TInv
<1>2. CASE FindSpace(i)
  <2>1. PICK next \in {"refused", "findMember"} :
          /\ pc[i] = "findSpace" /\ pc' = [pc EXCEPT ![i] = next]
          /\ UNCHANGED <<arg, kind, space, members, invitations, defaults, mailed, last, lapsed,
                         heldSpace, heldMember, heldInvitation>>
    BY <1>2 DEF FindSpace, Advance, tables, mail, held
  <2>2. TypeOK'
    BY <2>1 DEF TInv, TypeOK, Awaits, Ended
  <2>3. Advances(i, next)
    BY <2>1 DEF Advances, Awaits
  <2>4. Op(i) = "accept"
    BY <2>1 DEF TInv, Shape, Stages, Awaits
  <2>5. heldInvitation[i] \in Held
    BY <2>1, <2>4 DEF TInv, Shape, HoldsInvitation, Awaits
  <2>6. Shape'
    BY <2>1, <2>3, <2>4, <2>5, StepShape DEF HoldsSpace, HoldsMember, Awaits, Ended, Stages
  <2>7. QED
    BY <2>2, <2>6 DEF TInv
<1>3. CASE SaveInvitation(i)
  <2>1. PICK next \in {"mail", "refused", "done", "failed"} :
          pc' = [pc EXCEPT ![i] = next] /\ (next = "mail" => Op(i) = "invite")
    BY <1>3, SaveInvitationFacts
  <2>2. /\ pc[i] = "saveInvitation" /\ heldInvitation[i].id \in Requests
        /\ \/ \E row \in Invitation : invitations' = [invitations EXCEPT ![heldInvitation[i].id] = row]
           \/ UNCHANGED invitations
        /\ UNCHANGED <<arg, kind, space, members, defaults, mailed, last, lapsed,
                       heldSpace, heldMember, heldInvitation>>
    BY <1>3, SaveInvitationFacts DEF Held
  <2>3. TypeOK'
    BY <2>1, <2>2 DEF TInv, TypeOK, Awaits, Ended
  <2>4. Advances(i, next)
    BY <2>1, <2>2 DEF Advances, Awaits, TInv, TypeOK
  <2>5. Shape'
    BY <2>1, <2>4, StepShape DEF HoldsSpace, HoldsMember, Awaits, Ended, Stages
  <2>6. QED
    BY <2>3, <2>5 DEF TInv
<1>4. CASE Mail(i)
  <2>1. /\ pc[i] = "mail" /\ pc' = [pc EXCEPT ![i] = "done"]
        /\ mailed' = mailed \cup {i} /\ last' = [last EXCEPT ![User(i)] = i]
        /\ UNCHANGED <<arg, kind, space, members, invitations, defaults, lapsed,
                       heldSpace, heldMember, heldInvitation>>
    BY <1>4 DEF Mail, Advance, tables, held
  <2>2. TypeOK'
    BY <2>1 DEF TInv, TypeOK, Ended
  <2>3. Advances(i, "done")
    BY <2>1 DEF Advances, Awaits
  <2>4. Shape'
    BY <2>3, StepShape DEF Ended, Awaits, HoldsSpace, HoldsMember
  <2>5. QED
    BY <2>2, <2>4 DEF TInv
<1>5. QED
  BY <1>1, <1>2, <1>3, <1>4 DEF InvitationStep

LEMMA AbortTInv ==
    ASSUME TInv, NEW i \in Requests, Abort(i)
    PROVE  TInv'
<1>1. /\ pc[i] \in Awaits /\ pc' = [pc EXCEPT ![i] = "failed"]
      /\ UNCHANGED <<arg, kind, space, members, invitations, defaults, mailed, last, lapsed,
                     heldSpace, heldMember, heldInvitation>>
  BY DEF Abort, Advance, tables, mail, held
<1>2. TypeOK'
  BY <1>1 DEF TInv, TypeOK, Ended
<1>3. Advances(i, "failed")
  BY <1>1 DEF Advances
<1>4. Shape'
  BY <1>3, StepShape DEF Ended, Awaits, HoldsSpace, HoldsMember
<1>5. QED
  BY <1>2, <1>4 DEF TInv

LEMMA LapseTInv ==
    ASSUME TInv, Lapse
    PROVE  TInv'
<1>1. /\ lapsed' \subseteq Requests
      /\ UNCHANGED <<kind, space, members, invitations, defaults, mailed, last, pc, arg,
                     heldSpace, heldMember, heldInvitation>>
  BY DEF Lapse, tables, held, TInv, TypeOK
<1>2. QED
  BY <1>1 DEF TInv, TypeOK, Shape, HoldsInvitation, Op, User

LEMMA StutterTInv ==
    ASSUME TInv, UNCHANGED vars
    PROVE  TInv'
BY DEF TInv, TypeOK, Shape, HoldsInvitation, Op, User, vars, tables, mail, held

LEMMA NextTInv == TInv /\ [Next]_vars => TInv'
BY ArriveTInv, SpaceTInv, MemberTInv, InvitationTInv, AbortTInv, LapseTInv, StutterTInv DEF Next

\* Every variable keeps its type: a request holds the rows that its next call
\* needs, for any number of requests and users, however they overlap.
THEOREM TypeCorrect == Spec => []TypeOK
<1>1. TInv => TypeOK
  BY DEF TInv
<1>2. QED
  BY <1>1, InitTInv, NextTInv, PTL DEF Spec

-----------------------------------------------------------------------------
(***************************************************************************)
(* Invitations live the life of InvitationLifecycle if the requests that   *)
(* save them do not overlap, but for two revocations or two previews.      *)
(* Then what a request holds of an invitation is still so when it saves.   *)
(***************************************************************************)
Savers == {"invite", "revoke", "preview", "accept"}
SavesApart == \A op, other \in Savers :
    {op, other} \in Apart \/ (op = other /\ op \in {"revoke", "preview"})

OneSaver == \A i, j \in Requests :
    /\ pc[i] \in Awaits /\ pc[j] \in Awaits /\ i # j
    /\ Op(i) \in Savers /\ Op(j) \in Savers
    => Op(i) = Op(j) /\ Op(i) \in {"revoke", "preview"}

\* The row of an invitation that request i holds, as the table has it now.
Now(i) == invitations[heldInvitation[i].id]
Current(i) ==
    /\ Op(i) = "accept" => Now(i) \in Invitation /\ Now(i).status = "PENDING"
    /\ Op(i) = "preview" => /\ Now(i) \in Invitation /\ Now(i).status \in {"PENDING", "EXPIRED"}
                           /\ heldInvitation[i].row.status = "EXPIRED"
    /\ Op(i) = "revoke" /\ pc[i] = "saveInvitation" =>
          Now(i) \in Invitation /\ heldInvitation[i].row.status = "REVOKED"
    /\ Op(i) = "invite" /\ pc[i] = "saveInvitation" =>
          /\ heldInvitation[i].row.status = "PENDING"
          /\ heldInvitation[i].id # i => Now(i) \in Invitation /\ Now(i).status = "PENDING"
HeldIsCurrent == \A i \in Requests : pc[i] \in Awaits => Current(i)

\* A request inserts one row at most.
NotInserted(i) == pc[i] = "new" \/ (pc[i] \in Awaits \ {"mail"} /\ Op(i) = "invite")
FreshRow == \A i \in Requests : NotInserted(i) => invitations[i] = Nobody

LInv == TInv /\ OneSaver /\ HeldIsCurrent /\ FreshRow

LEMMA InitLInv == Init => LInv
BY InitTInv DEF Init, LInv, OneSaver, HeldIsCurrent, FreshRow, Awaits

\* A step of request i after its arrival that saves and reads no invitation.
QuietStep(i) == SpaceStep(i) \/ MemberStep(i) \/ FindSpace(i) \/ Mail(i) \/ Abort(i)

LEMMA QuietFacts ==
    ASSUME TInv, NEW i \in Requests, QuietStep(i)
    PROVE  /\ pc[i] \in Awaits /\ \A j \in Requests \ {i} : pc'[j] = pc[j]
           /\ \A j \in Requests : Op(j)' = Op(j)
           /\ UNCHANGED <<invitations, heldInvitation>>
           /\ \A j \in Requests \ {i} : heldMember'[j] = heldMember[j]
           /\ pc[i] = "saveInvitation" => pc'[i] = "failed"
           /\ pc'[i] = "saveInvitation" => Op(i) = "accept"
           /\ pc[i] = "mail" => pc'[i] \notin Awaits
           /\ pc'[i] # "new"
<1>1. CASE SpaceStep(i)
  BY <1>1 DEF SpaceStep, SaveSpace, FindDefault, InsertDefault, Advance, tables, mail, held, Op,
     Awaits, TInv, TypeOK
<1>2. CASE FindMember(i)
  <2>1. PICK m \in Member, next \in Awaits \cup Ended :
          /\ heldMember' = [heldMember EXCEPT ![i] = m]
          /\ pc[i] = "findMember" /\ pc' = [pc EXCEPT ![i] = next]
          /\ <<Op(i), next>> \in Stages \/ next = "refused"
          /\ next \in {"saveMember", "deleteMember", "findPending", "insertMember",
                       "saveInvitation", "refused"}
          /\ UNCHANGED <<arg, tables, mail, heldSpace, heldInvitation>>
    BY <1>2, FindMemberFacts
  <2>2. <<Op(i), "findMember">> \in Stages
    BY <2>1 DEF TInv, Shape, Awaits
  <2>3. next = "saveInvitation" => Op(i) = "accept"
    <3>1. Op(i) = "invite" => next # "saveInvitation"
      BY <1>2, <2>1 DEF FindMember, Advance, TInv, TypeOK
    <3>2. QED
      BY <2>1, <2>2, <3>1 DEF Stages
  <2>4. QED
    BY <2>1, <2>3 DEF TInv, TypeOK, tables, Op, Awaits
<1>3. CASE SaveMember(i) \/ InsertMember(i) \/ RejectMember(i) \/ DeleteMember(i)
  <2>1. pc[i] \in {"saveMember", "insertMember", "deleteMember"}
    BY <1>3 DEF SaveMember, InsertMember, RejectMember, DeleteMember
  <2>2. pc[i] = "insertMember" => Op(i) = "accept"
    BY DEF TInv, Shape, Stages, Awaits
  <2>3. UNCHANGED <<arg, invitations, heldInvitation, heldMember>>
    BY <1>3 DEF SaveMember, InsertMember, RejectMember, DeleteMember, PutMember, Advance, tables, held
  <2>4. PICK next \in {"done", "saveInvitation", "failed"} :
          pc' = [pc EXCEPT ![i] = next] /\ (next = "saveInvitation" => pc[i] = "insertMember")
    BY <1>3 DEF SaveMember, InsertMember, RejectMember, DeleteMember, Advance
  <2>5. QED
    BY <2>1, <2>2, <2>3, <2>4 DEF TInv, TypeOK, Op, Awaits
<1>4. CASE FindOld(i) \/ DeleteNext(i) \/ SaveOwner(i) \/ SaveOld(i)
  <2>1. pc[i] \in {"findOld", "deleteNext", "saveBoth", "saveOwner", "saveOld"}
    BY <1>4 DEF FindOld, DeleteNext, SaveOwner, SaveOld
  <2>2. UNCHANGED <<arg, invitations, heldInvitation>>
    BY <1>4 DEF FindOld, DeleteNext, SaveOwner, SaveOld, PutMember, Advance, tables, held
  <2>3. \A j \in Requests \ {i} : heldMember'[j] = heldMember[j]
    BY <1>4 DEF FindOld, DeleteNext, SaveOwner, SaveOld, PutMember, held, TInv, TypeOK
  <2>4. PICK next \in {"findNext", "saveBoth", "saveOld", "saveOwner", "done"} :
          pc' = [pc EXCEPT ![i] = next]
    BY <1>4 DEF FindOld, DeleteNext, SaveOwner, SaveOld, Advance
  <2>5. QED
    BY <2>1, <2>2, <2>3, <2>4 DEF TInv, TypeOK, Op, Awaits
<1>5. CASE FindNext(i)
  <2>1. pc[i] = "findNext" /\ UNCHANGED <<invitations, heldInvitation, heldMember>>
    BY <1>5 DEF FindNext, tables, held
  <2>2. PICK next \in {"saveBoth", "deleteNext"} : pc' = [pc EXCEPT ![i] = next]
    BY <1>5 DEF FindNext, Advance
  <2>3. UNCHANGED arg \/ \E id : arg' = [arg EXCEPT ![i].on = id]
    BY <1>5 DEF FindNext, Advance
  <2>4. \A j \in Requests : Op(j)' = Op(j)
    BY <2>3 DEF Op, TInv, TypeOK, Arg
  <2>5. QED
    BY <2>1, <2>2, <2>4 DEF TInv, TypeOK, Awaits
<1>6. CASE FindSpace(i) \/ Mail(i)
  BY <1>6 DEF FindSpace, Mail, Advance, tables, held, Op, Awaits, TInv, TypeOK
<1>7. CASE Abort(i)
  BY <1>7 DEF Abort, Advance, tables, held, Op, Awaits, TInv, TypeOK
<1>8. QED
  BY <1>1, <1>2, <1>3, <1>4, <1>5, <1>6, <1>7 DEF QuietStep, MemberStep

LEMMA ArriveLInv ==
    ASSUME SavesApart, LInv, NEW i \in Requests, Arrive(i)
    PROVE  OneSaver' /\ HeldIsCurrent' /\ FreshRow'
<1>1. TInv
  BY DEF LInv
<1>2. PICK where \in Awaits, a \in Arg : a.op \in Ops /\ ArrivesAs(i, where, a)
  BY <1>1, ArriveFacts
<1>3. /\ pc[i] = "new" /\ pc' = [pc EXCEPT ![i] = where]
      /\ arg' = [arg EXCEPT ![i] = [op |-> a.op, user |-> a.user, on |-> a.on]]
      /\ UNCHANGED invitations
      /\ Admitted(a.op)
  BY <1>2 DEF ArrivesAs, Start, tables
<1>4. /\ Op(i)' = a.op /\ pc'[i] = where
      /\ \A j \in Requests \ {i} : Op(j)' = Op(j) /\ pc'[j] = pc[j]
  BY <1>1, <1>3 DEF TInv, TypeOK, Op
<1>5. OneSaver'
  <2>1. \A j \in Requests : pc[j] \in Awaits /\ a.op \in Savers /\ Op(j) \in Savers
            => a.op = Op(j) /\ a.op \in {"revoke", "preview"}
    BY <1>3 DEF SavesApart, Admitted, InFlight
  <2>2. QED
    BY <1>4, <2>1 DEF LInv, OneSaver
<1>6. \A j \in Requests \ {i} : heldInvitation'[j] = heldInvitation[j]
  <2>1. CASE a.op \in {"accept", "preview"}
    BY <1>1, <1>2, <2>1 DEF ArrivesAs, ReadsInvitation, TInv, TypeOK
  <2>2. CASE a.op \notin {"accept", "preview"}
    BY <1>2, <2>2 DEF ArrivesAs, ReadsSpace, held
  <2>3. QED
    BY <2>1, <2>2
<1>7. Current(i)'
  <2>1. CASE a.op \in {"accept", "preview"}
    <3>1. PICK status \in {"PENDING", "EXPIRED"} :
            ReadsInvitation(i, status) /\ (a.op = "preview" => status = "EXPIRED")
      BY <1>2, <2>1 DEF ArrivesAs
    <3>2. PICK n \in Requests :
            /\ invitations[n] \in Invitation /\ invitations[n].status = "PENDING"
            /\ heldInvitation' = [heldInvitation EXCEPT ![i] =
                  [id |-> n, row |-> [invitations[n] EXCEPT !.status = status]]]
      BY <3>1 DEF ReadsInvitation
    <3>3. /\ heldInvitation'[i].id = n
          /\ heldInvitation'[i].row.status = status
      BY <1>1, <3>2 DEF TInv, TypeOK, Invitation
    <3>4. Now(i)' = invitations[n]
      BY <1>3, <3>3 DEF Now
    <3>5. QED
      BY <1>4, <2>1, <3>1, <3>2, <3>3, <3>4 DEF Current
  <2>2. CASE a.op \notin {"accept", "preview"}
    <3>1. where # "saveInvitation"
      BY <1>2, <2>2 DEF ArrivesAs
    <3>2. QED
      BY <1>4, <2>2, <3>1 DEF Current
  <2>3. QED
    BY <2>1, <2>2
<1>8. HeldIsCurrent'
  <2>1. \A j \in Requests \ {i} : Current(j) => Current(j)'
    BY <1>3, <1>4, <1>6 DEF Current, Now
  <2>2. QED
    BY <1>4, <1>7, <2>1 DEF LInv, HeldIsCurrent
<1>9. FreshRow'
  BY <1>3, <1>4 DEF LInv, FreshRow, NotInserted
<1>10. QED
  BY <1>5, <1>8, <1>9

LEMMA QuietLInv ==
    ASSUME LInv, NEW i \in Requests, QuietStep(i)
    PROVE  OneSaver' /\ HeldIsCurrent' /\ FreshRow'
<1>1. /\ pc[i] \in Awaits /\ \A j \in Requests \ {i} : pc'[j] = pc[j]
      /\ \A j \in Requests : Op(j)' = Op(j)
      /\ UNCHANGED <<invitations, heldInvitation>>
      /\ pc[i] = "saveInvitation" => pc'[i] = "failed"
      /\ pc'[i] = "saveInvitation" => Op(i) = "accept"
      /\ pc[i] = "mail" => pc'[i] \notin Awaits
      /\ pc'[i] # "new"
  BY QuietFacts DEF LInv
<1>2. OneSaver'
  BY <1>1 DEF LInv, OneSaver
<1>3. \A j \in Requests : Now(j)' = Now(j)
  BY <1>1 DEF Now
<1>4. HeldIsCurrent'
  <2>1. \A j \in Requests \ {i} : Current(j) => Current(j)'
    BY <1>1, <1>3 DEF Current
  <2>2. pc'[i] \in Awaits => Current(i)'
    BY <1>1, <1>3 DEF LInv, HeldIsCurrent, Current, Awaits
  <2>3. QED
    BY <1>1, <2>1, <2>2 DEF LInv, HeldIsCurrent
<1>5. FreshRow'
  BY <1>1 DEF LInv, FreshRow, NotInserted
<1>6. QED
  BY <1>2, <1>4, <1>5

LEMMA FindLInv ==
    ASSUME LInv, NEW i \in Requests, FindPending(i) \/ FindInvitation(i)
    PROVE  OneSaver' /\ HeldIsCurrent' /\ FreshRow'
<1>1. TInv
  BY DEF LInv
<1>2. /\ pc[i] \in {"findPending", "findInvitation"} /\ pc' = [pc EXCEPT ![i] = "saveInvitation"]
      /\ UNCHANGED <<arg, invitations>>
  BY DEF FindPending, FindInvitation, Advance, tables
<1>3. /\ pc[i] \in Awaits /\ pc'[i] = "saveInvitation" /\ \A j \in Requests \ {i} : pc'[j] = pc[j]
      /\ \A j \in Requests : Op(j)' = Op(j)
  BY <1>1, <1>2 DEF TInv, TypeOK, Awaits, Op
<1>4. OneSaver'
  BY <1>3 DEF LInv, OneSaver
<1>5. Current(i)' /\ \A j \in Requests \ {i} : heldInvitation'[j] = heldInvitation[j]
  <2>1. CASE FindPending(i)
    <3>1. PICK h \in Held :
            /\ pc[i] = "findPending" /\ Op(i) = "invite"
            /\ \/ h.id = i /\ h.row.status = "PENDING"
               \/ /\ invitations[h.id] \in Invitation /\ invitations[h.id].status = "PENDING"
                  /\ h.row = [invitations[h.id] EXCEPT !.token = i]
            /\ heldInvitation' = [heldInvitation EXCEPT ![i] = h]
            /\ pc' = [pc EXCEPT ![i] = "saveInvitation"]
            /\ UNCHANGED <<arg, tables, mail, heldSpace, heldMember>>
      BY <1>1, <2>1, FindPendingFacts
    <3>2. heldInvitation'[i] = h /\ \A j \in Requests \ {i} : heldInvitation'[j] = heldInvitation[j]
      BY <1>1, <3>1 DEF TInv, TypeOK
    <3>3. /\ h.row.status = "PENDING"
          /\ h.id # i => invitations[h.id] \in Invitation /\ invitations[h.id].status = "PENDING"
      BY <3>1 DEF Held, Invitation
    <3>4. QED
      BY <1>2, <1>3, <3>1, <3>2, <3>3 DEF Current, Now
  <2>2. CASE FindInvitation(i)
    <3>1. pc[i] = "findInvitation" /\ Op(i) = "revoke"
      BY <1>1, <2>2 DEF FindInvitation, TInv, Shape, Stages, Awaits
    <3>2. arg[i].on \in Requests /\ invitations[arg[i].on] \in Invitation
      BY <1>1, <3>1 DEF TInv, Shape
    <3>3. heldInvitation' = [heldInvitation EXCEPT ![i] =
             [id |-> arg[i].on, row |-> [invitations[arg[i].on] EXCEPT !.status = "REVOKED"]]]
      BY <2>2 DEF FindInvitation
    <3>4. /\ heldInvitation'[i].id = arg[i].on
          /\ heldInvitation'[i].row.status = "REVOKED"
      BY <1>1, <3>2, <3>3 DEF TInv, TypeOK, Invitation
    <3>5. \A j \in Requests \ {i} : heldInvitation'[j] = heldInvitation[j]
      BY <1>1, <3>3 DEF TInv, TypeOK
    <3>6. QED
      BY <1>2, <1>3, <3>1, <3>2, <3>4, <3>5 DEF Current, Now
  <2>3. QED
    BY <2>1, <2>2
<1>6. HeldIsCurrent'
  <2>1. \A j \in Requests \ {i} : Current(j) => Current(j)'
    BY <1>2, <1>3, <1>5 DEF Current, Now
  <2>2. QED
    BY <1>3, <1>5, <2>1 DEF LInv, HeldIsCurrent
<1>7. FreshRow'
  BY <1>2, <1>3 DEF LInv, FreshRow, NotInserted, Awaits
<1>8. QED
  BY <1>4, <1>6, <1>7

\* Whom a save of an invitation meets, and what it leaves.
LEMMA SaveMeets ==
    ASSUME LInv, NEW i \in Requests, SaveInvitation(i)
    PROVE  /\ Current(i)
           /\ \A j \in Requests \ {i} : pc[j] \in Awaits /\ Op(j) \in Savers =>
                 Op(j) = Op(i) /\ Op(i) \in {"revoke", "preview"}
           /\ Op(i) = "accept" => SavedInvitation(i).status = "ACCEPTED"
           /\ Op(i) # "accept" => SavedInvitation(i) = heldInvitation[i].row
<1>1. /\ pc[i] = "saveInvitation" /\ heldInvitation[i] \in Held
      /\ Op(i) \in Savers
  BY SaveInvitationFacts DEF LInv, Savers
<1>2. Current(i) /\ \A j \in Requests \ {i} : pc[j] \in Awaits /\ Op(j) \in Savers =>
          Op(j) = Op(i) /\ Op(i) \in {"revoke", "preview"}
  BY <1>1 DEF LInv, HeldIsCurrent, OneSaver, Awaits
<1>3. QED
  BY <1>1, <1>2 DEF SavedInvitation, Held, Invitation

LEMMA SaveLInv ==
    ASSUME LInv, NEW i \in Requests, SaveInvitation(i)
    PROVE  OneSaver' /\ HeldIsCurrent' /\ FreshRow'
<1>1. TInv
  BY DEF LInv
<1> DEFINE n == heldInvitation[i].id
<1>2. /\ pc[i] = "saveInvitation" /\ heldInvitation[i] \in Held /\ n \in Requests
      /\ Op(i) \in Savers /\ SavedInvitation(i) \in Invitation
      /\ UNCHANGED <<arg, heldInvitation>>
  BY <1>1, SaveInvitationFacts DEF Savers, Held
<1>3. /\ \A j \in Requests \ {i} : pc'[j] = pc[j]
      /\ pc'[i] \in {"mail", "refused", "done", "failed"}
      /\ pc'[i] = "mail" => Op(i) = "invite" /\ pc'[i] # "failed"
      /\ \A j \in Requests : Op(j)' = Op(j)
  <2>1. PICK next \in {"mail", "refused", "done", "failed"} :
          pc' = [pc EXCEPT ![i] = next] /\ (next = "mail" => Op(i) = "invite")
    BY <1>1, SaveInvitationFacts
  <2>2. QED
    BY <1>1, <1>2, <2>1 DEF TInv, TypeOK, Op
<1>4. /\ Current(i)
      /\ \A j \in Requests \ {i} : pc[j] \in Awaits /\ Op(j) \in Savers =>
            Op(j) = Op(i) /\ Op(i) \in {"revoke", "preview"}
      /\ Op(i) # "accept" => SavedInvitation(i) = heldInvitation[i].row
  BY SaveMeets
<1>5. OneSaver'
  BY <1>2, <1>3 DEF LInv, OneSaver, Awaits
<1>6. /\ \A k \in Requests \ {n} : invitations'[k] = invitations[k]
      /\ invitations'[n] = SavedInvitation(i) \/ invitations'[n] = invitations[n]
  BY <1>1, <1>2, SaveInvitationFacts DEF TInv, TypeOK
<1> HIDE DEF n
<1>7. HeldIsCurrent'
  <2>1. SUFFICES ASSUME NEW j \in Requests, pc'[j] \in Awaits
                 PROVE  Current(j)'
    BY DEF HeldIsCurrent
  <2>2. CASE j = i
    BY <1>3, <2>1, <2>2 DEF Current, Savers, Awaits
  <2>3. CASE j # i
    <3>1. pc[j] \in Awaits /\ pc'[j] = pc[j] /\ Op(j)' = Op(j) /\ Current(j)
      BY <1>3, <2>1, <2>3 DEF LInv, HeldIsCurrent
    <3>2. CASE Op(j) \notin Savers
      BY <3>1, <3>2 DEF Current, Savers
    <3>3. CASE Op(j) = "revoke"
      <4>1. pc[j] = "saveInvitation" => heldInvitation[j] \in Held
        BY <1>1, <3>1 DEF TInv, Shape, HoldsInvitation
      <4>2. pc[j] = "saveInvitation" => Now(j)' \in Invitation
        BY <1>2, <1>6, <3>1, <3>3, <4>1 DEF Current, Now, Held
      <4>3. QED
        BY <1>2, <3>1, <3>3, <4>2 DEF Current
    <3>4. CASE Op(j) = "preview"
      <4>1. heldInvitation[j] \in Held
        BY <1>1, <3>1, <3>4 DEF TInv, Shape, HoldsInvitation
      <4>2. Op(i) = "preview" /\ SavedInvitation(i).status = "EXPIRED"
        BY <1>4, <2>3, <3>1, <3>4 DEF Current, Savers
      <4>3. Now(j)' \in Invitation /\ Now(j)'.status \in {"PENDING", "EXPIRED"}
        BY <1>2, <1>6, <3>1, <3>4, <4>1, <4>2 DEF Current, Now, Held
      <4>4. QED
        BY <1>2, <3>1, <3>4, <4>3 DEF Current
    <3>5. QED
      BY <1>4, <2>3, <3>1, <3>2, <3>3, <3>4 DEF Savers
  <2>4. QED
    BY <2>2, <2>3
<1>8. FreshRow'
  <2>1. SUFFICES ASSUME NEW j \in Requests, NotInserted(j)'
                 PROVE  invitations'[j] = Nobody
    BY DEF FreshRow
  <2>2. j # i
    BY <1>3, <2>1 DEF NotInserted, Awaits
  <2>3. NotInserted(j) /\ invitations[j] = Nobody
    BY <1>3, <2>1, <2>2 DEF NotInserted, LInv, FreshRow
  <2>4. n # j
    <3>1. invitations[n] \in Invitation \/ n = i
      BY <1>2, <1>4 DEF Current, Now, Savers, n
    <3>2. QED
      BY <2>2, <2>3, <3>1, ConstantsAssumption
  <2>5. QED
    BY <1>6, <2>3, <2>4
<1>9. QED
  BY <1>5, <1>7, <1>8

LEMMA NextLInv == ASSUME SavesApart PROVE LInv /\ [Next]_vars => LInv'
<1>1. SUFFICES ASSUME LInv, [Next]_vars
               PROVE  OneSaver' /\ HeldIsCurrent' /\ FreshRow'
  BY NextTInv DEF LInv
<1>2. CASE Lapse \/ UNCHANGED vars
  BY <1>1, <1>2 DEF LInv, OneSaver, HeldIsCurrent, Current, Now, FreshRow, NotInserted, Op,
     Lapse, vars, tables, mail, held
<1>3. ASSUME NEW i \in Requests, SpaceStep(i) \/ MemberStep(i) \/ InvitationStep(i) \/ Abort(i)
      PROVE  OneSaver' /\ HeldIsCurrent' /\ FreshRow'
  BY <1>1, <1>3, QuietLInv, FindLInv, SaveLInv DEF InvitationStep, QuietStep
<1>4. QED
  BY <1>1, <1>2, <1>3, ArriveLInv DEF Next

-----------------------------------------------------------------------------
(***************************************************************************)
(* The refinement: each step leaves the phases alone or is one step of     *)
(* InvitationLifecycle.                                                    *)
(***************************************************************************)
\* Request i has made the invitee of n a member, and has yet to save ACCEPTED.
Joining(i, n) ==
    /\ pc[i] = "saveInvitation" /\ Op(i) = "accept"
    /\ heldInvitation[i].id = n /\ heldMember[i].id = i

LEMMA PhaseFacts ==
    ASSUME NEW n \in Requests
    PROVE  Phase(n) = IF invitations[n] = Nobody THEN "none"
                      ELSE IF \E i \in Requests : Joining(i, n) THEN "joined"
                      ELSE invitations[n].status
<1>1. (\E i \in InFlight :
          /\ Op(i) = "accept" /\ pc[i] = "saveInvitation"
          /\ heldInvitation[i].id = n /\ heldMember[i].id = i)
      <=> \E i \in Requests : Joining(i, n)
  BY DEF InFlight, Joining, Awaits
<1>2. QED
  BY <1>1 DEF Phase

\* The same in the next state.
LEMMA PhaseFactsNext ==
    ASSUME NEW n \in Requests
    PROVE  Phase(n)' = IF invitations'[n] = Nobody THEN "none"
                       ELSE IF \E i \in Requests : Joining(i, n)' THEN "joined"
                       ELSE invitations'[n].status
<1>1. (\E i \in InFlight' :
          /\ Op(i)' = "accept" /\ pc'[i] = "saveInvitation"
          /\ heldInvitation'[i].id = n /\ heldMember'[i].id = i)
      <=> \E i \in Requests : Joining(i, n)'
  BY DEF InFlight, Joining, Awaits
<1>2. QED
  BY <1>1 DEF Phase

Phases == [n \in Requests |-> Phase(n)]

\* One phase moves as InvitationLifecycle says, or none.
MovesTo(n, from, to) ==
    /\ Phase(n) \in from /\ Phase(n)' = to
    /\ \A k \in Requests \ {n} : Phase(k)' = Phase(k)
Moves ==
    \/ \A k \in Requests : Phase(k)' = Phase(k)
    \/ \E n \in Requests :
          \/ MovesTo(n, {"none"}, "PENDING") \/ MovesTo(n, {"PENDING"}, "joined")
          \/ MovesTo(n, {"PENDING", "joined"}, "ACCEPTED") \/ MovesTo(n, {"joined"}, "PENDING")
          \/ MovesTo(n, {"PENDING", "ACCEPTED", "EXPIRED"}, "REVOKED")
          \/ MovesTo(n, {"PENDING"}, "EXPIRED")

LEMMA SamePhases ==
    ASSUME UNCHANGED invitations,
           \A i, n \in Requests : Joining(i, n)' <=> Joining(i, n)
    PROVE  Moves
BY PhaseFacts, PhaseFactsNext DEF Moves

LEMMA ArriveMoves ==
    ASSUME LInv, NEW i \in Requests, Arrive(i)
    PROVE  Moves
<1>1. TInv
  BY DEF LInv
<1>2. PICK where \in Awaits, a \in Arg : a.op \in Ops /\ ArrivesAs(i, where, a)
  BY <1>1, ArriveFacts
<1>3. /\ pc[i] = "new" /\ pc' = [pc EXCEPT ![i] = where]
      /\ arg' = [arg EXCEPT ![i] = [op |-> a.op, user |-> a.user, on |-> a.on]]
      /\ UNCHANGED invitations
  BY <1>2 DEF ArrivesAs, Start, tables
<1>4. /\ Op(i)' = a.op /\ pc'[i] = where
      /\ \A j \in Requests \ {i} : Op(j)' = Op(j) /\ pc'[j] = pc[j]
  BY <1>1, <1>3 DEF TInv, TypeOK, Op
<1>5. \A j \in Requests \ {i} : heldInvitation'[j] = heldInvitation[j] /\ heldMember'[j] = heldMember[j]
  <2>1. CASE a.op \in {"accept", "preview"}
    BY <1>1, <1>2, <2>1 DEF ArrivesAs, ReadsInvitation, TInv, TypeOK
  <2>2. CASE a.op \notin {"accept", "preview"}
    BY <1>2, <2>2 DEF ArrivesAs, ReadsSpace, held
  <2>3. QED
    BY <2>1, <2>2
<1>6. a.op = "accept" => where = "findSpace"
  BY <1>2 DEF ArrivesAs
<1>7. \A j, n \in Requests : Joining(j, n)' <=> Joining(j, n)
  BY <1>3, <1>4, <1>5, <1>6 DEF Joining
<1>8. QED
  BY <1>3, <1>7, SamePhases

\* The one request that joins, if any, is the only one that saves.
LEMMA JoiningFacts ==
    ASSUME LInv, NEW i \in Requests, pc[i] \in Awaits, Op(i) = "accept"
    PROVE  /\ heldInvitation[i].id \in Requests
           /\ Now(i) \in Invitation /\ Now(i).status = "PENDING" /\ Now(i) # Nobody
           /\ \A j, n \in Requests : Joining(j, n) => j = i
<1>1. heldInvitation[i] \in Held
  BY DEF LInv, TInv, Shape, HoldsInvitation
<1>2. Now(i) \in Invitation /\ Now(i).status = "PENDING"
  BY DEF LInv, HeldIsCurrent, Current
<1>3. \A j, n \in Requests : Joining(j, n) => j = i
  BY DEF LInv, OneSaver, Joining, Savers, Awaits
<1>4. QED
  BY <1>1, <1>2, <1>3, ConstantsAssumption DEF Held

LEMMA QuietMoves ==
    ASSUME LInv, NEW i \in Requests, QuietStep(i)
    PROVE  Moves
<1>1. /\ pc[i] \in Awaits /\ \A j \in Requests \ {i} : pc'[j] = pc[j]
      /\ \A j \in Requests : Op(j)' = Op(j)
      /\ UNCHANGED <<invitations, heldInvitation>>
      /\ \A j \in Requests \ {i} : heldMember'[j] = heldMember[j]
      /\ pc[i] = "saveInvitation" => pc'[i] = "failed"
      /\ pc'[i] = "saveInvitation" => Op(i) = "accept"
  BY QuietFacts DEF LInv
<1>2. \A j \in Requests \ {i}, n \in Requests : Joining(j, n)' <=> Joining(j, n)
  BY <1>1 DEF Joining
<1>3. CASE \A n \in Requests : Joining(i, n)' <=> Joining(i, n)
  BY <1>1, <1>2, <1>3, SamePhases
<1>4. CASE \E n \in Requests : Joining(i, n)' /\ ~ Joining(i, n)
  <2>1. PICK n \in Requests : Joining(i, n)' /\ ~ Joining(i, n)
    BY <1>4
  <2>2. Op(i) = "accept" /\ n = heldInvitation[i].id /\ pc[i] # "saveInvitation"
    BY <1>1, <2>1 DEF Joining
  <2>3. invitations[n] # Nobody /\ invitations[n].status = "PENDING"
    BY <1>1, <2>2, JoiningFacts DEF Now
  <2>4. \A j, k \in Requests : ~ Joining(j, k)
    BY <1>1, <2>2, JoiningFacts DEF Joining
  <2>5. \A j, k \in Requests : Joining(j, k)' => k = n
    BY <1>1, <1>2, <2>2, <2>4 DEF Joining
  <2>6. MovesTo(n, {"PENDING"}, "joined")
    BY <1>1, <2>1, <2>3, <2>4, <2>5, PhaseFacts, PhaseFactsNext DEF MovesTo
  <2>7. QED
    BY <2>6 DEF Moves
<1>5. CASE \E n \in Requests : Joining(i, n) /\ ~ Joining(i, n)'
  <2>1. PICK n \in Requests : Joining(i, n) /\ ~ Joining(i, n)'
    BY <1>5
  <2>2. Op(i) = "accept" /\ n = heldInvitation[i].id /\ pc[i] = "saveInvitation" /\ pc'[i] = "failed"
    BY <1>1, <2>1 DEF Joining
  <2>3. invitations[n] # Nobody /\ invitations[n].status = "PENDING"
    BY <1>1, <2>2, JoiningFacts DEF Now
  <2>4. \A j, k \in Requests : Joining(j, k) => k = n
    BY <1>1, <2>2, JoiningFacts DEF Joining
  <2>5. \A j, k \in Requests : ~ Joining(j, k)'
    <3>1. \A k \in Requests : ~ Joining(i, k)'
      BY <2>2 DEF Joining
    <3>2. \A j, k \in Requests : Joining(j, k) => j = i
      BY <1>1, <2>2, JoiningFacts
    <3>3. QED
      BY <1>2, <3>1, <3>2
  <2>6. MovesTo(n, {"joined"}, "PENDING")
    BY <1>1, <2>1, <2>3, <2>4, <2>5, PhaseFacts, PhaseFactsNext DEF MovesTo
  <2>7. QED
    BY <2>6 DEF Moves
<1>6. QED
  BY <1>3, <1>4, <1>5

LEMMA FindMoves ==
    ASSUME LInv, NEW i \in Requests, FindPending(i) \/ FindInvitation(i)
    PROVE  Moves
<1>1. TInv
  BY DEF LInv
<1>2. /\ pc[i] \in {"findPending", "findInvitation"} /\ pc' = [pc EXCEPT ![i] = "saveInvitation"]
      /\ UNCHANGED <<arg, invitations, heldMember>>
      /\ \E h : heldInvitation' = [heldInvitation EXCEPT ![i] = h]
  BY DEF FindPending, FindInvitation, Advance, tables
<1>3. Op(i) # "accept"
  BY <1>1, <1>2 DEF TInv, Shape, Stages, Awaits
<1>4. /\ \A j \in Requests \ {i} : pc'[j] = pc[j] /\ heldInvitation'[j] = heldInvitation[j]
      /\ \A j \in Requests : Op(j)' = Op(j)
  BY <1>1, <1>2 DEF TInv, TypeOK, Op
<1>5. \A j, n \in Requests : Joining(j, n)' <=> Joining(j, n)
  BY <1>2, <1>3, <1>4 DEF Joining
<1>6. QED
  BY <1>2, <1>5, SamePhases

LEMMA SaveMoves ==
    ASSUME LInv, NEW i \in Requests, SaveInvitation(i)
    PROVE  Moves
<1>1. TInv
  BY DEF LInv
<1>0. PICK n \in Requests : n = heldInvitation[i].id
  BY <1>1, SaveInvitationFacts DEF Held
<1>2. /\ pc[i] = "saveInvitation" /\ heldInvitation[i] \in Held
      /\ Op(i) \in Savers /\ SavedInvitation(i) \in Invitation
      /\ UNCHANGED <<arg, heldInvitation, heldMember>>
  BY <1>1, SaveInvitationFacts DEF Savers
<1>3. /\ \A j \in Requests \ {i} : pc'[j] = pc[j]
      /\ pc'[i] # "saveInvitation"
      /\ \A j \in Requests : Op(j)' = Op(j)
  <2>1. PICK next \in {"mail", "refused", "done", "failed"} :
          pc' = [pc EXCEPT ![i] = next] /\ (next = "mail" => Op(i) = "invite")
    BY <1>1, SaveInvitationFacts
  <2>2. QED
    BY <1>1, <1>2, <2>1 DEF TInv, TypeOK, Op
<1>4. /\ Current(i)
      /\ \A j \in Requests \ {i} : pc[j] \in Awaits /\ Op(j) \in Savers =>
            Op(j) = Op(i) /\ Op(i) \in {"revoke", "preview"}
      /\ Op(i) = "accept" => SavedInvitation(i).status = "ACCEPTED"
      /\ Op(i) # "accept" => SavedInvitation(i) = heldInvitation[i].row
  BY SaveMeets
\* Nobody joins now but i, and nobody does then.
<1>5. \A j, k \in Requests : Joining(j, k) => j = i /\ k = n /\ Op(i) = "accept"
  BY <1>0, <1>4 DEF Joining, Savers, Awaits
<1>6. \A j, k \in Requests : ~ Joining(j, k)'
  <2>1. \A j \in Requests \ {i}, k \in Requests : Joining(j, k)' => Joining(j, k)
    BY <1>2, <1>3 DEF Joining
  <2>2. QED
    BY <1>3, <1>5, <2>1 DEF Joining
<1>7. /\ \A k \in Requests \ {n} : invitations'[k] = invitations[k]
      /\ invitations'[n] = SavedInvitation(i) \/ invitations'[n] = invitations[n]
  BY <1>0, <1>1, <1>2, SaveInvitationFacts DEF TInv, TypeOK
<1>8. \A k \in Requests \ {n} : Phase(k)' = Phase(k)
  BY <1>5, <1>6, <1>7, PhaseFacts, PhaseFactsNext
<1>9. Nobody \notin Invitation
  BY ConstantsAssumption
<1>10. Now(i) = invitations[n]
  BY <1>0 DEF Now
<1>11. Phase(n) = IF invitations[n] = Nobody THEN "none"
                  ELSE IF Joining(i, n) THEN "joined" ELSE invitations[n].status
  BY <1>2, <1>5, PhaseFacts
<1>12. Phase(n)' = IF invitations'[n] = Nobody THEN "none" ELSE invitations'[n].status
  BY <1>2, <1>6, PhaseFactsNext
<1>13. CASE invitations'[n] = invitations[n]
  <2>1. CASE Joining(i, n)
    <3>1. Op(i) = "accept"
      BY <2>1 DEF Joining
    <3>2. invitations[n] \in Invitation /\ invitations[n].status = "PENDING"
      BY <1>4, <1>10, <3>1 DEF Current
    <3>3. MovesTo(n, {"joined"}, "PENDING")
      BY <1>8, <1>9, <1>11, <1>12, <1>13, <2>1, <3>2 DEF MovesTo
    <3>4. QED
      BY <1>2, <3>3 DEF Moves
  <2>2. CASE ~ Joining(i, n)
    <3>1. Phase(n)' = Phase(n)
      BY <1>11, <1>12, <1>13, <2>2
    <3>2. QED
      BY <1>8, <3>1 DEF Moves
  <2>3. QED
    BY <2>1, <2>2
<1>14. CASE invitations'[n] = SavedInvitation(i)
  <2>1. Phase(n)' = SavedInvitation(i).status
    BY <1>2, <1>9, <1>12, <1>14
  <2>2. CASE Op(i) = "accept"
    <3>1. invitations[n] \in Invitation /\ invitations[n].status = "PENDING"
      BY <1>4, <1>10, <2>2 DEF Current
    <3>2. MovesTo(n, {"PENDING", "joined"}, "ACCEPTED")
      BY <1>4, <1>8, <1>9, <1>11, <2>1, <2>2, <3>1 DEF MovesTo
    <3>3. QED
      BY <1>2, <3>2 DEF Moves
  <2>3. CASE Op(i) = "preview"
    <3>1. /\ invitations[n] \in Invitation /\ invitations[n].status \in {"PENDING", "EXPIRED"}
          /\ SavedInvitation(i).status = "EXPIRED"
      BY <1>4, <1>10, <2>3 DEF Current
    <3>2. Phase(n) \in {"PENDING", "EXPIRED"}
      BY <1>5, <1>9, <1>11, <2>3, <3>1 DEF Joining
    <3>3. CASE Phase(n) = "EXPIRED"
      <4>1. Phase(n)' = Phase(n)
        BY <2>1, <3>1, <3>3
      <4>2. QED
        BY <1>8, <4>1 DEF Moves
    <3>4. CASE Phase(n) = "PENDING"
      <4>1. MovesTo(n, {"PENDING"}, "EXPIRED")
        BY <1>8, <2>1, <3>1, <3>4 DEF MovesTo
      <4>2. QED
        BY <4>1 DEF Moves
    <3>5. QED
      BY <3>2, <3>3, <3>4
  <2>4. CASE Op(i) = "revoke"
    <3>1. invitations[n] \in Invitation /\ SavedInvitation(i).status = "REVOKED"
      BY <1>2, <1>4, <1>10, <2>4 DEF Current
    <3>2. Phase(n) \in {"PENDING", "ACCEPTED", "EXPIRED", "REVOKED"}
      BY <1>9, <1>11, <2>4, <3>1 DEF Joining, Invitation, Statuses
    <3>3. CASE Phase(n) = "REVOKED"
      <4>1. Phase(n)' = Phase(n)
        BY <2>1, <3>1, <3>3
      <4>2. QED
        BY <1>8, <4>1 DEF Moves
    <3>4. CASE Phase(n) # "REVOKED"
      <4>1. MovesTo(n, {"PENDING", "ACCEPTED", "EXPIRED"}, "REVOKED")
        BY <1>8, <2>1, <3>1, <3>2, <3>4 DEF MovesTo
      <4>2. QED
        BY <4>1 DEF Moves
    <3>5. QED
      BY <3>3, <3>4
  <2>5. CASE Op(i) = "invite"
    <3>1. SavedInvitation(i).status = "PENDING"
      BY <1>2, <1>4, <2>5 DEF Current
    <3>2. CASE n = i
      <4>1. invitations[n] = Nobody
        BY <1>0, <1>2, <2>5, <3>2 DEF LInv, FreshRow, NotInserted, Awaits
      <4>2. MovesTo(n, {"none"}, "PENDING")
        BY <1>8, <1>11, <2>1, <3>1, <4>1 DEF MovesTo
      <4>3. QED
        BY <1>2, <4>2 DEF Moves
    <3>3. CASE n # i
      <4>1. invitations[n] \in Invitation /\ invitations[n].status = "PENDING"
        BY <1>0, <1>2, <1>4, <1>10, <2>5, <3>3 DEF Current
      <4>2. Phase(n) = "PENDING"
        BY <1>9, <1>11, <2>5, <4>1 DEF Joining
      <4>3. Phase(n)' = Phase(n)
        BY <2>1, <3>1, <4>2
      <4>4. QED
        BY <1>8, <4>3 DEF Moves
    <3>4. QED
      BY <3>2, <3>3
  <2>6. QED
    BY <1>2, <2>2, <2>3, <2>4, <2>5 DEF Savers
<1>15. QED
  BY <1>7, <1>13, <1>14

LEMMA NextMoves ==
    ASSUME LInv, [Next]_vars
    PROVE  Moves
<1>1. CASE Lapse \/ UNCHANGED vars
  <2>1. UNCHANGED <<invitations, pc, arg, heldInvitation, heldMember>>
    BY <1>1 DEF Lapse, vars, tables, held
  <2>2. \A i, n \in Requests : Joining(i, n)' <=> Joining(i, n)
    BY <2>1 DEF Joining, Op
  <2>3. QED
    BY <2>1, <2>2, SamePhases
<1>2. ASSUME NEW i \in Requests, SpaceStep(i) \/ MemberStep(i) \/ InvitationStep(i) \/ Abort(i)
      PROVE  Moves
  BY <1>2, QuietMoves, FindMoves, SaveMoves DEF InvitationStep, QuietStep
<1>3. QED
  BY <1>1, <1>2, ArriveMoves DEF Next

LEMMA MovesAreSteps ==
    ASSUME Moves
    PROVE  [Lifecycle!Next]_Phases
<1>1. CASE \A k \in Requests : Phase(k)' = Phase(k)
  BY <1>1 DEF Phases
<1>2. ASSUME NEW n \in Requests, NEW from, NEW to, MovesTo(n, from, to)
      PROVE  Lifecycle!Step(n, from, to)
  BY <1>2 DEF MovesTo, Lifecycle!Step
<1>3. CASE \E n \in Requests :
             \/ MovesTo(n, {"none"}, "PENDING") \/ MovesTo(n, {"PENDING"}, "joined")
             \/ MovesTo(n, {"PENDING", "joined"}, "ACCEPTED") \/ MovesTo(n, {"joined"}, "PENDING")
             \/ MovesTo(n, {"PENDING", "ACCEPTED", "EXPIRED"}, "REVOKED")
             \/ MovesTo(n, {"PENDING"}, "EXPIRED")
  BY <1>2, <1>3 DEF Lifecycle!Next, Lifecycle!Issue, Lifecycle!Join, Lifecycle!Accept,
     Lifecycle!GiveUp, Lifecycle!Revoke, Lifecycle!Expire
<1>4. QED
  BY <1>1, <1>3 DEF Moves

\* If the requests that save invitations do not overlap (but for two
\* revocations or two previews), Membership implements InvitationLifecycle, for
\* any number of requests, invitations and users: however members are added,
\* removed and transferred meanwhile, and whatever fails, nobody joins through
\* a closed invitation and no closed invitation opens again.
THEOREM InvitationsLive == ASSUME SavesApart PROVE Spec => EveryInvitationLives
<1>1. Init => Lifecycle!Init
  BY DEF Init, Lifecycle!Init, Phase
<1>2. LInv /\ [Next]_vars => [Lifecycle!Next]_Phases
  BY NextMoves, MovesAreSteps
<1>3. LInv /\ [Next]_vars => LInv'
  BY NextLInv
<1>4. QED
  BY <1>1, <1>2, <1>3, InitLInv, PTL DEF Spec, EveryInvitationLives, Lifecycle!Spec, Phases


-----------------------------------------------------------------------------
(***************************************************************************)
(* What Apart promises, whatever it is: requests in flight are admitted    *)
(* pairs.                                                                  *)
(***************************************************************************)
AdmittedPairs == \A i, j \in Requests :
    pc[i] \in Awaits /\ pc[j] \in Awaits /\ i # j => {Op(i), Op(j)} \notin Apart

OfItsKind == \A i \in Requests :
    /\ Op(i) \in WorkspaceOps => kind = "workspace"
    /\ Op(i) \in ProjectOps => kind = "project"

AInv == TInv /\ AdmittedPairs /\ OfItsKind

\* A step of request i after its arrival.
StepOf(i) == SpaceStep(i) \/ MemberStep(i) \/ InvitationStep(i) \/ Abort(i)

\* It moves only request i, and writes the row of the space in two awaits.
LEMMA StepFacts ==
    ASSUME TInv, NEW i \in Requests, StepOf(i)
    PROVE  /\ pc[i] \in Awaits /\ \A j \in Requests \ {i} : pc'[j] = pc[j]
           /\ pc'[i] # "new"
           /\ \A j \in Requests : Op(j)' = Op(j) /\ User(j)' = User(j)
           /\ UNCHANGED <<heldSpace, kind>>
           /\ \/ UNCHANGED space /\ pc[i] # "saveSpace"
              \/ UNCHANGED space /\ pc'[i] = "failed"
              \/ /\ pc[i] \in {"saveSpace", "saveBoth", "saveOwner"}
                 /\ space' = SavedSpace(i)
           /\ pc[i] = "saveSpace" => pc'[i] \in Ended
<1>1. CASE SpaceStep(i)
  BY <1>1 DEF SpaceStep, SaveSpace, FindDefault, InsertDefault, Advance, tables, mail, held, Op,
     User, Awaits, Ended, TInv, TypeOK
<1>2. CASE FindMember(i) \/ SaveMember(i) \/ InsertMember(i) \/ RejectMember(i) \/ DeleteMember(i)
  <2>1. /\ pc[i] \in {"findMember", "saveMember", "insertMember", "deleteMember"}
        /\ UNCHANGED <<arg, heldSpace, kind, space>>
    BY <1>2 DEF FindMember, SaveMember, InsertMember, RejectMember, DeleteMember, PutMember,
       Advance, tables, held
  <2>2. PICK next \in {"saveMember", "deleteMember", "findPending", "insertMember",
                       "saveInvitation", "refused", "done", "failed"} :
          pc' = [pc EXCEPT ![i] = next]
    <3>1. CASE FindMember(i)
      BY <3>1, FindMemberFacts
    <3>2. CASE ~ FindMember(i)
      BY <1>2, <3>2 DEF SaveMember, InsertMember, RejectMember, DeleteMember, Advance
    <3>3. QED
      BY <3>1, <3>2
  <2>3. QED
    BY <2>1, <2>2 DEF TInv, TypeOK, Op, User, Awaits
<1>3. CASE FindOld(i) \/ DeleteNext(i) \/ SaveOwner(i) \/ SaveOld(i)
  <2>1. /\ pc[i] \in {"findOld", "deleteNext", "saveBoth", "saveOwner", "saveOld"}
        /\ UNCHANGED <<arg, heldSpace, kind>>
        /\ UNCHANGED space \/ (pc[i] \in {"saveBoth", "saveOwner"} /\ space' = SavedSpace(i))
    BY <1>3 DEF FindOld, DeleteNext, SaveOwner, SaveOld, PutMember, Advance, tables, held
  <2>2. PICK next \in {"findNext", "saveBoth", "saveOld", "saveOwner", "done"} :
          pc' = [pc EXCEPT ![i] = next]
    BY <1>3 DEF FindOld, DeleteNext, SaveOwner, SaveOld, Advance
  <2>3. QED
    BY <2>1, <2>2 DEF TInv, TypeOK, Op, User, Awaits
<1>4. CASE FindNext(i)
  <2>1. pc[i] = "findNext" /\ UNCHANGED <<heldSpace, kind, space>>
    BY <1>4 DEF FindNext, tables, held
  <2>2. PICK next \in {"saveBoth", "deleteNext"} : pc' = [pc EXCEPT ![i] = next]
    BY <1>4 DEF FindNext, Advance
  <2>3. UNCHANGED arg \/ \E id : arg' = [arg EXCEPT ![i].on = id]
    BY <1>4 DEF FindNext, Advance
  <2>4. \A j \in Requests : Op(j)' = Op(j) /\ User(j)' = User(j)
    BY <2>3 DEF Op, User, TInv, TypeOK, Arg
  <2>5. QED
    BY <2>1, <2>2, <2>4 DEF TInv, TypeOK, Awaits
<1>5. CASE FindPending(i) \/ FindInvitation(i) \/ FindSpace(i) \/ Mail(i)
  BY <1>5 DEF FindPending, FindInvitation, FindSpace, Mail, Advance, tables, held, Op, User,
     Awaits, TInv, TypeOK
<1>6. CASE SaveInvitation(i)
  <2>1. /\ pc[i] = "saveInvitation"
        /\ UNCHANGED <<arg, heldSpace, kind, space>>
    BY <1>6, SaveInvitationFacts
  <2>2. PICK next \in {"mail", "refused", "done", "failed"} : pc' = [pc EXCEPT ![i] = next]
    BY <1>6, SaveInvitationFacts
  <2>3. QED
    BY <2>1, <2>2 DEF TInv, TypeOK, Op, User, Awaits
<1>7. CASE Abort(i)
  BY <1>7 DEF Abort, Advance, tables, held, Op, User, Awaits, Ended, TInv, TypeOK
<1>8. QED
  BY <1>1, <1>2, <1>3, <1>4, <1>5, <1>6, <1>7 DEF StepOf, MemberStep, InvitationStep

\* An arrival moves only request i, and changes no table.
LEMMA ArrivalFacts ==
    ASSUME TInv, NEW i \in Requests, Arrive(i)
    PROVE  /\ pc[i] = "new" /\ pc'[i] \in Awaits
           /\ \A j \in Requests \ {i} : /\ pc'[j] = pc[j] /\ arg'[j] = arg[j]
                                        /\ heldSpace'[j] = heldSpace[j]
           /\ Op(i)' \in Ops /\ Admitted(Op(i)')
           /\ Op(i)' \in WorkspaceOps => kind = "workspace"
           /\ Op(i)' \in ProjectOps => kind = "project"
           /\ UNCHANGED <<kind, space, members, invitations, heldMember>>
           /\ Op(i)' \notin {"createProject", "accept", "preview"} =>
                 ~ space.deleted /\ heldSpace'[i] = space
<1>1. PICK where \in Awaits, a \in Arg : a.op \in Ops /\ ArrivesAs(i, where, a)
  BY ArriveFacts
<1>2. /\ pc[i] = "new" /\ pc' = [pc EXCEPT ![i] = where] /\ Admitted(a.op)
      /\ a.op \in WorkspaceOps => kind = "workspace"
      /\ a.op \in ProjectOps => kind = "project"
      /\ arg' = [arg EXCEPT ![i] = [op |-> a.op, user |-> a.user, on |-> a.on]]
      /\ UNCHANGED <<kind, space, members, invitations>>
  BY <1>1 DEF ArrivesAs, Start, tables
<1>3. Op(i)' = a.op /\ pc'[i] = where
  BY <1>2 DEF TInv, TypeOK, Op
<1>4. \A j \in Requests \ {i} : pc'[j] = pc[j] /\ arg'[j] = arg[j]
  BY <1>2 DEF TInv, TypeOK
<1>5. CASE a.op = "createProject"
  <2>1. UNCHANGED <<heldSpace, heldMember>>
    BY <1>1, <1>5 DEF ArrivesAs, held
  <2>2. QED
    BY <1>1, <1>2, <1>3, <1>4, <1>5, <2>1
<1>6. CASE a.op \in {"accept", "preview"}
  <2>1. UNCHANGED <<heldSpace, heldMember>>
    BY <1>1, <1>6 DEF ArrivesAs, ReadsInvitation
  <2>2. QED
    BY <1>1, <1>2, <1>3, <1>4, <1>6, <2>1
<1>7. CASE a.op \notin {"createProject", "accept", "preview"}
  <2>1. ReadsSpace(i)
    BY <1>1, <1>7 DEF ArrivesAs
  <2>2. /\ ~ space.deleted /\ heldSpace'[i] = space /\ UNCHANGED heldMember
        /\ \A j \in Requests \ {i} : heldSpace'[j] = heldSpace[j]
    BY <2>1 DEF ReadsSpace, TInv, TypeOK
  <2>3. QED
    BY <1>1, <1>2, <1>3, <1>4, <2>2
<1>8. QED
  BY <1>5, <1>6, <1>7

LEMMA InitAInv == Init => AInv
<1>1. Init => AdmittedPairs /\ OfItsKind
  BY DEF Init, AdmittedPairs, OfItsKind, Awaits, Op, WorkspaceOps, ProjectOps
<1>2. QED
  BY <1>1, InitTInv DEF AInv

LEMMA ArriveAInv ==
    ASSUME AInv, NEW i \in Requests, Arrive(i)
    PROVE  AdmittedPairs' /\ OfItsKind'
<1>1. TInv
  BY DEF AInv
<1>2. /\ pc[i] = "new" /\ pc'[i] \in Awaits
      /\ \A j \in Requests \ {i} : pc'[j] = pc[j] /\ Op(j)' = Op(j)
      /\ Admitted(Op(i)') /\ UNCHANGED kind
      /\ Op(i)' \in WorkspaceOps => kind = "workspace"
      /\ Op(i)' \in ProjectOps => kind = "project"
  BY <1>1, ArrivalFacts DEF Op
<1>3. \A j \in Requests : pc[j] \in Awaits =>
          {Op(i)', Op(j)} \notin Apart /\ {Op(j), Op(i)'} \notin Apart
  <2>1. SUFFICES ASSUME NEW j \in Requests, pc[j] \in Awaits
                 PROVE  {Op(i)', Op(j)} \notin Apart /\ {Op(j), Op(i)'} \notin Apart
    OBVIOUS
  <2>2. {Op(i)', Op(j)} \notin Apart
    BY <1>2, <2>1 DEF Admitted, InFlight
  <2>3. {Op(i)', Op(j)} = {Op(j), Op(i)'}
    OBVIOUS
  <2>4. QED
    BY <2>2, <2>3
<1>4. AdmittedPairs'
  <2>1. SUFFICES ASSUME NEW j \in Requests, NEW k \in Requests, j # k,
                        pc'[j] \in Awaits, pc'[k] \in Awaits
                 PROVE  {Op(j)', Op(k)'} \notin Apart
    BY DEF AdmittedPairs
  <2>2. CASE j = i
    BY <1>2, <1>3, <2>1, <2>2
  <2>3. CASE k = i
    BY <1>2, <1>3, <2>1, <2>3
  <2>4. CASE j # i /\ k # i
    BY <1>2, <2>1, <2>4 DEF AInv, AdmittedPairs
  <2>5. QED
    BY <2>2, <2>3, <2>4
<1>5. OfItsKind'
  BY <1>2 DEF AInv, OfItsKind
<1>6. QED
  BY <1>4, <1>5

LEMMA NextAInv == AInv /\ [Next]_vars => AInv'
<1>1. SUFFICES ASSUME AInv, [Next]_vars
               PROVE  AdmittedPairs' /\ OfItsKind'
  BY NextTInv DEF AInv
<1>2. CASE Lapse \/ UNCHANGED vars
  BY <1>1, <1>2 DEF AInv, AdmittedPairs, OfItsKind, Op, Lapse, vars, tables, mail, held
<1>3. ASSUME NEW i \in Requests, StepOf(i)
      PROVE  AdmittedPairs' /\ OfItsKind'
  <2>1. /\ pc[i] \in Awaits /\ \A j \in Requests \ {i} : pc'[j] = pc[j]
        /\ \A j \in Requests : Op(j)' = Op(j)
        /\ UNCHANGED kind
    BY <1>1, <1>3, StepFacts DEF AInv
  <2>2. QED
    BY <1>1, <2>1 DEF AInv, AdmittedPairs, OfItsKind
<1>4. QED
  BY <1>1, <1>2, <1>3, ArriveAInv DEF Next, StepOf

-----------------------------------------------------------------------------
(***************************************************************************)
(* The row of the space.  Who holds it to save it holds what is there: it  *)
(* is not deleted, and in a project it has the same settings.              *)
(***************************************************************************)
SpaceSavers == {"updateSpace", "settings", "transfer"}
DeletionsApart == \A op \in SpaceSavers : {op, "deleteSpace"} \in Apart
SettingsApart == {"settings"} \in Apart /\ {"settings", "updateSpace"} \in Apart

SavesLive == \A i \in Requests : pc[i] \in Awaits /\ Op(i) \in SpaceSavers =>
    heldSpace[i] \in Space /\ ~ heldSpace[i].deleted /\ ~ space.deleted

SavesSettings == \A i \in Requests :
    kind = "project" /\ pc[i] \in Awaits /\ Op(i) \in {"updateSpace", "settings"} =>
        heldSpace[i] \in Space /\ heldSpace[i].settings = space.settings

\* Whose step may write the row, and where.
LEMMA WriterFacts ==
    ASSUME TInv, NEW i \in Requests, StepOf(i)
    PROVE  \/ UNCHANGED space /\ (pc'[i] = "done" => Op(i) # "settings")
           \/ /\ Op(i) \in SpaceSavers \cup {"deleteSpace"} /\ space' = SavedSpace(i)
              /\ pc[i] \in Awaits /\ heldSpace[i] \in Space
<1>1. /\ pc[i] \in Awaits
      /\ \/ UNCHANGED space /\ pc[i] # "saveSpace"
         \/ UNCHANGED space /\ pc'[i] = "failed"
         \/ /\ pc[i] \in {"saveSpace", "saveBoth", "saveOwner"}
            /\ space' = SavedSpace(i)
  BY StepFacts
<1>2. <<Op(i), pc[i]>> \in Stages
  BY <1>1 DEF TInv, Shape
<1>3. Op(i) = "settings" => pc[i] = "saveSpace"
  BY <1>2 DEF Stages
<1>4. pc[i] \in {"saveSpace", "saveBoth", "saveOwner"} =>
          Op(i) \in SpaceSavers \cup {"deleteSpace"} /\ heldSpace[i] \in Space
  BY <1>2 DEF Stages, SpaceSavers, TInv, Shape, HoldsSpace
<1>5. QED
  BY <1>1, <1>3, <1>4

\* What it writes.
LEMMA SavedFacts ==
    ASSUME TInv, NEW i \in Requests, heldSpace[i] \in Space, User(i) \in Users \/ Op(i) # "transfer"
    PROVE  /\ Op(i) = "settings" => /\ SavedSpace(i).settings = heldSpace[i].settings \cup {i}
                                    /\ SavedSpace(i).deleted = heldSpace[i].deleted
           /\ Op(i) = "updateSpace" => SavedSpace(i) = heldSpace[i]
           /\ Op(i) = "transfer" => SavedSpace(i).deleted = heldSpace[i].deleted
           /\ Op(i) = "deleteSpace" => SavedSpace(i).deleted /\ SavedSpace(i).settings = space.settings
BY DEF SavedSpace, Space, TInv, TypeOK

DInv == AInv /\ SavesLive

LEMMA InitDInv == Init => DInv
BY InitAInv DEF Init, DInv, SavesLive, Awaits

LEMMA ArriveSavesLive ==
    ASSUME DInv, NEW i \in Requests, Arrive(i)
    PROVE  SavesLive'
<1>1. TInv /\ SavesLive
  BY DEF DInv, AInv
<1>2. /\ \A j \in Requests \ {i} : pc'[j] = pc[j] /\ Op(j)' = Op(j) /\ heldSpace'[j] = heldSpace[j]
      /\ UNCHANGED space
      /\ Op(i)' \notin {"createProject", "accept", "preview"} =>
             ~ space.deleted /\ heldSpace'[i] = space
  BY <1>1, ArrivalFacts DEF Op
<1>3. space \in Space
  BY <1>1 DEF TInv, TypeOK
<1>4. QED
  BY <1>1, <1>2, <1>3 DEF SavesLive, SpaceSavers

LEMMA StepSavesLive ==
    ASSUME DeletionsApart, DInv, NEW i \in Requests, StepOf(i)
    PROVE  SavesLive' /\ (space.deleted => space'.deleted)
<1>1. TInv /\ SavesLive /\ AdmittedPairs
  BY DEF DInv, AInv
<1>2. /\ pc[i] \in Awaits /\ \A j \in Requests \ {i} : pc'[j] = pc[j]
      /\ \A j \in Requests : Op(j)' = Op(j) /\ heldSpace'[j] = heldSpace[j]
  BY <1>1, StepFacts
<1>3. CASE UNCHANGED space
  BY <1>1, <1>2, <1>3 DEF SavesLive
<1>4. CASE Op(i) = "deleteSpace" /\ heldSpace[i] \in Space /\ space' = SavedSpace(i)
  <2>1. space'.deleted
    BY <1>1, <1>4, SavedFacts
  <2>2. \A j \in Requests \ {i} : pc[j] \in Awaits => Op(j) \notin SpaceSavers
    BY <1>1, <1>2, <1>4 DEF AdmittedPairs, DeletionsApart
  <2>3. SavesLive'
    BY <1>2, <1>4, <2>2 DEF SavesLive, SpaceSavers
  <2>4. QED
    BY <2>1, <2>3
<1>5. CASE Op(i) \in SpaceSavers /\ heldSpace[i] \in Space /\ space' = SavedSpace(i)
  <2>1. ~ heldSpace[i].deleted /\ ~ space.deleted
    BY <1>1, <1>2, <1>5 DEF SavesLive
  <2>2. User(i) \in Users \/ Op(i) # "transfer"
    BY <1>1 DEF TInv, Shape, OnUser, Ops, WorkspaceOps
  <2>3. ~ space'.deleted
    BY <1>1, <1>5, <2>1, <2>2, SavedFacts DEF SpaceSavers
  <2>4. SavesLive'
    BY <1>1, <1>2, <2>3 DEF SavesLive
  <2>5. QED
    BY <2>1, <2>4
<1>6. QED
  BY <1>1, <1>3, <1>4, <1>5, WriterFacts

LEMMA NextDInv ==
    ASSUME DeletionsApart
    PROVE  DInv /\ [Next]_vars => DInv' /\ (space.deleted => space'.deleted)
<1>1. SUFFICES ASSUME DInv, [Next]_vars
               PROVE  SavesLive' /\ (space.deleted => space'.deleted)
  BY NextAInv DEF DInv
<1>2. CASE Lapse \/ UNCHANGED vars
  BY <1>1, <1>2 DEF DInv, SavesLive, Op, Lapse, vars, tables, mail, held
<1>3. ASSUME NEW i \in Requests, Arrive(i)
      PROVE  SavesLive' /\ (space.deleted => space'.deleted)
  <2>1. UNCHANGED space
    BY <1>1, <1>3, ArrivalFacts DEF DInv, AInv
  <2>2. QED
    BY <1>1, <1>3, <2>1, ArriveSavesLive
<1>4. QED
  BY <1>1, <1>2, <1>3, StepSavesLive DEF Next, StepOf

\* If a space is not edited, configured or handed over while it is deleted, it
\* stays deleted, however its members and invitations change meanwhile and
\* whatever fails: no request saves the row as it was before.
THEOREM DeletedStays == ASSUME DeletionsApart PROVE Spec => DeletedSpaceStaysDeleted
<1>1. DInv /\ [Next]_vars => [space.deleted => space'.deleted]_space
  BY NextDInv
<1>2. DInv /\ [Next]_vars => DInv'
  BY NextDInv
<1>3. QED
  BY <1>1, <1>2, InitDInv, PTL DEF Spec, DeletedSpaceStaysDeleted

-----------------------------------------------------------------------------
(* The settings of a project. *)

SInv == AInv /\ SavesSettings /\ SettingsKept

LEMMA InitSInv == Init => SInv
<1>1. Init => SavesSettings /\ SettingsKept
  BY DEF Init, SavesSettings, SettingsKept, Answered, Awaits
<1>2. QED
  BY <1>1, InitAInv DEF SInv

LEMMA ArriveSInv ==
    ASSUME SInv, NEW i \in Requests, Arrive(i)
    PROVE  SavesSettings' /\ SettingsKept'
<1>1. TInv /\ SavesSettings /\ SettingsKept
  BY DEF SInv, AInv
<1>2. /\ \A j \in Requests \ {i} : pc'[j] = pc[j] /\ Op(j)' = Op(j) /\ heldSpace'[j] = heldSpace[j]
      /\ pc'[i] \in Awaits
      /\ UNCHANGED <<space, kind>>
      /\ Op(i)' \notin {"createProject", "accept", "preview"} => heldSpace'[i] = space
  BY <1>1, ArrivalFacts DEF Op
<1>3. space \in Space
  BY <1>1 DEF TInv, TypeOK
<1>4. SavesSettings'
  BY <1>1, <1>2, <1>3 DEF SavesSettings
<1>5. SettingsKept'
  BY <1>1, <1>2 DEF SettingsKept, Answered, Awaits
<1>6. QED
  BY <1>4, <1>5

LEMMA StepSInv ==
    ASSUME SettingsApart, SInv, NEW i \in Requests, StepOf(i)
    PROVE  SavesSettings' /\ SettingsKept'
<1>1. TInv /\ AdmittedPairs /\ OfItsKind /\ SavesSettings /\ SettingsKept
  BY DEF SInv, AInv
<1>2. /\ pc[i] \in Awaits /\ \A j \in Requests \ {i} : pc'[j] = pc[j]
      /\ \A j \in Requests : Op(j)' = Op(j) /\ heldSpace'[j] = heldSpace[j]
      /\ UNCHANGED kind
  BY <1>1, StepFacts
<1>3. CASE UNCHANGED space /\ (pc'[i] = "done" => Op(i) # "settings")
  BY <1>1, <1>2, <1>3 DEF SavesSettings, SettingsKept, Answered
<1>4. CASE kind = "project" /\ Op(i) \in {"deleteSpace", "updateSpace"}
  <2>1. CASE UNCHANGED space
    BY <1>3, <1>4, <2>1
  <2>2. CASE heldSpace[i] \in Space /\ space' = SavedSpace(i)
    <3>1. space'.settings = space.settings
      BY <1>1, <1>2, <1>4, <2>2, SavedFacts DEF SavesSettings
    <3>2. QED
      BY <1>1, <1>2, <1>4, <3>1 DEF SavesSettings, SettingsKept, Answered
  <2>3. QED
    BY <1>1, <2>1, <2>2, WriterFacts
<1>5. CASE kind = "project" /\ Op(i) = "settings" /\ heldSpace[i] \in Space /\ space' = SavedSpace(i)
  <2>1. space'.settings = space.settings \cup {i}
    BY <1>1, <1>2, <1>5, SavedFacts DEF SavesSettings
  <2>2. \A j \in Requests \ {i} : pc[j] \in Awaits => Op(j) \notin {"updateSpace", "settings"}
    <3>1. SUFFICES ASSUME NEW j \in Requests \ {i}, pc[j] \in Awaits,
                          Op(j) \in {"updateSpace", "settings"}
                   PROVE  FALSE
      OBVIOUS
    <3>2. {Op(i), Op(j)} \notin Apart
      BY <1>1, <1>2, <3>1 DEF AdmittedPairs
    <3>3. {Op(i), Op(j)} = {"settings"} \/ {Op(i), Op(j)} = {"settings", "updateSpace"}
      BY <1>5, <3>1
    <3>4. QED
      BY <3>2, <3>3 DEF SettingsApart
  <2>3. pc'[i] \notin Awaits
    <3>1. pc[i] = "saveSpace"
      BY <1>1, <1>2, <1>5 DEF TInv, Shape, Stages
    <3>2. pc'[i] \in Ended
      BY <1>1, <3>1, StepFacts
    <3>3. QED
      BY <3>2 DEF Ended, Awaits
  <2>4. SavesSettings'
    BY <1>2, <2>2, <2>3 DEF SavesSettings
  <2>5. SettingsKept'
    BY <1>1, <1>2, <2>1 DEF SettingsKept, Answered
  <2>6. QED
    BY <2>4, <2>5
<1>6. CASE kind = "workspace"
  <2>1. \A j \in Requests : Op(j) # "settings"
    BY <1>1, <1>6 DEF OfItsKind, WorkspaceOps, ProjectOps
  <2>2. QED
    BY <1>1, <1>2, <1>6, <2>1 DEF SavesSettings, SettingsKept
<1>7. Op(i) = "transfer" => kind = "workspace"
  BY <1>1 DEF OfItsKind, WorkspaceOps
<1>8. kind \in {"workspace", "project"}
  BY <1>1 DEF TInv, TypeOK
<1>9. QED
  BY <1>1, <1>3, <1>4, <1>5, <1>6, <1>7, <1>8, WriterFacts DEF SpaceSavers

LEMMA NextSInv == ASSUME SettingsApart PROVE SInv /\ [Next]_vars => SInv'
<1>1. SUFFICES ASSUME SInv, [Next]_vars
               PROVE  SavesSettings' /\ SettingsKept'
  BY NextAInv DEF SInv
<1>2. CASE Lapse \/ UNCHANGED vars
  BY <1>1, <1>2 DEF SInv, SavesSettings, SettingsKept, Answered, Op, Lapse, vars, tables, mail, held
<1>3. QED
  BY <1>1, <1>2, ArriveSInv, StepSInv DEF Next, StepOf

\* If a change of a project's settings overlaps neither with another nor with an
\* edit of the project, no change that was answered is ever lost: each is merged
\* into the settings as they are, and no later save takes it out.
THEOREM SettingsStay == ASSUME SettingsApart PROVE Spec => []SettingsKept
<1>1. SInv => SettingsKept
  BY DEF SInv
<1>2. QED
  BY <1>1, InitSInv, NextSInv, PTL DEF Spec
-----------------------------------------------------------------------------
(***************************************************************************)
(* The rows of members.  A row belongs to the request that made it, and    *)
(* who holds a row to save it made it or holds one that is there.          *)
(***************************************************************************)
HandoversApart == \A op \in {"transfer", "updateMember", "removeMember"} : {"transfer", op} \in Apart
DismissalsApart == \A op \in {"updateMember", "addMember"} : {"removeMember", op} \in Apart

\* Where no row of the request's own can be in the table.
BeforeRow == {"new", "findSpace", "findMember", "findOld"}
Idents == \A m \in members :
    /\ m.id \in Users => m.user = m.id
    /\ m.id \in Requests => m = heldMember[m.id] /\ pc[m.id] \notin BeforeRow

HoldsRow == {"saveMember", "insertMember", "findNext", "deleteNext", "saveBoth", "saveOld"}
RowOf(i) ==
    /\ pc[i] \in HoldsRow =>
          heldMember[i].id = i \/ (heldMember[i] \in members /\ pc[i] # "insertMember")
    /\ pc[i] \in {"findOld", "findNext", "deleteNext"} => heldSpace[i].owner # User(i)
    /\ pc[i] \in {"findNext", "deleteNext"} => heldMember[i].user = heldSpace[i].owner
    /\ pc[i] = "deleteNext" => \E m \in members : m.id = arg[i].on /\ m.user = User(i)
HeldRows == \A i \in Requests : RowOf(i)

MInv == AInv /\ Idents /\ HeldRows

\* A row is known by its id.
LEMMA OneRowPerId ==
    ASSUME TInv, Idents, NEW m \in members, NEW n \in members, m.id = n.id
    PROVE  m = n
<1>1. m \in Member /\ n \in Member
  BY DEF TInv, TypeOK
<1>2. CASE m.id \in Requests
  BY <1>2 DEF Idents
<1>3. CASE m.id \in Users
  BY <1>1, <1>3 DEF Idents, Member
<1>4. QED
  BY <1>1, <1>2, <1>3 DEF Member, MemberIds

LEMMA InitMInv == Init => MInv
<1>1. SUFFICES ASSUME Init PROVE Idents /\ HeldRows
  BY InitAInv DEF MInv
<1>2. \A m \in members : m.id \in Users /\ m.user = m.id
  BY <1>1 DEF Init
<1>3. Idents
  BY <1>2, ConstantsAssumption DEF Idents
<1>4. HeldRows
  BY <1>1 DEF Init, HeldRows, RowOf, HoldsRow
<1>5. QED
  BY <1>3, <1>4

\* A transfer is asked for another user than the owner, and so is a member.
LEMMA NewcomerArrives ==
    ASSUME TInv, NEW i \in Requests, Arrive(i), Op(i)' \in {"transfer", "addMember"}
    PROVE  User(i)' # space.owner
<1>1. ASSUME NEW where, NEW op, NEW u, NEW on, Start(i, where, op, u, on)
      PROVE  op \in {"transfer", "addMember"} /\ User(i)' = u
  BY <1>1 DEF Start, Op, User, TInv, TypeOK
<1>2. CASE StartInSpace(i)
  <2>1. \A op \in {"updateSpace", "deleteSpace", "settings"} : ~ Start(i, "saveSpace", op, Nobody, Nobody)
    BY <1>1
  <2>2. \A where, u : ~ Start(i, where, "invite", u, Nobody)
    BY <1>1
  <2>3. \A m \in members, op \in {"updateMember", "removeMember"} :
            ~ Start(i, "findMember", op, m.user, m.id)
    BY <1>1
  <2>4. \A n \in Requests : ~ Start(i, "findInvitation", "revoke", invitations[n].user, n)
    BY <1>1
  <2>5. CASE \E u \in Users \ {space.owner} :
                \/ Start(i, "findOld", "transfer", u, Nobody)
                \/ Start(i, "findMember", "addMember", u, Nobody)
                \/ Start(i, IF kind = "project" THEN "findMember" ELSE "findPending",
                         "invite", u, Nobody)
    <3>1. PICK u \in Users \ {space.owner} :
             \/ Start(i, "findOld", "transfer", u, Nobody)
             \/ Start(i, "findMember", "addMember", u, Nobody)
             \/ Start(i, IF kind = "project" THEN "findMember" ELSE "findPending",
                      "invite", u, Nobody)
      BY <2>5
    <3>2. User(i)' = u
      BY <1>1, <2>2, <3>1
    <3>3. QED
      BY <3>2
  <2>6. QED
    BY <1>2, <2>1, <2>3, <2>4, <2>5 DEF StartInSpace
<1>3. CASE StartWithToken(i)
  <2>1. \E n \in Requests : \/ Start(i, "saveInvitation", "preview", invitations[n].user, n)
                            \/ Start(i, "findSpace", "accept", invitations[n].user, n)
    BY <1>3 DEF StartWithToken
  <2>2. QED
    BY <1>1, <2>1
<1>4. CASE StartCreateProject(i)
  <2>1. \E u \in Users : Start(i, "findDefault", "createProject", u, Nobody)
    BY <1>4 DEF StartCreateProject
  <2>2. QED
    BY <1>1, <2>1
<1>5. QED
  BY <1>2, <1>3, <1>4 DEF Arrive

LEMMA ArriveMInv ==
    ASSUME MInv, NEW i \in Requests, Arrive(i)
    PROVE  Idents' /\ HeldRows' /\ UNCHANGED members
<1>1. TInv
  BY DEF MInv, AInv
<1>2. /\ pc[i] = "new" /\ pc'[i] \in Awaits
      /\ \A j \in Requests \ {i} : /\ pc'[j] = pc[j] /\ arg'[j] = arg[j]
                                   /\ heldSpace'[j] = heldSpace[j]
      /\ Op(i)' \notin {"createProject", "accept", "preview"} => heldSpace'[i] = space
      /\ UNCHANGED <<members, heldMember>>
  BY <1>1, ArrivalFacts
<1>3. Idents'
  <2>1. \A m \in members : m.id \in Requests => m.id # i
    BY <1>2 DEF MInv, Idents, BeforeRow
  <2>2. QED
    BY <1>2, <2>1 DEF MInv, Idents
<1>4. \A j \in Requests \ {i} : RowOf(j)'
  BY <1>2 DEF MInv, HeldRows, RowOf, User
<1>5. RowOf(i)'
  <2>1. PICK where \in Awaits, a \in Arg : a.op \in Ops /\ ArrivesAs(i, where, a)
    BY <1>1, ArriveFacts
  <2>2. pc'[i] = where /\ Op(i)' = a.op /\ <<a.op, where>> \in Stages
    BY <1>1, <2>1 DEF ArrivesAs, Start, Op, TInv, TypeOK
  <2>3. where \notin HoldsRow
    <3>1. CASE a.op \in {"createProject", "accept", "preview"}
      BY <2>1, <2>2, <3>1 DEF ArrivesAs, Stages, HoldsRow
    <3>2. CASE a.op \notin {"createProject", "accept", "preview"}
      BY <2>1, <3>2 DEF ArrivesAs, HoldsRow
    <3>3. QED
      BY <3>1, <3>2
  <2>4. where = "findOld" => Op(i)' = "transfer"
    BY <2>2 DEF Stages
  <2>5. where = "findOld" => heldSpace'[i].owner # User(i)'
    BY <1>1, <1>2, <2>4, NewcomerArrives
  <2>6. QED
    BY <2>2, <2>3, <2>5 DEF RowOf, HoldsRow
<1>6. QED
  BY <1>2, <1>3, <1>4, <1>5 DEF HeldRows

\* A step of request i leaves what the others were given and hold.
LEMMA OthersHold ==
    ASSUME TInv, NEW i \in Requests, StepOf(i)
    PROVE  \A j \in Requests \ {i} : /\ arg'[j] = arg[j] /\ heldMember'[j] = heldMember[j]
                                     /\ pc'[j] = pc[j]
<1>1. \A j \in Requests \ {i} : heldMember'[j] = heldMember[j]
  <2>1. CASE QuietStep(i)
    BY <2>1, QuietFacts
  <2>2. CASE FindPending(i) \/ FindInvitation(i)
    BY <2>2 DEF FindPending, FindInvitation
  <2>3. CASE SaveInvitation(i)
    BY <2>3, SaveInvitationFacts
  <2>4. QED
    BY <2>1, <2>2, <2>3 DEF StepOf, InvitationStep, QuietStep
<1>2. \A j \in Requests \ {i} : arg'[j] = arg[j]
  <2>1. CASE FindNext(i)
    BY <2>1 DEF FindNext, Advance, TInv, TypeOK
  <2>2. CASE SpaceStep(i) \/ Abort(i)
    BY <2>2 DEF SpaceStep, SaveSpace, FindDefault, InsertDefault, Abort, Advance
  <2>3. CASE InvitationStep(i)
    BY <2>3 DEF InvitationStep, FindPending, FindInvitation, FindSpace, SaveInvitation, Mail, Advance
  <2>4. CASE MemberStep(i) /\ ~ FindNext(i)
    BY <2>4 DEF MemberStep, FindMember, SaveMember, InsertMember, RejectMember, DeleteMember,
       FindOld, DeleteNext, SaveOwner, SaveOld, Advance
  <2>5. QED
    BY <2>1, <2>2, <2>3, <2>4 DEF StepOf
<1>3. QED
  BY <1>1, <1>2, StepFacts

\* The steps that neither write nor read a row of a member.
PutStep(i) == SaveMember(i) \/ InsertMember(i) \/ SaveOld(i)
ReadStep(i) == FindMember(i) \/ FindOld(i) \/ FindNext(i)
DeleteStep(i) == DeleteMember(i) \/ DeleteNext(i)
OtherStep(i) ==
    \/ SpaceStep(i) \/ RejectMember(i) \/ SaveOwner(i) \/ InvitationStep(i) \/ Abort(i)

LEMMA OtherFacts ==
    ASSUME TInv, NEW i \in Requests, OtherStep(i)
    PROVE  /\ UNCHANGED <<members, heldMember, arg>>
           /\ pc'[i] \notin {"new", "findOld", "findNext", "deleteNext", "saveMember",
                             "insertMember", "saveBoth"}
           /\ pc'[i] \in BeforeRow => pc[i] \in BeforeRow
           /\ pc'[i] = "saveOld" => pc[i] = "saveBoth"
<1>1. CASE SpaceStep(i) \/ Abort(i)
  BY <1>1 DEF SpaceStep, SaveSpace, FindDefault, InsertDefault, Abort, Advance, tables, held,
     BeforeRow, TInv, TypeOK
<1>2. CASE RejectMember(i) \/ SaveOwner(i)
  BY <1>2 DEF RejectMember, SaveOwner, Advance, tables, held, BeforeRow, TInv, TypeOK
<1>3. CASE FindPending(i) \/ FindInvitation(i) \/ FindSpace(i) \/ Mail(i)
  BY <1>3 DEF FindPending, FindInvitation, FindSpace, Mail, Advance, tables, held,
     BeforeRow, TInv, TypeOK
<1>4. CASE SaveInvitation(i)
  <2>1. UNCHANGED <<members, heldMember, arg>>
    BY <1>4, SaveInvitationFacts
  <2>2. PICK next \in {"mail", "refused", "done", "failed"} : pc' = [pc EXCEPT ![i] = next]
    BY <1>4, SaveInvitationFacts
  <2>3. QED
    BY <2>1, <2>2 DEF BeforeRow, TInv, TypeOK
<1>5. QED
  BY <1>1, <1>2, <1>3, <1>4 DEF OtherStep, InvitationStep

\* What a request holds stays as it was described while no member is removed.
LEMMA OthersRows ==
    ASSUME MInv, NEW i \in Requests, StepOf(i), members \subseteq members'
    PROVE  \A j \in Requests \ {i} : RowOf(j)'
<1>1. TInv /\ HeldRows
  BY DEF MInv, AInv
<1>2. \A j \in Requests \ {i} : /\ arg'[j] = arg[j] /\ heldMember'[j] = heldMember[j]
                               /\ pc'[j] = pc[j] /\ heldSpace'[j] = heldSpace[j]
                               /\ User(j)' = User(j)
  BY <1>1, StepFacts, OthersHold
<1>3. QED
  BY <1>1, <1>2 DEF HeldRows, RowOf

LEMMA OtherMInv ==
    ASSUME MInv, NEW i \in Requests, OtherStep(i)
    PROVE  Idents' /\ HeldRows' /\ UNCHANGED members
<1>1. TInv /\ Idents /\ HeldRows
  BY DEF MInv, AInv
<1>2. /\ UNCHANGED <<members, heldMember, arg>>
      /\ pc'[i] \notin {"new", "findOld", "findNext", "deleteNext", "saveMember",
                        "insertMember", "saveBoth"}
      /\ pc'[i] \in BeforeRow => pc[i] \in BeforeRow
      /\ pc'[i] = "saveOld" => pc[i] = "saveBoth"
  BY <1>1, OtherFacts
<1>3. StepOf(i)
  BY DEF StepOf, OtherStep, MemberStep
<1>4. \A j \in Requests \ {i} : pc'[j] = pc[j] /\ RowOf(j)'
  BY <1>1, <1>2, <1>3, StepFacts, OthersRows
<1>5. Idents'
  BY <1>1, <1>2, <1>4 DEF Idents
<1>6. RowOf(i)'
  BY <1>1, <1>2 DEF HeldRows, RowOf, HoldsRow
<1>7. QED
  BY <1>2, <1>4, <1>5, <1>6 DEF HeldRows

LEMMA ReadMInv ==
    ASSUME MInv, NEW i \in Requests, ReadStep(i)
    PROVE  Idents' /\ HeldRows' /\ UNCHANGED members
<1>1. TInv /\ Idents /\ HeldRows
  BY DEF MInv, AInv
<1>2. StepOf(i) /\ UNCHANGED members
  BY DEF StepOf, ReadStep, MemberStep, FindMember, FindOld, FindNext, tables
<1>3. /\ \A j \in Requests \ {i} : /\ pc'[j] = pc[j] /\ heldMember'[j] = heldMember[j]
                                  /\ RowOf(j)'
      /\ heldSpace' = heldSpace /\ User(i)' = User(i)
  BY <1>1, <1>2, StepFacts, OthersHold, OthersRows
<1>4. CASE FindMember(i)
  <2>1. PICK m \in Member, next \in Awaits \cup Ended :
          /\ m \in members \/ next = "refused" \/ m.id = i
          /\ heldMember' = [heldMember EXCEPT ![i] = m]
          /\ pc[i] = "findMember" /\ pc' = [pc EXCEPT ![i] = next]
          /\ next \in {"saveMember", "deleteMember", "findPending", "insertMember",
                       "saveInvitation", "refused"}
          /\ next = "insertMember" => m.id = i
    BY <1>1, <1>4, FindMemberFacts
  <2>2. heldMember'[i] = m /\ pc'[i] = next
    BY <1>1, <2>1 DEF TInv, TypeOK
  <2>3. RowOf(i)'
    BY <1>2, <2>1, <2>2 DEF RowOf, HoldsRow
  <2>4. Idents'
    BY <1>1, <1>2, <1>3, <2>1 DEF Idents, BeforeRow
  <2>5. QED
    BY <1>2, <1>3, <2>3, <2>4 DEF HeldRows
<1>5. CASE FindOld(i)
  <2> DEFINE found == MembersOf(heldSpace[i].owner)
             new == [id |-> i, user |-> heldSpace[i].owner]
             m == IF found = {} THEN new ELSE CHOOSE m \in found : TRUE
  <2>1. pc[i] = "findOld" /\ pc'[i] = "findNext" /\ heldMember'[i] = m
    BY <1>1, <1>5 DEF FindOld, Advance, TInv, TypeOK
  <2>2. m = new \/ m \in found
    OBVIOUS
  <2>3. m.user = heldSpace[i].owner /\ (m.id = i \/ m \in members)
    BY <2>2 DEF MembersOf
  <2> HIDE DEF m
  <2>4. RowOf(i)'
    BY <1>1, <1>2, <1>3, <2>1, <2>3 DEF HeldRows, RowOf, HoldsRow
  <2>5. Idents'
    BY <1>1, <1>2, <1>3, <2>1 DEF Idents, BeforeRow
  <2>6. QED
    BY <1>2, <1>3, <2>4, <2>5 DEF HeldRows
<1>6. CASE FindNext(i)
  <2>1. pc[i] = "findNext" /\ heldMember' = heldMember /\ Op(i) = "transfer"
    BY <1>1, <1>6 DEF FindNext, held, TInv, Shape, Stages, Awaits
  <2>2. \/ pc'[i] = "saveBoth"
        \/ /\ pc'[i] = "deleteNext"
           /\ \E m \in members : m.user = User(i) /\ arg'[i].on = m.id
    <3>1. CASE pc' = [pc EXCEPT ![i] = "saveBoth"]
      BY <1>1, <3>1 DEF TInv, TypeOK
    <3>2. CASE \E m \in MembersOf(User(i)) :
                 arg' = [arg EXCEPT ![i].on = m.id] /\ pc' = [pc EXCEPT ![i] = "deleteNext"]
      <4>1. PICK m \in MembersOf(User(i)) :
              arg' = [arg EXCEPT ![i].on = m.id] /\ pc' = [pc EXCEPT ![i] = "deleteNext"]
        BY <3>2
      <4>2. arg'[i].on = m.id /\ pc'[i] = "deleteNext"
        BY <1>1, <4>1 DEF TInv, TypeOK, Arg
      <4>3. QED
        BY <4>1, <4>2 DEF MembersOf
    <3>3. QED
      BY <1>6, <3>1, <3>2 DEF FindNext, Advance
  <2>3. RowOf(i)'
    BY <1>1, <1>2, <1>3, <2>1, <2>2 DEF HeldRows, RowOf, HoldsRow
  <2>4. Idents'
    BY <1>1, <1>2, <1>3, <2>1, <2>2 DEF Idents, BeforeRow
  <2>5. QED
    BY <1>2, <1>3, <2>3, <2>4 DEF HeldRows
<1>7. QED
  BY <1>4, <1>5, <1>6 DEF ReadStep

\* A row that a save adds is the request's own.
LEMMA PutMInv ==
    ASSUME MInv, NEW i \in Requests, PutStep(i)
    PROVE  /\ Idents' /\ HeldRows'
           /\ \A m \in members' \ members : m.id \in InFlight
<1>1. TInv /\ Idents /\ HeldRows
  BY DEF MInv, AInv
<1>2. /\ StepOf(i) /\ PutMember(i) /\ pc[i] \in {"saveMember", "insertMember", "saveBoth", "saveOld"}
      /\ pc'[i] \in {"done", "saveInvitation", "saveOwner"}
  BY <1>1 DEF StepOf, PutStep, MemberStep, SaveMember, InsertMember, SaveOld, Advance, TInv, TypeOK
<1>3. /\ members' = members \cup {heldMember[i]} /\ UNCHANGED heldMember
      /\ heldMember[i] \in Member
  BY <1>1, <1>2, PutFacts DEF HoldsMember
<1>4. heldMember[i].id = i \/ heldMember[i] \in members
  BY <1>1, <1>2 DEF HeldRows, RowOf, HoldsRow
<1>5. \A j \in Requests \ {i} : pc'[j] = pc[j] /\ RowOf(j)'
  BY <1>1, <1>2, <1>3, StepFacts, OthersRows
<1>6. RowOf(i)'
  BY <1>2 DEF RowOf, HoldsRow
<1>7. Idents'
  <2>1. i \notin Users
    BY ConstantsAssumption
  <2>2. QED
    BY <1>1, <1>2, <1>3, <1>4, <1>5, <2>1 DEF Idents, BeforeRow
<1>8. \A m \in members' \ members : m.id \in InFlight
  BY <1>2, <1>3, <1>4 DEF InFlight, Awaits
<1>9. QED
  BY <1>5, <1>6, <1>7, <1>8 DEF HeldRows

\* Who removes a member meets nobody who holds a row to save it but in accept,
\* which inserts its own; a transfer removes another row than it holds.
LEMMA DeleteMInv ==
    ASSUME HandoversApart, DismissalsApart, MInv, NEW i \in Requests, DeleteStep(i)
    PROVE  Idents' /\ HeldRows' /\ members' \subseteq members
<1>1. TInv /\ Idents /\ HeldRows /\ AdmittedPairs /\ OfItsKind
  BY DEF MInv, AInv
<1>2. /\ StepOf(i) /\ members' \subseteq members /\ UNCHANGED <<arg, heldMember>>
      /\ pc'[i] \in {"done", "saveBoth"}
      /\ pc[i] \in Awaits
  BY <1>1 DEF StepOf, DeleteStep, MemberStep, DeleteMember, DeleteNext, Advance, held, Awaits, TInv, TypeOK
<1>3. Op(i) \in {"removeMember", "transfer"}
  <2>1. pc[i] \in {"deleteMember", "deleteNext"}
    BY DEF DeleteStep, DeleteMember, DeleteNext
  <2>2. QED
    BY <1>1, <2>1 DEF TInv, Shape, Stages, Awaits
<1>4. Idents'
  <2>1. \A j \in Requests \ {i} : pc'[j] = pc[j]
    BY <1>1, <1>2, StepFacts
  <2>2. QED
    BY <1>1, <1>2, <2>1 DEF Idents, BeforeRow
<1>5. ASSUME NEW j \in Requests \ {i}
      PROVE  RowOf(j)'
  <2>1. /\ pc'[j] = pc[j] /\ heldSpace'[j] = heldSpace[j] /\ User(j)' = User(j)
        /\ RowOf(j)
    BY <1>1, <1>2, StepFacts DEF HeldRows
  <2>2. pc[j] \in Awaits => Op(j) \notin {"transfer", "updateMember", "addMember"}
    <3>1. SUFFICES ASSUME pc[j] \in Awaits, Op(j) \in {"transfer", "updateMember", "addMember"}
                   PROVE  FALSE
      OBVIOUS
    <3>2. {Op(i), Op(j)} \notin Apart /\ {Op(j), Op(i)} \notin Apart
      BY <1>1, <1>2, <3>1 DEF AdmittedPairs
    <3>3. ~ (Op(i) = "transfer" /\ Op(j) = "addMember")
      BY <1>1 DEF OfItsKind, WorkspaceOps, ProjectOps
    <3>4. QED
      BY <1>3, <3>1, <3>2, <3>3 DEF HandoversApart, DismissalsApart
  <2>3. pc[j] \in HoldsRow \cup {"findOld"} => pc[j] = "insertMember"
    BY <1>1, <2>2 DEF TInv, Shape, Stages, Awaits, HoldsRow
  <2>4. QED
    BY <1>2, <2>1, <2>3 DEF RowOf, HoldsRow
<1>6. RowOf(i)'
  <2>1. CASE DeleteMember(i)
    BY <1>1, <2>1 DEF DeleteMember, Advance, RowOf, HoldsRow, TInv, TypeOK
  <2>2. CASE DeleteNext(i)
    <3>1. /\ pc[i] = "deleteNext" /\ pc'[i] = "saveBoth"
          /\ members' = {m \in members : m.id # arg[i].on}
      BY <1>1, <2>2 DEF DeleteNext, Advance, TInv, TypeOK
    <3>2. PICK n \in members : n.id = arg[i].on /\ n.user = User(i)
      BY <1>1, <3>1 DEF HeldRows, RowOf
    <3>3. /\ heldMember[i].user # User(i)
          /\ heldMember[i].id = i \/ heldMember[i] \in members
      BY <1>1, <3>1 DEF HeldRows, RowOf, HoldsRow
    <3>4. heldMember[i] \in members => heldMember[i].id # arg[i].on
      BY <1>1, <3>2, <3>3, OneRowPerId
    <3>5. QED
      BY <1>2, <3>1, <3>3, <3>4 DEF RowOf, HoldsRow
  <2>3. QED
    BY <2>1, <2>2 DEF DeleteStep
<1>7. QED
  BY <1>2, <1>4, <1>5, <1>6 DEF HeldRows

LEMMA NextMInv ==
    ASSUME HandoversApart, DismissalsApart
    PROVE  MInv /\ [Next]_vars => MInv' /\ \A m \in members' \ members : m.id \in InFlight
<1>1. SUFFICES ASSUME MInv, [Next]_vars
               PROVE  Idents' /\ HeldRows' /\ \A m \in members' \ members : m.id \in InFlight
  BY NextAInv DEF MInv
<1>2. CASE Lapse \/ UNCHANGED vars
  BY <1>1, <1>2 DEF MInv, Idents, HeldRows, RowOf, User, Lapse, vars, tables, mail, held
<1>3. ASSUME NEW i \in Requests, StepOf(i)
      PROVE  Idents' /\ HeldRows' /\ \A m \in members' \ members : m.id \in InFlight
  <2>1. OtherStep(i) \/ ReadStep(i) \/ PutStep(i) \/ DeleteStep(i)
    BY <1>3 DEF StepOf, MemberStep, OtherStep, ReadStep, PutStep, DeleteStep
  <2>2. QED
    BY <1>1, <2>1, OtherMInv, ReadMInv, PutMInv, DeleteMInv
<1>4. QED
  BY <1>1, <1>2, <1>3, ArriveMInv DEF Next, StepOf

\* If members are neither saved nor handed the ownership while one is removed,
\* and transfers are apart, a save never brings back a member who was removed;
\* nor does a save bring back a deleted space. Invitations may be accepted, and
\* calls fail, at any time.
THEOREM RemovalsHold ==
    ASSUME HandoversApart, DismissalsApart, DeletionsApart
    PROVE  Spec => RemovalsStand
<1>1. MInv /\ [Next]_vars => [\A m \in members' \ members : m.id \in InFlight]_members
  BY NextMInv
<1>2. MInv /\ [Next]_vars => MInv'
  BY NextMInv
<1>3. Spec => RemovedMemberStaysOut
  BY <1>1, <1>2, InitMInv, PTL DEF Spec, RemovedMemberStaysOut
<1>4. Spec => DeletedSpaceStaysDeleted
  BY DeletedStays
<1>5. QED
  BY <1>3, <1>4 DEF RemovalsStand

-----------------------------------------------------------------------------
(***************************************************************************)
(* The last mail for an address works.                                     *)
(***************************************************************************)
\* Two invitations are not asked for at the same time.
InvitesApart == {"invite"} \in Apart

\* The row that a request is about to save: create makes it pending with its own
\* token, and no other request makes it pending.
RowToSave(i) == pc[i] = "saveInvitation" =>
    LET row == heldInvitation[i].row IN
    /\ Op(i) = "invite" => row.status = "PENDING" /\ row.token = i /\ row.user = User(i)
    /\ Op(i) \in {"revoke", "preview"} => row.status # "PENDING"
RowsToSave == \A i \in Requests : RowToSave(i)

IsPending(n) == invitations[n] \in Invitation /\ invitations[n].status = "PENDING"

\* Whoever is about to mail a token has just saved it.
MailsToken == \A i, n \in Requests :
    pc[i] = "mail" /\ IsPending(n) /\ invitations[n].user = User(i) => invitations[n].token = i

\* The token of a pending invitation was mailed last, or the request that saved it
\* has yet to mail it, or failed.
Unmailed(i, u) == pc[i] \in {"mail", "failed"} /\ User(i) = u
TokenIsLast == \A n \in Requests :
    IsPending(n) =>
        LET row == invitations[n] IN
        last[row.user] = row.token \/ Unmailed(row.token, row.user)

KInv == AInv /\ RowsToSave /\ MailsToken /\ TokenIsLast

LEMMA InitKInv == Init => KInv
<1>1. SUFFICES ASSUME Init PROVE RowsToSave /\ MailsToken /\ TokenIsLast
  BY InitAInv DEF KInv
<1>2. \A i \in Requests : pc[i] = "new" /\ invitations[i] = Nobody
  BY <1>1 DEF Init
<1>3. \A n \in Requests : ~ IsPending(n)
  BY <1>2, ConstantsAssumption DEF IsPending
<1>4. QED
  BY <1>2, <1>3 DEF RowsToSave, RowToSave, MailsToken, TokenIsLast

LEMMA ArriveKInv ==
    ASSUME KInv, NEW i \in Requests, Arrive(i)
    PROVE  RowsToSave' /\ MailsToken' /\ TokenIsLast'
<1>1. TInv /\ RowsToSave /\ MailsToken /\ TokenIsLast
  BY DEF KInv, AInv
<1>2. PICK where \in Awaits, a \in Arg : a.op \in Ops /\ ArrivesAs(i, where, a)
  BY <1>1, ArriveFacts
<1>3. /\ pc[i] = "new" /\ pc' = [pc EXCEPT ![i] = where]
      /\ arg' = [arg EXCEPT ![i] = [op |-> a.op, user |-> a.user, on |-> a.on]]
      /\ UNCHANGED <<invitations, last>>
  BY <1>2 DEF ArrivesAs, Start, tables, mail
<1>4. /\ Op(i)' = a.op /\ pc'[i] = where
      /\ \A j \in Requests \ {i} : Op(j)' = Op(j) /\ User(j)' = User(j) /\ pc'[j] = pc[j]
  BY <1>1, <1>3 DEF TInv, TypeOK, Op, User
<1>5. \A j \in Requests \ {i} : heldInvitation'[j] = heldInvitation[j]
  <2>1. CASE a.op \in {"accept", "preview"}
    BY <1>1, <1>2, <2>1 DEF ArrivesAs, ReadsInvitation, TInv, TypeOK
  <2>2. CASE a.op \notin {"accept", "preview"}
    BY <1>2, <2>2 DEF ArrivesAs, ReadsSpace, held
  <2>3. QED
    BY <2>1, <2>2
<1>6. RowToSave(i)'
  <2>1. CASE a.op = "preview"
    <3>1. PICK n \in Requests :
            /\ invitations[n] \in Invitation
            /\ heldInvitation' = [heldInvitation EXCEPT ![i] =
                  [id |-> n, row |-> [invitations[n] EXCEPT !.status = "EXPIRED"]]]
      BY <1>2, <2>1 DEF ArrivesAs, ReadsInvitation
    <3>2. heldInvitation'[i].row.status = "EXPIRED"
      BY <1>1, <3>1 DEF TInv, TypeOK, Invitation
    <3>3. QED
      BY <1>4, <2>1, <3>2 DEF RowToSave
  <2>2. CASE a.op # "preview"
    <3>1. where # "saveInvitation"
      BY <1>2, <2>2 DEF ArrivesAs
    <3>2. QED
      BY <1>4, <3>1 DEF RowToSave
  <2>3. QED
    BY <2>1, <2>2
<1>7. RowsToSave'
  BY <1>1, <1>4, <1>5, <1>6 DEF RowsToSave, RowToSave
<1>8. where # "mail"
  BY <1>2 DEF ArrivesAs, Stages
<1>9. MailsToken'
  BY <1>1, <1>3, <1>4, <1>8 DEF MailsToken, IsPending
<1>10. \A j \in Requests : \A u : Unmailed(j, u) => Unmailed(j, u)'
  BY <1>3, <1>4 DEF Unmailed
<1>11. TokenIsLast'
  BY <1>1, <1>3, <1>10 DEF TokenIsLast, IsPending, Invitation
<1>12. QED
  BY <1>7, <1>9, <1>11

\* A step that saves and mails nothing: who was to mail still is, or failed.
CalmStep(i) == SpaceStep(i) \/ MemberStep(i) \/ FindSpace(i) \/ Abort(i)

\* TokenIsLast and MailsToken depend on little.
LEMMA CalmKeeps ==
    ASSUME KInv, NEW i \in Requests, pc[i] # "failed", pc'[i] # "mail",
           pc[i] = "mail" => pc'[i] = "failed",
           \A j \in Requests : Op(j)' = Op(j) /\ User(j)' = User(j),
           \A j \in Requests \ {i} : pc'[j] = pc[j],
           UNCHANGED <<invitations, last>>
    PROVE  MailsToken' /\ TokenIsLast'
<1>1. MailsToken /\ TokenIsLast
  BY DEF KInv
<1>2. MailsToken'
  BY <1>1 DEF MailsToken, IsPending
<1>3. \A j \in Requests : \A u : Unmailed(j, u) => Unmailed(j, u)'
  BY DEF Unmailed
<1>4. TokenIsLast'
  BY <1>1, <1>3 DEF TokenIsLast, IsPending, Invitation
<1>5. QED
  BY <1>2, <1>4

LEMMA CalmKInv ==
    ASSUME KInv, NEW i \in Requests, CalmStep(i)
    PROVE  RowsToSave' /\ MailsToken' /\ TokenIsLast'
<1>1. TInv /\ RowsToSave
  BY DEF KInv, AInv
<1>2. QuietStep(i) /\ StepOf(i)
  BY DEF CalmStep, QuietStep, StepOf, InvitationStep
<1>3. /\ pc[i] \in Awaits /\ \A j \in Requests \ {i} : pc'[j] = pc[j]
      /\ \A j \in Requests : Op(j)' = Op(j) /\ User(j)' = User(j)
      /\ UNCHANGED <<invitations, heldInvitation>>
      /\ pc[i] = "saveInvitation" => pc'[i] = "failed"
      /\ pc'[i] = "saveInvitation" => Op(i) = "accept"
  BY <1>1, <1>2, QuietFacts, StepFacts
<1>4. UNCHANGED last
  BY DEF CalmStep, SpaceStep, SaveSpace, FindDefault, InsertDefault, MemberStep, FindMember,
     SaveMember, InsertMember, RejectMember, DeleteMember, FindOld, FindNext, DeleteNext,
     SaveOwner, SaveOld, PutMember, FindSpace, Abort, mail
<1>5. pc'[i] # "mail" /\ (pc[i] = "mail" => pc'[i] = "failed")
  <2>1. CASE FindMember(i)
    <3>1. PICK next \in {"saveMember", "deleteMember", "findPending", "insertMember",
                         "saveInvitation", "refused"} :
            pc[i] = "findMember" /\ pc' = [pc EXCEPT ![i] = next]
      BY <1>1, <2>1, FindMemberFacts
    <3>2. QED
      BY <1>1, <3>1 DEF TInv, TypeOK
  <2>2. CASE SpaceStep(i) \/ FindSpace(i) \/ Abort(i)
    BY <1>1, <2>2 DEF SpaceStep, SaveSpace, FindDefault, InsertDefault, FindSpace, Abort,
       Advance, TInv, TypeOK
  <2>3. CASE SaveMember(i) \/ InsertMember(i) \/ RejectMember(i) \/ DeleteMember(i)
    BY <1>1, <2>3 DEF SaveMember, InsertMember, RejectMember, DeleteMember, Advance, TInv, TypeOK
  <2>4. CASE FindOld(i) \/ FindNext(i) \/ DeleteNext(i) \/ SaveOwner(i) \/ SaveOld(i)
    BY <1>1, <2>4 DEF FindOld, FindNext, DeleteNext, SaveOwner, SaveOld, Advance, TInv, TypeOK
  <2>5. QED
    BY <2>1, <2>2, <2>3, <2>4 DEF CalmStep, MemberStep
<1>6. RowsToSave'
  BY <1>1, <1>3 DEF RowsToSave, RowToSave
<1>7. MailsToken' /\ TokenIsLast'
  BY <1>3, <1>4, <1>5, CalmKeeps DEF Awaits
<1>8. QED
  BY <1>6, <1>7

LEMMA FindKInv ==
    ASSUME KInv, NEW i \in Requests, FindPending(i) \/ FindInvitation(i)
    PROVE  RowsToSave' /\ MailsToken' /\ TokenIsLast'
<1>1. TInv /\ RowsToSave
  BY DEF KInv, AInv
<1>2. /\ pc[i] \in {"findPending", "findInvitation"} /\ pc' = [pc EXCEPT ![i] = "saveInvitation"]
      /\ UNCHANGED <<arg, invitations, last>>
  BY DEF FindPending, FindInvitation, Advance, tables, mail
<1>3. /\ pc'[i] = "saveInvitation" /\ \A j \in Requests \ {i} : pc'[j] = pc[j]
      /\ \A j \in Requests : Op(j)' = Op(j) /\ User(j)' = User(j)
  BY <1>1, <1>2 DEF TInv, TypeOK, Op, User
<1>4. MailsToken' /\ TokenIsLast'
  BY <1>2, <1>3, CalmKeeps
<1>5. RowToSave(i)' /\ \A j \in Requests \ {i} : heldInvitation'[j] = heldInvitation[j]
  <2>1. CASE FindPending(i)
    <3> DEFINE found == Pending(invitations, User(i))
               new == [status |-> "PENDING", user |-> User(i), token |-> i]
               n == CHOOSE n \in found : TRUE
               fresh == [id |-> i, row |-> new]
               again == [id |-> n, row |-> [invitations[n] EXCEPT !.token = i]]
    <3>1. heldInvitation' = [heldInvitation EXCEPT ![i] = IF found = {} THEN fresh ELSE again]
      BY <2>1 DEF FindPending
    <3>2. found # {} => n \in found
      OBVIOUS
    <3>3. found # {} => IsPending(n) /\ invitations[n].user = User(i)
      BY <1>1, <3>2 DEF Pending, IsPending, TInv, TypeOK
    <3>4. found # {} => /\ again.row.status = "PENDING" /\ again.row.token = i
                        /\ again.row.user = User(i)
      <4> HIDE DEF n, found
      <4>1. QED
        BY <3>3 DEF IsPending, Invitation
    <3>5. fresh.row.status = "PENDING" /\ fresh.row.token = i /\ fresh.row.user = User(i)
      OBVIOUS
    <3> HIDE DEF fresh, again, found
    <3>6. /\ heldInvitation'[i].row.status = "PENDING"
          /\ heldInvitation'[i].row.token = i /\ heldInvitation'[i].row.user = User(i)
          /\ \A j \in Requests \ {i} : heldInvitation'[j] = heldInvitation[j]
      BY <1>1, <3>1, <3>4, <3>5 DEF TInv, TypeOK
    <3>7. Op(i) = "invite"
      BY <1>1, <2>1 DEF FindPending, TInv, Shape, Stages, Awaits
    <3>8. QED
      BY <1>3, <3>6, <3>7 DEF RowToSave
  <2>2. CASE FindInvitation(i)
    <3>1. pc[i] = "findInvitation" /\ Op(i) = "revoke"
      BY <1>1, <2>2 DEF FindInvitation, TInv, Shape, Stages, Awaits
    <3>2. arg[i].on \in Requests /\ invitations[arg[i].on] \in Invitation
      BY <1>1, <3>1 DEF TInv, Shape
    <3>3. heldInvitation' = [heldInvitation EXCEPT ![i] =
             [id |-> arg[i].on, row |-> [invitations[arg[i].on] EXCEPT !.status = "REVOKED"]]]
      BY <2>2 DEF FindInvitation
    <3>4. /\ heldInvitation'[i].row.status = "REVOKED"
          /\ \A j \in Requests \ {i} : heldInvitation'[j] = heldInvitation[j]
      BY <1>1, <3>2, <3>3 DEF TInv, TypeOK, Invitation
    <3>5. QED
      BY <1>3, <3>1, <3>4 DEF RowToSave
  <2>3. QED
    BY <2>1, <2>2
<1>6. RowsToSave'
  BY <1>1, <1>3, <1>5 DEF RowsToSave, RowToSave
<1>7. QED
  BY <1>4, <1>6

\* A save makes an invitation pending only in create, and then with the token
\* that create is about to mail; the index sees to it that no other is pending.
LEMMA SaveKInv ==
    ASSUME InvitesApart, KInv, NEW i \in Requests, SaveInvitation(i)
    PROVE  RowsToSave' /\ MailsToken' /\ TokenIsLast'
<1>1. TInv /\ RowsToSave /\ MailsToken /\ TokenIsLast /\ AdmittedPairs
  BY DEF KInv, AInv
<1>2. /\ pc[i] = "saveInvitation" /\ heldInvitation[i] \in Held
      /\ Op(i) \in {"invite", "revoke", "preview", "accept"}
      /\ SavedInvitation(i) \in Invitation
      /\ UNCHANGED <<arg, last, heldInvitation>>
  BY <1>1, SaveInvitationFacts
<1>3. StepOf(i)
  BY DEF StepOf, InvitationStep
<1>4. /\ pc[i] \in Awaits /\ \A j \in Requests \ {i} : pc'[j] = pc[j]
      /\ \A j \in Requests : Op(j)' = Op(j) /\ User(j)' = User(j)
  BY <1>1, <1>3, StepFacts
<1>5. CASE UNCHANGED invitations /\ pc' = [pc EXCEPT ![i] = "failed"]
  <2>1. pc'[i] = "failed"
    BY <1>1, <1>5 DEF TInv, TypeOK
  <2>2. MailsToken' /\ TokenIsLast'
    BY <1>2, <1>4, <1>5, <2>1, CalmKeeps
  <2>3. RowsToSave'
    BY <1>1, <1>2, <1>4, <2>1 DEF RowsToSave, RowToSave
  <2>4. QED
    BY <2>2, <2>3
<1>6. CASE /\ invitations' = [invitations EXCEPT ![heldInvitation[i].id] = SavedInvitation(i)]
           /\ PendingIndex(invitations')
  <2>1. PICK n \in Requests : n = heldInvitation[i].id
    BY <1>2 DEF Held
  <2>2. /\ invitations'[n] = SavedInvitation(i)
        /\ \A k \in Requests \ {n} : invitations'[k] = invitations[k]
    BY <1>1, <1>6, <2>1 DEF TInv, TypeOK
  <2>3. /\ Op(i) = "invite" => pc'[i] = "mail"
        /\ Op(i) # "invite" => pc'[i] \in {"done", "refused"}
    <3>1. Op(i) = "invite" \/ Op(i) = "preview" \/ Op(i) \in {"revoke", "accept"}
      BY <1>2
    <3>2. pc' = [pc EXCEPT ![i] = CASE Op(i) = "invite" -> "mail"
                                    [] Op(i) = "preview" -> "refused"
                                    [] OTHER -> "done"]
          \/ ~ PendingIndex([invitations EXCEPT ![heldInvitation[i].id] = SavedInvitation(i)])
      BY DEF SaveInvitation, Advance
    <3>3. pc' = [pc EXCEPT ![i] = CASE Op(i) = "invite" -> "mail"
                                    [] Op(i) = "preview" -> "refused"
                                    [] OTHER -> "done"]
      BY <1>6, <3>2
    <3>4. pc'[i] = CASE Op(i) = "invite" -> "mail"
                     [] Op(i) = "preview" -> "refused"
                     [] OTHER -> "done"
      BY <1>1, <3>3 DEF TInv, TypeOK
    <3>5. QED
      BY <3>1, <3>4
  <2>4. RowsToSave'
    BY <1>1, <1>2, <1>4, <2>3 DEF RowsToSave, RowToSave
  <2>5. \A j \in Requests : \A u : Unmailed(j, u) => Unmailed(j, u)'
    BY <1>2, <1>4 DEF Unmailed
  <2>6. CASE Op(i) = "invite"
    <3>1. /\ SavedInvitation(i).status = "PENDING"
          /\ SavedInvitation(i).token = i /\ SavedInvitation(i).user = User(i)
      BY <1>1, <1>2, <2>6 DEF SavedInvitation, RowsToSave, RowToSave
    \* No other request is about to mail, and no other invitation is pending.
    <3>2. \A j \in Requests \ {i} : pc[j] # "mail"
      <4>1. SUFFICES ASSUME NEW j \in Requests \ {i}, pc[j] = "mail" PROVE FALSE
        OBVIOUS
      <4>2. Op(j) = "invite"
        BY <1>1, <4>1 DEF TInv, Shape, Stages, Awaits
      <4>3. {Op(i), Op(j)} \notin Apart
        BY <1>1, <1>4, <4>1 DEF AdmittedPairs, Awaits
      <4>4. {Op(i), Op(j)} = {"invite"}
        BY <2>6, <4>2
      <4>5. QED
        BY <4>3, <4>4 DEF InvitesApart
    <3>3. pc'[i] = "mail"
      BY <2>3, <2>6
    <3>4. \A k \in Requests : IsPending(k)' /\ invitations'[k].user = User(i) => k = n
      <4>1. SUFFICES ASSUME NEW k \in Requests, IsPending(k)', invitations'[k].user = User(i)
                     PROVE  k = n
        OBVIOUS
      <4>2. User(i) \in Users /\ Nobody \notin Invitation
        BY <1>2, <3>1, ConstantsAssumption DEF Invitation
      <4>3. n \in Pending(invitations', User(i)) /\ k \in Pending(invitations', User(i))
        BY <1>2, <2>2, <3>1, <4>1, <4>2 DEF Pending, IsPending
      <4>4. QED
        BY <1>6, <4>2, <4>3 DEF PendingIndex
    <3>5. MailsToken'
      BY <1>4, <2>2, <3>1, <3>2, <3>4 DEF MailsToken
    <3>6. TokenIsLast'
      <4>1. ASSUME NEW k \in Requests \ {n}, IsPending(k)'
            PROVE  invitations'[k] = invitations[k] /\ IsPending(k)
        BY <2>2, <4>1 DEF IsPending
      <4>2. SUFFICES ASSUME NEW k \in Requests, IsPending(k)', NEW t, NEW u,
                            t = invitations'[k].token, u = invitations'[k].user
                     PROVE  last[u] = t \/ Unmailed(t, u)'
        BY <1>2 DEF TokenIsLast, Unmailed
      <4>3. CASE k = n
        BY <1>4, <2>2, <3>1, <3>3, <4>2, <4>3 DEF Unmailed
      <4>4. CASE k # n
        <5>1. IsPending(k) /\ t = invitations[k].token /\ u = invitations[k].user
          BY <4>1, <4>2, <4>4
        <5>2. t \in Requests /\ (last[u] = t \/ Unmailed(t, u))
          BY <1>1, <5>1 DEF TokenIsLast, IsPending, Invitation
        <5>3. QED
          BY <2>5, <5>2
      <4>5. QED
        BY <4>3, <4>4
    <3>7. QED
      BY <2>4, <3>5, <3>6
  <2>7. CASE Op(i) # "invite"
    <3>1. SavedInvitation(i).status # "PENDING"
      BY <1>1, <1>2, <2>7 DEF SavedInvitation, RowsToSave, RowToSave, Held, Invitation
    <3>2. \A k \in Requests : IsPending(k)' => IsPending(k) /\ invitations'[k] = invitations[k]
      BY <2>2, <3>1 DEF IsPending
    <3>3. pc'[i] # "mail" /\ pc[i] # "mail"
      BY <1>2, <2>3, <2>7
    <3>4. MailsToken'
      BY <1>1, <1>4, <3>2, <3>3 DEF MailsToken
    <3>5. TokenIsLast'
      BY <1>1, <1>2, <2>5, <3>2 DEF TokenIsLast, IsPending, Invitation
    <3>6. QED
      BY <2>4, <3>4, <3>5
  <2>8. QED
    BY <2>6, <2>7
<1>7. QED
  BY <1>1, <1>5, <1>6, SaveInvitationFacts

LEMMA MailKInv ==
    ASSUME KInv, NEW i \in Requests, Mail(i)
    PROVE  RowsToSave' /\ MailsToken' /\ TokenIsLast'
<1>1. TInv /\ RowsToSave /\ MailsToken /\ TokenIsLast
  BY DEF KInv, AInv
<1>2. /\ pc[i] = "mail" /\ pc'[i] = "done"
      /\ last' = [last EXCEPT ![User(i)] = i]
      /\ UNCHANGED <<arg, invitations, heldInvitation>>
  BY <1>1 DEF Mail, Advance, tables, held, TInv, TypeOK
<1>3. /\ \A j \in Requests \ {i} : pc'[j] = pc[j]
      /\ \A j \in Requests : Op(j)' = Op(j) /\ User(j)' = User(j)
  BY <1>1, StepFacts DEF StepOf, InvitationStep
<1>4. RowsToSave' /\ MailsToken'
  BY <1>1, <1>2, <1>3 DEF RowsToSave, RowToSave, MailsToken, IsPending
<1>5. TokenIsLast'
  <2>1. SUFFICES ASSUME NEW k \in Requests, IsPending(k)
                 PROVE  \/ last'[invitations[k].user] = invitations[k].token
                        \/ Unmailed(invitations[k].token, invitations[k].user)'
    BY <1>2 DEF TokenIsLast, IsPending
  <2>2. /\ last \in [Users -> Requests \cup {Nobody}]
        /\ invitations[k].user \in Users /\ invitations[k].token \in Requests
    BY <1>1, <2>1 DEF TInv, TypeOK, IsPending, Invitation
  <2>3. CASE invitations[k].user = User(i)
    <3>1. invitations[k].token = i
      BY <1>1, <1>2, <2>1, <2>3 DEF MailsToken
    <3>2. last'[invitations[k].user] = i
      BY <1>2, <2>2, <2>3
    <3>3. QED
      BY <3>1, <3>2
  <2>4. CASE invitations[k].user # User(i)
    <3>1. last'[invitations[k].user] = last[invitations[k].user]
      BY <1>2, <2>2, <2>4
    <3>2. \/ last[invitations[k].user] = invitations[k].token
          \/ Unmailed(invitations[k].token, invitations[k].user)
      BY <1>1, <2>1 DEF TokenIsLast
    <3>3. ASSUME Unmailed(invitations[k].token, invitations[k].user)
          PROVE  Unmailed(invitations[k].token, invitations[k].user)'
      <4>1. invitations[k].token \in Requests \ {i}
        BY <2>2, <2>4, <3>3 DEF Unmailed
      <4>2. QED
        BY <1>2, <1>3, <3>3, <4>1 DEF Unmailed
    <3>4. QED
      BY <3>1, <3>2, <3>3
  <2>5. QED
    BY <2>3, <2>4
<1>6. QED
  BY <1>4, <1>5

LEMMA NextKInv == ASSUME InvitesApart PROVE KInv /\ [Next]_vars => KInv'
<1>1. SUFFICES ASSUME KInv, [Next]_vars
               PROVE  RowsToSave' /\ MailsToken' /\ TokenIsLast'
  BY NextAInv DEF KInv
<1>2. CASE Lapse \/ UNCHANGED vars
  BY <1>1, <1>2 DEF KInv, RowsToSave, RowToSave, MailsToken, TokenIsLast, Unmailed,
     IsPending, Op, User, Lapse, vars, tables, mail, held
<1>3. ASSUME NEW i \in Requests, StepOf(i)
      PROVE  RowsToSave' /\ MailsToken' /\ TokenIsLast'
  <2>1. \/ CalmStep(i) \/ FindPending(i) \/ FindInvitation(i) \/ SaveInvitation(i) \/ Mail(i)
    BY <1>3 DEF StepOf, InvitationStep, CalmStep
  <2>2. QED
    BY <1>1, <2>1, CalmKInv, FindKInv, SaveKInv, MailKInv
<1>4. QED
  BY <1>1, <1>2, <1>3, ArriveKInv DEF Next, StepOf

\* If two invitations are not asked for at the same time, the last mail for an
\* address holds the token of its pending invitation, unless the request that
\* saved that token is still to mail it or failed to: however the invitation is
\* accepted, revoked, expired, made again, or other requests for it fail.
THEOREM LastMailHolds == ASSUME InvitesApart PROVE Spec => []LastInvitationWorks
<1>1. KInv => LastInvitationWorks
  <2>1. SUFFICES ASSUME KInv, NEW n \in Requests, invitations[n] # Nobody,
                        invitations[n].status = "PENDING"
                 PROVE  \/ last[invitations[n].user] = invitations[n].token
                        \/ pc[invitations[n].token] \in {"mail", "failed"}
    BY DEF LastInvitationWorks
  <2>2. IsPending(n)
    BY <2>1 DEF KInv, AInv, TInv, TypeOK, IsPending
  <2>3. QED
    BY <2>1, <2>2 DEF KInv, TokenIsLast, Unmailed
<1>2. QED
  BY <1>1, InitKInv, NextKInv, PTL DEF Spec

-----------------------------------------------------------------------------
(***************************************************************************)
(* Collaborators are kept once.                                            *)
(*                                                                         *)
(* That the rows are unique is the indices' doing.  That nobody is both an *)
(* owner and a member, or neither after he joined, is an invariant of what *)
(* a transfer has done so far: each step of a request has to be Good.      *)
(***************************************************************************)
(* One row per user: what the two unique indices see to. *)

UInv == TInv /\ OneRowPerUser

LEMMA InitUInv == Init => UInv
<1>1. SUFFICES ASSUME Init PROVE OneRowPerUser
  BY InitTInv DEF UInv
<1>2. \A m \in members : \E u \in Users : m = [id |-> u, user |-> u]
  BY <1>1 DEF Init
<1>3. UserIndex(members)
  BY <1>2 DEF UserIndex
<1>4. PendingIndex(invitations)
  BY <1>1 DEF Init, PendingIndex, Pending
<1>5. QED
  BY <1>3, <1>4 DEF OneRowPerUser

LEMMA NextUInv == UInv /\ [Next]_vars => UInv'
<1>1. SUFFICES ASSUME UInv, [Next]_vars
               PROVE  UserIndex(members') /\ PendingIndex(invitations')
  BY NextTInv DEF UInv, OneRowPerUser, UserIndex, PendingIndex
<1>2. TInv /\ UserIndex(members) /\ PendingIndex(invitations)
  BY <1>1 DEF UInv, OneRowPerUser
<1>3. CASE Lapse \/ UNCHANGED vars
  BY <1>2, <1>3 DEF Lapse, vars, tables
<1>4. ASSUME NEW i \in Requests, Arrive(i)
      PROVE  UserIndex(members') /\ PendingIndex(invitations')
  BY <1>2, <1>4, ArrivalFacts
<1>5. ASSUME NEW i \in Requests, StepOf(i)
      PROVE  UserIndex(members')
  <2>1. CASE OtherStep(i)
    BY <1>2, <2>1, OtherFacts
  <2>2. CASE ReadStep(i)
    BY <1>2, <2>2 DEF ReadStep, FindMember, FindOld, FindNext, tables
  <2>3. CASE PutStep(i)
    BY <2>3 DEF PutStep, SaveMember, InsertMember, SaveOld, PutMember
  <2>4. CASE DeleteStep(i)
    BY <1>2, <2>4 DEF DeleteStep, DeleteMember, DeleteNext, UserIndex
  <2>5. QED
    BY <1>5, <2>1, <2>2, <2>3, <2>4 DEF StepOf, MemberStep, OtherStep, ReadStep, PutStep, DeleteStep
<1>6. ASSUME NEW i \in Requests, StepOf(i)
      PROVE  PendingIndex(invitations')
  <2>1. CASE QuietStep(i)
    BY <1>2, <2>1, QuietFacts
  <2>2. CASE FindPending(i) \/ FindInvitation(i)
    BY <1>2, <2>2 DEF FindPending, FindInvitation, tables
  <2>3. CASE SaveInvitation(i)
    BY <1>2, <2>3, SaveInvitationFacts
  <2>4. QED
    BY <1>6, <2>1, <2>2, <2>3 DEF StepOf, InvitationStep, QuietStep
<1>7. QED
  BY <1>1, <1>3, <1>4, <1>5, <1>6 DEF Next, StepOf

-----------------------------------------------------------------------------
(* One default workspace. *)

CreationsApart == {"createProject"} \in Apart

OneDefault == \A u \in Users : defaults[u] = {} \/ \E i \in Requests : defaults[u] = {i}
NoneToInsert == \A i \in Requests : pc[i] = "insertDefault" => defaults[User(i)] = {}

BInv == AInv /\ OneDefault /\ NoneToInsert

LEMMA InitBInv == Init => BInv
BY InitAInv DEF Init, BInv, OneDefault, NoneToInsert

LEMMA NextBInv == ASSUME CreationsApart PROVE BInv /\ [Next]_vars => BInv'
<1>1. SUFFICES ASSUME BInv, [Next]_vars
               PROVE  OneDefault' /\ NoneToInsert'
  BY NextAInv DEF BInv
<1>2. TInv /\ AdmittedPairs /\ OneDefault /\ NoneToInsert
  BY <1>1 DEF BInv, AInv
<1>3. CASE Lapse \/ UNCHANGED vars
  BY <1>2, <1>3 DEF OneDefault, NoneToInsert, User, Lapse, vars, tables
<1>4. ASSUME NEW i \in Requests, Arrive(i)
      PROVE  OneDefault' /\ NoneToInsert'
  <2>1. PICK where \in Awaits, a \in Arg : a.op \in Ops /\ ArrivesAs(i, where, a)
    BY <1>2, <1>4, ArriveFacts
  <2>2. /\ pc' = [pc EXCEPT ![i] = where] /\ UNCHANGED defaults
        /\ <<a.op, where>> \in Stages
        /\ a.op = "createProject" => where = "findDefault"
    BY <2>1 DEF ArrivesAs, Start, tables
  <2>3. where # "insertDefault"
    BY <2>2 DEF Stages
  <2>4. \A j \in Requests \ {i} : arg'[j] = arg[j]
    BY <1>2, <1>4, ArrivalFacts
  <2>5. QED
    BY <1>2, <2>2, <2>3, <2>4 DEF OneDefault, NoneToInsert, User, TInv, TypeOK
<1>5. ASSUME NEW i \in Requests, StepOf(i)
      PROVE  OneDefault' /\ NoneToInsert'
  <2>1. /\ pc[i] \in Awaits /\ \A j \in Requests \ {i} : pc'[j] = pc[j]
        /\ \A j \in Requests : User(j)' = User(j)
    BY <1>2, <1>5, StepFacts
  <2>2. CASE InsertDefault(i)
    <3>1. /\ pc[i] = "insertDefault" /\ pc'[i] = "done"
          /\ defaults' = [defaults EXCEPT ![User(i)] = @ \cup {i}]
          /\ Op(i) = "createProject"
      BY <1>2, <2>2 DEF InsertDefault, Advance, TInv, TypeOK, Shape, Stages, Awaits
    <3>2. User(i) \in Users /\ defaults[User(i)] = {}
      BY <1>2, <3>1 DEF TInv, Shape, NoneToInsert, OnUser, Ops
    <3>3. /\ defaults'[User(i)] = {i}
          /\ \A u \in Users \ {User(i)} : defaults'[u] = defaults[u]
      BY <1>2, <3>1, <3>2 DEF TInv, TypeOK
    <3>4. \A j \in Requests \ {i} : pc[j] # "insertDefault"
      <4>1. SUFFICES ASSUME NEW j \in Requests \ {i}, pc[j] = "insertDefault" PROVE FALSE
        OBVIOUS
      <4>2. Op(j) = "createProject" /\ pc[j] \in Awaits
        BY <1>2, <4>1 DEF TInv, Shape, Stages, Awaits
      <4>3. {Op(i), Op(j)} \notin Apart
        BY <1>2, <2>1, <4>2 DEF AdmittedPairs
      <4>4. {Op(i), Op(j)} = {"createProject"}
        BY <3>1, <4>2
      <4>5. QED
        BY <4>3, <4>4 DEF CreationsApart
    <3>5. NoneToInsert'
      BY <2>1, <3>1, <3>4 DEF NoneToInsert
    <3>6. QED
      BY <1>2, <3>3, <3>5 DEF OneDefault
  <2>3. CASE FindDefault(i)
    <3>1. /\ pc[i] = "findDefault" /\ UNCHANGED defaults
          /\ pc'[i] = "insertDefault" => defaults[User(i)] = {}
      BY <1>2, <2>3 DEF FindDefault, Advance, OwnsWorkspace, tables, TInv, TypeOK
    <3>2. QED
      BY <1>2, <2>1, <3>1 DEF OneDefault, NoneToInsert
  <2>4. CASE ~ InsertDefault(i) /\ ~ FindDefault(i)
    <3>1. UNCHANGED defaults
      <4>1. CASE SaveSpace(i) \/ Abort(i)
        BY <4>1 DEF SaveSpace, Abort, tables
      <4>2. CASE MemberStep(i)
        BY <4>2 DEF MemberStep, FindMember, SaveMember, InsertMember, RejectMember, DeleteMember,
           FindOld, FindNext, DeleteNext, SaveOwner, SaveOld, PutMember, tables
      <4>3. CASE InvitationStep(i)
        BY <4>3 DEF InvitationStep, FindPending, FindInvitation, FindSpace, SaveInvitation, Mail, tables
      <4>4. QED
        BY <1>5, <2>4, <4>1, <4>2, <4>3 DEF StepOf, SpaceStep
    <3>2. pc'[i] # "insertDefault"
      <4>1. CASE OtherStep(i)
        <5>1. CASE SaveSpace(i) \/ RejectMember(i) \/ SaveOwner(i) \/ Abort(i)
          BY <1>2, <5>1 DEF SaveSpace, RejectMember, SaveOwner, Abort, Advance, TInv, TypeOK
        <5>2. CASE FindPending(i) \/ FindInvitation(i) \/ FindSpace(i) \/ Mail(i)
          BY <1>2, <5>2 DEF FindPending, FindInvitation, FindSpace, Mail, Advance, TInv, TypeOK
        <5>3. CASE SaveInvitation(i)
          <6>1. PICK next \in {"mail", "refused", "done", "failed"} : pc' = [pc EXCEPT ![i] = next]
            BY <1>2, <5>3, SaveInvitationFacts
          <6>2. QED
            BY <1>2, <6>1 DEF TInv, TypeOK
        <5>4. QED
          BY <2>4, <4>1, <5>1, <5>2, <5>3 DEF OtherStep, SpaceStep, InvitationStep
      <4>2. CASE FindMember(i)
        <5>1. PICK next \in {"saveMember", "deleteMember", "findPending", "insertMember",
                             "saveInvitation", "refused"} : pc' = [pc EXCEPT ![i] = next]
          BY <1>2, <4>2, FindMemberFacts
        <5>2. QED
          BY <1>2, <5>1 DEF TInv, TypeOK
      <4>3. CASE FindOld(i) \/ FindNext(i) \/ PutStep(i) \/ DeleteStep(i)
        BY <1>2, <4>3 DEF FindOld, FindNext, PutStep, SaveMember, InsertMember, SaveOld,
           DeleteStep, DeleteMember, DeleteNext, Advance, TInv, TypeOK
      <4>4. QED
        BY <1>5, <4>1, <4>2, <4>3 DEF StepOf, MemberStep, OtherStep, PutStep, DeleteStep
    <3>3. QED
      BY <1>2, <2>1, <3>1, <3>2 DEF OneDefault, NoneToInsert
  <2>5. QED
    BY <2>2, <2>3, <2>4
<1>6. QED
  BY <1>1, <1>3, <1>4, <1>5 DEF Next, StepOf

LEMMA DefaultsOnce == BInv => OneDefaultWorkspace
<1>1. SUFFICES ASSUME BInv, NEW u \in Users PROVE Cardinality(defaults[u]) <= 1
  BY DEF OneDefaultWorkspace
<1>2. CASE defaults[u] = {}
  <2>1. Cardinality(defaults[u]) = 0
    BY <1>2, FS_EmptySet
  <2>2. QED
    BY <2>1
<1>3. CASE \E i \in Requests : defaults[u] = {i}
  <2>1. PICK i \in Requests : defaults[u] = {i}
    BY <1>3
  <2>2. Cardinality(defaults[u]) = 1
    BY <2>1, FS_Singleton
  <2>3. QED
    BY <2>2
<1>4. QED
  BY <1>1, <1>2, <1>3 DEF BInv, OneDefault

-----------------------------------------------------------------------------
(***************************************************************************)
(* Whom a removal removes: the row with the id that the request was given  *)
(* is one of the user that it was given for.                               *)
(***************************************************************************)
TransfersApart == \A op \in {"transfer", "updateSpace", "updateMember", "removeMember", "accept"} :
    {"transfer", op} \in Apart

NewIsNone == \A i \in Requests : pc[i] = "new" => Op(i) = "none"

\* No row with this id is another user's, nor will one be.
IsRowOf(id, u) ==
    /\ id \in Users => id = u
    /\ id \in Requests => pc[id] \notin BeforeRow /\ heldMember[id].user = u
Removers == \A i \in Requests : pc[i] \in Awaits /\ Op(i) = "removeMember" =>
    /\ IsRowOf(arg[i].on, User(i))
    /\ pc[i] = "deleteMember" => heldMember[i].id = arg[i].on

CInv == MInv /\ NewIsNone /\ Removers

LEMMA InitCInv == Init => CInv
<1>1. Init => \A i \in Requests : pc[i] = "new" /\ Op(i) = "none"
  BY DEF Init, Op
<1>2. QED
  BY <1>1, InitMInv DEF CInv, NewIsNone, Removers, Awaits

\* A removal is asked for by the id of a row that is there.
LEMMA RemovalArrives ==
    ASSUME TInv, NEW i \in Requests, Arrive(i), Op(i)' = "removeMember"
    PROVE  \E m \in members : arg'[i].on = m.id /\ User(i)' = m.user
<1>1. ASSUME NEW where, NEW op, NEW u, NEW on, Start(i, where, op, u, on)
      PROVE  op = "removeMember" /\ User(i)' = u /\ arg'[i].on = on
  BY <1>1 DEF Start, Op, User, TInv, TypeOK
<1>2. CASE StartInSpace(i)
  <2>1. \A op \in {"updateSpace", "deleteSpace", "settings"} : ~ Start(i, "saveSpace", op, Nobody, Nobody)
    BY <1>1
  <2>2. \A n \in Requests : ~ Start(i, "findInvitation", "revoke", invitations[n].user, n)
    BY <1>1
  <2>3. CASE \E u \in Users \ {space.owner} :
                \/ Start(i, "findOld", "transfer", u, Nobody)
                \/ Start(i, "findMember", "addMember", u, Nobody)
                \/ Start(i, IF kind = "project" THEN "findMember" ELSE "findPending",
                         "invite", u, Nobody)
    <3>1. \A where, u : /\ ~ Start(i, where, "transfer", u, Nobody)
                       /\ ~ Start(i, where, "addMember", u, Nobody)
                       /\ ~ Start(i, where, "invite", u, Nobody)
      BY <1>1
    <3>2. PICK u \in Users \ {space.owner} :
             \/ Start(i, "findOld", "transfer", u, Nobody)
             \/ Start(i, "findMember", "addMember", u, Nobody)
             \/ Start(i, IF kind = "project" THEN "findMember" ELSE "findPending",
                      "invite", u, Nobody)
      BY <2>3
    <3>3. QED
      BY <3>1, <3>2
  <2>4. CASE \E m \in members, op \in {"updateMember", "removeMember"} :
                Start(i, "findMember", op, m.user, m.id)
    BY <1>1, <2>4
  <2>5. QED
    BY <1>2, <2>1, <2>2, <2>3, <2>4 DEF StartInSpace
<1>3. CASE StartWithToken(i)
  <2>1. \E n \in Requests : \/ Start(i, "saveInvitation", "preview", invitations[n].user, n)
                            \/ Start(i, "findSpace", "accept", invitations[n].user, n)
    BY <1>3 DEF StartWithToken
  <2>2. QED
    BY <1>1, <2>1
<1>4. CASE StartCreateProject(i)
  <2>1. \E u \in Users : Start(i, "findDefault", "createProject", u, Nobody)
    BY <1>4 DEF StartCreateProject
  <2>2. QED
    BY <1>1, <2>1
<1>5. QED
  BY <1>2, <1>3, <1>4 DEF Arrive

\* Once a request holds its row, it holds the same one.
LEMMA RowSettled ==
    ASSUME TInv, NEW i \in Requests, StepOf(i), pc[i] \notin BeforeRow
    PROVE  pc'[i] \notin BeforeRow /\ heldMember'[i] = heldMember[i]
<1>1. CASE OtherStep(i)
  BY <1>1, OtherFacts
<1>2. CASE ReadStep(i)
  <2>1. FindNext(i)
    BY <1>2 DEF ReadStep, FindMember, FindOld, BeforeRow
  <2>2. QED
    BY <2>1 DEF FindNext, Advance, held, BeforeRow, TInv, TypeOK
<1>3. CASE PutStep(i) \/ DeleteStep(i)
  BY <1>3 DEF PutStep, SaveMember, InsertMember, SaveOld, PutMember, DeleteStep, DeleteMember,
     DeleteNext, Advance, held, BeforeRow, TInv, TypeOK
<1>4. QED
  BY <1>1, <1>2, <1>3 DEF StepOf, MemberStep, OtherStep, ReadStep, PutStep, DeleteStep

LEMMA RowOfStays ==
    ASSUME TInv, NEW i \in Requests, StepOf(i), NEW id, NEW u, IsRowOf(id, u)
    PROVE  IsRowOf(id, u)'
<1>1. \A j \in Requests \ {i} : heldMember'[j] = heldMember[j] /\ pc'[j] = pc[j]
  BY OthersHold
<1>2. pc[i] \notin BeforeRow => pc'[i] \notin BeforeRow /\ heldMember'[i] = heldMember[i]
  BY RowSettled
<1>3. QED
  BY <1>1, <1>2 DEF IsRowOf

LEMMA StepRemovers ==
    ASSUME CInv, NEW i \in Requests, StepOf(i)
    PROVE  Removers'
<1>1. TInv /\ Removers
  BY DEF CInv, MInv, AInv
<1>2. /\ \A j \in Requests \ {i} : /\ pc'[j] = pc[j] /\ arg'[j] = arg[j]
                                  /\ heldMember'[j] = heldMember[j]
      /\ \A j \in Requests : Op(j)' = Op(j) /\ User(j)' = User(j)
      /\ pc[i] \in Awaits
  BY <1>1, StepFacts, OthersHold
<1>3. \A j \in Requests \ {i} : pc'[j] \in Awaits /\ Op(j)' = "removeMember" =>
          /\ IsRowOf(arg[j].on, User(j))'
          /\ pc'[j] = "deleteMember" => heldMember'[j].id = arg'[j].on
  <2>1. SUFFICES ASSUME NEW j \in Requests \ {i}, pc[j] \in Awaits, Op(j) = "removeMember"
                 PROVE  /\ IsRowOf(arg[j].on, User(j))'
                        /\ pc'[j] = "deleteMember" => heldMember'[j].id = arg'[j].on
    BY <1>2
  <2>2. PICK id, u : id = arg[j].on /\ u = User(j) /\ IsRowOf(id, u)
    BY <1>1, <2>1 DEF Removers
  <2>3. IsRowOf(id, u)'
    BY <1>1, <2>2, RowOfStays
  <2>4. IsRowOf(arg[j].on, User(j))'
    BY <1>2, <2>2, <2>3 DEF IsRowOf
  <2>5. QED
    BY <1>1, <1>2, <2>1, <2>4 DEF Removers
<1>4. ASSUME pc'[i] \in Awaits, Op(i)' = "removeMember"
      PROVE  /\ IsRowOf(arg[i].on, User(i))'
             /\ pc'[i] = "deleteMember" => heldMember'[i].id = arg'[i].on
  <2>1. Op(i) = "removeMember" /\ pc[i] \in {"findMember", "deleteMember"}
    BY <1>1, <1>2, <1>4 DEF TInv, Shape, Stages
  <2>2. PICK id, u : id = arg[i].on /\ u = User(i) /\ IsRowOf(id, u)
    BY <1>1, <1>2, <2>1 DEF Removers
  <2>3. IsRowOf(id, u)'
    BY <1>1, <2>2, RowOfStays
  <2>4. FindMember(i) \/ DeleteMember(i) \/ Abort(i)
    BY <2>1 DEF StepOf, SpaceStep, SaveSpace, FindDefault, InsertDefault, MemberStep, SaveMember,
       InsertMember, RejectMember, FindOld, FindNext, DeleteNext, SaveOwner, SaveOld,
       InvitationStep, FindPending, FindInvitation, FindSpace, SaveInvitation, Mail
  <2>5. ~ DeleteMember(i) /\ ~ Abort(i)
    BY <1>1, <1>4 DEF DeleteMember, Abort, Advance, Awaits, TInv, TypeOK
  <2>6. UNCHANGED arg
    BY <2>4, <2>5 DEF FindMember, Advance
  <2>7. IsRowOf(arg[i].on, User(i))'
    BY <1>2, <2>2, <2>3, <2>6 DEF IsRowOf
  <2>8. pc'[i] = "deleteMember" => heldMember'[i].id = arg[i].on
    <3> DEFINE found == {m \in members : m.id = arg[i].on}
               m == CHOOSE m \in found : TRUE
    <3>1. FindMember(i)
      BY <2>4, <2>5
    <3>2. /\ found = {} => pc' = [pc EXCEPT ![i] = "refused"]
          /\ found # {} => heldMember' = [heldMember EXCEPT ![i] = m]
      BY <2>1, <3>1 DEF FindMember, Advance
    <3>3. found # {} => m.id = arg[i].on
      OBVIOUS
    <3> HIDE DEF m, found
    <3>4. QED
      BY <1>1, <3>2, <3>3 DEF TInv, TypeOK
  <2>9. QED
    BY <2>6, <2>7, <2>8
<1>5. QED
  BY <1>3, <1>4 DEF Removers

LEMMA ArriveRemovers ==
    ASSUME CInv, NEW i \in Requests, Arrive(i)
    PROVE  Removers'
<1>1. TInv /\ Removers /\ Idents /\ members \subseteq Member
  BY DEF CInv, MInv, AInv, TInv, TypeOK
<1>2. /\ \A j \in Requests \ {i} : pc'[j] = pc[j] /\ arg'[j] = arg[j]
      /\ pc[i] = "new" /\ UNCHANGED heldMember
  BY <1>1, ArrivalFacts
<1>3. \A id, u : IsRowOf(id, u) => IsRowOf(id, u)'
  <2>1. "new" \in BeforeRow
    BY DEF BeforeRow
  <2>2. QED
    BY <1>2, <2>1 DEF IsRowOf
<1>4. \A j \in Requests \ {i} : pc'[j] \in Awaits /\ Op(j)' = "removeMember" =>
          /\ IsRowOf(arg[j].on, User(j))'
          /\ pc'[j] = "deleteMember" => heldMember'[j].id = arg'[j].on
  <2>1. SUFFICES ASSUME NEW j \in Requests \ {i}, pc'[j] \in Awaits, Op(j)' = "removeMember"
                 PROVE  /\ IsRowOf(arg[j].on, User(j))'
                        /\ pc'[j] = "deleteMember" => heldMember'[j].id = arg'[j].on
    OBVIOUS
  <2>2. Op(j)' = Op(j) /\ User(j)' = User(j) /\ arg'[j].on = arg[j].on
    BY <1>2 DEF Op, User
  <2>3. /\ IsRowOf(arg[j].on, User(j))
        /\ pc[j] = "deleteMember" => heldMember[j].id = arg[j].on
    BY <1>1, <1>2, <2>1, <2>2 DEF Removers
  <2>4. PICK id, u : id = arg[j].on /\ u = User(j) /\ IsRowOf(id, u)'
    BY <1>3, <2>3
  <2>5. QED
    BY <1>2, <2>2, <2>3, <2>4 DEF IsRowOf
<1>5. ASSUME Op(i)' = "removeMember"
      PROVE  IsRowOf(arg[i].on, User(i))' /\ pc'[i] # "deleteMember"
  <2>1. PICK m \in members : arg'[i].on = m.id /\ User(i)' = m.user
    BY <1>1, <1>5, RemovalArrives
  <2>2. IsRowOf(m.id, m.user)
    BY <1>1 DEF Idents, IsRowOf
  <2>3. IsRowOf(m.id, m.user)'
    BY <1>3, <2>2
  <2>4. IsRowOf(arg[i].on, User(i))'
    BY <2>1, <2>3 DEF IsRowOf
  <2>5. PICK where \in Awaits, a \in Arg : a.op \in Ops /\ ArrivesAs(i, where, a)
    BY <1>1, ArriveFacts
  <2>6. /\ pc'[i] = where /\ Op(i)' = a.op
        /\ a.op \notin {"createProject", "accept", "preview"} =>
              where \in {"saveSpace", "findOld", "findMember", "findPending", "findInvitation"}
    BY <1>1, <2>5 DEF ArrivesAs, Start, Op, TInv, TypeOK
  <2>7. QED
    BY <1>5, <2>4, <2>6
<1>6. QED
  BY <1>4, <1>5 DEF Removers

LEMMA NextCInv == ASSUME HandoversApart, DismissalsApart PROVE CInv /\ [Next]_vars => CInv'
<1>1. SUFFICES ASSUME CInv, [Next]_vars
               PROVE  NewIsNone' /\ Removers'
  BY NextMInv DEF CInv
<1>2. TInv /\ NewIsNone
  BY <1>1 DEF CInv, MInv, AInv
<1>3. CASE Lapse \/ UNCHANGED vars
  BY <1>1, <1>3 DEF CInv, NewIsNone, Removers, IsRowOf, Op, User, Lapse, vars, tables, held
<1>4. ASSUME NEW i \in Requests, Arrive(i)
      PROVE  NewIsNone'
  <2>1. pc'[i] \in Awaits /\ \A j \in Requests \ {i} : pc'[j] = pc[j] /\ arg'[j] = arg[j]
    BY <1>2, <1>4, ArrivalFacts
  <2>2. QED
    BY <1>2, <2>1 DEF NewIsNone, Op, Awaits
<1>5. ASSUME NEW i \in Requests, StepOf(i)
      PROVE  NewIsNone'
  <2>1. /\ pc'[i] # "new" /\ \A j \in Requests \ {i} : pc'[j] = pc[j]
        /\ \A j \in Requests : Op(j)' = Op(j)
    BY <1>2, <1>5, StepFacts
  <2>2. QED
    BY <1>2, <2>1 DEF NewIsNone
<1>6. QED
  BY <1>1, <1>3, <1>4, <1>5, ArriveRemovers, StepRemovers DEF Next, StepOf

-----------------------------------------------------------------------------
(***************************************************************************)
(* Who collaborates, while the ownership is handed over.                   *)
(***************************************************************************)
Moving(i) == Op(i) = "transfer" /\ pc[i] \in Awaits
Broken == \E i \in Requests : Op(i) = "transfer" /\ pc[i] = "failed"

\* A transfer takes the new owner out of the members, and then saves the owner
\* and the row of the old one in either order.
TransferRow(i) == Moving(i) =>
    /\ heldSpace[i].owner # User(i)
    /\ pc[i] \in HoldsMember => heldMember[i].user = heldSpace[i].owner
    /\ space.owner = IF pc[i] = "saveOld" THEN User(i) ELSE heldSpace[i].owner
    /\ pc[i] \in {"saveBoth", "saveOwner", "saveOld"} => MembersOf(User(i)) = {}
    /\ pc[i] = "saveOwner" => MembersOf(heldSpace[i].owner) # {}

\* The owner is a member only where the old owner's row is there already.
OwnerOut == MembersOf(space.owner) = {} \/ \E i \in Requests : Moving(i) /\ pc[i] = "saveOwner"

\* Who is to save the space has its owner, and who is to be a member is not he.
EditorRow(i) == pc[i] = "saveSpace" /\ Op(i) # "deleteSpace" => heldSpace[i].owner = space.owner
JoinerRow(i) ==
    /\ pc[i] \in {"findMember", "insertMember"} /\ Op(i) = "accept" => User(i) # space.owner
    /\ pc[i] \in Awaits /\ Op(i) = "addMember" => User(i) # space.owner
    /\ pc[i] \in {"insertMember", "saveMember"} /\ Op(i) \in {"accept", "addMember"} =>
          heldMember[i].user = User(i)
    /\ pc[i] = "saveMember" /\ Op(i) = "updateMember" => heldMember[i].user # space.owner
Own(i) == TransferRow(i) /\ EditorRow(i) /\ JoinerRow(i)
OwnerInv == OwnerOut /\ \A i \in Requests : Own(i)

\* Who is without a row between two calls of a transfer.
Between(u) == \E i \in Requests :
    Moving(i) /\ \/ pc[i] = "saveOld" /\ u = heldSpace[i].owner
                 \/ pc[i] \in {"saveBoth", "saveOwner"} /\ u = User(i)
Belongs(u) == Collaborates(u) \/ Between(u)

NotRemoved(u) == \A i \in Requests : Op(i) = "removeMember" => User(i) # u
JoinedAs(i) == IF Op(i) = "transfer" THEN heldSpace[i].owner ELSE User(i)
HasJoined(i) ==
    \/ Answered(i) /\ Op(i) \in {"accept", "addMember", "transfer"}
    \/ pc[i] = "saveInvitation" /\ Op(i) = "accept"
JoinedInv == \A i \in Requests :
    HasJoined(i) /\ NotRemoved(JoinedAs(i)) => Belongs(JoinedAs(i))

FInv == CInv /\ OneRowPerUser /\ (Broken \/ (OwnerInv /\ JoinedInv))

\* What a step of request i has to leave.
BelongingStays == \A u : NotRemoved(u) /\ Belongs(u) => Belongs(u)'
JoinGives(i) == HasJoined(i)' /\ ~ HasJoined(i) => Belongs(JoinedAs(i))'
Good(i) == Broken' \/ (OwnerInv' /\ BelongingStays /\ JoinGives(i))

OthersSame(i) == \A j \in Requests \ {i} :
    /\ pc'[j] = pc[j] /\ Op(j)' = Op(j) /\ User(j)' = User(j)
    /\ heldSpace'[j] = heldSpace[j] /\ heldMember'[j] = heldMember[j]

\* Whom a transfer does not meet.
Meets == {"transfer", "updateSpace", "settings", "updateMember", "removeMember", "addMember", "accept"}

LEMMA Alone ==
    ASSUME TransfersApart, AInv, NEW i \in Requests, NEW j \in Requests, i # j,
           pc[i] \in Awaits, pc[j] \in Awaits, Op(i) = "transfer"
    PROVE  Op(j) \notin Meets
<1>1. {Op(i), Op(j)} \notin Apart
  BY DEF AInv, AdmittedPairs
<1>2. Op(j) \notin {"settings", "addMember"}
  BY DEF AInv, OfItsKind, WorkspaceOps, ProjectOps
<1>3. QED
  BY <1>1, <1>2 DEF TransfersApart, Meets

LEMMA OthersAreSame ==
    ASSUME TInv, NEW i \in Requests, StepOf(i)
    PROVE  OthersSame(i) /\ Op(i)' = Op(i) /\ User(i)' = User(i) /\ heldSpace'[i] = heldSpace[i]
BY StepFacts, OthersHold DEF OthersSame

\* A step that changes neither members nor owner, but in a transfer's own calls.
LEMMA StillGood ==
    ASSUME TInv, OwnerInv, NEW i \in Requests, OthersSame(i),
           UNCHANGED members, space'.owner = space.owner,
           ~ (Moving(i) /\ pc[i] \in {"saveBoth", "saveOwner", "saveOld"}),
           Own(i)', JoinGives(i)
    PROVE  Good(i)
<1>1. \A j \in Requests \ {i} : Moving(j)' <=> Moving(j)
  BY DEF OthersSame, Moving
<1>2. \A u : MembersOf(u)' = MembersOf(u)
  BY DEF MembersOf
<1>3. \A j \in Requests \ {i} : Own(j)'
  <2>1. SUFFICES ASSUME NEW j \in Requests \ {i} PROVE Own(j)'
    OBVIOUS
  <2>2. /\ pc'[j] = pc[j] /\ Op(j)' = Op(j) /\ User(j)' = User(j)
        /\ heldSpace'[j] = heldSpace[j] /\ heldMember'[j] = heldMember[j]
        /\ Own(j)
    BY <2>1 DEF OthersSame, OwnerInv
  <2>3. MembersOf(User(j))' = MembersOf(User(j)) /\ MembersOf(heldSpace[j].owner)' = MembersOf(heldSpace[j].owner)
    BY <2>2 DEF MembersOf
  <2>4. TransferRow(j)'
    BY <1>1, <2>2, <2>3 DEF Own, TransferRow
  <2>5. EditorRow(j)' /\ JoinerRow(j)'
    BY <2>2 DEF Own, EditorRow, JoinerRow
  <2>6. QED
    BY <2>4, <2>5 DEF Own
<1>4. OwnerOut'
  <2>1. MembersOf(space.owner)' = MembersOf(space.owner)
    BY DEF MembersOf
  <2>2. QED
    BY <1>1, <2>1 DEF OwnerInv, OwnerOut, OthersSame
<1>5. BelongingStays
  <2>1. SUFFICES ASSUME NEW u, Belongs(u) PROVE Belongs(u)'
    BY DEF BelongingStays
  <2>2. Collaborates(u) => Collaborates(u)'
    BY <1>2 DEF Collaborates
  <2>3. Between(u) => Between(u)'
    BY <1>1 DEF Between, OthersSame
  <2>4. QED
    BY <2>1, <2>2, <2>3 DEF Belongs
<1>6. QED
  BY <1>3, <1>4, <1>5 DEF Good, OwnerInv

-----------------------------------------------------------------------------
(* The steps that change neither members nor owner. *)

\* A request that has ended owes nothing.
LEMMA EndedOwn ==
    ASSUME NEW i \in Requests, pc'[i] \notin Awaits
    PROVE  Own(i)'
BY DEF Own, TransferRow, Moving, EditorRow, JoinerRow, Awaits

LEMMA ArriveGood ==
    ASSUME CInv, OwnerInv, NEW i \in Requests, Arrive(i)
    PROVE  Good(i)
<1>1. TInv
  BY DEF CInv, MInv, AInv
<1>2. PICK where \in Awaits, a \in Arg : a.op \in Ops /\ ArrivesAs(i, where, a)
  BY <1>1, ArriveFacts
<1>3. /\ pc'[i] = where /\ Op(i)' = a.op /\ <<a.op, where>> \in Stages
      /\ a.op = "createProject" => where = "findDefault"
      /\ a.op = "accept" => where = "findSpace"
      /\ a.op \notin {"createProject", "accept", "preview"} =>
            where \in {"saveSpace", "findOld", "findMember", "findPending", "findInvitation"}
  BY <1>1, <1>2 DEF ArrivesAs, Start, Op, TInv, TypeOK
<1>4. /\ pc[i] = "new"
      /\ \A j \in Requests \ {i} : /\ pc'[j] = pc[j] /\ arg'[j] = arg[j]
                                   /\ heldSpace'[j] = heldSpace[j]
      /\ UNCHANGED <<space, members, heldMember>>
      /\ a.op \notin {"createProject", "accept", "preview"} => heldSpace'[i] = space
  BY <1>1, <1>3, ArrivalFacts
<1>5. OthersSame(i)
  BY <1>4 DEF OthersSame, Op, User
<1>6. a.op \in {"transfer", "addMember"} => User(i)' # space.owner
  BY <1>1, <1>3, NewcomerArrives
<1>7. TransferRow(i)'
  <2>1. a.op = "transfer" => where = "findOld"
    BY <1>3 DEF Stages
  <2>2. QED
    BY <1>3, <1>4, <1>6, <2>1 DEF TransferRow, Moving, HoldsMember
<1>8. EditorRow(i)'
  <2>1. where = "saveSpace" => a.op \in {"updateSpace", "deleteSpace", "settings"}
    BY <1>3 DEF Stages
  <2>2. QED
    BY <1>3, <1>4, <2>1 DEF EditorRow
<1>9. JoinerRow(i)'
  BY <1>3, <1>4, <1>6 DEF JoinerRow, Stages
<1>10. JoinGives(i)
  BY <1>3 DEF JoinGives, HasJoined, Answered, Awaits
<1>11. QED
  BY <1>1, <1>4, <1>5, <1>7, <1>8, <1>9, <1>10, StillGood DEF Own, Moving

LEMMA SpaceGood ==
    ASSUME CInv, OwnerInv, NEW i \in Requests, SpaceStep(i)
    PROVE  Good(i)
<1>1. TInv
  BY DEF CInv, MInv, AInv
<1>2. /\ OthersSame(i) /\ Op(i)' = Op(i) /\ UNCHANGED members
  BY <1>1, OthersAreSame DEF StepOf, SpaceStep, SaveSpace, FindDefault, InsertDefault, tables
<1>3. pc[i] \in {"saveSpace", "findDefault", "insertDefault"} /\ pc'[i] \in {"done", "insertDefault"}
  BY <1>1 DEF SpaceStep, SaveSpace, FindDefault, InsertDefault, Advance, TInv, TypeOK
<1>4. Op(i) \in {"updateSpace", "deleteSpace", "settings", "createProject"}
  BY <1>1, <1>3 DEF TInv, Shape, Stages, Awaits
<1>5. space'.owner = space.owner
  <2>1. CASE SaveSpace(i)
    <3>1. pc[i] = "saveSpace" /\ space' = SavedSpace(i)
      BY <2>1 DEF SaveSpace
    <3>2. Op(i) \in {"updateSpace", "deleteSpace", "settings"} /\ heldSpace[i] \in Space /\ space \in Space
      BY <1>1, <3>1 DEF TInv, TypeOK, Shape, Stages, Awaits, HoldsSpace
    <3>3. Op(i) # "deleteSpace" => heldSpace[i].owner = space.owner
      BY <3>1 DEF OwnerInv, Own, EditorRow
    <3>4. QED
      BY <3>1, <3>2, <3>3 DEF SavedSpace, Space
  <2>2. CASE FindDefault(i) \/ InsertDefault(i)
    BY <2>2 DEF FindDefault, InsertDefault, tables
  <2>3. QED
    BY <2>1, <2>2 DEF SpaceStep
<1>6. Own(i)'
  BY <1>2, <1>3, <1>4 DEF Own, TransferRow, Moving, EditorRow, JoinerRow
<1>7. JoinGives(i)
  BY <1>2, <1>3, <1>4 DEF JoinGives, HasJoined, Answered
<1>8. QED
  BY <1>1, <1>2, <1>4, <1>5, <1>6, <1>7, StillGood DEF Moving

LEMMA InvitationGood ==
    ASSUME CInv, OwnerInv, NEW i \in Requests, InvitationStep(i)
    PROVE  Good(i)
<1>1. TInv
  BY DEF CInv, MInv, AInv
<1>2. OtherStep(i) /\ StepOf(i)
  BY DEF OtherStep, StepOf
<1>3. OthersSame(i) /\ Op(i)' = Op(i) /\ User(i)' = User(i) /\ UNCHANGED <<members, space>>
  <2>1. UNCHANGED space
    BY DEF InvitationStep, FindPending, FindInvitation, FindSpace, SaveInvitation, Mail, tables
  <2>2. QED
    BY <1>1, <1>2, <2>1, OthersAreSame, OtherFacts
<1>4. CASE FindPending(i) \/ FindInvitation(i) \/ Mail(i)
  <2>1. pc[i] \in {"findPending", "findInvitation", "mail"} /\ pc'[i] \in {"saveInvitation", "done"}
    BY <1>1, <1>4 DEF FindPending, FindInvitation, Mail, Advance, TInv, TypeOK
  <2>2. Op(i) \in {"invite", "revoke"}
    BY <1>1, <2>1 DEF TInv, Shape, Stages, Awaits
  <2>3. Own(i)' /\ JoinGives(i) /\ ~ Moving(i)
    BY <1>3, <2>1, <2>2 DEF Own, TransferRow, Moving, EditorRow, JoinerRow, JoinGives, HasJoined, Answered
  <2>4. QED
    BY <1>1, <1>3, <2>3, StillGood
<1>5. CASE FindSpace(i)
  <2>1. /\ pc[i] = "findSpace"
        /\ pc'[i] = "refused" \/ (pc'[i] = "findMember" /\ space.owner # User(i))
    BY <1>1, <1>5 DEF FindSpace, Advance, TInv, TypeOK
  <2>2. Op(i) = "accept"
    BY <1>1, <2>1 DEF TInv, Shape, Stages, Awaits
  <2>3. Own(i)' /\ JoinGives(i) /\ ~ Moving(i)
    BY <1>3, <2>1, <2>2 DEF Own, TransferRow, Moving, EditorRow, JoinerRow, JoinGives, HasJoined, Answered
  <2>4. QED
    BY <1>1, <1>3, <2>3, StillGood
<1>6. CASE SaveInvitation(i)
  <2>1. /\ pc[i] = "saveInvitation" /\ Op(i) \in {"invite", "revoke", "preview", "accept"}
        /\ pc'[i] \in {"mail", "refused", "done", "failed"}
        /\ pc'[i] = "mail" => Op(i) = "invite"
    <3>1. PICK next \in {"mail", "refused", "done", "failed"} :
            pc' = [pc EXCEPT ![i] = next] /\ (next = "mail" => Op(i) = "invite")
      BY <1>1, <1>6, SaveInvitationFacts
    <3>2. pc[i] = "saveInvitation" /\ Op(i) \in {"invite", "revoke", "preview", "accept"}
      BY <1>1, <1>6, SaveInvitationFacts
    <3>3. QED
      BY <1>1, <3>1, <3>2 DEF TInv, TypeOK
  <2>2. Own(i)' /\ JoinGives(i) /\ ~ Moving(i)
    BY <1>3, <2>1 DEF Own, TransferRow, Moving, EditorRow, JoinerRow, JoinGives, HasJoined, Answered
  <2>3. QED
    BY <1>1, <1>3, <2>2, StillGood
<1>7. QED
  BY <1>4, <1>5, <1>6 DEF InvitationStep

\* A call that rejects: a transfer breaks off, any other request just ends.
LEMMA FailGood ==
    ASSUME CInv, OwnerInv, NEW i \in Requests, Abort(i) \/ RejectMember(i)
    PROVE  Good(i)
<1>1. TInv
  BY DEF CInv, MInv, AInv
<1>2. /\ pc'[i] = "failed" /\ pc[i] \in Awaits
      /\ UNCHANGED <<members, space>>
  BY <1>1 DEF Abort, RejectMember, Advance, tables, Awaits, TInv, TypeOK
<1>3. OthersSame(i) /\ Op(i)' = Op(i)
  BY <1>1, OthersAreSame DEF StepOf, MemberStep
<1>4. CASE Op(i) = "transfer"
  BY <1>2, <1>3, <1>4 DEF Good, Broken
<1>5. CASE Op(i) # "transfer"
  <2>1. Own(i)'
    BY <1>2, EndedOwn DEF Awaits
  <2>2. JoinGives(i) /\ ~ Moving(i)
    BY <1>2, <1>5 DEF JoinGives, HasJoined, Answered, Moving
  <2>3. QED
    BY <1>1, <1>2, <1>3, <2>1, <2>2, StillGood
<1>6. QED
  BY <1>4, <1>5

LEMMA FindMemberGood ==
    ASSUME TransfersApart, CInv, OwnerInv, NEW i \in Requests, FindMember(i)
    PROVE  Good(i)
<1>1. TInv /\ AInv
  BY DEF CInv, MInv, AInv
<1>2. /\ pc[i] = "findMember" /\ pc[i] \in Awaits /\ UNCHANGED <<members, space>>
      /\ OthersSame(i) /\ Op(i)' = Op(i) /\ User(i)' = User(i)
  BY <1>1, OthersAreSame DEF FindMember, tables, Awaits, StepOf, MemberStep
<1>3. Op(i) \in {"addMember", "invite", "updateMember", "removeMember", "accept"}
  BY <1>1, <1>2 DEF TInv, Shape, Stages
<1>4. PICK m \in Member, next \in Awaits \cup Ended :
        /\ heldMember' = [heldMember EXCEPT ![i] = m]
        /\ pc[i] = "findMember" /\ pc' = [pc EXCEPT ![i] = next]
        /\ next \in {"saveMember", "deleteMember", "findPending", "insertMember",
                     "saveInvitation", "refused"}
        /\ Op(i) \in {"updateMember", "removeMember"} /\ next # "refused" => m \in members
        /\ Op(i) = "accept" /\ next = "saveInvitation" => m \in members
  BY <1>1, FindMemberFacts
<1>5. heldMember'[i] = m /\ pc'[i] = next
  BY <1>1, <1>4 DEF TInv, TypeOK
<1>6. Op(i) \in {"accept", "addMember"} => m.user = User(i)
  <2> DEFINE found == MembersOf(User(i))
             new == [id |-> i, user |-> User(i)]
  <2>1. SUFFICES ASSUME Op(i) \in {"accept", "addMember"} PROVE m.user = User(i)
    OBVIOUS
  <2>2. heldMember' = [heldMember EXCEPT ![i] = IF found = {} THEN new ELSE CHOOSE n \in found : TRUE]
    BY <2>1 DEF FindMember
  <2>3. m = IF found = {} THEN new ELSE CHOOSE n \in found : TRUE
    BY <1>1, <1>5, <2>2 DEF TInv, TypeOK
  <2>4. m = new \/ m \in found
    BY <2>3
  <2>5. QED
    BY <2>4 DEF MembersOf
<1>7. Op(i) = "updateMember" => MembersOf(space.owner) = {}
  <2>1. SUFFICES ASSUME Op(i) = "updateMember",
                        NEW k \in Requests, Moving(k), pc[k] = "saveOwner"
                 PROVE  FALSE
    BY DEF OwnerInv, OwnerOut
  <2>2. QED
    BY <1>1, <1>2, <2>1, Alone DEF Moving, Meets
<1>8. JoinerRow(i)'
  <2>1. /\ Op(i) = "accept" => User(i) # space.owner
        /\ Op(i) = "addMember" => User(i) # space.owner
    BY <1>2 DEF OwnerInv, Own, JoinerRow
  <2>2. Op(i) = "updateMember" /\ next = "saveMember" => m.user # space.owner
    BY <1>4, <1>7 DEF MembersOf
  <2>3. QED
    BY <1>2, <1>5, <1>6, <2>1, <2>2 DEF JoinerRow
<1>9. Own(i)' /\ ~ Moving(i)
  BY <1>2, <1>3, <1>4, <1>5, <1>8 DEF Own, TransferRow, Moving, EditorRow
<1>10. JoinGives(i)
  <2>1. SUFFICES ASSUME Op(i) = "accept", next = "saveInvitation" PROVE Belongs(JoinedAs(i))'
    BY <1>2, <1>4, <1>5 DEF JoinGives, HasJoined, Answered
  <2>2. m \in MembersOf(User(i))' /\ JoinedAs(i)' = User(i)
    BY <1>2, <1>4, <1>6, <2>1 DEF MembersOf, JoinedAs
  <2>3. QED
    BY <1>2, <2>2 DEF Belongs, Collaborates, MembersOf
<1>11. QED
  BY <1>1, <1>2, <1>9, <1>10, StillGood

LEMMA FindRowGood ==
    ASSUME CInv, OwnerInv, NEW i \in Requests, FindOld(i) \/ FindNext(i)
    PROVE  Good(i)
<1>1. TInv
  BY DEF CInv, MInv, AInv
<1>2. /\ pc[i] \in {"findOld", "findNext"} /\ UNCHANGED <<members, space>>
      /\ OthersSame(i) /\ Op(i)' = Op(i) /\ User(i)' = User(i) /\ heldSpace'[i] = heldSpace[i]
  BY <1>1, OthersAreSame DEF FindOld, FindNext, tables, StepOf, MemberStep
<1>3. Op(i) = "transfer" /\ Moving(i)
  BY <1>1, <1>2 DEF TInv, Shape, Stages, Awaits, Moving
<1>4. heldSpace[i].owner # User(i) /\ space.owner = heldSpace[i].owner
  BY <1>2, <1>3 DEF OwnerInv, Own, TransferRow
<1>5. CASE FindOld(i)
  <2> DEFINE found == MembersOf(heldSpace[i].owner)
             new == [id |-> i, user |-> heldSpace[i].owner]
  <2>1. pc'[i] = "findNext" /\ heldMember'[i] = IF found = {} THEN new ELSE CHOOSE m \in found : TRUE
    BY <1>1, <1>5 DEF FindOld, Advance, TInv, TypeOK
  <2>2. heldMember'[i] = new \/ heldMember'[i] \in found
    BY <2>1
  <2>3. heldMember'[i].user = heldSpace[i].owner
    BY <2>2 DEF MembersOf
  <2>4. Own(i)'
    BY <1>2, <1>3, <1>4, <2>1, <2>3 DEF Own, TransferRow, EditorRow, JoinerRow
  <2>5. JoinGives(i)
    BY <2>1 DEF JoinGives, HasJoined, Answered
  <2>6. QED
    BY <1>1, <1>2, <2>4, <2>5, StillGood
<1>6. CASE FindNext(i)
  <2>1. /\ pc[i] = "findNext" /\ UNCHANGED heldMember
        /\ pc'[i] = "deleteNext" \/ (pc'[i] = "saveBoth" /\ MembersOf(User(i)) = {})
    BY <1>1, <1>6 DEF FindNext, Advance, held, TInv, TypeOK
  <2>2. heldMember[i].user = heldSpace[i].owner
    BY <1>3, <2>1 DEF OwnerInv, Own, TransferRow, HoldsMember
  <2>3. pc'[i] = "saveBoth" => MembersOf(User(i))' = {}
    BY <1>2, <2>1 DEF MembersOf
  <2>4. Own(i)'
    BY <1>2, <1>3, <1>4, <2>1, <2>2, <2>3 DEF Own, TransferRow, EditorRow, JoinerRow
  <2>5. JoinGives(i)
    BY <2>1 DEF JoinGives, HasJoined, Answered
  <2>6. QED
    BY <1>1, <1>2, <2>1, <2>4, <2>5, StillGood
<1>7. QED
  BY <1>5, <1>6

-----------------------------------------------------------------------------
(* The steps that change the members. *)

\* While no ownership is handed over, the rows of the others stay theirs.
LEMMA OthersOwn ==
    ASSUME OwnerInv, NEW i \in Requests, OthersSame(i), UNCHANGED space,
           \A k \in Requests : ~ Moving(k)
    PROVE  \A j \in Requests \ {i} : Own(j)' /\ ~ Moving(j)'
<1>1. SUFFICES ASSUME NEW j \in Requests \ {i} PROVE Own(j)' /\ ~ Moving(j)'
  OBVIOUS
<1>2. /\ pc'[j] = pc[j] /\ Op(j)' = Op(j) /\ User(j)' = User(j)
      /\ heldSpace'[j] = heldSpace[j] /\ heldMember'[j] = heldMember[j]
      /\ Own(j) /\ ~ Moving(j)
  BY <1>1 DEF OthersSame, OwnerInv
<1>3. ~ Moving(j)'
  BY <1>2 DEF Moving
<1>4. QED
  BY <1>2, <1>3 DEF Own, TransferRow, EditorRow, JoinerRow

\* Nobody hands the ownership over while members are saved or removed.
LEMMA NobodyMoves ==
    ASSUME TransfersApart, CInv, OwnerInv, NEW i \in Requests, pc[i] \in Awaits,
           Op(i) \in {"addMember", "updateMember", "removeMember", "accept"}
    PROVE  /\ \A k \in Requests : ~ Moving(k)
           /\ MembersOf(space.owner) = {} /\ \A u : ~ Between(u)
<1>1. AInv
  BY DEF CInv, MInv
<1>2. \A k \in Requests : ~ Moving(k)
  BY <1>1, Alone DEF Moving, Meets
<1>3. QED
  BY <1>2 DEF OwnerInv, OwnerOut, Between

LEMMA PutGood ==
    ASSUME TransfersApart, CInv, OwnerInv, NEW i \in Requests, SaveMember(i) \/ InsertMember(i)
    PROVE  Good(i)
<1>1. TInv
  BY DEF CInv, MInv, AInv
<1>2. /\ pc[i] \in {"saveMember", "insertMember"} /\ PutMember(i)
      /\ pc'[i] = IF pc[i] = "saveMember" THEN "done" ELSE "saveInvitation"
      /\ OthersSame(i) /\ Op(i)' = Op(i) /\ User(i)' = User(i)
  BY <1>1, OthersAreSame DEF SaveMember, InsertMember, Advance, StepOf, MemberStep, TInv, TypeOK
<1>3. /\ pc[i] \in Awaits /\ Op(i) \in {"addMember", "updateMember", "accept"}
      /\ pc[i] = "insertMember" <=> Op(i) = "accept"
  BY <1>1, <1>2 DEF TInv, Shape, Stages, Awaits
<1>4. members' = members \cup {heldMember[i]} /\ UNCHANGED space
  BY <1>2 DEF PutMember
<1>5. /\ \A k \in Requests : ~ Moving(k)
      /\ MembersOf(space.owner) = {} /\ \A u : ~ Between(u)
  BY <1>3, NobodyMoves
<1>6. /\ heldMember[i].user # space.owner
      /\ Op(i) \in {"accept", "addMember"} => heldMember[i].user = User(i)
  <2>1. JoinerRow(i)
    BY DEF OwnerInv, Own
  <2>2. Op(i) = "accept" => pc[i] = "insertMember"
    BY <1>2, <1>3
  <2>3. Op(i) # "accept" => pc[i] = "saveMember"
    BY <1>1, <1>2, <1>3 DEF TInv, Shape, Stages
  <2>4. QED
    BY <1>2, <1>3, <2>1, <2>2, <2>3 DEF JoinerRow
<1>7. OwnerInv'
  <2>1. MembersOf(space.owner)' = {}
    BY <1>4, <1>5, <1>6 DEF MembersOf
  <2>2. Own(i)'
    BY <1>2, <1>3 DEF Own, TransferRow, Moving, EditorRow, JoinerRow, Awaits
  <2>3. QED
    BY <1>2, <1>4, <1>5, <2>1, <2>2, OthersOwn DEF OwnerInv, OwnerOut
<1>8. BelongingStays
  BY <1>4, <1>5 DEF BelongingStays, Belongs, Collaborates, MembersOf
<1>9. JoinGives(i)
  <2>1. SUFFICES ASSUME Op(i) \in {"accept", "addMember"} PROVE Belongs(JoinedAs(i))'
    BY <1>2, <1>3 DEF JoinGives, HasJoined, Answered
  <2>2. heldMember[i] \in MembersOf(User(i))' /\ JoinedAs(i)' = User(i)
    BY <1>2, <1>4, <1>6, <2>1 DEF MembersOf, JoinedAs
  <2>3. QED
    BY <1>2, <2>2 DEF Belongs, Collaborates, MembersOf
<1>10. QED
  BY <1>7, <1>8, <1>9 DEF Good

LEMMA DeleteGood ==
    ASSUME TransfersApart, CInv, OwnerInv, NEW i \in Requests, DeleteMember(i)
    PROVE  Good(i)
<1>1. TInv /\ Idents /\ Removers
  BY DEF CInv, MInv, AInv
<1>2. /\ pc[i] = "deleteMember" /\ pc[i] \in Awaits /\ pc'[i] = "done" /\ UNCHANGED space
      /\ members' = {m \in members : m.id # heldMember[i].id}
      /\ OthersSame(i) /\ Op(i)' = Op(i)
  BY <1>1, OthersAreSame DEF DeleteMember, Advance, StepOf, MemberStep, Awaits, TInv, TypeOK
<1>3. Op(i) = "removeMember"
  BY <1>1, <1>2 DEF TInv, Shape, Stages
<1>4. /\ \A k \in Requests : ~ Moving(k)
      /\ MembersOf(space.owner) = {} /\ \A u : ~ Between(u)
  BY <1>2, <1>3, NobodyMoves
<1>5. \A m \in members : m.id = heldMember[i].id => m.user = User(i)
  <2>1. SUFFICES ASSUME NEW m \in members, m.id = heldMember[i].id PROVE m.user = User(i)
    OBVIOUS
  <2>2. m.id = arg[i].on /\ IsRowOf(m.id, User(i))
    BY <1>1, <1>2, <1>3, <2>1 DEF Removers
  <2>3. m.id \in Users \cup Requests
    BY <1>1 DEF TInv, TypeOK, Member, MemberIds
  <2>4. QED
    BY <1>1, <2>2, <2>3 DEF Idents, IsRowOf
<1>6. OwnerInv'
  <2>1. MembersOf(space.owner)' = {}
    BY <1>2, <1>4 DEF MembersOf
  <2>2. Own(i)'
    BY <1>2, EndedOwn DEF Awaits
  <2>3. QED
    BY <1>2, <1>4, <2>1, <2>2, OthersOwn DEF OwnerInv, OwnerOut
<1>7. BelongingStays
  <2>1. SUFFICES ASSUME NEW u, NotRemoved(u), Collaborates(u) PROVE Collaborates(u)'
    BY <1>4 DEF BelongingStays, Belongs
  <2>2. User(i) # u
    BY <1>3, <2>1 DEF NotRemoved
  <2>3. \A m \in members : m.user = u => m \in members'
    BY <1>2, <1>5, <2>2
  <2>4. QED
    BY <1>2, <2>1, <2>3 DEF Collaborates, MembersOf
<1>8. JoinGives(i)
  BY <1>2, <1>3 DEF JoinGives, HasJoined, Answered
<1>9. QED
  BY <1>6, <1>7, <1>8 DEF Good

-----------------------------------------------------------------------------
(* The steps of a transfer that change the members or the owner. *)

\* What a transfer meets has no part in this.
LEMMA OthersAway ==
    ASSUME TransfersApart, CInv, OwnerInv, NEW i \in Requests, Moving(i), OthersSame(i)
    PROVE  /\ \A j \in Requests \ {i} : Own(j)' /\ ~ Moving(j) /\ ~ Moving(j)'
           /\ pc[i] # "saveOwner" => MembersOf(space.owner) = {}
<1>1. TInv /\ AInv
  BY DEF CInv, MInv, AInv
<1>2. \A j \in Requests \ {i} : pc[j] \in Awaits => Op(j) \notin Meets
  BY <1>1, Alone DEF Moving
<1>3. ASSUME NEW j \in Requests \ {i}
      PROVE  Own(j)' /\ ~ Moving(j) /\ ~ Moving(j)'
  <2>1. pc'[j] = pc[j] /\ Op(j)' = Op(j)
    BY <1>3 DEF OthersSame
  <2>2. ~ Moving(j) /\ ~ Moving(j)'
    BY <1>2, <2>1 DEF Moving, Meets
  <2>3. EditorRow(j)'
    <3>1. pc[j] = "saveSpace" => Op(j) = "deleteSpace"
      BY <1>1, <1>2 DEF TInv, Shape, Stages, Awaits, Meets
    <3>2. QED
      BY <2>1, <3>1 DEF EditorRow
  <2>4. JoinerRow(j)'
    BY <1>2, <2>1 DEF JoinerRow, Meets, Awaits
  <2>5. QED
    BY <2>2, <2>3, <2>4 DEF Own, TransferRow
<1>4. QED
  BY <1>3 DEF OwnerInv, OwnerOut

LEMMA DeleteNextGood ==
    ASSUME TransfersApart, CInv, UserIndex(members), OwnerInv, NEW i \in Requests, DeleteNext(i)
    PROVE  Good(i)
<1>1. TInv /\ Idents /\ RowOf(i)
  BY DEF CInv, MInv, AInv, HeldRows
<1>2. /\ pc[i] = "deleteNext" /\ pc'[i] = "saveBoth" /\ UNCHANGED <<space, heldMember>>
      /\ members' = {m \in members : m.id # arg[i].on}
      /\ OthersSame(i) /\ Op(i)' = Op(i) /\ User(i)' = User(i) /\ heldSpace'[i] = heldSpace[i]
  BY <1>1, OthersAreSame DEF DeleteNext, Advance, held, StepOf, MemberStep, TInv, TypeOK
<1>3. Op(i) = "transfer" /\ Moving(i) /\ Moving(i)'
  BY <1>1, <1>2 DEF TInv, Shape, Stages, Awaits, Moving
<1>4. /\ \A j \in Requests \ {i} : Own(j)' /\ ~ Moving(j) /\ ~ Moving(j)'
      /\ MembersOf(space.owner) = {}
  BY <1>2, <1>3, OthersAway
<1>5. PICK n \in members : n.id = arg[i].on /\ n.user = User(i)
  BY <1>1, <1>2 DEF RowOf
<1>6. \A m \in members : m.id = arg[i].on <=> m.user = User(i)
  BY <1>1, <1>5, OneRowPerId DEF UserIndex
<1>7. Own(i)'
  <2>1. /\ heldSpace[i].owner # User(i) /\ space.owner = heldSpace[i].owner
        /\ heldMember[i].user = heldSpace[i].owner
    BY <1>2, <1>3 DEF OwnerInv, Own, TransferRow, HoldsMember
  <2>2. MembersOf(User(i))' = {}
    BY <1>2, <1>6 DEF MembersOf
  <2>3. QED
    BY <1>2, <1>3, <2>1, <2>2 DEF Own, TransferRow, EditorRow, JoinerRow
<1>8. OwnerInv'
  <2>1. MembersOf(space.owner)' = {}
    BY <1>2, <1>4 DEF MembersOf
  <2>2. QED
    BY <1>4, <1>7, <2>1 DEF OwnerInv, OwnerOut
<1>9. BelongingStays
  <2>1. SUFFICES ASSUME NEW u, Belongs(u) PROVE Belongs(u)'
    BY DEF BelongingStays
  <2>2. Collaborates(u)
    BY <1>2, <1>4, <2>1 DEF Belongs, Between
  <2>3. CASE u = User(i)
    BY <1>2, <1>3, <2>3 DEF Belongs, Between
  <2>4. CASE u # User(i)
    <3>1. \A m \in members : m.user = u => m \in members'
      BY <1>2, <1>6, <2>4
    <3>2. Collaborates(u)'
      BY <1>2, <2>2, <3>1 DEF Collaborates, MembersOf
    <3>3. QED
      BY <3>2 DEF Belongs
  <2>5. QED
    BY <2>3, <2>4
<1>10. JoinGives(i)
  BY <1>2 DEF JoinGives, HasJoined, Answered
<1>11. QED
  BY <1>8, <1>9, <1>10 DEF Good

LEMMA SaveOwnerGood ==
    ASSUME TransfersApart, CInv, OwnerInv, NEW i \in Requests, SaveOwner(i)
    PROVE  Good(i)
<1>1. TInv
  BY DEF CInv, MInv, AInv
<1>2. /\ pc[i] \in {"saveBoth", "saveOwner"} /\ space' = SavedSpace(i)
      /\ UNCHANGED <<members, heldMember>>
      /\ pc'[i] = IF pc[i] = "saveBoth" THEN "saveOld" ELSE "done"
      /\ OthersSame(i) /\ Op(i)' = Op(i) /\ User(i)' = User(i) /\ heldSpace'[i] = heldSpace[i]
  BY <1>1, OthersAreSame DEF SaveOwner, Advance, held, StepOf, MemberStep, TInv, TypeOK
<1>3. Op(i) = "transfer" /\ Moving(i)
  BY <1>1, <1>2 DEF TInv, Shape, Stages, Awaits, Moving
<1>4. \A j \in Requests \ {i} : Own(j)' /\ ~ Moving(j) /\ ~ Moving(j)'
  BY <1>2, <1>3, OthersAway
<1>5. /\ heldSpace[i].owner # User(i) /\ space.owner = heldSpace[i].owner
      /\ heldMember[i].user = heldSpace[i].owner /\ MembersOf(User(i)) = {}
      /\ pc[i] = "saveOwner" => MembersOf(heldSpace[i].owner) # {}
  BY <1>2, <1>3 DEF OwnerInv, Own, TransferRow, HoldsMember
<1>6. space'.owner = User(i)
  <2>1. heldSpace[i] \in Space
    BY <1>1, <1>2 DEF TInv, Shape, HoldsSpace
  <2>2. QED
    BY <1>2, <1>3, <2>1 DEF SavedSpace, Space
<1>7. \A u : MembersOf(u)' = MembersOf(u)
  BY <1>2 DEF MembersOf
<1>8. MembersOf(User(i))' = {} /\ MembersOf(heldSpace[i].owner)' = MembersOf(heldSpace[i].owner)
  BY <1>2, <1>5 DEF MembersOf
<1>9. OwnerInv'
  <2>1. MembersOf(space.owner)' = {}
    BY <1>2, <1>6, <1>8 DEF MembersOf
  <2>2. Own(i)'
    BY <1>2, <1>3, <1>5, <1>6, <1>8 DEF Own, TransferRow, Moving, EditorRow, JoinerRow, Awaits
  <2>3. QED
    BY <1>4, <2>1, <2>2 DEF OwnerInv, OwnerOut
<1>10. BelongingStays
  <2>1. SUFFICES ASSUME NEW u, Belongs(u) PROVE Belongs(u)'
    BY DEF BelongingStays
  <2>2. CASE MembersOf(u) # {}
    BY <1>7, <2>2 DEF Belongs, Collaborates
  <2>3. CASE u = User(i)
    BY <1>6, <2>3 DEF Belongs, Collaborates
  <2>4. CASE u = heldSpace[i].owner /\ MembersOf(u) = {}
    <3>1. pc'[i] = "saveOld" /\ Moving(i)'
      BY <1>2, <1>3, <1>5, <2>4 DEF Moving, Awaits
    <3>2. QED
      BY <1>2, <2>4, <3>1 DEF Belongs, Between
  <2>5. u = space.owner \/ MembersOf(u) # {} \/ u = User(i)
    BY <1>2, <1>4, <2>1 DEF Belongs, Collaborates, Between
  <2>6. QED
    BY <1>5, <2>2, <2>3, <2>4, <2>5
<1>11. JoinGives(i)
  <2>1. SUFFICES ASSUME pc'[i] = "done" PROVE Belongs(JoinedAs(i))'
    BY <1>2, <1>3 DEF JoinGives, HasJoined, Answered
  <2>2. JoinedAs(i)' = heldSpace[i].owner /\ MembersOf(heldSpace[i].owner) # {}
    BY <1>2, <1>3, <1>5, <2>1 DEF JoinedAs
  <2>3. QED
    BY <1>2, <2>2 DEF Belongs, Collaborates, MembersOf
<1>12. QED
  BY <1>9, <1>10, <1>11 DEF Good

LEMMA SaveOldGood ==
    ASSUME TransfersApart, CInv, OwnerInv, NEW i \in Requests, SaveOld(i)
    PROVE  Good(i)
<1>1. TInv
  BY DEF CInv, MInv, AInv
<1>2. /\ pc[i] \in {"saveBoth", "saveOld"} /\ members' = members \cup {heldMember[i]}
      /\ UNCHANGED <<space, heldMember>>
      /\ pc'[i] = IF pc[i] = "saveBoth" THEN "saveOwner" ELSE "done"
      /\ OthersSame(i) /\ Op(i)' = Op(i) /\ User(i)' = User(i) /\ heldSpace'[i] = heldSpace[i]
  BY <1>1, OthersAreSame DEF SaveOld, PutMember, Advance, held, StepOf, MemberStep, TInv, TypeOK
<1>3. Op(i) = "transfer" /\ Moving(i)
  BY <1>1, <1>2 DEF TInv, Shape, Stages, Awaits, Moving
<1>4. \A j \in Requests \ {i} : Own(j)' /\ ~ Moving(j) /\ ~ Moving(j)'
  BY <1>2, <1>3, OthersAway
<1>5. /\ heldSpace[i].owner # User(i)
      /\ space.owner = IF pc[i] = "saveOld" THEN User(i) ELSE heldSpace[i].owner
      /\ heldMember[i].user = heldSpace[i].owner /\ MembersOf(User(i)) = {}
  BY <1>2, <1>3 DEF OwnerInv, Own, TransferRow, HoldsMember
<1>6. MembersOf(User(i))' = {} /\ heldMember[i] \in MembersOf(heldSpace[i].owner)'
  BY <1>2, <1>5 DEF MembersOf
<1>7. Own(i)'
  BY <1>2, <1>3, <1>5, <1>6 DEF Own, TransferRow, Moving, EditorRow, JoinerRow, Awaits
<1>8. OwnerOut'
  <2>1. CASE pc[i] = "saveBoth"
    BY <1>2, <1>3, <2>1 DEF OwnerOut, Moving, Awaits
  <2>2. CASE pc[i] = "saveOld"
    BY <1>2, <1>5, <1>6, <2>2 DEF OwnerOut, MembersOf
  <2>3. QED
    BY <1>2, <2>1, <2>2
<1>9. BelongingStays
  <2>1. SUFFICES ASSUME NEW u, Belongs(u) PROVE Belongs(u)'
    BY DEF BelongingStays
  <2>2. CASE Collaborates(u)
    BY <1>2, <2>2 DEF Belongs, Collaborates, MembersOf
  <2>3. CASE u = heldSpace[i].owner
    BY <1>2, <1>5, <2>3 DEF Belongs, Collaborates, MembersOf
  <2>4. CASE pc[i] = "saveBoth" /\ u = User(i)
    BY <1>2, <1>3, <2>4 DEF Belongs, Between, Moving, Awaits
  <2>5. QED
    BY <1>2, <1>4, <2>1, <2>2, <2>3, <2>4 DEF Belongs, Between
<1>10. JoinGives(i)
  <2>1. JoinedAs(i)' = heldSpace[i].owner
    BY <1>2, <1>3 DEF JoinedAs
  <2>2. Belongs(JoinedAs(i))'
    BY <1>2, <1>5, <2>1 DEF Belongs, Collaborates, MembersOf
  <2>3. QED
    BY <2>2 DEF JoinGives
<1>11. QED
  BY <1>4, <1>7, <1>8, <1>9, <1>10 DEF Good, OwnerInv

LEMMA StepGood ==
    ASSUME TransfersApart, CInv, OneRowPerUser, OwnerInv,
           NEW i \in Requests, Arrive(i) \/ StepOf(i)
    PROVE  Good(i)
<1>1. CASE Arrive(i) \/ SpaceStep(i) \/ InvitationStep(i) \/ Abort(i)
  BY <1>1, ArriveGood, SpaceGood, InvitationGood, FailGood
<1>2. CASE MemberStep(i)
  BY <1>2, FindMemberGood, PutGood, FailGood, DeleteGood, FindRowGood, DeleteNextGood,
     SaveOwnerGood, SaveOldGood DEF MemberStep, OneRowPerUser
<1>3. QED
  BY <1>1, <1>2 DEF StepOf

-----------------------------------------------------------------------------
(* Together. *)

LEMMA InitFInv == Init => FInv
<1>1. SUFFICES ASSUME Init PROVE OneRowPerUser /\ OwnerInv /\ JoinedInv
  BY InitCInv DEF FInv
<1>2. \A i \in Requests : pc[i] = "new"
  BY <1>1 DEF Init
<1>3. OneRowPerUser
  BY <1>1, InitUInv DEF UInv
<1>4. OwnerInv
  <2>1. PICK owner \in Users :
          /\ space = [owner |-> owner, settings |-> {}, deleted |-> FALSE]
          /\ members \in SUBSET {[id |-> u, user |-> u] : u \in Users \ {owner}}
    BY <1>1 DEF Init
  <2>2. MembersOf(space.owner) = {}
    BY <2>1 DEF MembersOf
  <2>3. \A i \in Requests : Own(i)
    BY <1>2 DEF Own, TransferRow, Moving, EditorRow, JoinerRow, Awaits
  <2>4. QED
    BY <2>2, <2>3 DEF OwnerInv, OwnerOut
<1>5. JoinedInv
  BY <1>2 DEF JoinedInv, HasJoined, Answered
<1>6. QED
  BY <1>3, <1>4, <1>5

\* A transfer that broke off stays so.
LEMMA BrokenStays ==
    ASSUME TInv, NewIsNone, Broken, [Next]_vars
    PROVE  Broken'
<1>1. PICK k \in Requests : Op(k) = "transfer" /\ pc[k] = "failed"
  BY DEF Broken
<1>2. CASE Lapse \/ UNCHANGED vars
  BY <1>1, <1>2 DEF Broken, Op, Lapse, vars
<1>3. ASSUME NEW i \in Requests, Arrive(i)
      PROVE  Broken'
  <2>1. pc[i] = "new" /\ \A j \in Requests \ {i} : pc'[j] = pc[j] /\ arg'[j] = arg[j]
    BY <1>3, ArrivalFacts
  <2>2. QED
    BY <1>1, <2>1 DEF Broken, Op
<1>4. ASSUME NEW i \in Requests, StepOf(i)
      PROVE  Broken'
  <2>1. /\ pc[i] \in Awaits /\ \A j \in Requests \ {i} : pc'[j] = pc[j]
        /\ \A j \in Requests : Op(j)' = Op(j)
    BY <1>4, StepFacts
  <2>2. QED
    BY <1>1, <2>1 DEF Broken, Awaits
<1>5. QED
  BY <1>2, <1>3, <1>4 DEF Next, StepOf

\* Who joined as whom, and that a removal asked for stays one.
LEMMA JoinedStays ==
    ASSUME CInv, NEW i \in Requests, Arrive(i) \/ StepOf(i), BelongingStays, JoinGives(i), JoinedInv
    PROVE  JoinedInv'
<1>1. TInv /\ NewIsNone
  BY DEF CInv, MInv, AInv
<1>2. /\ \A j \in Requests \ {i} : pc'[j] = pc[j] /\ Op(j)' = Op(j) /\ JoinedAs(j)' = JoinedAs(j)
      /\ pc[i] # "new" => Op(i)' = Op(i) /\ User(i)' = User(i) /\ JoinedAs(i)' = JoinedAs(i)
  <2>1. CASE Arrive(i)
    BY <1>1, <2>1, ArrivalFacts DEF JoinedAs, Op, User
  <2>2. CASE StepOf(i)
    BY <1>1, <2>2, StepFacts DEF JoinedAs
  <2>3. QED
    BY <2>1, <2>2
<1>3. \A j \in Requests \ {i} : User(j)' = User(j)
  BY <1>1, ArrivalFacts, StepFacts DEF User
<1>4. \A u : NotRemoved(u)' => NotRemoved(u)
  <2>1. pc[i] = "new" => Op(i) = "none"
    BY <1>1 DEF NewIsNone
  <2>2. QED
    BY <1>2, <1>3, <2>1 DEF NotRemoved
<1>5. SUFFICES ASSUME NEW j \in Requests, HasJoined(j)', NotRemoved(JoinedAs(j))'
               PROVE  Belongs(JoinedAs(j))'
  BY DEF JoinedInv
<1>6. CASE ~ HasJoined(j)
  <2>1. j = i
    BY <1>2, <1>5, <1>6 DEF HasJoined, Answered
  <2>2. QED
    BY <1>5, <1>6, <2>1 DEF JoinGives
<1>7. CASE HasJoined(j)
  <2>1. pc[j] # "new"
    BY <1>7 DEF HasJoined, Answered
  <2>2. JoinedAs(j)' = JoinedAs(j)
    BY <1>2, <2>1
  <2>3. PICK u : u = JoinedAs(j) /\ NotRemoved(u)'
    BY <1>5, <2>2 DEF NotRemoved
  <2>4. Belongs(u)'
    BY <1>4, <1>7, <2>3 DEF JoinedInv, BelongingStays
  <2>5. QED
    BY <2>2, <2>3, <2>4 DEF Belongs, Collaborates, Between, MembersOf
<1>8. QED
  BY <1>6, <1>7

LEMMA NextFInv ==
    ASSUME TransfersApart, DismissalsApart
    PROVE  FInv /\ [Next]_vars => FInv'
<1>1. SUFFICES ASSUME FInv, [Next]_vars PROVE FInv'
  OBVIOUS
<1>2. CInv /\ TInv /\ NewIsNone /\ OneRowPerUser /\ (Broken \/ (OwnerInv /\ JoinedInv))
  BY <1>1 DEF FInv, CInv, MInv, AInv
<1>3. HandoversApart
  BY DEF TransfersApart, HandoversApart
<1>4. CInv' /\ OneRowPerUser'
  BY <1>1, <1>2, <1>3, NextCInv, NextUInv DEF UInv
<1>5. CASE Broken
  BY <1>1, <1>2, <1>4, <1>5, BrokenStays DEF FInv
<1>6. CASE OwnerInv /\ JoinedInv
  <2>1. CASE Lapse \/ UNCHANGED vars
    <3>1. UNCHANGED <<tables, pc, arg, held>>
      BY <2>1 DEF Lapse, vars
    <3>2. OwnerInv'
      BY <1>6, <3>1 DEF OwnerInv, OwnerOut, Own, TransferRow, EditorRow, JoinerRow, Moving,
         MembersOf, Op, User, tables, held
    <3>3. JoinedInv'
      BY <1>6, <3>1 DEF JoinedInv, HasJoined, Answered, NotRemoved, JoinedAs, Belongs, Collaborates,
         Between, Moving, MembersOf, Op, User, tables, held
    <3>4. QED
      BY <1>4, <3>2, <3>3 DEF FInv
  <2>2. ASSUME NEW i \in Requests, Arrive(i) \/ StepOf(i)
        PROVE  FInv'
    <3>1. Good(i)
      BY <1>2, <1>6, <2>2, StepGood
    <3>2. Broken' \/ (OwnerInv' /\ JoinedInv')
      BY <1>2, <1>6, <2>2, <3>1, JoinedStays DEF Good
    <3>3. QED
      BY <1>4, <3>2 DEF FInv
  <2>3. QED
    BY <1>1, <2>1, <2>2 DEF Next, StepOf
<1>7. QED
  BY <1>2, <1>5, <1>6

LEMMA FInvGives == FInv => OneRowPerUser /\ OwnerIsNoMember /\ JoinedCollaborate
<1>1. SUFFICES ASSUME FInv, Settled
               PROVE  MembersOf(space.owner) = {} /\ JoinedCollaborate
  BY DEF FInv, OwnerIsNoMember, JoinedCollaborate
<1>2. \A i \in Requests : ~ Moving(i)
  BY <1>1 DEF Settled, Moving, Awaits
<1>3. OwnerInv /\ JoinedInv
  BY <1>1 DEF FInv, Settled, Broken
<1>4. MembersOf(space.owner) = {}
  BY <1>2, <1>3 DEF OwnerInv, OwnerOut
<1>5. JoinedCollaborate
  <2>1. SUFFICES ASSUME NEW i \in Requests, Answered(i), Op(i) \in {"accept", "addMember", "transfer"},
                        \A j \in Requests : Op(j) = "removeMember" => User(j) # JoinedAs(i)
                 PROVE  Collaborates(JoinedAs(i))
    BY DEF JoinedCollaborate, JoinedAs
  <2>2. HasJoined(i) /\ NotRemoved(JoinedAs(i))
    BY <2>1 DEF HasJoined, NotRemoved
  <2>3. QED
    BY <1>2, <1>3, <2>2 DEF JoinedInv, Belongs, Between
<1>6. QED
  BY <1>4, <1>5

\* If transfers of the ownership are apart from one another and from whatever
\* saves a member or the workspace, members are not saved while they are
\* removed, and first projects of a user are apart, then collaborators are kept
\* once: a user has one row, as a member or as the owner, never both and never
\* two, and who joined or gave the ownership away has it until he is removed.
\* Only a transfer that failed between its calls may leave it otherwise.
THEOREM CollaboratorsOnce ==
    ASSUME TransfersApart, DismissalsApart, CreationsApart
    PROVE  Spec => []CollaboratorsKeptOnce
<1>1. Init => FInv /\ BInv
  BY InitFInv, InitBInv
<1>2. (FInv /\ BInv) /\ [Next]_vars => (FInv /\ BInv)'
  BY NextFInv, NextBInv
<1>3. FInv /\ BInv => CollaboratorsKeptOnce
  BY FInvGives, DefaultsOnce DEF CollaboratorsKeptOnce
<1>4. QED
  BY <1>1, <1>2, <1>3, PTL DEF Spec
=============================================================================
