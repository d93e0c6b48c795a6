------------------------- MODULE UserAccount_proofs -------------------------
(***************************************************************************)
(* Theorems about UserAccount, for any number of requests, users,          *)
(* passwords and tokens.                                                   *)
(***************************************************************************)
EXTENDS MCUserAccount, TLAPS

-----------------------------------------------------------------------------
(***************************************************************************)
(* Type correctness, strengthened by what a request is given and has read  *)
(* at each of its awaits.                                                  *)
(***************************************************************************)
Mailing == {"resend", "forgot"}

\* The request has read the user that it will save.
HoldsUser(i) == pc[i] = "save" \/ (pc[i] = "check" /\ Op(i) = "verifyEmail")

Shape ==
    /\ \A i \in Requests : pc[i] # "new" => arg[i] \in Arg
    /\ \A i \in Requests :
          pc[i] \in Awaits /\ (pc[i] = "find" => Op(i) \notin Mailing) =>
              User(i) \in Users
    /\ \A i \in Requests : pc[i] = "insert" => Op(i) \in Creations
    /\ \A i \in Requests : pc[i] \in {"check", "erase"} =>
          Op(i) \in {"verifyEmail", "reset"}
    /\ \A i \in Requests : pc[i] = "mail" => arg[i].token \in Tokens
    /\ \A i \in Requests : pc[i] = "save" => Op(i) \notin Creations \cup Mailing
    /\ \A i \in Requests : HoldsUser(i) =>
          held[i] \in Row /\ rows[User(i)] \in Row

TInv == TypeOK /\ Shape

LEMMA StoredFacts ==
    /\ \A p \in Passwords : Hashed(p) \in Stored
    /\ \A s \in Stored : Rehashed(s) \in Stored
    /\ NoPassword \in Stored
BY ConstantsAssumption DEF Hashed, Rehashed, Stored

LEMMA InitTInv == Init => TInv
BY ConstantsAssumption DEF Init, TInv, TypeOK, Shape, HoldsUser, Awaits

\* What the arrival of a request establishes.
LEMMA ArriveFacts ==
    ASSUME TInv, NEW i \in Requests, Arrive(i)
    PROVE  /\ pc[i] = "new"
           /\ \E where \in {"find", "check"}, a \in Arg :
                /\ Admitted(a.op)
                /\ pc' = [pc EXCEPT ![i] = where]
                /\ arg' = [arg EXCEPT ![i] = a]
                /\ where = "check" => a.op = "reset"
                /\ a.op \notin Mailing => a.user \in Users
                /\ a.op \in Creations =>
                      /\ rows[a.user] = NoRow
                      /\ \A j \in InFlight : arg[j].user # a.user
           /\ UNCHANGED <<rows, cached, mails, last, used, held>>
<1> DEFINE A(op, u, t, p, v) ==
        [op |-> op, user |-> u, token |-> t, password |-> p, verified |-> v]
<1>1. CASE StartCreation(i)
  <2>1. PICK u \in Users :
          /\ rows[u] = NoRow
          /\ \A j \in InFlight : arg[j].user # u
          /\ \/ \E op \in {"register", "create"}, p \in Passwords :
                   Start(i, "find", op, u, NoToken, Hashed(p), FALSE)
             \/ \E v \in BOOLEAN :
                   Start(i, "find", "google", u, NoToken, NoPassword, v)
    BY <1>1 DEF StartCreation
  <2>2. PICK op \in Creations, s \in Stored, v \in BOOLEAN :
          Start(i, "find", op, u, NoToken, s, v)
    BY <2>1, StoredFacts DEF Creations
  <2>3. A(op, u, NoToken, s, v) \in Arg
    BY DEF Arg, Ops
  <2>4. op \notin Mailing
    BY DEF Mailing, Creations
  <2>5. QED
    BY <2>1, <2>2, <2>3, <2>4 DEF Start
<1>2. CASE StartMailing(i)
  <2>1. PICK op \in Mailing :
          Start(i, "find", op, NoUser, NoToken, NoPassword, FALSE)
    BY <1>2 DEF StartMailing, Mailing
  <2>2. A(op, NoUser, NoToken, NoPassword, FALSE) \in Arg
    BY StoredFacts DEF Arg, Ops, Mailing
  <2>3. op \notin Creations
    BY DEF Mailing, Creations
  <2>4. QED
    BY <2>1, <2>2, <2>3 DEF Start
<1>3. CASE StartWithToken(i)
  <2>1. PICK m \in mails :
          \/ Start(i, "find", "verifyEmail", m.user, m.token, NoPassword,
                   FALSE)
          \/ \E p \in Passwords :
                Start(i, "check", "reset", m.user, m.token, Hashed(p), FALSE)
    BY <1>3 DEF StartWithToken
  <2>2. m.user \in Users /\ m.token \in Tokens
    BY DEF TInv, TypeOK, Mail
  <2>3. CASE Start(i, "find", "verifyEmail", m.user, m.token, NoPassword,
                   FALSE)
    <3>1. A("verifyEmail", m.user, m.token, NoPassword, FALSE) \in Arg
      BY <2>2, StoredFacts DEF Arg, Ops
    <3>2. QED
      BY <2>2, <2>3, <3>1 DEF Start, Creations, Mailing
  <2>4. CASE \E p \in Passwords :
                Start(i, "check", "reset", m.user, m.token, Hashed(p), FALSE)
    <3>1. PICK p \in Passwords :
            Start(i, "check", "reset", m.user, m.token, Hashed(p), FALSE)
      BY <2>4
    <3>2. A("reset", m.user, m.token, Hashed(p), FALSE) \in Arg
      BY <2>2, StoredFacts DEF Arg, Ops
    <3>3. QED
      BY <2>2, <3>1, <3>2 DEF Start, Creations, Mailing
  <2>5. QED
    BY <2>1, <2>3, <2>4
<1>4. CASE StartOnUser(i)
  <2>1. PICK u \in Users, op \in {"edit", "remove", "change"}, s \in Stored :
          Start(i, "find", op, u, NoToken, s, FALSE)
    BY <1>4, StoredFacts DEF StartOnUser
  <2>2. A(op, u, NoToken, s, FALSE) \in Arg
    BY DEF Arg, Ops
  <2>3. QED
    BY <2>1, <2>2 DEF Start, Creations, Mailing
<1>5. QED
  BY <1>1, <1>2, <1>3, <1>4 DEF Arrive

LEMMA ArriveTInv ==
    ASSUME TInv, NEW i \in Requests, Arrive(i)
    PROVE  TInv'
<1>1. PICK where \in {"find", "check"}, a \in Arg :
        /\ pc' = [pc EXCEPT ![i] = where]
        /\ arg' = [arg EXCEPT ![i] = a]
        /\ where = "check" => a.op = "reset"
        /\ a.op \notin Mailing => a.user \in Users
        /\ UNCHANGED <<rows, cached, mails, last, used, held>>
  BY ArriveFacts
<1>2. TypeOK'
  BY <1>1 DEF TInv, TypeOK, Awaits
<1>3. /\ pc' \in [Requests -> {"new", "done"} \cup Awaits]
      /\ pc'[i] = where /\ arg'[i] = a
      /\ \A j \in Requests \ {i} : pc'[j] = pc[j] /\ arg'[j] = arg[j]
  BY <1>1, <1>2 DEF TInv, TypeOK
<1>4. Shape'
  BY <1>1, <1>3 DEF TInv, Shape, HoldsUser, Op, User, Mailing, Creations, Awaits
<1>5. QED
  BY <1>2, <1>4 DEF TInv

\* What a step of a request does to pc and arg.
LEMMA AdvanceFacts ==
    ASSUME TypeOK, NEW i \in Requests, NEW where, Advance(i, where)
    PROVE  /\ pc'[i] = where
           /\ \A j \in Requests \ {i} : pc'[j] = pc[j]
BY DEF TypeOK, Advance

LEMMA FindNoneTInv ==
    ASSUME TInv, NEW i \in Requests, FindNone(i)
    PROVE  TInv'
<1>1. PICK where \in {"done", "insert"} : Advance(i, where)
  BY DEF FindNone
<1>2. TypeOK'
  BY <1>1 DEF TInv, TypeOK, FindNone, Advance, Awaits
<1>3. Shape'
  BY <1>1, AdvanceFacts
  DEF TInv, Shape, HoldsUser, FindNone, Op, User, Awaits, Mailing, Creations
<1>4. QED
  BY <1>2, <1>3 DEF TInv

LEMMA FindByEmailTInv ==
    ASSUME TInv, NEW i \in Requests, FindByEmail(i)
    PROVE  TInv'
<1>1. PICK where \in {"set", "done"} :
        /\ Advance(i, where)
        /\ \/ arg' = arg /\ where = "done"
           \/ \E u \in Users : arg' = [arg EXCEPT ![i].user = u]
  BY DEF FindByEmail
<1>2. arg[i] \in Arg
  BY DEF TInv, Shape, HoldsUser, FindByEmail
<1>3. /\ arg' \in [Requests -> Arg \cup {NoArg}] /\ arg'[i] \in Arg
      /\ where = "set" => arg'[i].user \in Users
      /\ \A j \in Requests \ {i} : arg'[j] = arg[j]
  <2>1. CASE arg' = arg /\ where = "done"
    BY <1>2, <2>1 DEF TInv, TypeOK
  <2>2. CASE \E u \in Users : arg' = [arg EXCEPT ![i].user = u]
    <3>1. PICK u \in Users : arg' = [arg EXCEPT ![i].user = u]
      BY <2>2
    <3>2. /\ [arg[i] EXCEPT !.user = u] \in Arg
          /\ [arg[i] EXCEPT !.user = u].user = u
      BY <1>2 DEF Arg
    <3>3. QED
      BY <3>1, <3>2 DEF TInv, TypeOK
  <2>3. QED
    BY <1>1, <2>1, <2>2
<1>4. TypeOK'
  BY <1>1, <1>3 DEF TInv, TypeOK, FindByEmail, Advance, Awaits
<1>5. Shape'
  BY <1>1, <1>3, AdvanceFacts
  DEF TInv, Shape, HoldsUser, FindByEmail, Op, User, Awaits
<1>6. QED
  BY <1>4, <1>5 DEF TInv

LEMMA FindByIdTInv ==
    ASSUME TInv, NEW i \in Requests, FindById(i)
    PROVE  TInv'
<1>1. PICK where \in {"done", "check", "save"}, h \in Row \cup {NoRow} :
        /\ Advance(i, where)
        /\ \/ where = "done"
           \/ /\ h = rows[User(i)] /\ h \in Row
              /\ where = "check" => Op(i) = "verifyEmail"
        /\ held' \in [Requests -> Row \cup {NoRow}]
        /\ where = "done" \/ held'[i] = h
        /\ \A j \in Requests \ {i} : held'[j] = held[j]
  <2>1. User(i) \in Users
    BY DEF TInv, Shape, HoldsUser, FindById, Awaits, Mailing
  <2>2. rows[User(i)] \in Row \cup {NoRow}
    BY <2>1 DEF TInv, TypeOK
  <2>3. CASE /\ IsLive(User(i))
             /\ held' = [held EXCEPT ![i] = rows[User(i)]]
             /\ Advance(i, AfterFind(i))
    <3>1. AfterFind(i) \in {"done", "check", "save"}
      BY DEF AfterFind
    <3>2. AfterFind(i) = "check" => Op(i) = "verifyEmail"
      BY DEF AfterFind
    <3>3. rows[User(i)] \in Row
      BY <2>2, <2>3 DEF IsLive
    <3>4. QED
      BY <2>3, <3>1, <3>2, <3>3 DEF TInv, TypeOK
  <2>4. CASE held' = held /\ Advance(i, "done")
    BY <2>4 DEF TInv, TypeOK
  <2>5. QED
    BY <2>3, <2>4 DEF FindById
<1>2. TypeOK'
  BY <1>1 DEF TInv, TypeOK, FindById, Advance, Awaits
<1>3. /\ Op(i) \notin Creations \cup Mailing /\ pc[i] = "find"
      /\ UNCHANGED <<rows, arg>>
  BY DEF FindById, Mailing
<1>4. Shape'
  BY <1>1, <1>3, AdvanceFacts DEF TInv, Shape, HoldsUser, Op, User, Awaits
<1>5. QED
  BY <1>2, <1>4 DEF TInv

LEMMA InsertTInv ==
    ASSUME TInv, NEW i \in Requests, Insert(i)
    PROVE  TInv'
<1> DEFINE row == [password |-> arg[i].password, verified |-> arg[i].verified,
                   deleted |-> FALSE]
<1>1. /\ arg[i] \in Arg /\ User(i) \in Users /\ Op(i) \in Creations
      /\ pc[i] = "insert"
  BY DEF TInv, Shape, HoldsUser, Insert, Awaits
<1>2. row \in Row
  BY <1>1 DEF Arg, Row
<1>3. PICK where \in {"set", "done"} :
        /\ Advance(i, where)
        /\ rows' = rows \/ rows' = [rows EXCEPT ![User(i)] = row]
        /\ UNCHANGED <<cached, mails, last, used, arg, held>>
  BY DEF Insert
<1> HIDE DEF row
<1>4. TypeOK'
  BY <1>2, <1>3 DEF TInv, TypeOK, Advance, Awaits
<1>5. \A u \in Users : rows'[u] = rows[u] \/ rows'[u] \in Row
  BY <1>1, <1>2, <1>3 DEF TInv, TypeOK
<1>6. Shape'
  BY <1>1, <1>3, <1>5, AdvanceFacts DEF TInv, Shape, HoldsUser, Op, User, Awaits
<1>7. QED
  BY <1>4, <1>6 DEF TInv

LEMMA SetTokenTInv ==
    ASSUME TInv, NEW i \in Requests, SetToken(i)
    PROVE  TInv'
<1>1. PICK t \in Tokens :
        /\ cached' = [cached EXCEPT ![Kind(i)][User(i)] = t]
        /\ arg' = [arg EXCEPT ![i].token = t]
        /\ Advance(i, "mail")
        /\ UNCHANGED <<rows, mails, last, used, held>>
  BY DEF SetToken, FreshTokens
<1>2. arg[i] \in Arg /\ User(i) \in Users /\ pc[i] = "set"
  BY DEF TInv, Shape, HoldsUser, SetToken, Awaits
<1>3. /\ arg' \in [Requests -> Arg \cup {NoArg}] /\ arg'[i] \in Arg
      /\ arg'[i].user = arg[i].user /\ arg'[i].token = t
      /\ \A j \in Requests \ {i} : arg'[j] = arg[j]
  BY <1>1, <1>2 DEF TInv, TypeOK, Arg
<1>4. Kind(i) \in Kinds
  BY DEF Kind, Kinds
<1>5. cached' \in [Kinds -> [Users -> Tokens \cup {NoToken}]]
  BY <1>1, <1>2, <1>4 DEF TInv, TypeOK
<1>6. TypeOK'
  BY <1>1, <1>3, <1>5 DEF TInv, TypeOK, Advance, Awaits
<1>7. Shape'
  BY <1>1, <1>2, <1>3, AdvanceFacts DEF TInv, Shape, HoldsUser, Op, User, Awaits
<1>8. QED
  BY <1>6, <1>7 DEF TInv

LEMMA MailTokenTInv ==
    ASSUME TInv, NEW i \in Requests, MailToken(i)
    PROVE  TInv'
<1>1. User(i) \in Users /\ arg[i].token \in Tokens /\ pc[i] = "mail"
  BY DEF TInv, Shape, HoldsUser, MailToken, Awaits
<1>2. Kind(i) \in Kinds
  BY DEF Kind, Kinds
<1>3. mails' \subseteq Mail
  BY <1>1, <1>2 DEF TInv, TypeOK, MailToken, Mail
<1>4. last' \in [Kinds -> [Users -> Tokens \cup {NoToken}]]
  BY <1>1, <1>2 DEF TInv, TypeOK, MailToken
<1>5. TypeOK'
  BY <1>3, <1>4 DEF TInv, TypeOK, MailToken, Advance, Awaits
<1>6. Shape'
  BY <1>1, AdvanceFacts DEF TInv, Shape, HoldsUser, MailToken, Op, User, Awaits
<1>7. QED
  BY <1>5, <1>6 DEF TInv

LEMMA CheckTokenTInv ==
    ASSUME TInv, NEW i \in Requests, CheckToken(i)
    PROVE  TInv'
<1>1. /\ pc[i] = "check" /\ Op(i) \in {"verifyEmail", "reset"}
      /\ User(i) \in Users
  BY DEF TInv, Shape, HoldsUser, CheckToken, Awaits
<1>2. PICK where \in {"done", "find", "save"} :
        /\ Advance(i, where)
        /\ where = "find" => Op(i) = "reset"
        /\ where = "save" => Op(i) = "verifyEmail"
  BY <1>1 DEF CheckToken
<1>3. TypeOK'
  BY <1>2 DEF TInv, TypeOK, CheckToken, Advance, Awaits
<1>4. pc[i] = "check" /\ Op(i) = "verifyEmail" =>
        held[i] \in Row /\ rows[User(i)] \in Row
  BY DEF TInv, Shape, HoldsUser
<1>5. Shape'
  BY <1>1, <1>2, <1>4, AdvanceFacts
  DEF TInv, Shape, HoldsUser, CheckToken, Op, User, Awaits, Creations, Mailing
<1>6. QED
  BY <1>3, <1>5 DEF TInv

LEMMA EraseTokenTInv ==
    ASSUME TInv, NEW i \in Requests, EraseToken(i)
    PROVE  TInv'
<1>1. User(i) \in Users /\ Kind(i) \in Kinds
  BY DEF TInv, Shape, EraseToken, Awaits, Kind, Kinds
<1>2. cached' \in [Kinds -> [Users -> Tokens \cup {NoToken}]]
  BY <1>1 DEF TInv, TypeOK, EraseToken
<1>3. TypeOK'
  BY <1>2 DEF TInv, TypeOK, EraseToken, Advance, Awaits
<1>4. Shape'
  BY AdvanceFacts DEF TInv, Shape, HoldsUser, EraseToken, Op, User, Awaits
<1>5. QED
  BY <1>3, <1>4 DEF TInv

\* The row that a save leaves.
LEMMA SavedRowFacts ==
    ASSUME TInv, NEW i \in Requests, pc[i] = "save"
    PROVE  /\ SavedRow(i) \in Row
           /\ Op(i) \in {"verifyEmail", "edit", "reset", "change", "remove"}
           /\ Op(i) \in Whole =>
                /\ SavedRow(i).deleted = held[i].deleted
                /\ SavedRow(i).verified =
                        (held[i].verified \/ Op(i) = "verifyEmail")
           /\ Op(i) \notin Whole =>
                /\ SavedRow(i).verified = rows[User(i)].verified
                /\ SavedRow(i).deleted =
                        (rows[User(i)].deleted \/ Op(i) = "remove")
<1>1. /\ arg[i] \in Arg /\ held[i] \in Row /\ rows[User(i)] \in Row
      /\ Op(i) \notin Creations \cup Mailing
  BY DEF TInv, Shape, HoldsUser
<1>2. Op(i) \in {"verifyEmail", "edit", "reset", "change", "remove"}
  BY <1>1 DEF Arg, Ops, Op, Creations, Mailing
<1>3. /\ held[i].password \in Stored /\ Rehashed(held[i].password) \in Stored
      /\ arg[i].password \in Stored /\ held[i].verified \in BOOLEAN
      /\ rows[User(i)].deleted \in BOOLEAN
  BY <1>1, StoredFacts DEF Row, Arg
<1>4. CASE Op(i) \in Whole
  <2>1. SavedRow(i) = WholeEntity(i)
    BY <1>4 DEF SavedRow, Whole
  <2>2. QED
    BY <1>1, <1>2, <1>3, <1>4, <2>1 DEF WholeEntity, Row
<1>5. CASE Op(i) \in {"reset", "change"}
  <2>1. /\ SavedRow(i) = [rows[User(i)] EXCEPT !.password = arg[i].password]
        /\ Op(i) \notin Whole
    BY <1>5 DEF SavedRow, Whole
  <2>2. QED
    BY <1>1, <1>2, <1>3, <1>5, <2>1 DEF Row
<1>6. CASE Op(i) = "remove"
  <2>1. /\ SavedRow(i) = [rows[User(i)] EXCEPT !.deleted = TRUE]
        /\ Op(i) \notin Whole
    BY <1>6 DEF SavedRow, Whole
  <2>2. QED
    BY <1>1, <1>2, <1>3, <1>6, <2>1 DEF Row
<1>7. QED
  BY <1>2, <1>4, <1>5, <1>6 DEF Whole

\* What a save does.
LEMMA SaveFacts ==
    ASSUME TInv, NEW i \in Requests, Save(i)
    PROVE  /\ pc[i] = "save" /\ User(i) \in Users
           /\ \E where \in {"erase", "done"} :
                /\ Advance(i, where)
                /\ where = "erase" => Op(i) \in {"verifyEmail", "reset"}
           /\ \/ rows' = rows
              \/ /\ rows' = [rows EXCEPT ![User(i)] = SavedRow(i)]
                 /\ IndexAllows(rows')
           /\ used' \subseteq Tokens
           /\ UNCHANGED <<cached, mails, last, arg, held>>
<1>1. pc[i] = "save" /\ User(i) \in Users /\ arg[i] \in Arg
  BY DEF TInv, Shape, HoldsUser, Save, Awaits
<1>2. arg[i].token \in Tokens \cup {NoToken}
  BY <1>1 DEF Arg
<1>3. QED
  BY <1>1, <1>2 DEF Save, TInv, TypeOK

LEMMA SaveTInv ==
    ASSUME TInv, NEW i \in Requests, Save(i)
    PROVE  TInv'
<1>1. PICK where \in {"erase", "done"} :
        /\ Advance(i, where)
        /\ where = "erase" => Op(i) \in {"verifyEmail", "reset"}
  BY SaveFacts
<1>2. /\ pc[i] = "save" /\ User(i) \in Users /\ SavedRow(i) \in Row
      /\ UNCHANGED <<arg, held>>
  BY SaveFacts, SavedRowFacts
<1>3. /\ rows' \in [Users -> Row \cup {NoRow}]
      /\ \A u \in Users : rows'[u] = rows[u] \/ rows'[u] \in Row
  BY <1>2, SaveFacts DEF TInv, TypeOK
<1>4. TypeOK'
  BY <1>1, <1>3, SaveFacts DEF TInv, TypeOK, Advance, Awaits
<1>5. Shape'
  BY <1>1, <1>2, <1>3, AdvanceFacts
  DEF TInv, Shape, HoldsUser, Op, User, Awaits
<1>6. QED
  BY <1>4, <1>5 DEF TInv

LEMMA AbortTInv ==
    ASSUME TInv, NEW i \in Requests, Abort(i)
    PROVE  TInv'
<1>1. TypeOK'
  BY DEF TInv, TypeOK, Abort, Advance, Awaits
<1>2. Shape'
  BY AdvanceFacts DEF TInv, Shape, HoldsUser, Abort, Op, User, Awaits
<1>3. QED
  BY <1>1, <1>2 DEF TInv

LEMMA ExpireTInv ==
    ASSUME TInv, Expire
    PROVE  TInv'
<1>1. PICK k \in Kinds, u \in Users :
        /\ cached' = [cached EXCEPT ![k][u] = NoToken]
        /\ last' = [last EXCEPT ![k][u] =
                        IF @ = cached[k][u] THEN NoToken ELSE @]
        /\ UNCHANGED <<rows, mails, used, pc, arg, held>>
  BY DEF Expire
<1>2. /\ cached' \in [Kinds -> [Users -> Tokens \cup {NoToken}]]
      /\ last' \in [Kinds -> [Users -> Tokens \cup {NoToken}]]
  BY <1>1 DEF TInv, TypeOK
<1>3. TypeOK'
  BY <1>1, <1>2 DEF TInv, TypeOK
<1>4. Shape'
  BY <1>1 DEF TInv, Shape, HoldsUser, Op, User
<1>5. QED
  BY <1>3, <1>4 DEF TInv

LEMMA NextTInv == TInv /\ [Next]_vars => TInv'
<1>1. SUFFICES ASSUME TInv, [Next]_vars PROVE TInv'
  OBVIOUS
<1>2. CASE UNCHANGED vars
  BY <1>1, <1>2 DEF TInv, TypeOK, Shape, HoldsUser, Op, User, vars
<1>3. ASSUME NEW i \in Requests, Arrive(i) \/ RequestStep(i) \/ Abort(i)
      PROVE  TInv'
  BY <1>1, <1>3, ArriveTInv, FindNoneTInv, FindByEmailTInv, FindByIdTInv,
     InsertTInv, SetTokenTInv, MailTokenTInv, CheckTokenTInv, EraseTokenTInv,
     SaveTInv, AbortTInv
  DEF RequestStep
<1>4. QED
  BY <1>1, <1>2, <1>3, ExpireTInv DEF Next

\* TypeOK of UserAccount holds of every behaviour: in particular a save by a
\* request always finds the row and the entity that it needs.
THEOREM TypeCorrect == Spec => []TypeOK
<1>1. TInv => TypeOK
  BY DEF TInv
<1>2. QED
  BY InitTInv, NextTInv, <1>1, PTL DEF Spec

-----------------------------------------------------------------------------
(***************************************************************************)
(* One account per address: the index is consulted by every write that can *)
(* make a row live.                                                        *)
(***************************************************************************)
\* What a step does to the table.
LEMMA RowsFacts ==
    ASSUME TInv, NEW i \in Requests, RequestStep(i) \/ Abort(i)
    PROVE  \/ rows' = rows
           \/ /\ pc[i] = "insert" /\ Op(i) \in Creations
              /\ User(i) \in Users /\ IndexAllows(rows')
              /\ \E r \in Row : rows' = [rows EXCEPT ![User(i)] = r]
           \/ /\ pc[i] = "save" /\ User(i) \in Users /\ IndexAllows(rows')
              /\ rows' = [rows EXCEPT ![User(i)] = SavedRow(i)]
<1>1. CASE Insert(i)
  <2> DEFINE r == [password |-> arg[i].password,
                   verified |-> arg[i].verified, deleted |-> FALSE]
  <2>1. arg[i] \in Arg /\ User(i) \in Users /\ Op(i) \in Creations
    BY <1>1 DEF TInv, Shape, Insert, Awaits
  <2>2. r \in Row
    BY <2>1 DEF Arg, Row
  <2>3. rows' = rows \/ (/\ rows' = [rows EXCEPT ![User(i)] = r]
                         /\ IndexAllows(rows'))
    BY <1>1 DEF Insert
  <2> HIDE DEF r
  <2>4. QED
    BY <1>1, <2>1, <2>2, <2>3 DEF Insert
<1>2. CASE Save(i)
  BY <1>2, SaveFacts
<1>3. CASE \/ FindNone(i) \/ FindByEmail(i) \/ FindById(i) \/ SetToken(i)
           \/ MailToken(i) \/ CheckToken(i) \/ EraseToken(i) \/ Abort(i)
  BY <1>3
  DEF FindNone, FindByEmail, FindById, SetToken, MailToken, CheckToken,
      EraseToken, Abort
<1>4. QED
  BY <1>1, <1>2, <1>3 DEF RequestStep

\* OneLiveAccount of UserAccount holds of every behaviour, however requests
\* overlap and fail.
THEOREM OneAccount == Spec => []OneLiveAccount
<1>1. Init => OneLiveAccount
  BY DEF Init, OneLiveAccount, IsLive
<1>2. TInv /\ OneLiveAccount /\ [Next]_vars => OneLiveAccount'
  <2>1. SUFFICES ASSUME TInv, OneLiveAccount, [Next]_vars
                 PROVE  rows' = rows \/ IndexAllows(rows')
    BY DEF OneLiveAccount, IsLive, IndexAllows
  <2>2. CASE UNCHANGED vars
    BY <2>2 DEF vars
  <2>3. ASSUME NEW i \in Requests, Arrive(i)
        PROVE  rows' = rows
    BY <2>1, <2>3, ArriveFacts
  <2>4. ASSUME NEW i \in Requests, RequestStep(i) \/ Abort(i)
        PROVE  rows' = rows \/ IndexAllows(rows')
    BY <2>1, <2>4, RowsFacts
  <2>5. CASE Expire
    BY <2>5 DEF Expire
  <2>6. QED
    BY <2>1, <2>2, <2>3, <2>4, <2>5 DEF Next
<1>3. QED
  BY InitTInv, NextTInv, <1>1, <1>2, PTL DEF Spec

-----------------------------------------------------------------------------
(***************************************************************************)
(* Verifications and removals.  Requests that must not overlap do not, the *)
(* rows that insertions will make are free, and what a request holds of a  *)
(* user that it will save whole is still so.                               *)
(***************************************************************************)
PairsApart ==
    \A i, j \in InFlight : i # j => {Op(i), Op(j)} \notin Apart

Creates(i) == pc[i] \in {"find", "insert"} /\ Op(i) \in Creations

NewRowsFree ==
    \A i \in Requests : Creates(i) =>
        /\ rows[User(i)] = NoRow
        /\ \A j \in Requests : Creates(j) /\ User(j) = User(i) => j = i

CInv == TInv /\ PairsApart /\ NewRowsFree

LEMMA InitCInv == Init => CInv
BY InitTInv
DEF Init, CInv, PairsApart, InFlight, NewRowsFree, Creates, Awaits

\* What a step of a request leaves alone.
LEMMA StepFacts ==
    ASSUME TInv, NEW i \in Requests, RequestStep(i) \/ Abort(i)
    PROVE  /\ pc[i] \in Awaits
           /\ pc'[i] = "insert" => pc[i] = "find"
           /\ pc'[i] = "find" => Op(i) = "reset"
           /\ Op(i)' = Op(i)
           /\ Op(i) \notin Mailing => User(i)' = User(i)
           /\ \A j \in Requests \ {i} :
                /\ pc'[j] = pc[j] /\ held'[j] = held[j]
                /\ Op(j)' = Op(j) /\ User(j)' = User(j)
<1> USE DEF Op, User
<1>1. CASE FindByEmail(i)
  <2>1. arg[i] \in Arg
    BY <1>1 DEF TInv, Shape, FindByEmail
  <2>2. PICK where \in {"set", "done"} :
          /\ Advance(i, where)
          /\ \/ arg' = arg
             \/ \E u \in Users : arg' = [arg EXCEPT ![i].user = u]
          /\ held' = held
    BY <1>1 DEF FindByEmail
  <2>3. /\ arg'[i].op = arg[i].op
        /\ \A j \in Requests \ {i} : arg'[j] = arg[j]
    BY <2>1, <2>2 DEF TInv, TypeOK, Arg
  <2>4. QED
    BY <1>1, <2>2, <2>3, AdvanceFacts DEF FindByEmail, TInv, Mailing, Awaits
<1>2. CASE SetToken(i)
  <2>1. arg[i] \in Arg
    BY <1>2 DEF TInv, Shape, SetToken
  <2>2. PICK t \in Tokens : arg' = [arg EXCEPT ![i].token = t]
    BY <1>2 DEF SetToken, FreshTokens
  <2>3. /\ arg'[i].op = arg[i].op /\ arg'[i].user = arg[i].user
        /\ \A j \in Requests \ {i} : arg'[j] = arg[j]
    BY <2>1, <2>2 DEF TInv, TypeOK, Arg
  <2>4. QED
    BY <1>2, <2>3, AdvanceFacts DEF SetToken, TInv, Awaits
<1>3. CASE FindById(i)
  <2>1. PICK where \in {"done", "check", "save"} : Advance(i, where)
    BY <1>3 DEF FindById, AfterFind
  <2>2. \A j \in Requests \ {i} : held'[j] = held[j]
    BY <1>3 DEF FindById, TInv, TypeOK
  <2>3. QED
    BY <1>3, <2>1, <2>2, AdvanceFacts DEF FindById, TInv, Awaits
<1>4. CASE CheckToken(i)
  <2>1. PICK where \in {"done", "find", "save"} :
          Advance(i, where) /\ (where = "find" => Op(i) = "reset")
    BY <1>4 DEF CheckToken
  <2>2. QED
    BY <1>4, <2>1, AdvanceFacts DEF CheckToken, TInv, Awaits
<1>5. CASE FindNone(i)
  <2>1. PICK where \in {"done", "insert"} : Advance(i, where)
    BY <1>5 DEF FindNone
  <2>2. QED
    BY <1>5, <2>1, AdvanceFacts DEF FindNone, TInv, Awaits
<1>6. CASE Insert(i)
  <2>1. PICK where \in {"done", "set"} : Advance(i, where)
    BY <1>6 DEF Insert
  <2>2. QED
    BY <1>6, <2>1, AdvanceFacts DEF Insert, TInv, Awaits
<1>7. CASE Save(i)
  <2>1. PICK where \in {"done", "erase"} : Advance(i, where)
    BY <1>7, SaveFacts
  <2>2. QED
    BY <1>7, <2>1, SaveFacts, AdvanceFacts DEF TInv, Awaits
<1>8. CASE MailToken(i) \/ EraseToken(i) \/ Abort(i)
  <2>1. Advance(i, "done") /\ UNCHANGED <<arg, held>> /\ pc[i] \in Awaits
    BY <1>8 DEF MailToken, EraseToken, Abort, Awaits
  <2>2. QED
    BY <2>1, AdvanceFacts DEF TInv
<1>9. QED
  BY <1>1, <1>2, <1>3, <1>4, <1>5, <1>6, <1>7, <1>8 DEF RequestStep

LEMMA ArriveCInv ==
    ASSUME CInv, NEW i \in Requests, Arrive(i)
    PROVE  CInv'
<1>1. TInv /\ TInv'
  BY ArriveTInv DEF CInv
<1>2. PICK where \in {"find", "check"}, a \in Arg :
        /\ Admitted(a.op)
        /\ pc' = [pc EXCEPT ![i] = where]
        /\ arg' = [arg EXCEPT ![i] = a]
        /\ a.op \in Creations =>
              /\ rows[a.user] = NoRow
              /\ \A j \in InFlight : arg[j].user # a.user
        /\ where = "check" => a.op = "reset"
        /\ UNCHANGED rows
  BY <1>1, ArriveFacts
<1>3. /\ pc[i] = "new" /\ pc'[i] = where /\ arg'[i] = a
      /\ \A j \in Requests \ {i} : pc'[j] = pc[j] /\ arg'[j] = arg[j]
  BY <1>1, <1>2, ArriveFacts DEF TInv, TypeOK
<1>4. PairsApart'
  <2>1. \A j \in InFlight : {a.op, Op(j)} \notin Apart
    BY <1>2 DEF Admitted, Op
  <2>2. \A j \in InFlight : {Op(j), a.op} = {a.op, Op(j)}
    OBVIOUS
  <2>3. QED
    BY <1>3, <2>1, <2>2 DEF CInv, PairsApart, InFlight, Op
<1>5. NewRowsFree'
  BY <1>2, <1>3 DEF CInv, NewRowsFree, Creates, Op, User, InFlight, Awaits
<1>6. QED
  BY <1>1, <1>4, <1>5 DEF CInv

LEMMA StepCInv ==
    ASSUME CInv, NEW i \in Requests, RequestStep(i) \/ Abort(i)
    PROVE  CInv'
<1>1. TInv /\ TInv'
  BY NextTInv DEF CInv, Next
<1>2. \A j \in Requests : Op(j)' = Op(j)
  BY <1>1, StepFacts
<1>3. PairsApart'
  BY <1>1, <1>2, StepFacts DEF CInv, PairsApart, InFlight
<1>4. \A j \in Requests : Creates(j)' =>
        Creates(j) /\ User(j)' = User(j) /\ (j = i => pc[i] = "find")
  BY <1>1, <1>2, StepFacts DEF Creates, Creations, Mailing
<1>5. \A j \in Requests : Creates(j)' => rows'[User(j)] = rows[User(j)]
  <2>1. TAKE j \in Requests
  <2>2. HAVE Creates(j)'
  <2>3. Creates(j) /\ rows[User(j)] = NoRow /\ (j = i => pc[i] = "find")
    BY <1>4, <2>2 DEF CInv, NewRowsFree
  <2>4. ASSUME pc[i] = "insert", Op(i) \in Creations
        PROVE  User(i) # User(j)
    BY <2>3, <2>4 DEF CInv, NewRowsFree, Creates
  <2>5. ASSUME pc[i] = "save"
        PROVE  User(i) # User(j)
    BY <2>3, <2>5, ConstantsAssumption DEF CInv, TInv, Shape, HoldsUser
  <2>6. User(j) \in Users
    BY <1>1, <2>3 DEF TInv, Shape, Creates, Awaits, Creations, Mailing
  <2>7. QED
    BY <1>1, <2>4, <2>5, <2>6, RowsFacts DEF TInv, TypeOK
<1>6. NewRowsFree'
  BY <1>4, <1>5 DEF CInv, NewRowsFree
<1>7. QED
  BY <1>1, <1>3, <1>6 DEF CInv

LEMMA IdleCInv ==
    ASSUME CInv, UNCHANGED vars \/ Expire
    PROVE  CInv'
<1>1. TInv'
  BY NextTInv DEF CInv, Next
<1>2. UNCHANGED <<rows, pc, arg, held>>
  BY DEF vars, Expire
<1>3. QED
  BY <1>1, <1>2
  DEF CInv, PairsApart, InFlight, NewRowsFree, Creates, Op, User

\* An edit that is about to save has read whether the row is verified; whoever
\* saves a user whole has read one that is not deleted, and the row is not.
EditKnows ==
    \A i \in Requests : pc[i] = "save" /\ Op(i) = "edit" =>
        held[i].verified = rows[User(i)].verified

WholeLive ==
    \A i \in Requests : HoldsUser(i) /\ Op(i) \in Whole =>
        ~ held[i].deleted /\ ~ rows[User(i)].deleted

LEMMA FindHolds ==
    ASSUME TInv, NEW i \in Requests, FindById(i), pc'[i] # "done"
    PROVE  held'[i] = rows[User(i)] /\ IsLive(User(i)) /\ UNCHANGED <<rows, arg>>
BY AdvanceFacts DEF FindById, TInv, TypeOK

\* Only finding it makes a request hold a user.
LEMMA HoldsFacts ==
    ASSUME TInv, NEW i \in Requests, RequestStep(i) \/ Abort(i), HoldsUser(i)',
           Op(i) \in Whole
    PROVE  FindById(i) \/ (HoldsUser(i) /\ CheckToken(i) /\ Op(i) = "verifyEmail")
<1>1. pc'[i] \in {"save", "check"}
  BY DEF HoldsUser
<1>2. CASE FindNone(i) \/ FindByEmail(i) \/ Insert(i) \/ SetToken(i)
           \/ MailToken(i) \/ EraseToken(i) \/ Save(i) \/ Abort(i)
  <2>1. \E where \in {"insert", "done", "set", "mail", "erase"} :
            Advance(i, where)
    BY <1>2, SaveFacts
    DEF FindNone, FindByEmail, Insert, SetToken, MailToken, EraseToken, Abort
  <2>2. QED
    BY <1>1, <2>1, AdvanceFacts DEF TInv
<1>3. CASE CheckToken(i)
  BY <1>3 DEF CheckToken, TInv, Shape, HoldsUser, Whole
<1>4. QED
  BY <1>2, <1>3 DEF RequestStep

\* A request that holds a user saves that user.
LEMMA HoldsRow ==
    ASSUME CInv, NEW j \in Requests, HoldsUser(j), Op(j) \in Whole
    PROVE  User(j) \in Users /\ rows[User(j)] \in Row /\ j \in InFlight
BY DEF CInv, TInv, Shape, HoldsUser, InFlight, Awaits, Mailing, Whole

\* VInv: verifications.
VInv == CInv /\ EditKnows

LEMMA StepVInv ==
    ASSUME VInv, {"verifyEmail", "edit"} \in Apart, NEW i \in Requests,
           RequestStep(i) \/ Abort(i)
    PROVE  /\ EditKnows'
           /\ \A u \in Users : rows[u] # NoRow /\ rows[u].verified =>
                                   rows'[u].verified
<1>1. TInv /\ CInv /\ CInv'
  BY StepCInv DEF VInv, CInv
<1>2. \A u \in Users : rows[u] # NoRow =>
        \/ rows'[u] = rows[u]
        \/ /\ pc[i] = "save" /\ u = User(i)
           /\ rows'[u] = SavedRow(i)
  BY <1>1, RowsFacts DEF CInv, NewRowsFree, Creates, TInv, TypeOK
<1>3. \A u \in Users : rows[u] # NoRow /\ rows[u].verified =>
                          rows'[u].verified
  <2>1. ASSUME pc[i] = "save", rows[User(i)].verified
        PROVE  SavedRow(i).verified
    BY <1>1, <2>1, SavedRowFacts DEF VInv, EditKnows, Whole
  <2>2. QED
    BY <1>2, <2>1
<1>4. EditKnows'
  <2>1. SUFFICES ASSUME NEW j \in Requests, (pc[j] = "save" /\ Op(j) = "edit")'
                 PROVE  (held[j].verified = rows[User(j)].verified)'
    BY DEF EditKnows
  <2>2. pc'[j] = "save" /\ Op(j)' = "edit"
    BY <2>1
  <2>3. Op(j) = "edit" /\ User(j)' = User(j)
    BY <1>1, <2>2, StepFacts DEF Mailing
  <2>4. CASE j = i
    <3>1. HoldsUser(i)' /\ Op(i) \in Whole
      BY <2>2, <2>3, <2>4 DEF HoldsUser, Whole
    <3>2. FindById(i)
      BY <1>1, <2>3, <2>4, <3>1, HoldsFacts
    <3>3. QED
      BY <1>1, <2>2, <2>3, <2>4, <3>2, FindHolds
  <2>5. CASE j # i
    <3>1. /\ pc[j] = "save" /\ held'[j] = held[j] /\ HoldsUser(j)
          /\ Op(j) \in Whole
      BY <1>1, <2>2, <2>3, <2>5, StepFacts DEF HoldsUser, Whole
    <3>2. User(j) \in Users /\ rows[User(j)] \in Row /\ j \in InFlight
      BY <1>1, <3>1, HoldsRow
    <3>3. i \in InFlight
      BY <1>1, StepFacts DEF InFlight
    <3>4. Op(i) # "verifyEmail"
      BY <1>1, <2>3, <2>5, <3>2, <3>3 DEF CInv, PairsApart
    <3>5. ASSUME pc[i] = "save", User(i) = User(j)
          PROVE  SavedRow(i).verified = rows[User(j)].verified
      <4>1. CASE Op(i) \in Whole
        <5>1. Op(i) = "edit" /\ held[i].verified = rows[User(i)].verified
          BY <3>4, <3>5, <4>1 DEF VInv, EditKnows, Whole
        <5>2. held[i].verified \in BOOLEAN
          BY <1>1, <3>5 DEF TInv, Shape, HoldsUser, Row
        <5>3. QED
          BY <1>1, <3>5, <4>1, <5>1, <5>2, SavedRowFacts
      <4>2. CASE Op(i) \notin Whole
        BY <1>1, <3>5, <4>2, SavedRowFacts
      <4>3. QED
        BY <4>1, <4>2
    <3>6. rows[User(j)] # NoRow
      BY <3>2, ConstantsAssumption
    <3>7. rows'[User(j)].verified = rows[User(j)].verified
      BY <1>2, <3>2, <3>5, <3>6
    <3>8. QED
      BY <2>3, <3>1, <3>7 DEF VInv, EditKnows
  <2>6. QED
    BY <2>4, <2>5
<1>5. QED
  BY <1>3, <1>4

\* VerifiedStaysVerified of UserAccount holds of every behaviour in which no edit
\* of a profile overlaps with verifyEmail, whatever else overlaps and fails.
THEOREM VerificationFinal ==
    ASSUME {"verifyEmail", "edit"} \in Apart
    PROVE  Spec => VerifiedStaysVerified
<1>1. Init => VInv
  BY InitCInv DEF Init, VInv, EditKnows
<1>2. VInv /\ [Next]_vars =>
        /\ VInv'
        /\ [\A u \in Users :
              rows[u] # NoRow /\ rows[u].verified => rows'[u].verified]_rows
  <2>1. SUFFICES ASSUME VInv, [Next]_vars
                 PROVE  /\ VInv'
                        /\ \/ rows' = rows
                           \/ \A u \in Users :
                                rows[u] # NoRow /\ rows[u].verified =>
                                    rows'[u].verified
    OBVIOUS
  <2>2. CASE UNCHANGED vars \/ Expire
    <3>1. CInv'
      BY <2>1, <2>2, IdleCInv DEF VInv
    <3>2. UNCHANGED <<rows, pc, arg, held>>
      BY <2>2 DEF vars, Expire
    <3>3. QED
      BY <2>1, <3>1, <3>2 DEF VInv, EditKnows, Op, User
  <2>3. ASSUME NEW i \in Requests, Arrive(i)
        PROVE  VInv' /\ rows' = rows
    <3>1. CInv' /\ TInv
      BY <2>1, <2>3, ArriveCInv DEF VInv, CInv
    <3>2. PICK where \in {"find", "check"}, a \in Arg :
            /\ pc' = [pc EXCEPT ![i] = where]
            /\ arg' = [arg EXCEPT ![i] = a]
            /\ UNCHANGED <<rows, held>>
      BY <2>3, <3>1, ArriveFacts
    <3>3. QED
      BY <2>1, <3>1, <3>2 DEF VInv, EditKnows, Op, User, TInv, TypeOK
  <2>4. ASSUME NEW i \in Requests, RequestStep(i) \/ Abort(i)
        PROVE  /\ VInv'
               /\ \A u \in Users : rows[u] # NoRow /\ rows[u].verified =>
                                       rows'[u].verified
    BY <2>1, <2>4, StepVInv, StepCInv DEF VInv
  <2>5. QED
    BY <2>1, <2>2, <2>3, <2>4 DEF Next
<1>3. QED
  BY <1>1, <1>2, PTL DEF Spec, VerifiedStaysVerified

\* RInv: removals.
RInv == CInv /\ WholeLive

LEMMA StepRInv ==
    ASSUME RInv, {"remove", "edit"} \in Apart,
           {"remove", "verifyEmail"} \in Apart, NEW i \in Requests,
           RequestStep(i) \/ Abort(i)
    PROVE  /\ WholeLive'
           /\ \A u \in Users : rows[u] # NoRow /\ rows[u].deleted =>
                                   rows'[u].deleted
<1>1. TInv /\ CInv /\ CInv'
  BY StepCInv DEF RInv, CInv
<1>2. \A u \in Users : rows[u] # NoRow =>
        \/ rows'[u] = rows[u]
        \/ /\ pc[i] = "save" /\ u = User(i)
           /\ rows'[u] = SavedRow(i)
  BY <1>1, RowsFacts DEF CInv, NewRowsFree, Creates, TInv, TypeOK
<1>3. \A u \in Users : rows[u] # NoRow /\ rows[u].deleted => rows'[u].deleted
  <2>1. ASSUME pc[i] = "save", rows[User(i)].deleted
        PROVE  SavedRow(i).deleted
    BY <1>1, <2>1, SavedRowFacts DEF RInv, WholeLive, HoldsUser
  <2>2. QED
    BY <1>2, <2>1
<1>4. WholeLive'
  <2>1. SUFFICES ASSUME NEW j \in Requests, (HoldsUser(j) /\ Op(j) \in Whole)'
                 PROVE  (~ held[j].deleted /\ ~ rows[User(j)].deleted)'
    BY DEF WholeLive
  <2>2. HoldsUser(j)' /\ (Op(j) \in Whole)'
    BY <2>1
  <2>3. Op(j) \in Whole /\ User(j)' = User(j) /\ (Op(j) \in Whole)'
    BY <1>1, <2>2, StepFacts DEF Mailing, Whole
  <2>4. CASE j = i
    <3>1. CASE FindById(i)
      <4>1. pc'[i] # "done"
        BY <2>2, <2>4 DEF HoldsUser
      <4>2. QED
        BY <1>1, <2>3, <2>4, <3>1, <4>1, FindHolds DEF IsLive
    <3>2. CASE HoldsUser(i) /\ CheckToken(i)
      BY <2>3, <2>4, <3>2 DEF RInv, WholeLive, CheckToken
    <3>3. QED
      BY <1>1, <2>2, <2>3, <2>4, <3>1, <3>2, HoldsFacts
  <2>5. CASE j # i
    <3>1. HoldsUser(j) /\ held'[j] = held[j]
      BY <1>1, <2>2, <2>5, StepFacts DEF HoldsUser
    <3>2. User(j) \in Users /\ rows[User(j)] \in Row /\ j \in InFlight
      BY <1>1, <2>3, <3>1, HoldsRow
    <3>3. i \in InFlight
      BY <1>1, StepFacts DEF InFlight
    <3>4. Op(i) # "remove"
      BY <1>1, <2>3, <2>5, <3>2, <3>3 DEF CInv, PairsApart, Whole
    <3>5. ~ held[j].deleted /\ ~ rows[User(j)].deleted
      BY <2>3, <3>1 DEF RInv, WholeLive
    <3>6. ASSUME pc[i] = "save", User(i) = User(j)
          PROVE  ~ SavedRow(i).deleted
      BY <1>1, <3>4, <3>5, <3>6, SavedRowFacts
      DEF RInv, WholeLive, HoldsUser
    <3>7. rows[User(j)] # NoRow
      BY <3>2, ConstantsAssumption
    <3>8. ~ rows'[User(j)].deleted
      BY <1>2, <3>2, <3>5, <3>6, <3>7
    <3>9. QED
      BY <2>3, <3>1, <3>5, <3>8
  <2>6. QED
    BY <2>4, <2>5
<1>5. QED
  BY <1>3, <1>4

\* RemovedAccountStaysRemoved of UserAccount holds of every behaviour in which
\* neither an edit nor verifyEmail overlaps with the removal of an account.
THEOREM RemovalFinal ==
    ASSUME {"remove", "edit"} \in Apart, {"remove", "verifyEmail"} \in Apart
    PROVE  Spec => RemovedAccountStaysRemoved
<1>1. Init => RInv
  BY InitCInv DEF Init, RInv, WholeLive, HoldsUser
<1>2. RInv /\ [Next]_vars =>
        /\ RInv'
        /\ [\A u \in Users :
              rows[u] # NoRow /\ rows[u].deleted => rows'[u].deleted]_rows
  <2>1. SUFFICES ASSUME RInv, [Next]_vars
                 PROVE  /\ RInv'
                        /\ \/ rows' = rows
                           \/ \A u \in Users :
                                rows[u] # NoRow /\ rows[u].deleted =>
                                    rows'[u].deleted
    OBVIOUS
  <2>2. CASE UNCHANGED vars \/ Expire
    <3>1. CInv'
      BY <2>1, <2>2, IdleCInv DEF RInv
    <3>2. UNCHANGED <<rows, pc, arg, held>>
      BY <2>2 DEF vars, Expire
    <3>3. QED
      BY <2>1, <3>1, <3>2 DEF RInv, WholeLive, HoldsUser, Op, User
  <2>3. ASSUME NEW i \in Requests, Arrive(i)
        PROVE  RInv' /\ rows' = rows
    <3>1. CInv' /\ TInv
      BY <2>1, <2>3, ArriveCInv DEF RInv, CInv
    <3>2. PICK where \in {"find", "check"}, a \in Arg :
            /\ pc' = [pc EXCEPT ![i] = where]
            /\ arg' = [arg EXCEPT ![i] = a]
            /\ where = "check" => a.op = "reset"
            /\ UNCHANGED <<rows, held>>
      BY <2>3, <3>1, ArriveFacts
    <3>3. QED
      BY <2>1, <3>1, <3>2
      DEF RInv, WholeLive, HoldsUser, Op, User, TInv, TypeOK
  <2>4. ASSUME NEW i \in Requests, RequestStep(i) \/ Abort(i)
        PROVE  /\ RInv'
               /\ \A u \in Users : rows[u] # NoRow /\ rows[u].deleted =>
                                       rows'[u].deleted
    BY <2>1, <2>4, StepRInv, StepCInv DEF RInv
  <2>5. QED
    BY <2>1, <2>2, <2>3, <2>4 DEF Next
<1>3. QED
  BY <1>1, <1>2, PTL DEF Spec, RemovedAccountStaysRemoved
-----------------------------------------------------------------------------
(***************************************************************************)
(* Tokens.  Each was signed by one request, for one user and one kind of   *)
(* mail; all that hold it came by it through that mail.                    *)
(***************************************************************************)
Signed(k, u, t) == \E i \in Requests :
    pc[i] # "new" /\ arg[i].token = t /\ Kind(i) = k /\ User(i) = u

OneOrigin == \A i, j \in Requests :
    pc[i] # "new" /\ pc[j] # "new" /\ arg[i].token \in Tokens /\ arg[i].token = arg[j].token =>
        Kind(i) = Kind(j) /\ User(i) = User(j)

MailsSigned == \A m \in mails : Signed(m.kind, m.user, m.token)
CachedSigned == \A k \in Kinds, u \in Users :
    cached[k][u] # NoToken => Signed(k, u, cached[k][u])
UsedSigned == \A t \in used : \E i \in Requests : pc[i] # "new" /\ arg[i].token = t

\* Who is mailed a token has none before, and who uses one has it from the start.
TokenGiven == \A i \in Requests : pc[i] # "new" =>
    /\ Op(i) \in {"verifyEmail", "reset"} => pc[i] # "set" /\ arg[i].token \in Tokens
    /\ Op(i) \notin {"verifyEmail", "reset"} /\ pc[i] \in {"find", "insert", "set"} =>
          arg[i].token = NoToken

OInv == CInv /\ OneOrigin /\ MailsSigned /\ CachedSigned /\ UsedSigned /\ TokenGiven

LEMMA InitOInv == Init => OInv
BY InitCInv DEF Init, OInv, OneOrigin, MailsSigned, CachedSigned, UsedSigned, TokenGiven

\* A request that arrives has a token from a mail, or none.
LEMMA ArriveToken ==
    ASSUME TInv, NEW i \in Requests, Arrive(i)
    PROVE  /\ \/ arg'[i].token = NoToken /\ Op(i)' \notin {"verifyEmail", "reset"}
              \/ \E m \in mails : /\ arg'[i].token = m.token /\ User(i)' = m.user
                                  /\ Kind(i)' = m.kind /\ Op(i)' \in {"verifyEmail", "reset"}
           /\ pc'[i] = "check" => Op(i)' = "reset"
           /\ Op(i)' = "reset" => pc'[i] = "check"
           /\ pc'[i] \in {"find", "check"}
<1>1. ASSUME NEW where, NEW op, NEW u, NEW t, NEW p, NEW v, Start(i, where, op, u, t, p, v)
      PROVE  /\ arg'[i].token = t /\ Op(i)' = op /\ User(i)' = u /\ pc'[i] = where
             /\ Kind(i)' = IF op \in {"reset", "forgot"} THEN "reset" ELSE "verification"
  BY <1>1 DEF Start, Op, User, Kind, TInv, TypeOK
<1>2. CASE StartCreation(i)
  <2>1. PICK op \in Creations, u \in Users : \E p, v : Start(i, "find", op, u, NoToken, p, v)
    BY <1>2 DEF StartCreation, Creations
  <2>2. QED
    BY <1>1, <2>1 DEF Creations
<1>3. CASE StartMailing(i)
  <2>1. PICK op \in {"resend", "forgot"} : \E v : Start(i, "find", op, NoUser, NoToken, NoPassword, v)
    BY <1>3 DEF StartMailing
  <2>2. QED
    BY <1>1, <2>1
<1>4. CASE StartWithToken(i)
  <2>1. PICK m \in mails : \E p, v :
          \/ m.kind = "verification" /\ Start(i, "find", "verifyEmail", m.user, m.token, p, v)
          \/ m.kind = "reset" /\ Start(i, "check", "reset", m.user, m.token, p, v)
    BY <1>4 DEF StartWithToken
  <2>2. QED
    BY <1>1, <2>1
<1>5. CASE StartOnUser(i)
  <2>1. PICK op \in {"edit", "remove", "change"}, u \in Users : \E p, v :
          Start(i, "find", op, u, NoToken, p, v)
    BY <1>5 DEF StartOnUser
  <2>2. QED
    BY <1>1, <2>1
<1>6. QED
  BY <1>2, <1>3, <1>4, <1>5 DEF Arrive

\* What a step does to requests and tokens: a mailing request finds its user,
\* then signs its token, and nothing else changes what a request was given.
LEMMA ArgFacts ==
    ASSUME TInv, NEW i \in Requests, RequestStep(i) \/ Abort(i)
    PROVE  /\ \A j \in Requests \ {i} : arg'[j] = arg[j] /\ pc'[j] = pc[j]
           /\ pc[i] \in Awaits /\ pc'[i] # "new" /\ Op(i)' = Op(i) /\ Kind(i)' = Kind(i)
           /\ pc'[i] = "insert" => pc[i] = "find" /\ Op(i) \in Creations
           /\ pc'[i] = "find" => Op(i) = "reset"
           /\ \/ /\ UNCHANGED arg /\ ~ SetToken(i)
                 /\ pc'[i] = "set" => pc[i] = "insert" /\ Op(i) = "register"
              \/ /\ pc[i] = "find" /\ Op(i) \in Mailing /\ arg'[i].token = arg[i].token
                 /\ UNCHANGED <<cached, mails, last, used, rows>> /\ pc'[i] = "set"
                 /\ IsLive(User(i)')
              \/ /\ pc[i] = "set" /\ arg'[i].token \in FreshTokens /\ User(i)' = User(i)
                 /\ cached' = [cached EXCEPT ![Kind(i)][User(i)] = arg'[i].token]
                 /\ UNCHANGED <<mails, last, used, rows>> /\ pc'[i] = "mail"
<1>1. CASE FindByEmail(i)
  <2>1. arg[i] \in Arg
    BY <1>1 DEF TInv, Shape, FindByEmail
  <2>2. /\ pc[i] = "find" /\ Op(i) \in Mailing /\ UNCHANGED <<rows, cached, mails, last, used>>
        /\ \/ Advance(i, "done") /\ UNCHANGED arg
           \/ Advance(i, "set") /\ \E u \in Users : IsLive(u) /\ arg' = [arg EXCEPT ![i].user = u]
    BY <1>1 DEF FindByEmail, Mailing
  <2>3. CASE Advance(i, "done") /\ UNCHANGED arg
    BY <2>2, <2>3, AdvanceFacts DEF SetToken, Op, Kind, TInv, Awaits
  <2>4. CASE Advance(i, "set") /\ \E u \in Users : IsLive(u) /\ arg' = [arg EXCEPT ![i].user = u]
    <3>1. PICK u \in Users : IsLive(u) /\ arg' = [arg EXCEPT ![i].user = u]
      BY <2>4
    <3>2. /\ arg'[i].op = arg[i].op /\ arg'[i].token = arg[i].token /\ arg'[i].user = u
          /\ \A j \in Requests \ {i} : arg'[j] = arg[j]
      BY <2>1, <3>1 DEF TInv, TypeOK, Arg
    <3>3. QED
      BY <2>2, <2>4, <3>1, <3>2, AdvanceFacts DEF Op, Kind, User, TInv, Awaits
  <2>5. QED
    BY <2>2, <2>3, <2>4
<1>2. CASE SetToken(i)
  <2>1. arg[i] \in Arg
    BY <1>2 DEF TInv, Shape, SetToken
  <2>2. PICK t \in FreshTokens :
          /\ cached' = [cached EXCEPT ![Kind(i)][User(i)] = t]
          /\ arg' = [arg EXCEPT ![i].token = t]
    BY <1>2 DEF SetToken
  <2>3. /\ arg'[i].op = arg[i].op /\ arg'[i].token = t /\ arg'[i].user = arg[i].user
        /\ \A j \in Requests \ {i} : arg'[j] = arg[j]
    BY <2>1, <2>2 DEF TInv, TypeOK, Arg
  <2>4. /\ pc[i] = "set" /\ pc'[i] = "mail" /\ UNCHANGED <<mails, last, used, rows>>
        /\ \A j \in Requests \ {i} : pc'[j] = pc[j]
    BY <1>2, AdvanceFacts DEF SetToken, TInv
  <2>5. Op(i)' = Op(i) /\ User(i)' = User(i) /\ Kind(i)' = Kind(i)
    BY <2>3 DEF Op, User, Kind
  <2>6. QED
    BY <2>2, <2>3, <2>4, <2>5 DEF Awaits
<1>3. CASE ~ FindByEmail(i) /\ ~ SetToken(i)
  <2>1. UNCHANGED arg
    BY <1>3 DEF RequestStep, FindNone, FindById, Insert, MailToken, CheckToken, EraseToken, Save, Abort
  <2>2. PICK where \in {"done", "insert", "check", "save", "find", "erase", "set"} :
          /\ Advance(i, where)
          /\ where = "insert" => pc[i] = "find" /\ Op(i) \in Creations
          /\ where = "find" => Op(i) = "reset"
          /\ where = "set" => pc[i] = "insert" /\ Op(i) = "register"
    BY <1>3, SaveFacts
    DEF RequestStep, FindNone, FindById, AfterFind, Insert, MailToken, CheckToken, EraseToken, Save, Abort
  <2>3. pc[i] \in Awaits
    BY StepFacts
  <2>4. QED
    BY <1>3, <2>1, <2>2, <2>3, AdvanceFacts DEF Op, Kind, TInv, Creations, Mailing
<1>4. QED
  BY <1>1, <1>2, <1>3

\* What a step does to the cache, the mails and the used tokens.
LEMMA TokenFacts ==
    ASSUME TInv, NEW i \in Requests, RequestStep(i) \/ Abort(i)
    PROVE  \/ SetToken(i)
           \/ UNCHANGED <<cached, mails, last, used>> /\ pc'[i] \notin {"erase", "mail"}
           \/ /\ pc[i] = "mail" /\ pc'[i] = "done" /\ UNCHANGED <<cached, used>>
              /\ mails' = mails \cup {[kind |-> Kind(i), user |-> User(i), token |-> arg[i].token]}
              /\ last' = [last EXCEPT ![Kind(i)][User(i)] = arg[i].token]
           \/ /\ pc[i] = "erase" /\ pc'[i] = "done" /\ UNCHANGED <<mails, last, used>>
              /\ cached' = [cached EXCEPT ![Kind(i)][User(i)] = NoToken]
           \/ /\ pc[i] = "save" /\ pc'[i] \in {"done", "erase"} /\ UNCHANGED <<cached, mails, last>>
              /\ used' = used \cup ({arg[i].token} \ {NoToken})
              /\ Op(i) \in {"verifyEmail", "reset"} => pc'[i] = "erase"
<1>1. CASE FindNone(i) \/ FindByEmail(i) \/ FindById(i) \/ Insert(i) \/ CheckToken(i) \/ Abort(i)
  <2>1. UNCHANGED <<cached, mails, last, used>>
    BY <1>1 DEF FindNone, FindByEmail, FindById, Insert, CheckToken, Abort
  <2>2. PICK where \in {"done", "insert", "set", "check", "save", "find"} : Advance(i, where)
    BY <1>1 DEF FindNone, FindByEmail, FindById, AfterFind, Insert, CheckToken, Abort
  <2>3. QED
    BY <2>1, <2>2, AdvanceFacts DEF TInv
<1>2. CASE MailToken(i)
  BY <1>2, AdvanceFacts DEF MailToken, TInv
<1>3. CASE EraseToken(i)
  BY <1>3, AdvanceFacts DEF EraseToken, TInv
<1>4. CASE Save(i)
  <2>1. pc[i] = "save" /\ UNCHANGED <<cached, mails, last>>
    BY <1>4 DEF Save
  <2>2. \/ Advance(i, "done") /\ UNCHANGED used
        \/ /\ used' = used \cup ({arg[i].token} \ {NoToken})
           /\ Advance(i, IF Op(i) \in {"verifyEmail", "reset"} THEN "erase" ELSE "done")
    BY <1>4 DEF Save
  <2>3. QED
    BY <2>1, <2>2, AdvanceFacts DEF TInv
<1>5. QED
  BY <1>1, <1>2, <1>3, <1>4 DEF RequestStep

\* A signed token stays so.
LEMMA SignedStays ==
    ASSUME TInv, NEW i \in Requests, RequestStep(i) \/ Abort(i),
           NEW k, NEW u, NEW t \in Tokens, Signed(k, u, t), TokenGiven
    PROVE  Signed(k, u, t)'
<1>1. PICK j \in Requests : pc[j] # "new" /\ arg[j].token = t /\ Kind(j) = k /\ User(j) = u
  BY DEF Signed
<1>2. CASE j # i
  <2>1. pc'[j] = pc[j] /\ arg'[j] = arg[j]
    BY <1>2, ArgFacts
  <2>2. QED
    BY <1>1, <2>1 DEF Signed, Kind, Op, User
<1>3. CASE j = i
  <2>1. pc[i] # "set" /\ ~ (pc[i] = "find" /\ Op(i) \in Mailing)
    BY <1>1, <1>3, ConstantsAssumption DEF TokenGiven, Mailing
  <2>2. UNCHANGED arg
    BY <2>1, ArgFacts
  <2>3. QED
    BY <1>1, <1>3, <2>2, ArgFacts DEF Signed, Kind, Op, User
<1>4. QED
  BY <1>2, <1>3

LEMMA StepOInv ==
    ASSUME OInv, NEW i \in Requests, RequestStep(i) \/ Abort(i)
    PROVE  OInv'
<1>1. CInv' /\ TInv /\ TypeOK'
  BY StepCInv DEF OInv, CInv, TInv
<1>2. OneOrigin /\ MailsSigned /\ CachedSigned /\ UsedSigned /\ TokenGiven
  BY DEF OInv
<1>3. /\ \A j \in Requests \ {i} : arg'[j] = arg[j] /\ pc'[j] = pc[j]
      /\ \A j \in Requests \ {i} : Op(j)' = Op(j) /\ User(j)' = User(j) /\ Kind(j)' = Kind(j)
      /\ pc[i] \in Awaits /\ pc[i] # "new" /\ pc'[i] # "new" /\ Op(i)' = Op(i) /\ Kind(i)' = Kind(i)
  BY <1>1, ArgFacts DEF Op, User, Kind, Awaits
<1>4. OneOrigin' /\ TokenGiven'
  <2>1. CASE UNCHANGED arg /\ (pc'[i] = "set" => pc[i] = "insert" /\ Op(i) = "register")
    <3>1. OneOrigin'
      BY <1>2, <1>3, <2>1 DEF OneOrigin, Op, User, Kind
    <3>2. TokenGiven'
      BY <1>1, <1>2, <1>3, <2>1, ArgFacts DEF TokenGiven, Op, Creations
    <3>3. QED
      BY <3>1, <3>2
  <2>2. CASE pc[i] = "find" /\ Op(i) \in Mailing /\ arg'[i].token = arg[i].token /\ pc'[i] = "set"
    <3>1. arg'[i].token = NoToken
      BY <1>2, <1>3, <2>2 DEF TokenGiven, Mailing
    <3>2. OneOrigin'
      BY <1>2, <1>3, <3>1, ConstantsAssumption DEF OneOrigin
    <3>3. TokenGiven'
      BY <1>2, <1>3, <2>2, <3>1 DEF TokenGiven, Mailing
    <3>4. QED
      BY <3>2, <3>3
  <2>3. CASE pc[i] = "set" /\ arg'[i].token \in FreshTokens /\ pc'[i] = "mail"
    <3>1. \A j \in Requests : pc[j] # "new" => arg[j].token # arg'[i].token
      BY <2>3 DEF FreshTokens
    <3>2. OneOrigin'
      BY <1>2, <1>3, <3>1 DEF OneOrigin
    <3>3. TokenGiven'
      BY <1>2, <1>3, <2>3 DEF TokenGiven
    <3>4. QED
      BY <3>2, <3>3
  <2>4. QED
    BY <1>1, <2>1, <2>2, <2>3, ArgFacts
<1>5. /\ mails \subseteq Mail /\ used \subseteq Tokens
      /\ \A k \in Kinds, u \in Users : cached[k][u] \in Tokens \cup {NoToken}
  BY <1>1 DEF TInv, TypeOK
<1>6. \A k, u : \A t \in Tokens : Signed(k, u, t) => Signed(k, u, t)'
  BY <1>1, <1>2, SignedStays
<1>7. \A t \in used : \E j \in Requests : pc'[j] # "new" /\ arg'[j].token = t
  <2>1. SUFFICES ASSUME NEW t \in used PROVE \E j \in Requests : pc'[j] # "new" /\ arg'[j].token = t
    OBVIOUS
  <2>2. PICK k, u : Signed(k, u, t)
    BY <1>2 DEF UsedSigned, Signed
  <2>3. Signed(k, u, t)'
    BY <1>5, <1>6, <2>2
  <2>4. QED
    BY <2>3 DEF Signed
<1>8. MailsSigned' /\ CachedSigned' /\ UsedSigned'
  <2>1. CASE UNCHANGED <<cached, mails, used>>
    <3>1. MailsSigned'
      BY <1>2, <1>5, <1>6, <2>1 DEF MailsSigned, Mail
    <3>2. CachedSigned'
      BY <1>2, <1>5, <1>6, <2>1 DEF CachedSigned
    <3>3. QED
      BY <1>7, <2>1, <3>1, <3>2 DEF UsedSigned
  <2>2. CASE SetToken(i)
    <3>1. PICK t \in Tokens :
            /\ arg'[i].token = t /\ cached' = [cached EXCEPT ![Kind(i)][User(i)] = t]
            /\ User(i)' = User(i) /\ UNCHANGED <<mails, used>>
      BY <1>1, <2>2, ArgFacts DEF SetToken, FreshTokens
    <3>2. PICK k0, u0 : k0 = Kind(i) /\ u0 = User(i)
      OBVIOUS
    <3>3. Signed(k0, u0, t)'
      BY <1>3, <3>1, <3>2 DEF Signed
    <3>4. CachedSigned'
      <4>1. SUFFICES ASSUME NEW k \in Kinds, NEW u \in Users, NEW s, s = cached'[k][u], s # NoToken
                     PROVE  Signed(k, u, s)'
        BY DEF CachedSigned, Signed
      <4>2. CASE k = k0 /\ u = u0
        <5>1. s = t
          BY <1>1, <3>1, <3>2, <4>1, <4>2 DEF TInv, TypeOK
        <5>2. QED
          BY <3>3, <4>2, <5>1
      <4>3. CASE ~ (k = k0 /\ u = u0)
        <5>1. s = cached[k][u]
          BY <1>1, <3>1, <3>2, <4>1, <4>3 DEF TInv, TypeOK
        <5>2. Signed(k, u, s) /\ s \in Tokens
          BY <1>2, <1>5, <4>1, <5>1 DEF CachedSigned
        <5>3. QED
          BY <1>6, <5>2
      <4>4. QED
        BY <4>2, <4>3
    <3>5. MailsSigned'
      BY <1>2, <1>5, <1>6, <3>1 DEF MailsSigned, Mail
    <3>6. QED
      BY <1>7, <3>1, <3>4, <3>5 DEF UsedSigned
  <2>3. CASE /\ pc[i] = "mail" /\ pc'[i] = "done" /\ UNCHANGED <<cached, used>>
             /\ mails' = mails \cup {[kind |-> Kind(i), user |-> User(i), token |-> arg[i].token]}
    <3>1. UNCHANGED arg
      BY <1>1, <2>3, ArgFacts
    <3>2. Signed(Kind(i), User(i), arg[i].token)
      BY <2>3 DEF Signed
    <3>3. arg[i].token \in Tokens
      BY <1>1, <2>3 DEF TInv, Shape
    <3>4. MailsSigned'
      BY <1>2, <1>5, <1>6, <2>3, <3>2, <3>3 DEF MailsSigned, Mail
    <3>5. CachedSigned'
      BY <1>2, <1>5, <1>6, <2>3 DEF CachedSigned
    <3>6. QED
      BY <1>7, <2>3, <3>4, <3>5 DEF UsedSigned
  <2>4. CASE /\ pc[i] = "erase" /\ pc'[i] = "done" /\ UNCHANGED <<mails, used>>
             /\ cached' = [cached EXCEPT ![Kind(i)][User(i)] = NoToken]
    <3>1. \A k \in Kinds, u \in Users : cached'[k][u] \in {NoToken, cached[k][u]}
      BY <1>1, <2>4 DEF TInv, TypeOK
    <3>2. CachedSigned'
      BY <1>2, <1>5, <1>6, <3>1 DEF CachedSigned
    <3>3. MailsSigned'
      BY <1>2, <1>5, <1>6, <2>4 DEF MailsSigned, Mail
    <3>4. QED
      BY <1>7, <2>4, <3>2, <3>3 DEF UsedSigned
  <2>5. CASE /\ pc[i] = "save" /\ UNCHANGED <<cached, mails>>
             /\ used' = used \cup ({arg[i].token} \ {NoToken})
    <3>1. UNCHANGED arg
      BY <1>1, <2>5, ArgFacts
    <3>2. UsedSigned'
      BY <1>3, <1>7, <2>5, <3>1 DEF UsedSigned
    <3>3. MailsSigned'
      BY <1>2, <1>5, <1>6, <2>5 DEF MailsSigned, Mail
    <3>4. CachedSigned'
      BY <1>2, <1>5, <1>6, <2>5 DEF CachedSigned
    <3>5. QED
      BY <3>2, <3>3, <3>4
  <2>6. QED
    BY <1>1, <2>1, <2>2, <2>3, <2>4, <2>5, TokenFacts
<1>9. QED
  BY <1>1, <1>4, <1>8 DEF OInv

LEMMA ArriveOInv ==
    ASSUME OInv, NEW i \in Requests, Arrive(i)
    PROVE  OInv'
<1>1. CInv' /\ TInv
  BY ArriveCInv DEF OInv, CInv
<1>2. OneOrigin /\ MailsSigned /\ CachedSigned /\ UsedSigned /\ TokenGiven
  BY DEF OInv
<1>3. /\ pc[i] = "new" /\ pc'[i] \in {"find", "check"}
      /\ \A j \in Requests \ {i} : /\ arg'[j] = arg[j] /\ pc'[j] = pc[j] /\ Op(j)' = Op(j)
                                   /\ User(j)' = User(j) /\ Kind(j)' = Kind(j)
      /\ UNCHANGED <<cached, mails, used>>
  BY <1>1, ArriveFacts DEF Op, User, Kind, TInv, TypeOK
<1>4. mails \subseteq Mail
  BY <1>1 DEF TInv, TypeOK
<1>5. CASE arg'[i].token = NoToken /\ Op(i)' \notin {"verifyEmail", "reset"}
  <2>1. OneOrigin'
    BY <1>2, <1>3, <1>5, ConstantsAssumption DEF OneOrigin
  <2>2. TokenGiven'
    BY <1>2, <1>3, <1>5 DEF TokenGiven
  <2>3. QED
    BY <1>1, <1>2, <1>3, <2>1, <2>2 DEF OInv, MailsSigned, CachedSigned, UsedSigned, Signed
<1>6. CASE \E m \in mails : /\ arg'[i].token = m.token /\ User(i)' = m.user
                            /\ Kind(i)' = m.kind /\ Op(i)' \in {"verifyEmail", "reset"}
  <2>1. PICK m \in mails : /\ arg'[i].token = m.token /\ User(i)' = m.user
                           /\ Kind(i)' = m.kind /\ Op(i)' \in {"verifyEmail", "reset"}
    BY <1>6
  <2>2. PICK n \in Requests : /\ pc[n] # "new" /\ arg[n].token = m.token
                              /\ Kind(n) = m.kind /\ User(n) = m.user
    BY <1>2 DEF MailsSigned, Signed
  <2>3. m.token \in Tokens
    BY <1>4 DEF Mail
  <2>4. \A j \in Requests : pc[j] # "new" /\ arg[j].token = m.token =>
            Kind(j) = m.kind /\ User(j) = m.user
    BY <1>2, <2>2, <2>3 DEF OneOrigin
  <2>5. OneOrigin'
    BY <1>2, <1>3, <2>1, <2>4 DEF OneOrigin
  <2>6. TokenGiven'
    BY <1>2, <1>3, <2>1, <2>3 DEF TokenGiven
  <2>7. QED
    BY <1>1, <1>2, <1>3, <2>5, <2>6 DEF OInv, MailsSigned, CachedSigned, UsedSigned, Signed
<1>7. QED
  BY <1>1, <1>5, <1>6, ArriveToken

LEMMA IdleOInv ==
    ASSUME OInv, UNCHANGED vars \/ Expire
    PROVE  OInv'
<1>1. CInv' /\ TInv
  BY IdleCInv DEF OInv, CInv
<1>2. UNCHANGED <<mails, used, pc, arg>>
  BY DEF vars, Expire
<1>3. \A k \in Kinds, u \in Users : cached'[k][u] \in {NoToken, cached[k][u]}
  <2>1. CASE UNCHANGED vars
    BY <2>1 DEF vars
  <2>2. CASE Expire
    <3>1. PICK k \in Kinds, u \in Users : cached' = [cached EXCEPT ![k][u] = NoToken]
      BY <2>2 DEF Expire
    <3>2. QED
      BY <1>1, <3>1 DEF TInv, TypeOK
  <2>3. QED
    BY <2>1, <2>2
<1>4. \A k, u, t : Signed(k, u, t)' <=> Signed(k, u, t)
  BY <1>2 DEF Signed, Kind, User, Op
<1>5. OneOrigin' /\ TokenGiven'
  BY <1>2 DEF OInv, OneOrigin, TokenGiven, Kind, User, Op
<1>6. MailsSigned' /\ UsedSigned'
  BY <1>2, <1>4 DEF OInv, MailsSigned, UsedSigned
<1>7. CachedSigned'
  BY <1>3, <1>4 DEF OInv, CachedSigned
<1>8. QED
  BY <1>1, <1>5, <1>6, <1>7 DEF OInv

\* A used token is out of the cache, or about to be.
ResetsApart == {"reset"} \in Apart
UsedIsErased == \A u \in Users : cached["reset"][u] \in used =>
    \E i \in Requests : pc[i] = "erase" /\ Op(i) = "reset" /\ User(i) = u
NotUsedYet == \A i \in Requests :
    pc[i] \in {"find", "save"} /\ Op(i) = "reset" => arg[i].token \notin used

UInv == OInv /\ UsedIsErased /\ NotUsedYet

LEMMA StepUInv ==
    ASSUME UInv, ResetsApart, NEW i \in Requests, RequestStep(i)
    PROVE  UsedIsErased' /\ NotUsedYet'
<1>1. TInv /\ PairsApart /\ TokenGiven /\ OneOrigin /\ CachedSigned /\ UsedSigned
  BY DEF UInv, OInv, CInv
<1>2. UsedIsErased /\ NotUsedYet
  BY DEF UInv
<1>3. \A j, k \in Requests :
        pc[j] \in Awaits /\ pc[k] \in Awaits /\ Op(j) = "reset" /\ Op(k) = "reset" => j = k
  BY <1>1 DEF ResetsApart, PairsApart, InFlight
<1>4. /\ pc[i] \in Awaits /\ Op(i)' = Op(i)
      /\ \A j \in Requests \ {i} : arg'[j] = arg[j] /\ pc'[j] = pc[j]
      /\ \A j \in Requests \ {i} : Op(j)' = Op(j) /\ User(j)' = User(j)
  BY <1>1, ArgFacts, StepFacts
<1>5. Op(i) = "reset" => arg' = arg /\ User(i)' = User(i)
  BY <1>1, <1>4, ArgFacts DEF TokenGiven, Mailing, User, Awaits
<1>6. /\ used \subseteq Tokens
      /\ Op(i) = "reset" => Kind(i) = "reset"
      /\ \A u \in Users : cached["reset"][u] \in Tokens \cup {NoToken}
  BY <1>1 DEF TInv, TypeOK, Kind, Kinds
<1>7. CASE SetToken(i)
  <2>1. pc[i] = "set" /\ pc'[i] = "mail" /\ used' = used
    BY <1>1, <1>7, AdvanceFacts DEF SetToken, TInv
  <2>2. PICK t \in FreshTokens : cached' = [cached EXCEPT ![Kind(i)][User(i)] = t]
    BY <1>7 DEF SetToken
  <2>3. t \notin used
    BY <1>1, <2>2 DEF UsedSigned, FreshTokens
  <2>4. \A u \in Users : cached'["reset"][u] \in {cached["reset"][u], t}
    BY <1>1, <2>2 DEF TInv, TypeOK, Kinds
  <2>5. UsedIsErased'
    BY <1>2, <1>4, <2>1, <2>3, <2>4 DEF UsedIsErased
  <2>6. NotUsedYet'
    BY <1>2, <1>4, <2>1 DEF NotUsedYet
  <2>7. QED
    BY <2>5, <2>6
<1>8. CASE FindNone(i) \/ FindByEmail(i) \/ FindById(i) \/ Insert(i) \/ MailToken(i) \/ CheckToken(i)
  <2>1. UNCHANGED <<cached, used>> /\ pc[i] # "erase"
    BY <1>8 DEF FindNone, FindByEmail, FindById, Insert, MailToken, CheckToken
  <2>2. UsedIsErased'
    BY <1>2, <1>4, <2>1 DEF UsedIsErased
  <2>3. ASSUME pc'[i] \in {"find", "save"}, Op(i) = "reset"
        PROVE  arg[i].token \notin used
    <3>1. CASE FindNone(i) \/ FindByEmail(i) \/ FindById(i)
      BY <1>2, <2>3, <3>1 DEF FindNone, FindByEmail, FindById, NotUsedYet
    <3>2. CASE Insert(i) \/ MailToken(i)
      <4>1. PICK where \in {"set", "done"} : Advance(i, where)
        BY <3>2 DEF Insert, MailToken
      <4>2. QED
        BY <1>1, <2>3, <4>1, AdvanceFacts DEF TInv
    <3>3. CASE CheckToken(i)
      <4>1. pc[i] = "check" /\ cached["reset"][User(i)] = arg[i].token
        BY <1>1, <1>6, <2>3, <3>3, AdvanceFacts DEF CheckToken, TInv
      <4>2. User(i) \in Users
        BY <1>1, <4>1 DEF TInv, Shape, Awaits
      <4>3. ASSUME arg[i].token \in used
            PROVE  \E j \in Requests : pc[j] = "erase" /\ Op(j) = "reset"
        BY <1>2, <4>1, <4>2, <4>3 DEF UsedIsErased
      <4>4. QED
        BY <1>3, <2>3, <4>1, <4>3 DEF Awaits
    <3>4. QED
      BY <1>8, <3>1, <3>2, <3>3
  <2>4. NotUsedYet'
    BY <1>2, <1>4, <1>5, <2>1, <2>3 DEF NotUsedYet
  <2>5. QED
    BY <2>2, <2>4
<1>9. CASE EraseToken(i)
  <2>1. /\ pc[i] = "erase" /\ pc'[i] = "done" /\ used' = used
        /\ cached' = [cached EXCEPT ![Kind(i)][User(i)] = NoToken]
    BY <1>1, <1>9, AdvanceFacts DEF EraseToken, TInv
  <2>2. \A u \in Users : /\ cached'["reset"][u] \in {cached["reset"][u], NoToken}
                         /\ Op(i) = "reset" /\ u = User(i) => cached'["reset"][u] = NoToken
    BY <1>1, <1>6, <2>1 DEF TInv, TypeOK, Kinds
  <2>3. UsedIsErased'
    <3>1. SUFFICES ASSUME NEW u \in Users, cached'["reset"][u] \in used
                   PROVE  \E j \in Requests : (pc[j] = "erase" /\ Op(j) = "reset" /\ User(j) = u)'
      BY <2>1 DEF UsedIsErased
    <3>2. NoToken \notin used
      BY <1>6, ConstantsAssumption
    <3>3. cached["reset"][u] \in used /\ ~ (Op(i) = "reset" /\ u = User(i))
      BY <2>2, <3>1, <3>2
    <3>4. QED
      BY <1>2, <1>4, <3>3 DEF UsedIsErased
  <2>4. NotUsedYet'
    BY <1>2, <1>4, <2>1 DEF NotUsedYet
  <2>5. QED
    BY <2>3, <2>4
<1>10. CASE Save(i)
  <2>1. pc[i] = "save" /\ UNCHANGED <<cached, arg>> /\ User(i)' = User(i)
    BY <1>10 DEF Save, User
  <2>2. \/ used' = used /\ pc'[i] = "done"
        \/ /\ used' = used \cup ({arg[i].token} \ {NoToken})
           /\ pc'[i] = IF Op(i) \in {"verifyEmail", "reset"} THEN "erase" ELSE "done"
    BY <1>1, <1>10, AdvanceFacts DEF Save, TInv
  <2>3. CASE used' = used /\ pc'[i] = "done"
    BY <1>2, <1>4, <2>1, <2>3 DEF UsedIsErased, NotUsedYet
  <2>4. CASE /\ used' = used \cup ({arg[i].token} \ {NoToken})
             /\ pc'[i] = IF Op(i) \in {"verifyEmail", "reset"} THEN "erase" ELSE "done"
    <3>1. Op(i) # "forgot" /\ pc[i] # "new"
      BY <1>1, <2>1 DEF TInv, Shape, Mailing
    <3>2. UsedIsErased'
      <4>1. SUFFICES ASSUME NEW u \in Users, cached["reset"][u] \in used'
                     PROVE  \E j \in Requests : (pc[j] = "erase" /\ Op(j) = "reset" /\ User(j) = u)'
        BY <2>1 DEF UsedIsErased
      <4>2. CASE cached["reset"][u] \in used
        BY <1>2, <1>4, <2>1, <4>2 DEF UsedIsErased
      <4>3. CASE cached["reset"][u] = arg[i].token /\ arg[i].token # NoToken
        <5>1. arg[i].token \in Tokens
          BY <1>6, <4>3
        <5>2. PICK j \in Requests : /\ pc[j] # "new" /\ arg[j].token = arg[i].token
                                    /\ Kind(j) = "reset" /\ User(j) = u
          BY <1>1, <4>3 DEF CachedSigned, Signed, Kinds
        <5>3. Kind(i) = "reset" /\ User(i) = u
          BY <1>1, <3>1, <5>1, <5>2 DEF OneOrigin
        <5>4. Op(i) = "reset"
          BY <3>1, <5>3 DEF Kind
        <5>5. QED
          BY <1>4, <2>1, <2>4, <5>3, <5>4
      <4>4. QED
        BY <2>4, <4>1, <4>2, <4>3
    <3>3. NotUsedYet'
      <4>1. SUFFICES ASSUME NEW j \in Requests, (pc[j] \in {"find", "save"} /\ Op(j) = "reset")'
                     PROVE  arg[j].token \notin used'
        BY <2>1 DEF NotUsedYet
      <4>2. j # i /\ pc[j] \in {"find", "save"} /\ Op(j) = "reset" /\ arg[j].token \notin used
        BY <1>2, <1>4, <2>4, <4>1 DEF NotUsedYet
      <4>3. arg[j].token \in Tokens /\ pc[j] # "new" /\ Kind(j) = "reset"
        BY <1>1, <4>2 DEF TokenGiven, Kind
      <4>4. Kind(i) # "reset"
        BY <1>3, <1>4, <3>1, <4>2 DEF Kind, Awaits
      <4>5. arg[i].token # arg[j].token
        BY <1>1, <3>1, <4>3, <4>4 DEF OneOrigin
      <4>6. QED
        BY <2>4, <4>2, <4>5
    <3>4. QED
      BY <3>2, <3>3
  <2>5. QED
    BY <2>2, <2>3, <2>4
<1>11. QED
  BY <1>7, <1>8, <1>9, <1>10 DEF RequestStep

LEMMA CalmUInv ==
    ASSUME ResetsApart, UInv, CalmNext \/ UNCHANGED vars
    PROVE  UInv'
<1>1. OInv /\ UsedIsErased /\ NotUsedYet /\ TInv
  BY DEF UInv, OInv, CInv
<1>2. CASE UNCHANGED vars \/ Expire
  <2>1. UNCHANGED <<used, pc, arg>>
    BY <1>2 DEF vars, Expire
  <2>2. \A u \in Users : cached'["reset"][u] \in {NoToken, cached["reset"][u]}
    BY <1>1, <1>2 DEF vars, Expire, TInv, TypeOK, Kinds
  <2>3. UsedIsErased' /\ NotUsedYet'
    BY <1>1, <2>1, <2>2, ConstantsAssumption
    DEF UsedIsErased, NotUsedYet, Op, User, TInv, TypeOK
  <2>4. QED
    BY <1>1, <1>2, <2>3, IdleOInv DEF UInv
<1>3. ASSUME NEW i \in Requests, Arrive(i)
      PROVE  UInv'
  <2>1. /\ pc[i] = "new" /\ pc'[i] # "save" /\ (pc'[i] = "find" => Op(i)' # "reset")
        /\ \A j \in Requests \ {i} : /\ arg'[j] = arg[j] /\ pc'[j] = pc[j]
                                     /\ Op(j)' = Op(j) /\ User(j)' = User(j)
        /\ UNCHANGED <<cached, used>>
    BY <1>1, <1>3, ArriveFacts, ArriveToken DEF Op, User, TInv, TypeOK
  <2>2. UsedIsErased' /\ NotUsedYet'
    BY <1>1, <2>1 DEF UsedIsErased, NotUsedYet
  <2>3. QED
    BY <1>1, <1>3, <2>2, ArriveOInv DEF UInv
<1>4. ASSUME NEW i \in Requests, RequestStep(i)
      PROVE  UInv'
  BY <1>1, <1>4, StepOInv, StepUInv DEF UInv
<1>5. QED
  BY <1>2, <1>3, <1>4 DEF CalmNext

LEMMA InitUInv == Init => UInv
BY InitOInv, ConstantsAssumption DEF Init, UInv, UsedIsErased, NotUsedYet

LEMMA UsedOnce == UInv => TokenResetsOnce
BY DEF UInv, NotUsedYet, TokenResetsOnce

\* A step of a behaviour in which no call fails.
LEMMA NextIsCalm == Faults = FALSE => ([Next]_vars => CalmNext \/ UNCHANGED vars)
BY DEF Next, CalmNext, Abort

\* TokenResetsOnce of UserAccount holds of every behaviour in which no call fails
\* and no two resetPassword overlap: the token of a reset is spent before the next
\* reset compares it.
THEOREM ResetsOnce ==
    ASSUME ResetsApart, Faults = FALSE
    PROVE  Spec => []TokenResetsOnce
<1>1. UInv /\ [Next]_vars => UInv'
  BY CalmUInv, NextIsCalm
<1>2. QED
  BY <1>1, InitUInv, UsedOnce, PTL DEF Spec

\* The last mail.
MailsApart ==
    {{"resend"}, {"resend", "register"}, {"resend", "verifyEmail"}, {"forgot"}, {"forgot", "reset"}}
        \subseteq Apart

Mails(i) == pc[i] \in {"set", "mail"}
Spends(i) ==
    \/ pc[i] \in {"save", "erase"} /\ Op(i) = "verifyEmail"
    \/ pc[i] \in {"find", "save", "erase"} /\ Op(i) = "reset"

\* The first mail to an account is the one of its registration.
Registers(i) == pc[i] \in {"find", "insert", "set", "mail"} /\ Op(i) = "register"
RegisterFirst == \A i \in Requests : Registers(i) =>
    /\ \A m \in mails : m.kind = "verification" => m.user # User(i)
    /\ \A j \in Requests : pc[j] \in Awaits /\ Op(j) = "verifyEmail" => User(j) # User(i)
    /\ \A j \in Requests \ {i} : Registers(j) => User(j) # User(i)
RowsThere ==
    /\ \A m \in mails : rows[m.user] # NoRow
    /\ \A i \in Requests : Mails(i) =>
          rows[User(i)] # NoRow /\ Op(i) \in {"register", "resend", "forgot"}
    /\ \A i \in Requests : pc[i] \in Awaits /\ Op(i) = "verifyEmail" => rows[User(i)] # NoRow

\* What is about to be mailed is in the cache, and nobody has it yet.
ToMail == \A i \in Requests : pc[i] = "mail" =>
    /\ cached[Kind(i)][User(i)] = arg[i].token
    /\ \A m \in mails : m.token # arg[i].token
ToErase == \A i \in Requests :
    /\ Spends(i) => cached[Kind(i)][User(i)] \in {NoToken, arg[i].token}
    /\ pc[i] = "erase" => arg[i].token \in used
LastIsCached == \A k \in Kinds, u \in Users :
    \/ last[k][u] \in {NoToken, cached[k][u]} \cup used
    \/ \E i \in Requests : pc[i] = "mail" /\ Kind(i) = k /\ User(i) = u

EInv == OInv /\ RegisterFirst /\ RowsThere /\ ToMail /\ ToErase /\ LastIsCached
LEMMA InitEInv == Init => EInv
BY InitOInv
DEF Init, Awaits, EInv, RegisterFirst, Registers, RowsThere, Mails, ToMail, ToErase, Spends, LastIsCached

\* Who mails a token to a user is alone in that with the requests that set or
\* spend a token of the kind for the same user.
LEMMA Separate ==
    ASSUME OInv, RegisterFirst, RowsThere, MailsApart, NEW i \in Requests, NEW j \in Requests,
           i # j, Mails(i), Mails(j) \/ Spends(j), Kind(i) = Kind(j)
    PROVE  User(i) # User(j)
<1>1. {Op(i), Op(j)} \notin Apart
  BY DEF OInv, CInv, PairsApart, InFlight, Awaits, Mails, Spends
<1>2. Op(i) \in {"register", "resend", "forgot"}
  BY DEF RowsThere
<1>3. Op(j) \in {"register", "resend", "forgot"} \/ Op(j) \in {"verifyEmail", "reset"}
  BY DEF RowsThere, Spends
<1>4. CASE Op(i) = "forgot"
  <2>1. Op(j) \in {"forgot", "reset"}
    BY <1>3, <1>4 DEF Kind
  <2>2. QED
    BY <1>1, <1>4, <2>1 DEF MailsApart
<1>5. CASE Op(i) \in {"register", "resend"}
  <2>1. Op(j) \in {"register", "resend", "verifyEmail"}
    BY <1>3, <1>5 DEF Kind
  <2>2. CASE Op(i) = "resend"
    <3>1. {"register", "resend"} = {"resend", "register"}
      OBVIOUS
    <3>2. QED
      BY <1>1, <2>1, <2>2, <3>1 DEF MailsApart
  <2>3. CASE Op(i) = "register"
    <3>1. Op(j) # "resend"
      <4>1. {"register", "resend"} = {"resend", "register"}
        OBVIOUS
      <4>2. QED
        BY <1>1, <2>3, <4>1 DEF MailsApart
    <3>2. Registers(i)
      BY <2>3 DEF Registers, Mails
    <3>3. CASE Op(j) = "register"
      BY <3>2, <3>3 DEF RegisterFirst, Registers, Mails, Spends
    <3>4. CASE Op(j) = "verifyEmail"
      BY <3>2, <3>4 DEF RegisterFirst, RowsThere, Mails, Spends, Awaits
    <3>5. QED
      BY <2>1, <3>1, <3>3, <3>4
  <2>4. QED
    BY <1>5, <2>2, <2>3
<1>6. QED
  BY <1>2, <1>4, <1>5

\* What the steps of a request leave of the rows and of the requests.
LEMMA MailFrame ==
    ASSUME OInv, NEW i \in Requests, RequestStep(i)
    PROVE  /\ TInv /\ TypeOK' /\ pc[i] \in Awaits /\ Op(i)' = Op(i) /\ Kind(i)' = Kind(i)
           /\ \A j \in Requests \ {i} : /\ arg'[j] = arg[j] /\ pc'[j] = pc[j] /\ Op(j)' = Op(j)
                                        /\ User(j)' = User(j) /\ Kind(j)' = Kind(j)
           /\ Op(i) \notin Mailing => User(i)' = User(i)
           /\ \A u \in Users : rows[u] # NoRow => rows'[u] # NoRow
<1>1. TInv /\ TypeOK'
  BY NextTInv DEF OInv, CInv, TInv, Next
<1>2. \A u \in Users : rows'[u] = rows[u] \/ rows'[u] \in Row
  BY <1>1, RowsFacts, SavedRowFacts DEF TInv, TypeOK
<1>3. \A u \in Users : rows[u] # NoRow => rows'[u] # NoRow
  BY <1>2, ConstantsAssumption
<1>4. /\ pc[i] \in Awaits /\ Op(i)' = Op(i) /\ Kind(i)' = Kind(i)
      /\ \A j \in Requests \ {i} : arg'[j] = arg[j] /\ pc'[j] = pc[j]
  BY <1>1, ArgFacts
<1>5. Op(i) \notin Mailing => User(i)' = User(i)
  BY <1>1, StepFacts
<1>6. QED
  BY <1>1, <1>3, <1>4, <1>5 DEF Op, User, Kind

LEMMA StepRowsThere ==
    ASSUME OInv, RowsThere, NEW i \in Requests, RequestStep(i)
    PROVE  RowsThere'
<1>1. TInv /\ mails \subseteq Mail
  BY DEF OInv, CInv, TInv, TypeOK
<1>2. \A m \in mails' : m \in mails \/ (m.user = User(i) /\ Mails(i))
  BY <1>1, TokenFacts DEF SetToken, Mails
<1>3. \A m \in mails' : rows'[m.user] # NoRow
  <2>1. \A m \in mails' : m.user \in Users /\ rows[m.user] # NoRow
    BY <1>1, <1>2 DEF RowsThere, Mail, Mails, TInv, Shape, Awaits
  <2>2. QED
    BY <2>1, MailFrame
<1>4. ASSUME NEW j \in Requests, (pc[j] \in Awaits /\ Op(j) = "verifyEmail")'
      PROVE  (rows[User(j)] # NoRow)'
  <2>1. pc[j] \in Awaits /\ Op(j) = "verifyEmail" /\ User(j)' = User(j)
    BY <1>4, MailFrame DEF Mailing
  <2>2. User(j) \in Users /\ rows[User(j)] # NoRow
    BY <1>1, <2>1 DEF RowsThere, TInv, Shape, Mailing
  <2>3. QED
    BY <2>1, <2>2, MailFrame
<1>5. ASSUME NEW j \in Requests, Mails(j)'
      PROVE  (rows[User(j)] # NoRow /\ Op(j) \in {"register", "resend", "forgot"})'
  <2>1. CASE Mails(j) /\ User(j)' = User(j)
    <3>1. User(j) \in Users
      BY <1>1, <2>1 DEF TInv, Shape, Mails, Awaits
    <3>2. QED
      BY <2>1, <3>1, MailFrame DEF RowsThere
  <2>2. CASE ~ (Mails(j) /\ User(j)' = User(j))
    <3>1. j = i
      BY <1>5, <2>2, MailFrame DEF Mails
    <3>2. CASE pc[i] = "insert" /\ Op(i) = "register"
      <4>1. Insert(i) /\ pc'[i] = "set"
        BY <1>5, <3>1, <3>2, TokenFacts, <1>1
        DEF RequestStep, FindNone, FindByEmail, FindById, SetToken, MailToken, CheckToken,
            EraseToken, Save, Mails
      <4>2. rows'[User(i)] # NoRow /\ User(i)' = User(i)
        <5>1. arg[i] \in Arg /\ User(i) \in Users
          BY <1>1, <3>2 DEF TInv, Shape, Awaits
        <5>2. \A r \in Row : r # NoRow
          BY ConstantsAssumption
        <5>3. [password |-> arg[i].password, verified |-> arg[i].verified, deleted |-> FALSE] \in Row
          BY <5>1 DEF Arg, Row
        <5>4. ~ Advance(i, "done")
          BY <1>1, <4>1, AdvanceFacts DEF TInv
        <5>5. QED
          BY <1>1, <4>1, <5>1, <5>2, <5>3, <5>4 DEF Insert, TInv, TypeOK, User
      <4>3. QED
        BY <3>1, <3>2, <4>2, MailFrame
    <3>3. CASE pc[i] = "find" /\ Op(i) \in Mailing /\ rows' = rows /\ IsLive(User(i)')
      BY <3>1, <3>3, MailFrame DEF Mailing, IsLive
    <3>4. CASE pc[i] = "set" /\ User(i)' = User(i)
      BY <2>2, <3>1, <3>4 DEF Mails
    <3>5. pc'[i] = "mail" => SetToken(i)
      BY <1>1, TokenFacts
    <3>6. QED
      BY <1>1, <1>5, <3>1, <3>2, <3>3, <3>4, <3>5, ArgFacts DEF Mails
  <2>3. QED
    BY <2>1, <2>2
<1>6. QED
  BY <1>3, <1>4, <1>5 DEF RowsThere
LEMMA StepRegisterFirst ==
    ASSUME OInv, RegisterFirst, RowsThere, MailsApart, NEW i \in Requests, RequestStep(i)
    PROVE  RegisterFirst'
<1>1. TInv
  BY DEF OInv, CInv
<1>2. \A j \in Requests : Registers(j)' => Registers(j) /\ User(j)' = User(j)
  <2>1. pc'[i] \in {"find", "insert", "set", "mail"} /\ Op(i) = "register" =>
            pc[i] \in {"find", "insert", "set", "mail"}
    BY <1>1, MailFrame DEF TInv, Shape, Awaits, Creations, Mailing
  <2>2. QED
    BY <2>1, MailFrame DEF Registers, Mailing
<1>3. \A j \in Requests : pc'[j] \in Awaits /\ Op(j)' = "verifyEmail" =>
        pc[j] \in Awaits /\ Op(j) = "verifyEmail" /\ User(j)' = User(j)
  BY MailFrame DEF Mailing
<1>4. ASSUME NEW j \in Requests, Registers(j)', NEW m \in mails', m.kind = "verification"
      PROVE  m.user # User(j)
  <2>1. Registers(j)
    BY <1>2, <1>4
  <2>2. CASE m \in mails
    BY <1>4, <2>1, <2>2 DEF RegisterFirst
  <2>3. CASE m \notin mails
    <3>1. /\ pc[i] = "mail" /\ pc'[i] = "done"
          /\ m = [kind |-> Kind(i), user |-> User(i), token |-> arg[i].token]
      BY <1>1, <1>4, <2>3, TokenFacts DEF SetToken
    <3>2. i # j /\ Kind(i) = "verification" /\ m.user = User(i)
      BY <1>4, <3>1 DEF Registers
    <3>3. Mails(i) /\ Op(i) \in {"register", "resend"}
      BY <3>1, <3>2 DEF Mails, RowsThere, Kind
    <3>4. CASE Op(i) = "register"
      BY <2>1, <3>1, <3>2, <3>4 DEF RegisterFirst, Registers
    <3>5. CASE Op(i) = "resend"
      BY <2>1, <3>1, <3>2, <3>5 DEF MailsApart, OInv, CInv, PairsApart, InFlight, Awaits, Registers
    <3>6. QED
      BY <3>3, <3>4, <3>5
  <2>4. QED
    BY <2>2, <2>3
<1>5. QED
  BY <1>2, <1>3, <1>4 DEF RegisterFirst

LEMMA StepToMail ==
    ASSUME OInv, RegisterFirst, RowsThere, ToMail, MailsApart, NEW i \in Requests, RequestStep(i)
    PROVE  ToMail'
<1>1. TInv /\ MailsSigned /\ OneOrigin /\ mails \subseteq Mail
  BY DEF OInv, CInv, TInv, TypeOK
<1>2. \A j \in Requests : Kind(j) \in Kinds
  BY DEF Kind, Kinds
<1>3. SUFFICES ASSUME NEW j \in Requests, pc'[j] = "mail"
               PROVE  /\ (cached[Kind(j)][User(j)] = arg[j].token)'
                      /\ \A m \in mails' : m.token # arg'[j].token
  BY DEF ToMail
<1>4. CASE SetToken(i) /\ j = i
  <2>1. PICK t \in FreshTokens : /\ cached' = [cached EXCEPT ![Kind(i)][User(i)] = t]
                                 /\ arg' = [arg EXCEPT ![i].token = t]
    BY <1>4 DEF SetToken
  <2>2. User(i) \in Users /\ arg[i] \in Arg /\ mails' = mails
    BY <1>1, <1>4 DEF TInv, Shape, SetToken, Awaits
  <2>3. arg'[i].token = t /\ Kind(i)' = Kind(i) /\ User(i)' = User(i)
    BY <1>1, <2>1, <2>2, MailFrame DEF TInv, TypeOK, User, Arg
  <2>4. cached'[Kind(i)][User(i)] = t
    BY <1>1, <1>2, <2>1, <2>2 DEF TInv, TypeOK
  <2>5. \A m \in mails : m.token # t
    BY <1>1 DEF MailsSigned, Signed, FreshTokens
  <2>6. QED
    BY <1>4, <2>2, <2>3, <2>4, <2>5
<1>5. CASE j # i
  <2>1. /\ pc[j] = "mail" /\ User(j)' = User(j) /\ Kind(j)' = Kind(j) /\ arg'[j] = arg[j]
        /\ cached[Kind(j)][User(j)] = arg[j].token /\ Mails(j)
        /\ \A m \in mails : m.token # arg[j].token
    BY <1>3, <1>5, MailFrame DEF ToMail, Mails
  <2>2. User(j) \in Users /\ arg[j].token \in Tokens
    BY <1>1, <2>1 DEF TInv, Shape, Awaits
  <2>3. Mails(i) \/ Spends(i) => Kind(i) # Kind(j) \/ User(i) # User(j)
    BY <1>5, <2>1, Separate
  <2>4. cached'[Kind(j)][User(j)] = cached[Kind(j)][User(j)]
    <3>1. CASE cached' = cached
      BY <3>1
    <3>2. CASE SetToken(i) \/ EraseToken(i)
      <4>1. PICK t : cached' = [cached EXCEPT ![Kind(i)][User(i)] = t]
        BY <3>2 DEF SetToken, EraseToken
      <4>2. Mails(i) \/ Spends(i)
        BY <1>1, <3>2 DEF SetToken, EraseToken, Mails, Spends, TInv, Shape
      <4>3. QED
        BY <1>1, <1>2, <2>2, <2>3, <4>1, <4>2 DEF TInv, TypeOK
    <3>3. QED
      BY <3>1, <3>2
      DEF RequestStep, FindNone, FindByEmail, FindById, Insert, MailToken, CheckToken, Save
  <2>5. \A m \in mails' : m.token # arg[j].token
    <3>1. SUFFICES ASSUME NEW m \in mails', m.token = arg[j].token, m \notin mails PROVE FALSE
      BY <2>1
    <3>2. pc[i] = "mail" /\ arg[i].token = arg[j].token
      BY <1>1, <3>1, TokenFacts DEF SetToken
    <3>3. QED
      BY <1>1, <2>1, <2>2, <2>3, <3>2 DEF OneOrigin, Mails
  <2>6. QED
    BY <2>1, <2>4, <2>5
<1>6. CASE j = i /\ ~ SetToken(i)
  BY <1>1, <1>3, <1>6, TokenFacts
<1>7. QED
  BY <1>4, <1>5, <1>6

LEMMA StepToErase ==
    ASSUME OInv, RegisterFirst, RowsThere, ToErase, MailsApart, NEW i \in Requests, RequestStep(i)
    PROVE  ToErase'
<1>1. TInv /\ TokenGiven /\ used \subseteq used'
  BY DEF OInv, CInv, RequestStep, FindNone, FindByEmail, FindById, Insert, SetToken, MailToken,
         CheckToken, EraseToken, Save
<1>2. \A j \in Requests : Kind(j) \in Kinds
  BY DEF Kind, Kinds
<1>3. ASSUME NEW j \in Requests \ {i}, Spends(j)'
      PROVE  (cached[Kind(j)][User(j)] \in {NoToken, arg[j].token})'
  <2>1. /\ Spends(j) /\ User(j)' = User(j) /\ Kind(j)' = Kind(j) /\ arg'[j] = arg[j]
        /\ cached[Kind(j)][User(j)] \in {NoToken, arg[j].token}
    BY <1>3, MailFrame DEF ToErase, Spends
  <2>2. User(j) \in Users
    BY <1>1, <2>1 DEF TInv, Shape, Spends, Awaits, Mailing
  <2>3. cached'[Kind(j)][User(j)] \in {NoToken, cached[Kind(j)][User(j)]}
    <3>1. CASE cached' = cached
      BY <3>1
    <3>2. CASE EraseToken(i)
      BY <1>1, <1>2, <2>2, <3>2 DEF EraseToken, TInv, TypeOK
    <3>3. CASE SetToken(i)
      <4>1. PICK t : cached' = [cached EXCEPT ![Kind(i)][User(i)] = t]
        BY <3>3 DEF SetToken
      <4>2. Kind(i) # Kind(j) \/ User(i) # User(j)
        BY <2>1, <3>3, Separate DEF SetToken, Mails
      <4>3. QED
        BY <1>1, <1>2, <2>2, <4>1, <4>2 DEF TInv, TypeOK
    <3>4. QED
      BY <3>1, <3>2, <3>3
      DEF RequestStep, FindNone, FindByEmail, FindById, Insert, MailToken, CheckToken, Save
  <2>4. QED
    BY <2>1, <2>3
<1>4. ASSUME Spends(i)'
      PROVE  (cached[Kind(i)][User(i)] \in {NoToken, arg[i].token})'
  <2>1. Op(i) \in {"verifyEmail", "reset"} /\ pc'[i] \in {"find", "save", "erase"}
    BY <1>4, MailFrame DEF Spends
  <2>2. UNCHANGED arg /\ User(i)' = User(i) /\ Kind(i)' = Kind(i)
    BY <1>1, <2>1, ArgFacts, MailFrame DEF TokenGiven, Mailing, Awaits
  <2>3. UNCHANGED cached
    BY <1>1, <2>1, TokenFacts, AdvanceFacts DEF SetToken, TInv
  <2>4. cached[Kind(i)][User(i)] \in {NoToken, arg[i].token}
    <3>1. CASE CheckToken(i)
      BY <1>1, <2>1, <3>1, AdvanceFacts DEF CheckToken, TInv
    <3>2. CASE ~ CheckToken(i)
      <4>1. Spends(i)
        <5>1. CASE FindById(i)
          BY <1>1, <1>4, <2>1, <5>1, AdvanceFacts, MailFrame
          DEF FindById, AfterFind, Spends, TInv
        <5>2. CASE Save(i)
          BY <2>1, <5>2 DEF Save, Spends
        <5>3. CASE FindNone(i) \/ FindByEmail(i) \/ Insert(i) \/ SetToken(i) \/ MailToken(i) \/ EraseToken(i)
          <6>1. \E where \in {"insert", "done", "set", "mail"} : Advance(i, where)
            BY <5>3 DEF FindNone, FindByEmail, Insert, SetToken, MailToken, EraseToken
          <6>2. QED
            BY <1>1, <2>1, <6>1, AdvanceFacts DEF TInv
        <5>4. QED
          BY <3>2, <5>1, <5>2, <5>3 DEF RequestStep
      <4>2. QED
        BY <4>1 DEF ToErase
    <3>3. QED
      BY <3>1, <3>2
  <2>5. QED
    BY <2>2, <2>3, <2>4
<1>5. ASSUME NEW j \in Requests, pc'[j] = "erase"
      PROVE  arg'[j].token \in used'
  <2>1. CASE j # i
    BY <1>1, <1>5, <2>1, MailFrame DEF ToErase
  <2>2. CASE j = i
    <3>1. pc[i] = "save" /\ used' = used \cup ({arg[i].token} \ {NoToken})
      BY <1>1, <1>5, <2>2, TokenFacts, AdvanceFacts DEF SetToken, TInv
    <3>2. Op(i) \in {"verifyEmail", "reset"}
      BY <1>1, <1>5, <2>2, <3>1, MailFrame, NextTInv DEF TInv, Shape, Next
    <3>3. arg[i].token \in Tokens /\ arg' = arg
      BY <1>1, <3>1, <3>2, ArgFacts DEF TokenGiven
    <3>4. QED
      BY <2>2, <3>1, <3>3, ConstantsAssumption
  <2>3. QED
    BY <2>1, <2>2
<1>6. QED
  BY <1>3, <1>4, <1>5 DEF ToErase
LEMMA StepLastIsCached ==
    ASSUME OInv, ToMail, ToErase, LastIsCached, NEW i \in Requests, RequestStep(i)
    PROVE  LastIsCached'
<1>1. TInv /\ used \subseteq used'
  BY DEF OInv, CInv, RequestStep, FindNone, FindByEmail, FindById, Insert, SetToken, MailToken,
         CheckToken, EraseToken, Save
<1>2. Kind(i) \in Kinds
  BY DEF Kind, Kinds
<1>3. SUFFICES ASSUME NEW k \in Kinds, NEW u \in Users,
                      \A j \in Requests : ~ (pc[j] = "mail" /\ Kind(j) = k /\ User(j) = u)'
               PROVE  last'[k][u] \in {NoToken, cached'[k][u]} \cup used'
  BY DEF LastIsCached
<1>4. ASSUME ~ MailToken(i) \/ Kind(i) # k \/ User(i) # u
      PROVE  last[k][u] \in {NoToken, cached[k][u]} \cup used
  <2>1. SUFFICES ASSUME NEW j \in Requests, pc[j] = "mail", Kind(j) = k, User(j) = u
                 PROVE  FALSE
    BY DEF LastIsCached
  <2>2. CASE j # i
    BY <1>3, <2>1, <2>2, MailFrame
  <2>3. CASE j = i
    BY <1>4, <2>1, <2>3
    DEF RequestStep, FindNone, FindByEmail, FindById, Insert, SetToken, CheckToken, EraseToken, Save
  <2>4. QED
    BY <2>2, <2>3
<1>5. CASE MailToken(i)
  <2>1. /\ pc[i] = "mail" /\ UNCHANGED <<cached, used>> /\ User(i) \in Users
        /\ last' = [last EXCEPT ![Kind(i)][User(i)] = arg[i].token]
    BY <1>1, <1>5 DEF MailToken, TInv, Shape, Awaits
  <2>2. CASE Kind(i) = k /\ User(i) = u
    <3>1. cached[k][u] = arg[i].token
      BY <2>1, <2>2 DEF ToMail
    <3>2. QED
      BY <1>1, <1>2, <2>1, <2>2, <3>1 DEF TInv, TypeOK
  <2>3. CASE Kind(i) # k \/ User(i) # u
    BY <1>1, <1>2, <1>4, <2>1, <2>3 DEF TInv, TypeOK
  <2>4. QED
    BY <2>2, <2>3
<1>6. CASE SetToken(i)
  <2>1. PICK t : cached' = [cached EXCEPT ![Kind(i)][User(i)] = t]
    BY <1>6 DEF SetToken
  <2>2. UNCHANGED <<last, used>> /\ pc'[i] = "mail" /\ User(i)' = User(i) /\ Kind(i)' = Kind(i)
    BY <1>1, <1>6, ArgFacts, MailFrame, AdvanceFacts DEF SetToken, TInv
  <2>3. Kind(i) # k \/ User(i) # u
    BY <1>3, <2>2
  <2>4. QED
    BY <1>1, <1>2, <1>4, <2>1, <2>2, <2>3 DEF TInv, TypeOK
<1>7. CASE EraseToken(i)
  <2>1. /\ pc[i] = "erase" /\ UNCHANGED <<last, used>> /\ ~ MailToken(i)
        /\ cached' = [cached EXCEPT ![Kind(i)][User(i)] = NoToken]
    BY <1>7 DEF EraseToken, MailToken
  <2>2. cached[Kind(i)][User(i)] \in {NoToken} \cup used
    BY <1>1, <2>1 DEF ToErase, Spends, TInv, Shape
  <2>3. QED
    BY <1>1, <1>2, <1>4, <2>1, <2>2 DEF TInv, TypeOK
<1>8. CASE FindNone(i) \/ FindByEmail(i) \/ FindById(i) \/ Insert(i) \/ CheckToken(i) \/ Save(i)
  <2>1. UNCHANGED <<cached, last>> /\ ~ MailToken(i)
    BY <1>8 DEF FindNone, FindByEmail, FindById, Insert, CheckToken, Save, MailToken
  <2>2. QED
    BY <1>1, <1>4, <2>1
<1>9. QED
  BY <1>5, <1>6, <1>7, <1>8 DEF RequestStep

\* The end of a token, or nothing.
LEMMA IdleEInv ==
    ASSUME EInv, UNCHANGED vars \/ Expire
    PROVE  EInv'
<1>1. OInv' /\ TInv
  BY IdleOInv DEF EInv, OInv, CInv
<1>2. UNCHANGED <<rows, mails, used, pc, arg>>
  BY DEF vars, Expire
<1>3. \A j \in Requests : Kind(j) \in Kinds
  BY DEF Kind, Kinds
<1>4. \A k \in Kinds, u \in Users :
        /\ cached'[k][u] \in {NoToken, cached[k][u]}
        /\ cached'[k][u] # cached[k][u] => \E m \in mails : m.token = cached[k][u]
        /\ \/ last'[k][u] = last[k][u] /\ (cached'[k][u] = cached[k][u] \/ last[k][u] # cached[k][u])
           \/ last'[k][u] = NoToken
  BY <1>1 DEF vars, Expire, TInv, TypeOK
<1>5. RegisterFirst' /\ RowsThere'
  BY <1>2 DEF EInv, RegisterFirst, RowsThere, Registers, Mails, Op, User
<1>6. \A j \in Requests : Mails(j) \/ Spends(j) => User(j) \in Users
  BY <1>1 DEF Mails, Spends, TInv, Shape, Awaits, Mailing
<1>7. ToMail'
  <2>1. \A j \in Requests : pc[j] = "mail" => cached'[Kind(j)][User(j)] = arg[j].token
    BY <1>3, <1>4, <1>6 DEF EInv, ToMail, Mails
  <2>2. QED
    BY <1>2, <2>1 DEF EInv, ToMail, Kind, User, Op
<1>8. ToErase'
  <2>1. \A j \in Requests : Spends(j) => cached'[Kind(j)][User(j)] \in {NoToken, arg[j].token}
    BY <1>3, <1>4, <1>6 DEF EInv, ToErase
  <2>2. QED
    BY <1>2, <2>1 DEF EInv, ToErase, Spends, Kind, User, Op
<1>9. LastIsCached'
  BY <1>2, <1>4 DEF EInv, LastIsCached, Kind, User, Op
<1>10. QED
  BY <1>1, <1>5, <1>7, <1>8, <1>9 DEF EInv

LEMMA ArriveEInv ==
    ASSUME EInv, NEW i \in Requests, Arrive(i)
    PROVE  EInv'
<1>1. OInv' /\ TInv
  BY ArriveOInv DEF EInv, OInv, CInv
<1>2. /\ pc[i] = "new" /\ pc'[i] \in {"find", "check"}
      /\ pc'[i] = "find" => Op(i)' # "reset"
      /\ \A j \in Requests \ {i} : /\ arg'[j] = arg[j] /\ pc'[j] = pc[j] /\ Op(j)' = Op(j)
                                   /\ User(j)' = User(j) /\ Kind(j)' = Kind(j)
      /\ UNCHANGED <<rows, cached, mails, last, used>>
  BY <1>1, ArriveFacts, ArriveToken DEF Op, User, Kind, TInv, TypeOK
<1>3. ToMail' /\ LastIsCached'
  BY <1>2 DEF EInv, ToMail, LastIsCached
<1>4. ToErase'
  <2>1. ~ Spends(i)'
    BY <1>2 DEF Spends
  <2>2. QED
    BY <1>2, <2>1 DEF EInv, ToErase, Spends
<1>5. Op(i)' = "verifyEmail" =>
        \E m \in mails : m.kind = "verification" /\ User(i)' = m.user
  BY <1>1, ArriveToken DEF Kind
<1>6. RowsThere'
  BY <1>2, <1>5 DEF EInv, RowsThere, Mails
<1>7. Op(i)' = "register" => /\ rows[User(i)'] = NoRow
                             /\ \A j \in InFlight : User(j) # User(i)'
  BY <1>1, ArriveFacts DEF Op, User, Creations, TInv, TypeOK
<1>8. RegisterFirst'
  <2>1. SUFFICES ASSUME NEW j \in Requests, Registers(j)'
                 PROVE  /\ \A m \in mails : m.kind = "verification" => m.user # User(j)'
                        /\ \A n \in Requests : pc'[n] \in Awaits /\ Op(n)' = "verifyEmail" =>
                              User(n)' # User(j)'
                        /\ \A n \in Requests \ {j} : Registers(n)' => User(n)' # User(j)'
    BY <1>2 DEF RegisterFirst
  <2>2. CASE j = i
    <3>1. Op(i)' = "register"
      BY <2>1, <2>2 DEF Registers
    <3>2. \A m \in mails : m.user # User(i)'
      BY <1>7, <3>1 DEF EInv, RowsThere
    <3>3. \A n \in Requests \ {i} : (pc'[n] \in Awaits \/ Registers(n)') => n \in InFlight /\ User(n)' = User(n)
      BY <1>2 DEF InFlight, Registers, Awaits
    <3>4. QED
      BY <1>7, <2>2, <3>1, <3>2, <3>3
  <2>3. CASE j # i
    <3>1. Registers(j) /\ User(j)' = User(j)
      BY <1>2, <2>1, <2>3 DEF Registers
    <3>2. \A m \in mails : m.kind = "verification" => m.user # User(j)
      BY <3>1 DEF EInv, RegisterFirst
    <3>3. Op(i)' = "verifyEmail" => User(i)' # User(j)
      BY <1>5, <3>2
    <3>4. Registers(i)' => User(i)' # User(j)
      BY <1>7, <3>1 DEF Registers, InFlight, Awaits
    <3>5. \A n \in Requests \ {i} : /\ Registers(n)' = Registers(n) /\ User(n)' = User(n)
                                    /\ Op(n)' = Op(n) /\ pc'[n] = pc[n]
      BY <1>2 DEF Registers
    <3>6. QED
      BY <3>1, <3>2, <3>3, <3>4, <3>5 DEF EInv, RegisterFirst
  <2>4. QED
    BY <2>2, <2>3
<1>9. QED
  BY <1>1, <1>3, <1>4, <1>6, <1>8 DEF EInv

LEMMA CalmEInv ==
    ASSUME MailsApart, EInv, CalmNext \/ UNCHANGED vars
    PROVE  EInv'
<1>1. ASSUME NEW i \in Requests, RequestStep(i)
      PROVE  EInv'
  BY <1>1, StepOInv, StepRegisterFirst, StepRowsThere, StepToMail, StepToErase,
     StepLastIsCached
  DEF EInv
<1>2. QED
  BY <1>1, IdleEInv, ArriveEInv DEF CalmNext

LEMMA LastIsThere == EInv => LastMailWorks
BY DEF EInv, LastIsCached, LastMailWorks, InFlight, Awaits

\* LastMailWorks of UserAccount holds of every behaviour in which no call fails and
\* requests for mails of one kind overlap neither with each other nor with the use of
\* such a mail: what a mail carries is in the cache until it is used or expires.
THEOREM MailsWork ==
    ASSUME MailsApart, Faults = FALSE
    PROVE  Spec => []LastMailWorks
<1>1. EInv /\ [Next]_vars => EInv'
  BY CalmEInv, NextIsCalm
<1>2. QED
  BY InitEInv, <1>1, LastIsThere, PTL DEF Spec

\* CalmMailsWorkOnce of MCUserAccount: with both assumptions on what overlaps, a mail
\* works, and once, in the part in which nothing fails, although Faults allows it
\* (forgotPassword, resetPassword and the verification mails of auth.service.ts).
THEOREM CalmMails ==
    ASSUME MailsApart, ResetsApart
    PROVE  MCSpec => []CalmMailsWorkOnce
<1> DEFINE Inv == calm \in BOOLEAN /\ (calm => UInv /\ EInv)
<1>1. MCInit => Inv
  BY InitUInv, InitEInv, PartsAssumption DEF MCInit
<1>2. Inv /\ [MCNext]_<<vars, calm>> => Inv'
  <2>1. SUFFICES ASSUME Inv, [MCNext]_<<vars, calm>>, calm'
                 PROVE  UInv' /\ EInv'
    BY DEF MCNext
  <2>2. calm' = calm
    BY <2>1 DEF MCNext
  <2>3. calm /\ (CalmNext \/ UNCHANGED vars)
    BY <2>1, <2>2 DEF MCNext, Failure
  <2>4. QED
    BY <2>1, <2>3, CalmUInv, CalmEInv
<1>3. Inv => CalmMailsWorkOnce
  BY UsedOnce, LastIsThere DEF CalmMailsWorkOnce
<1>4. QED
  BY <1>1, <1>2, <1>3, PTL DEF MCSpec
=============================================================================
