-------------------------- MODULE Services_proofs --------------------------
(***************************************************************************)
(* Theorems about Sessions, and about JiraIntegration, TodoComments and    *)
(* UserPages as MCServices puts them together, for any number of requests, *)
(* statuses, storage keys and users, and whether calls may reject or not.  *)
(***************************************************************************)
EXTENDS MCServices, FiniteSetTheorems, TLAPS

-----------------------------------------------------------------------------
(***************************************************************************)
(* Sessions: type correctness, strengthened by what a request is at each   *)
(* of its awaits and by where tokens and hashes come from.                 *)
(***************************************************************************)
WithToken == {"refresh", "logout", "change"}
\* The operations that pass each await.
Stages ==
    {<<"signIn", "open">>, <<"google", "open">>, <<"refresh", "user">>, <<"refresh", "rotate">>,
     <<"logout", "ban">>, <<"logout", "close">>, <<"change", "save">>, <<"reset", "save">>,
     <<"change", "revoke">>, <<"remove", "erase">>}

Shape ==
    /\ \A i \in Requests : pc[i] \in Awaits => <<Op(i), pc[i]>> \in Stages
    /\ \A i \in Requests : pc[i] = "new" <=> Op(i) = "none"
    /\ \A i \in Requests : Op(i) \in WithToken <=> arg[i].token # None
    /\ \A i \in Requests : arg[i].token # None => arg[i].token \in Signed

\* Only requests that are done have signed, for sessions that others opened.
SignersDone == \A t \in Signed : t \in Requests /\ pc[t] = "done" /\ of[t] \in Signed

\* A row holds the hash of a token that was signed for it.
HashesSigned == \A s \in Requests : sessions[s] # None => sessions[s] \in Signed

BeforeEnded == \A j \in Requests : \A i \in before[j] : pc[i] \in {"done", "failed"}

TInv == TypeOK /\ Shape /\ SignersDone /\ HashesSigned /\ BeforeEnded

LEMMA InitTInv == Init => TInv
BY ConstantsAssumption DEF Init, TInv, TypeOK, Shape, SignersDone, HashesSigned, BeforeEnded,
   Signed, Awaits, Ops, Maybe, Op, Stages, WithToken

\* Append adds the signer, and nothing else.
LEMMA SignGrows ==
    ASSUME signed \in Seq(Requests), NEW i \in Requests, signed' = Append(signed, i)
    PROVE  /\ signed' \in Seq(Requests)
           /\ Signed' = Signed \cup {i}
           /\ Len(signed') = Len(signed) + 1
BY DEF Signed

\* The arrival of a request, whatever it asks for.
Arrives(i) ==
    \/ StartSignIn(i) \/ StartGoogle(i) \/ StartRefresh(i) \/ StartLogout(i)
    \/ StartChange(i) \/ StartReset(i) \/ StartRemove(i)

LEMMA ArriveFacts ==
    ASSUME TInv, NEW i \in Requests, Arrives(i)
    PROVE  \E where \in Awaits, op \in Ops, t \in Maybe :
             /\ Start(i, where, op, t)
             /\ <<op, where>> \in Stages
             /\ op \in WithToken <=> t # None
             /\ t # None => t \in Signed
             /\ op = "refresh" => sessions[of[t]] = t
             /\ where \in {"open", "user", "ban", "save", "erase"}
             /\ where = "open" => account.live
<1>1. \A t \in Signed : t \in Requests
  BY DEF TInv, SignersDone
<1>2. CASE StartSignIn(i) \/ StartGoogle(i) \/ StartReset(i) \/ StartRemove(i)
  BY <1>2, ConstantsAssumption DEF StartSignIn, StartGoogle, StartReset, StartRemove, Awaits, Ops,
     Maybe, Stages, WithToken
<1>3. CASE StartRefresh(i) \/ StartLogout(i) \/ StartChange(i)
  BY <1>1, <1>3, ConstantsAssumption DEF StartRefresh, StartLogout, StartChange, Awaits, Ops,
     Maybe, Stages, WithToken
<1>4. QED
  BY <1>2, <1>3 DEF Arrives

\* The steps that a request takes after its arrival.
Advances(i) ==
    \/ OpenSession(i) \/ FindUser(i) \/ Rotate(i) \/ BanSession(i) \/ CloseSession(i)
    \/ SavePassword(i) \/ RevokeSessions(i) \/ EraseUser(i) \/ Fault(i)

LEMMA NextCases ==
    ASSUME Next
    PROVE  (\E i \in Requests : Arrives(i) \/ Advances(i)) \/ Expire
BY DEF Next, Arrives, Advances

\* The session of a token is there to be named.
LEMMA SessionOfFacts ==
    ASSUME TInv, NEW i \in Requests
    PROVE  /\ SessionOf(i) \in Requests
           /\ arg[i].token # None => SessionOf(i) = of[arg[i].token] /\ SessionOf(i) \in Signed
           /\ arg[i].token = None => SessionOf(i) = i
BY DEF TInv, Shape, SignersDone, SessionOf

LEMMA ArriveTInv ==
    ASSUME TInv, NEW i \in Requests, Arrives(i)
    PROVE  TInv'
<1>1. PICK where \in Awaits, op \in Ops, t \in Maybe :
        /\ Start(i, where, op, t)
        /\ <<op, where>> \in Stages
        /\ op \in WithToken <=> t # None
        /\ t # None => t \in Signed
  BY ArriveFacts
<1>2. /\ pc[i] = "new" /\ pc' = [pc EXCEPT ![i] = where]
      /\ arg' = [arg EXCEPT ![i] = [op |-> op, token |-> t]]
      /\ before' = [before EXCEPT ![i] = {j \in Requests : pc[j] \in {"done", "failed"}}]
      /\ UNCHANGED <<account, sessions, banned, signed, expired, of>>
  BY <1>1 DEF Start, tables, tokens
<1>3. Signed' = Signed
  BY <1>2 DEF Signed
<1>4. TypeOK'
  BY <1>1, <1>2 DEF TInv, TypeOK
<1>5. Shape'
  BY <1>1, <1>2, <1>3 DEF TInv, TypeOK, Shape, Op, Awaits, Ops
<1>6. SignersDone' /\ HashesSigned' /\ BeforeEnded'
  BY <1>1, <1>2, <1>3 DEF TInv, TypeOK, SignersDone, HashesSigned, BeforeEnded
<1>7. QED
  BY <1>4, <1>5, <1>6 DEF TInv

\* Where a step takes the request.
LEMMA AdvanceFacts ==
    ASSUME TInv, NEW i \in Requests, Advances(i)
    PROVE  \E next \in Awaits \cup {"done", "failed"} :
             /\ pc[i] \in Awaits
             /\ pc' = [pc EXCEPT ![i] = next]
             /\ UNCHANGED <<arg, before>>
             /\ next \in Awaits => <<Op(i), next>> \in Stages
<1>1. pc[i] \in Awaits => <<Op(i), pc[i]>> \in Stages
  BY DEF TInv, Shape
<1>2. CASE OpenSession(i) \/ FindUser(i) \/ Rotate(i)
  BY <1>1, <1>2 DEF OpenSession, FindUser, Rotate, At, Awaits, Stages
<1>3. CASE BanSession(i) \/ CloseSession(i) \/ EraseUser(i)
  BY <1>1, <1>3 DEF BanSession, CloseSession, EraseUser, At, Awaits, Stages
<1>4. CASE SavePassword(i) \/ RevokeSessions(i)
  BY <1>1, <1>4 DEF SavePassword, RevokeSessions, At, Awaits, Stages
<1>5. CASE Fault(i)
  <2>1. pc[i] \in Awaits /\ pc' = [pc EXCEPT ![i] = "failed"] /\ UNCHANGED <<arg, before>>
    BY <1>5 DEF Fault, At
  <2>2. "failed" \notin Awaits
    BY DEF Awaits
  <2>3. QED
    BY <2>1, <2>2
<1>6. QED
  BY <1>2, <1>3, <1>4, <1>5 DEF Advances

\* The two steps that sign, and what they sign for.
Signs(i) == OpenSession(i) \/ Rotate(i)

LEMMA SignFacts ==
    ASSUME TInv, NEW i \in Requests, Signs(i)
    PROVE  /\ i \notin Signed
           /\ pc[i] \in {"open", "rotate"} /\ pc' = [pc EXCEPT ![i] = "done"]
           /\ pc[i] = "open" => SessionOf(i) = i
           /\ pc[i] = "rotate" => SessionOf(i) \in Signed
           /\ signed' = Append(signed, i)
           /\ of' = [of EXCEPT ![i] = SessionOf(i)]
           /\ sessions' = [sessions EXCEPT ![SessionOf(i)] =
                               IF pc[i] = "rotate" /\ sessions[SessionOf(i)] = None THEN None ELSE i]
           /\ UNCHANGED <<account, banned, expired, arg, before>>
<1>1. pc[i] \in {"open", "rotate"}
  BY DEF Signs, OpenSession, Rotate, At
<1>2. i \notin Signed
  BY <1>1 DEF TInv, SignersDone
<1>3. <<Op(i), pc[i]>> \in Stages
  BY <1>1 DEF TInv, Shape, Awaits
<1>4. (Op(i) \in WithToken <=> arg[i].token # None) /\ (pc[i] = "open" <=> Op(i) \notin WithToken)
  BY <1>1, <1>3 DEF TInv, Shape, Stages, WithToken
<1>5. /\ pc[i] = "open" => SessionOf(i) = i
      /\ pc[i] = "rotate" => SessionOf(i) \in Signed
  BY <1>1, <1>4, SessionOfFacts
<1>6. CASE OpenSession(i)
  BY <1>2, <1>5, <1>6 DEF OpenSession, At, Sign
<1>7. CASE Rotate(i)
  BY <1>2, <1>5, <1>7 DEF Rotate, At, Sign
<1>8. QED
  BY <1>6, <1>7 DEF Signs

LEMMA SignTInv ==
    ASSUME TInv, NEW i \in Requests, Signs(i)
    PROVE  TInv'
<1> DEFINE s == SessionOf(i)
<1>1. /\ s \in Requests
      /\ i \notin Signed
      /\ pc[i] \in {"open", "rotate"} /\ pc' = [pc EXCEPT ![i] = "done"]
      /\ s = i \/ s \in Signed
      /\ signed' = Append(signed, i)
      /\ of' = [of EXCEPT ![i] = s]
      /\ \E h \in {None, i} : sessions' = [sessions EXCEPT ![s] = h]
      /\ UNCHANGED <<account, banned, expired, arg, before>>
  BY SignFacts, SessionOfFacts
<1> HIDE DEF s
<1>2. signed' \in Seq(Requests) /\ Signed' = Signed \cup {i} /\ Len(signed') = Len(signed) + 1
  BY <1>1, SignGrows DEF TInv, TypeOK
<1>3. SignersDone'
  BY <1>1, <1>2 DEF TInv, TypeOK, SignersDone
<1>4. HashesSigned'
  BY <1>1, <1>2, ConstantsAssumption DEF TInv, TypeOK, HashesSigned
<1>5. TypeOK'
  <2>1. expired' \in 0 .. Len(signed')
    BY <1>1, <1>2 DEF TInv, TypeOK
  <2>2. \A r \in Requests : sessions'[r] # None => of'[sessions'[r]] = r
    BY <1>1, <1>2, ConstantsAssumption DEF TInv, TypeOK, HashesSigned
  <2>3. sessions' \in [Requests -> Maybe] /\ of' \in [Requests -> Maybe]
    BY <1>1 DEF TInv, TypeOK, Maybe
  <2>4. QED
    BY <1>1, <1>2, <2>1, <2>2, <2>3 DEF TInv, TypeOK
<1>6. Shape'
  BY <1>1, <1>2 DEF TInv, TypeOK, Shape, Op, Awaits
<1>7. BeforeEnded'
  BY <1>1 DEF TInv, TypeOK, BeforeEnded
<1>8. QED
  BY <1>3, <1>4, <1>5, <1>6, <1>7 DEF TInv

\* Every other step leaves the tokens alone and gives no session a hash.
LEMMA QuietFacts ==
    ASSUME TInv, NEW i \in Requests, Advances(i), ~ Signs(i)
    PROVE  /\ UNCHANGED tokens
           /\ \A s \in Requests : sessions'[s] \in {sessions[s], None}
           /\ sessions' \in [Requests -> Maybe]
           /\ banned' \in [Requests -> Maybe]
           /\ account' \in [live : BOOLEAN, password : Maybe]
           /\ account'.live => account.live
<1>1. CASE FindUser(i) \/ Fault(i)
  BY <1>1 DEF FindUser, Fault, tables, TInv, TypeOK
<1>2. CASE BanSession(i)
  BY <1>2, SessionOfFacts DEF BanSession, TInv, TypeOK, tokens
<1>3. CASE CloseSession(i)
  BY <1>3, SessionOfFacts DEF CloseSession, TInv, TypeOK, tokens, Maybe
<1>4. CASE SavePassword(i)
  BY <1>4 DEF SavePassword, TInv, TypeOK, tokens, Maybe
<1>5. CASE RevokeSessions(i)
  BY <1>5 DEF RevokeSessions, TInv, TypeOK, tokens, Maybe
<1>6. CASE EraseUser(i)
  BY <1>6 DEF EraseUser, TInv, TypeOK, tokens
<1>7. QED
  BY <1>1, <1>2, <1>3, <1>4, <1>5, <1>6 DEF Advances, Signs

LEMMA QuietTInv ==
    ASSUME TInv, NEW i \in Requests, Advances(i), ~ Signs(i)
    PROVE  TInv'
<1>1. PICK next \in Awaits \cup {"done", "failed"} :
        /\ pc[i] \in Awaits
        /\ pc' = [pc EXCEPT ![i] = next]
        /\ UNCHANGED <<arg, before>>
        /\ next \in Awaits => <<Op(i), next>> \in Stages
  BY AdvanceFacts
<1>2. UNCHANGED <<signed, expired, of>> /\ Signed' = Signed
  BY QuietFacts DEF tokens, Signed
<1>3. TypeOK'
  BY <1>1, <1>2, QuietFacts DEF TInv, TypeOK
<1>4. Shape'
  BY <1>1, <1>2 DEF TInv, TypeOK, Shape, Op, Awaits
<1>5. SignersDone' /\ HashesSigned'
  BY <1>1, <1>2, QuietFacts DEF TInv, TypeOK, SignersDone, HashesSigned, Awaits
<1>6. BeforeEnded'
  BY <1>1 DEF TInv, TypeOK, BeforeEnded, Awaits
<1>7. QED
  BY <1>3, <1>4, <1>5, <1>6 DEF TInv

LEMMA ExpireTInv ==
    ASSUME TInv, Expire
    PROVE  TInv'
<1>1. expired' \in 0 .. Len(signed')
  BY DEF TInv, TypeOK, Expire
<1>2. Signed' = Signed
  BY DEF Expire, Signed
<1>3. QED
  BY <1>1, <1>2 DEF TInv, TypeOK, Shape, SignersDone, HashesSigned, BeforeEnded, Expire, tables, Op

LEMMA StutterTInv ==
    ASSUME TInv, UNCHANGED vars
    PROVE  TInv'
BY DEF TInv, TypeOK, Shape, SignersDone, HashesSigned, BeforeEnded, Signed, Op, vars, tables, tokens

LEMMA NextTInv == TInv /\ [Next]_vars => TInv'
BY NextCases, ArriveTInv, SignTInv, QuietTInv, ExpireTInv, StutterTInv

\* Every variable keeps its type, and every row of session holds the hash of a
\* token for that session, for any number of requests.
THEOREM TypeCorrect == Spec => []TypeOK
<1>1. TInv => TypeOK
  BY DEF TInv
<1>2. QED
  BY <1>1, InitTInv, NextTInv, PTL DEF Spec

-----------------------------------------------------------------------------
(***************************************************************************)
(* What the steps of one request leave alone of another.                   *)
(***************************************************************************)
LEMMA ArriveKeeps ==
    ASSUME TInv, NEW i \in Requests, Arrives(i)
    PROVE  \E where \in {"open", "user", "ban", "save", "erase"} :
             /\ pc[i] = "new" /\ pc' = [pc EXCEPT ![i] = where]
             /\ where = "open" => account.live
             /\ Op(i)' = "refresh" => sessions[SessionOf(i)'] = arg'[i].token
             /\ before' = [before EXCEPT ![i] = {j \in Requests : pc[j] \in {"done", "failed"}}]
             /\ UNCHANGED <<account, sessions, banned, signed, expired, of>>
             /\ \A j \in Requests \ {i} : arg'[j] = arg[j] /\ SessionOf(j)' = SessionOf(j)
<1>1. PICK where \in Awaits, op \in Ops, t \in Maybe :
        /\ Start(i, where, op, t)
        /\ op \in WithToken <=> t # None
        /\ op = "refresh" => sessions[of[t]] = t
        /\ where \in {"open", "user", "ban", "save", "erase"}
        /\ where = "open" => account.live
  BY ArriveFacts
<1>2. /\ pc[i] = "new" /\ pc' = [pc EXCEPT ![i] = where]
      /\ arg' = [arg EXCEPT ![i] = [op |-> op, token |-> t]]
      /\ before' = [before EXCEPT ![i] = {j \in Requests : pc[j] \in {"done", "failed"}}]
      /\ UNCHANGED <<account, sessions, banned, signed, expired, of>>
  BY <1>1 DEF Start, tables, tokens
<1>3. arg'[i] = [op |-> op, token |-> t] /\ \A j \in Requests \ {i} : arg'[j] = arg[j]
  BY <1>2 DEF TInv, TypeOK
<1>4. \A j \in Requests \ {i} : SessionOf(j)' = SessionOf(j)
  BY <1>2, <1>3 DEF SessionOf
<1>5. Op(i)' = "refresh" => sessions[SessionOf(i)'] = arg'[i].token
  BY <1>1, <1>2, <1>3 DEF SessionOf, Op, WithToken
<1>6. QED
  BY <1>1, <1>2, <1>3, <1>4, <1>5

LEMMA AdvanceKeeps ==
    ASSUME TInv, NEW i \in Requests, Advances(i)
    PROVE  /\ pc[i] \in Awaits
           /\ \A j \in Requests \ {i} : pc'[j] = pc[j]
           /\ UNCHANGED <<arg, before>>
           /\ \A j \in Requests : SessionOf(j)' = SessionOf(j)
           /\ account'.live => account.live
<1>1. pc[i] \in Awaits /\ (\A j \in Requests \ {i} : pc'[j] = pc[j]) /\ UNCHANGED <<arg, before>>
  <2>1. PICK next \in Awaits \cup {"done", "failed"} :
          /\ pc[i] \in Awaits
          /\ pc' = [pc EXCEPT ![i] = next]
          /\ UNCHANGED <<arg, before>>
    BY AdvanceFacts
  <2>2. QED
    BY <2>1 DEF TInv, TypeOK
<1>2. \A j \in Requests : arg[j].token # None => arg[j].token \in Signed
  BY DEF TInv, Shape
<1>3. CASE Signs(i)
  <2>1. i \notin Signed /\ of' = [of EXCEPT ![i] = SessionOf(i)] /\ UNCHANGED account
    BY <1>3, SignFacts
  <2>2. \A t \in Signed : of'[t] = of[t]
    BY <2>1 DEF TInv, TypeOK, SignersDone
  <2>3. QED
    BY <1>1, <1>2, <2>1, <2>2 DEF SessionOf
<1>4. CASE ~ Signs(i)
  <2>1. UNCHANGED of /\ (account'.live => account.live)
    BY <1>4, QuietFacts DEF tokens
  <2>2. QED
    BY <1>1, <2>1 DEF SessionOf
<1>5. QED
  BY <1>3, <1>4

\* A row is given the hash of the request that signs, or none.
LEMMA RowFacts ==
    ASSUME TInv, NEW i \in Requests, Advances(i), NEW s \in Requests
    PROVE  \/ sessions'[s] \in {sessions[s], None}
           \/ sessions'[s] = i /\ i \notin Signed /\ (s # i => sessions[s] # None)
<1>1. CASE Signs(i)
  BY <1>1, SignFacts, SessionOfFacts DEF TInv, TypeOK
<1>2. CASE ~ Signs(i)
  BY <1>2, QuietFacts
<1>3. QED
  BY <1>1, <1>2

\* Who is done, and with what.
LEMMA DoneFacts ==
    ASSUME TInv, NEW i \in Requests, Advances(i), pc'[i] = "done"
    PROVE  /\ Op(i) = "refresh" => Signs(i)
           /\ Op(i) = "logout" => CloseSession(i)
           /\ Op(i) = "change" => RevokeSessions(i)
           /\ Op(i) = "remove" => EraseUser(i)
<1>1. pc[i] \in Awaits /\ pc \in [Requests -> Awaits \cup {"new", "done", "failed"}]
  BY AdvanceFacts DEF TInv, TypeOK
<1>2. <<Op(i), pc[i]>> \in Stages
  BY <1>1 DEF TInv, Shape
<1>3. CASE OpenSession(i) \/ FindUser(i) \/ Rotate(i)
  BY <1>1, <1>2, <1>3 DEF OpenSession, FindUser, Rotate, At, Stages, Signs
<1>4. CASE BanSession(i) \/ CloseSession(i) \/ EraseUser(i)
  BY <1>1, <1>2, <1>4 DEF BanSession, CloseSession, EraseUser, At, Stages
<1>5. CASE SavePassword(i) \/ RevokeSessions(i)
  BY <1>1, <1>2, <1>5 DEF SavePassword, RevokeSessions, At, Stages
<1>6. CASE Fault(i)
  BY <1>1, <1>6 DEF Fault, At
<1>7. QED
  BY <1>3, <1>4, <1>5, <1>6 DEF Advances

-----------------------------------------------------------------------------
(***************************************************************************)
(* Refresh tokens work once.  A refresh that is done leaves its session    *)
(* without the hash of its token, for good; so one that starts later is    *)
(* refused.                                                                *)
(***************************************************************************)
TokenSpent == \A i \in Requests :
    pc[i] = "done" /\ Op(i) = "refresh" => sessions[SessionOf(i)] # arg[i].token
NotAfter == \A i, j \in Requests :
    /\ pc[i] = "done" /\ Op(i) = "refresh" /\ Op(j) = "refresh" /\ i # j
    /\ arg[i].token = arg[j].token
    => i \notin before[j]
RefreshInv == TInv /\ TokenSpent /\ NotAfter

LEMMA InitRefreshInv == Init => RefreshInv
BY InitTInv DEF Init, RefreshInv, TokenSpent, NotAfter

LEMMA ArriveRefreshInv ==
    ASSUME RefreshInv, NEW i \in Requests, Arrives(i)
    PROVE  TokenSpent' /\ NotAfter'
<1>1. TInv
  BY DEF RefreshInv
<1>2. PICK where \in {"open", "user", "ban", "save", "erase"} :
        /\ pc[i] = "new" /\ pc' = [pc EXCEPT ![i] = where]
        /\ Op(i)' = "refresh" => sessions[SessionOf(i)'] = arg'[i].token
        /\ before' = [before EXCEPT ![i] = {j \in Requests : pc[j] \in {"done", "failed"}}]
        /\ UNCHANGED <<sessions, of>>
        /\ \A j \in Requests \ {i} : arg'[j] = arg[j] /\ SessionOf(j)' = SessionOf(j)
  BY <1>1, ArriveKeeps
<1>3. pc'[i] # "done" /\ \A j \in Requests \ {i} : pc'[j] = pc[j] /\ before'[j] = before[j]
  BY <1>1, <1>2 DEF TInv, TypeOK
<1>4. TokenSpent'
  BY <1>2, <1>3 DEF RefreshInv, TokenSpent, Op
<1>5. \A k, j \in Requests : arg'[k].token = arg'[j].token /\ Op(k)' = "refresh" /\ Op(j)' = "refresh"
          => SessionOf(k)' = SessionOf(j)'
  BY <1>1, ArriveTInv DEF TInv, Shape, SessionOf, WithToken
<1>6. NotAfter'
  <2>1. SUFFICES ASSUME NEW k \in Requests, NEW j \in Requests, pc'[k] = "done",
                        Op(k)' = "refresh", Op(j)' = "refresh", k # j, arg'[k].token = arg'[j].token
                 PROVE  k \notin before'[j]
    BY DEF NotAfter
  <2>2. CASE j = i
    BY <1>2, <1>4, <1>5, <2>1, <2>2 DEF TokenSpent
  <2>3. CASE j # i
    BY <1>2, <1>3, <2>1, <2>3 DEF RefreshInv, NotAfter, Op
  <2>4. QED
    BY <2>2, <2>3
<1>7. QED
  BY <1>4, <1>6

LEMMA AdvanceRefreshInv ==
    ASSUME RefreshInv, NEW i \in Requests, Advances(i)
    PROVE  TokenSpent' /\ NotAfter'
<1>1. TInv
  BY DEF RefreshInv
<1>2. /\ pc[i] \in Awaits
      /\ \A j \in Requests \ {i} : pc'[j] = pc[j]
      /\ UNCHANGED <<arg, before>>
      /\ \A j \in Requests : SessionOf(j)' = SessionOf(j)
  BY <1>1, AdvanceKeeps
<1>3. \A j \in Requests : Op(j) = "refresh" => arg[j].token \in Signed /\ arg[j].token # None
  BY <1>1 DEF TInv, Shape, WithToken
<1>4. TokenSpent'
  <2>1. SUFFICES ASSUME NEW j \in Requests, pc'[j] = "done", Op(j) = "refresh"
                 PROVE  sessions'[SessionOf(j)] # arg[j].token
    BY <1>2 DEF TokenSpent, Op
  <2>2. SessionOf(j) \in Requests
    BY <1>1, SessionOfFacts
  <2>3. CASE j = i
    <3>1. Signs(i)
      BY <1>1, <2>1, <2>3, DoneFacts
    <3>2. i \notin Signed /\ sessions'[SessionOf(i)] \in {None, i}
      BY <1>1, <2>2, <2>3, <3>1, SignFacts DEF TInv, TypeOK
    <3>3. QED
      BY <1>3, <2>1, <2>3, <3>2
  <2>4. CASE j # i
    <3>1. sessions[SessionOf(j)] # arg[j].token
      BY <1>2, <2>1, <2>4 DEF RefreshInv, TokenSpent
    <3>2. QED
      BY <1>1, <1>3, <2>1, <2>2, <3>1, RowFacts
  <2>5. QED
    BY <2>3, <2>4
<1>5. NotAfter'
  <2>1. SUFFICES ASSUME NEW k \in Requests, NEW j \in Requests, pc'[k] = "done",
                        Op(k) = "refresh", Op(j) = "refresh", k # j, arg[k].token = arg[j].token
                 PROVE  k \notin before[j]
    BY <1>2 DEF NotAfter, Op
  <2>2. CASE k = i
    BY <1>1, <1>2, <2>2 DEF TInv, BeforeEnded, Awaits
  <2>3. CASE k # i
    BY <1>2, <2>1, <2>3 DEF RefreshInv, NotAfter
  <2>4. QED
    BY <2>2, <2>3
<1>6. QED
  BY <1>4, <1>5

LEMMA NextRefreshInv == RefreshInv /\ [Next]_vars => RefreshInv'
<1>1. SUFFICES ASSUME RefreshInv, [Next]_vars
               PROVE  TokenSpent' /\ NotAfter'
  BY NextTInv DEF RefreshInv
<1>2. CASE Expire \/ UNCHANGED vars
  BY <1>1, <1>2 DEF RefreshInv, TokenSpent, NotAfter, Expire, vars, tables, tokens, Op, SessionOf
<1>3. QED
  BY <1>1, <1>2, NextCases, ArriveRefreshInv, AdvanceRefreshInv

\* A refresh token is used once by requests that do not overlap, for any
\* number of requests, however they fail.
THEOREM RefreshOnce == Spec => []RefreshTokenWorksOnce
<1>1. RefreshInv => RefreshTokenWorksOnce
  BY DEF RefreshInv, NotAfter, RefreshTokenWorksOnce, Done
<1>2. QED
  BY <1>1, InitRefreshInv, NextRefreshInv, PTL DEF Spec

-----------------------------------------------------------------------------
(***************************************************************************)
(* A change of the password ends the sessions from before it: a row that   *)
(* is gone gets no hash again, and nobody who had ended opens a session.   *)
(***************************************************************************)
ChangeInv == TInv /\ ChangeEndsOtherSessions

LEMMA InitChangeInv == Init => ChangeInv
BY InitTInv DEF Init, ChangeInv, ChangeEndsOtherSessions, Done

LEMMA ArriveChangeInv ==
    ASSUME ChangeInv, NEW i \in Requests, Arrives(i)
    PROVE  ChangeEndsOtherSessions'
<1>1. TInv
  BY DEF ChangeInv
<1>2. PICK where \in {"open", "user", "ban", "save", "erase"} :
        /\ pc' = [pc EXCEPT ![i] = where]
        /\ before' = [before EXCEPT ![i] = {j \in Requests : pc[j] \in {"done", "failed"}}]
        /\ UNCHANGED sessions
        /\ \A j \in Requests \ {i} : arg'[j] = arg[j] /\ SessionOf(j)' = SessionOf(j)
  BY <1>1, ArriveKeeps
<1>3. pc'[i] # "done" /\ \A j \in Requests \ {i} : pc'[j] = pc[j] /\ before'[j] = before[j]
  BY <1>1, <1>2 DEF TInv, TypeOK
<1>4. QED
  BY <1>2, <1>3 DEF ChangeInv, ChangeEndsOtherSessions, Done, Op

LEMMA AdvanceChangeInv ==
    ASSUME ChangeInv, NEW i \in Requests, Advances(i)
    PROVE  ChangeEndsOtherSessions'
<1>1. TInv
  BY DEF ChangeInv
<1>2. /\ pc[i] \in Awaits
      /\ \A j \in Requests \ {i} : pc'[j] = pc[j]
      /\ UNCHANGED <<arg, before>>
      /\ \A j \in Requests : SessionOf(j)' = SessionOf(j)
  BY <1>1, AdvanceKeeps
<1>3. SUFFICES ASSUME NEW j \in Requests, pc'[j] = "done", Op(j) = "change",
                      NEW s \in before[j] \ {SessionOf(j)}
               PROVE  sessions'[s] = None
  BY <1>2 DEF ChangeEndsOtherSessions, Done, Op
<1>4. s \in Requests /\ pc[s] \in {"done", "failed"}
  BY <1>1 DEF TInv, TypeOK, BeforeEnded
<1>5. CASE j = i
  BY <1>1, <1>3, <1>4, <1>5, DoneFacts DEF RevokeSessions
<1>6. CASE j # i
  <2>1. sessions[s] = None
    BY <1>2, <1>3, <1>6 DEF ChangeInv, ChangeEndsOtherSessions, Done
  <2>2. s # i
    BY <1>2, <1>4 DEF Awaits
  <2>3. QED
    BY <1>1, <1>4, <2>1, <2>2, RowFacts
<1>7. QED
  BY <1>5, <1>6

LEMMA NextChangeInv == ChangeInv /\ [Next]_vars => ChangeInv'
<1>1. SUFFICES ASSUME ChangeInv, [Next]_vars
               PROVE  ChangeEndsOtherSessions'
  BY NextTInv DEF ChangeInv
<1>2. CASE Expire \/ UNCHANGED vars
  BY <1>1, <1>2 DEF ChangeInv, ChangeEndsOtherSessions, Done, Expire, vars, tables, tokens, Op, SessionOf
<1>3. QED
  BY <1>1, <1>2, NextCases, ArriveChangeInv, AdvanceChangeInv

\* After a change of the password no session from before it can be refreshed
\* but the one that changed it, for any number of requests.
THEOREM ChangeEnds == Spec => []ChangeEndsOtherSessions
<1>1. ChangeInv => ChangeEndsOtherSessions
  BY DEF ChangeInv
<1>2. QED
  BY <1>1, InitChangeInv, NextChangeInv, PTL DEF Spec

-----------------------------------------------------------------------------
(***************************************************************************)
(* A removed account signs nothing for those who come later: whoever is    *)
(* about to sign has found the account alive, after every removal that     *)
(* had ended when it started.                                              *)
(***************************************************************************)
RemovedIsGone == \A i \in Done : Op(i) = "remove" => ~ account.live
SignerPrecedes == \A t \in Requests : pc[t] \in {"open", "rotate"} =>
    \A i \in Done : Op(i) = "remove" => i \notin before[t]
RemoveInv == TInv /\ RemovedIsGone /\ SignerPrecedes /\ RemovedSignsNothing

LEMMA InitRemoveInv == Init => RemoveInv
BY InitTInv DEF Init, RemoveInv, RemovedIsGone, SignerPrecedes, RemovedSignsNothing, Done

LEMMA ArriveRemoveInv ==
    ASSUME RemoveInv, NEW i \in Requests, Arrives(i)
    PROVE  RemovedIsGone' /\ SignerPrecedes' /\ RemovedSignsNothing'
<1>1. TInv
  BY DEF RemoveInv
<1>2. PICK where \in {"open", "user", "ban", "save", "erase"} :
        /\ pc[i] = "new" /\ pc' = [pc EXCEPT ![i] = where]
        /\ where = "open" => account.live
        /\ before' = [before EXCEPT ![i] = {j \in Requests : pc[j] \in {"done", "failed"}}]
        /\ UNCHANGED <<account, signed>>
        /\ \A j \in Requests \ {i} : arg'[j] = arg[j]
  BY <1>1, ArriveKeeps
<1>3. pc'[i] = where /\ \A j \in Requests \ {i} : pc'[j] = pc[j] /\ before'[j] = before[j]
  BY <1>1, <1>2 DEF TInv, TypeOK
<1>4. Done' = Done /\ (\A j \in Done : arg'[j] = arg[j]) /\ Signed' = Signed /\ i \notin Signed
  BY <1>1, <1>2, <1>3 DEF Done, Signed, TInv, SignersDone
<1>5. RemovedIsGone'
  BY <1>2, <1>4 DEF RemoveInv, RemovedIsGone, Op
<1>6. SignerPrecedes'
  BY <1>2, <1>3, <1>4 DEF RemoveInv, SignerPrecedes, RemovedIsGone, Op
<1>7. RemovedSignsNothing'
  <2>1. \A t \in Signed : before'[t] = before[t]
    BY <1>1, <1>3, <1>4 DEF TInv, SignersDone
  <2>2. QED
    BY <1>4, <2>1 DEF RemoveInv, RemovedSignsNothing, Op
<1>8. QED
  BY <1>5, <1>6, <1>7

\* Who is about to sign has found the account alive.
LEMMA FoundAlive ==
    ASSUME TInv, NEW i \in Requests, Advances(i), pc'[i] \in {"open", "rotate"}
    PROVE  account.live
<1>1. PICK next \in Awaits \cup {"done", "failed"} :
        pc[i] \in Awaits /\ pc' = [pc EXCEPT ![i] = next]
  BY AdvanceFacts
<1>2. pc \in [Requests -> Awaits \cup {"new", "done", "failed"}]
  BY DEF TInv, TypeOK
<1>3. CASE OpenSession(i) \/ FindUser(i) \/ Rotate(i)
  BY <1>2, <1>3 DEF OpenSession, FindUser, Rotate, At
<1>4. CASE BanSession(i) \/ CloseSession(i) \/ EraseUser(i)
  BY <1>2, <1>4 DEF BanSession, CloseSession, EraseUser, At
<1>5. CASE SavePassword(i) \/ RevokeSessions(i)
  BY <1>2, <1>5 DEF SavePassword, RevokeSessions, At
<1>6. CASE Fault(i)
  BY <1>2, <1>6 DEF Fault, At
<1>7. QED
  BY <1>3, <1>4, <1>5, <1>6 DEF Advances

LEMMA AdvanceRemoveInv ==
    ASSUME RemoveInv, NEW i \in Requests, Advances(i)
    PROVE  RemovedIsGone' /\ SignerPrecedes' /\ RemovedSignsNothing'
<1>1. TInv
  BY DEF RemoveInv
<1>2. /\ pc[i] \in Awaits
      /\ \A j \in Requests \ {i} : pc'[j] = pc[j]
      /\ UNCHANGED <<arg, before>>
      /\ account'.live => account.live
  BY <1>1, AdvanceKeeps
<1>3. \A t \in Requests : i \notin before[t]
  BY <1>1, <1>2 DEF TInv, BeforeEnded, Awaits
<1>4. Done' \subseteq Done \cup {i} /\ \A j \in Requests : Op(j)' = Op(j)
  BY <1>2 DEF Done, Op
<1>5. RemovedIsGone'
  <2>1. SUFFICES ASSUME NEW j \in Requests, pc'[j] = "done", Op(j) = "remove"
                 PROVE  ~ account'.live
    BY <1>4 DEF RemovedIsGone, Done
  <2>2. CASE j = i
    <3>1. account' = [account EXCEPT !.live = FALSE]
      BY <1>1, <2>1, <2>2, DoneFacts DEF EraseUser
    <3>2. QED
      BY <1>1, <3>1 DEF TInv, TypeOK
  <2>3. CASE j # i
    BY <1>2, <2>1, <2>3 DEF RemoveInv, RemovedIsGone, Done
  <2>4. QED
    BY <2>2, <2>3
<1>6. SignerPrecedes'
  <2>1. SUFFICES ASSUME NEW t \in Requests, pc'[t] \in {"open", "rotate"},
                        NEW j \in Done, Op(j) = "remove", j # i
                 PROVE  j \notin before[t]
    BY <1>2, <1>3, <1>4 DEF SignerPrecedes, Op
  <2>2. ~ account.live
    BY <2>1 DEF RemoveInv, RemovedIsGone
  <2>3. t # i
    BY <1>1, <2>1, <2>2, FoundAlive
  <2>4. QED
    BY <1>2, <2>1, <2>3 DEF RemoveInv, SignerPrecedes
<1>7. RemovedSignsNothing'
  <2>1. SUFFICES ASSUME NEW t \in Signed', NEW j \in Done, Op(j) = "remove", j # i
                 PROVE  j \notin before[t]
    <3>1. TInv'
      BY <1>1, SignTInv, QuietTInv
    <3>2. \A t \in Signed' : t \in Requests
      BY <3>1 DEF TInv, SignersDone
    <3>3. QED
      BY <1>2, <1>3, <1>4, <3>2 DEF RemovedSignsNothing, Op
  <2>2. CASE t \in Signed
    BY <2>1, <2>2 DEF RemoveInv, RemovedSignsNothing
  <2>3. CASE t \notin Signed
    <3>1. Signs(i) /\ t = i
      <4>1. CASE Signs(i)
        BY <1>1, <2>1, <2>3, <4>1, SignFacts, SignGrows DEF TInv, TypeOK
      <4>2. CASE ~ Signs(i)
        BY <1>1, <2>1, <2>3, <4>2, QuietFacts DEF tokens, Signed
      <4>3. QED
        BY <4>1, <4>2
    <3>2. pc[i] \in {"open", "rotate"}
      BY <1>1, <3>1, SignFacts
    <3>3. QED
      BY <2>1, <3>1, <3>2 DEF RemoveInv, SignerPrecedes
  <2>4. QED
    BY <2>2, <2>3
<1>8. QED
  BY <1>5, <1>6, <1>7

LEMMA NextRemoveInv == RemoveInv /\ [Next]_vars => RemoveInv'
<1>1. SUFFICES ASSUME RemoveInv, [Next]_vars
               PROVE  RemovedIsGone' /\ SignerPrecedes' /\ RemovedSignsNothing'
  BY NextTInv DEF RemoveInv
<1>2. CASE Expire \/ UNCHANGED vars
  BY <1>1, <1>2 DEF RemoveInv, RemovedIsGone, SignerPrecedes, RemovedSignsNothing, Done, Signed,
     Expire, vars, tables, tokens, Op
<1>3. QED
  BY <1>1, <1>2, NextCases, ArriveRemoveInv, AdvanceRemoveInv

\* Once the removal of an account is done, nobody who starts later gets tokens
\* for it, neither by a sign-in nor by a refresh, for any number of requests.
THEOREM RemovedSigns == Spec => []RemovedSignsNothing
<1>1. RemoveInv => RemovedSignsNothing
  BY DEF RemoveInv
<1>2. QED
  BY <1>1, InitRemoveInv, NextRemoveInv, PTL DEF Spec

-----------------------------------------------------------------------------
(***************************************************************************)
(* A session that was logged out stays out: its row is gone for good, and  *)
(* its entry in the blacklist names the token of a logout that passed it.  *)
(***************************************************************************)
ClosedIsGone == \A i \in Requests :
    Op(i) = "logout" /\ pc[i] = "done" => sessions[SessionOf(i)] = None
ClosedIsBanned == \A i \in Requests :
    Op(i) = "logout" /\ pc[i] \in {"close", "done"} => banned[SessionOf(i)] # None
BannedByLogout == \A s \in Requests : banned[s] # None =>
    \E j \in Requests : /\ Op(j) = "logout" /\ pc[j] \notin {"ban", "new"}
                       /\ SessionOf(j) = s /\ arg[j].token = banned[s]
LogoutInv == TInv /\ ClosedIsGone /\ ClosedIsBanned /\ BannedByLogout

LEMMA InitLogoutInv == Init => LogoutInv
BY InitTInv DEF Init, LogoutInv, ClosedIsGone, ClosedIsBanned, BannedByLogout

LEMMA ArriveLogoutInv ==
    ASSUME LogoutInv, NEW i \in Requests, Arrives(i)
    PROVE  ClosedIsGone' /\ ClosedIsBanned' /\ BannedByLogout'
<1>1. TInv
  BY DEF LogoutInv
<1>2. PICK where \in {"open", "user", "ban", "save", "erase"} :
        /\ pc[i] = "new" /\ pc' = [pc EXCEPT ![i] = where]
        /\ UNCHANGED <<sessions, banned>>
        /\ \A j \in Requests \ {i} : arg'[j] = arg[j] /\ SessionOf(j)' = SessionOf(j)
  BY <1>1, ArriveKeeps
<1>3. pc'[i] = where /\ \A j \in Requests \ {i} : pc'[j] = pc[j]
  BY <1>1, <1>2 DEF TInv, TypeOK
<1>4. ClosedIsGone' /\ ClosedIsBanned'
  BY <1>2, <1>3 DEF LogoutInv, ClosedIsGone, ClosedIsBanned, Op
<1>5. BannedByLogout'
  BY <1>2, <1>3 DEF LogoutInv, BannedByLogout, Op
<1>6. QED
  BY <1>4, <1>5

\* Only a logout puts a session on the blacklist, and it does so first.
LEMMA BanFacts ==
    ASSUME TInv, NEW i \in Requests, Advances(i)
    PROVE  /\ BanSession(i) \/ UNCHANGED banned
           /\ pc'[i] \notin {"ban", "new"}
           /\ pc'[i] = "close" => BanSession(i)
           /\ BanSession(i) => Op(i) = "logout" /\ pc'[i] = "close"
<1>1. pc[i] \in Awaits /\ pc \in [Requests -> Awaits \cup {"new", "done", "failed"}]
  BY AdvanceKeeps DEF TInv, TypeOK
<1>2. <<Op(i), pc[i]>> \in Stages
  BY <1>1 DEF TInv, Shape
<1>3. CASE OpenSession(i) \/ FindUser(i) \/ Rotate(i)
  BY <1>1, <1>3 DEF OpenSession, FindUser, Rotate, At, tables, BanSession
<1>4. CASE BanSession(i)
  BY <1>1, <1>2, <1>4 DEF BanSession, At, Stages
<1>5. CASE CloseSession(i) \/ EraseUser(i)
  BY <1>1, <1>5 DEF CloseSession, EraseUser, At, BanSession
<1>6. CASE SavePassword(i) \/ RevokeSessions(i)
  BY <1>1, <1>6 DEF SavePassword, RevokeSessions, At, BanSession
<1>7. CASE Fault(i)
  BY <1>1, <1>7 DEF Fault, At, tables, BanSession
<1>8. QED
  BY <1>3, <1>4, <1>5, <1>6, <1>7 DEF Advances

LEMMA AdvanceLogoutInv ==
    ASSUME LogoutInv, NEW i \in Requests, Advances(i)
    PROVE  ClosedIsGone' /\ ClosedIsBanned' /\ BannedByLogout'
<1>1. TInv
  BY DEF LogoutInv
<1>2. /\ pc[i] \in Awaits
      /\ \A j \in Requests \ {i} : pc'[j] = pc[j]
      /\ UNCHANGED <<arg, before>>
      /\ \A j \in Requests : SessionOf(j)' = SessionOf(j)
  BY <1>1, AdvanceKeeps
<1>3. \A j \in Requests : Op(j) = "logout" =>
          /\ arg[j].token # None
          /\ SessionOf(j) \in Requests /\ SessionOf(j) \in Signed
  BY <1>1, SessionOfFacts DEF TInv, Shape, WithToken
<1>4. ClosedIsGone'
  <2>1. SUFFICES ASSUME NEW j \in Requests, Op(j) = "logout", pc'[j] = "done"
                 PROVE  sessions'[SessionOf(j)] = None
    BY <1>2 DEF ClosedIsGone, Op
  <2>2. CASE j = i
    <3>1. sessions' = [sessions EXCEPT ![SessionOf(j)] = None]
      BY <1>1, <2>1, <2>2, DoneFacts DEF CloseSession
    <3>2. QED
      BY <1>1, <1>3, <2>1, <3>1 DEF TInv, TypeOK
  <2>3. CASE j # i
    <3>1. sessions[SessionOf(j)] = None
      BY <1>2, <2>1, <2>3 DEF LogoutInv, ClosedIsGone
    <3>2. QED
      BY <1>1, <1>3, <2>1, <3>1, RowFacts
  <2>4. QED
    BY <2>2, <2>3
<1>5. CASE BanSession(i)
  <2>1. banned' = [banned EXCEPT ![SessionOf(i)] = arg[i].token] /\ Op(i) = "logout" /\ pc'[i] = "close"
    BY <1>1, <1>5, BanFacts DEF BanSession
  <2>2. /\ banned'[SessionOf(i)] = arg[i].token
        /\ \A s \in Requests \ {SessionOf(i)} : banned'[s] = banned[s]
    BY <1>1, <1>3, <2>1 DEF TInv, TypeOK
  <2>3. ClosedIsBanned'
    <3>1. SUFFICES ASSUME NEW j \in Requests, Op(j) = "logout", pc'[j] \in {"close", "done"}
                   PROVE  banned'[SessionOf(j)] # None
      BY <1>2 DEF ClosedIsBanned, Op
    <3>2. CASE SessionOf(j) = SessionOf(i)
      BY <1>3, <2>1, <2>2, <3>2
    <3>3. CASE SessionOf(j) # SessionOf(i)
      BY <1>2, <1>3, <2>2, <3>1, <3>3 DEF LogoutInv, ClosedIsBanned
    <3>4. QED
      BY <3>2, <3>3
  <2>4. BannedByLogout'
    <3>1. SUFFICES ASSUME NEW s \in Requests, banned'[s] # None
                   PROVE  \E j \in Requests : /\ Op(j) = "logout" /\ pc'[j] \notin {"ban", "new"}
                                             /\ SessionOf(j) = s /\ arg[j].token = banned'[s]
      BY <1>2 DEF BannedByLogout, Op
    <3>2. CASE s = SessionOf(i)
      BY <2>1, <2>2, <3>2
    <3>3. CASE s # SessionOf(i)
      BY <1>2, <2>1, <2>2, <3>1, <3>3 DEF LogoutInv, BannedByLogout
    <3>4. QED
      BY <3>2, <3>3
  <2>5. QED
    BY <1>4, <2>3, <2>4
<1>6. CASE ~ BanSession(i)
  <2>1. UNCHANGED banned /\ pc'[i] \notin {"ban", "new", "close"}
    BY <1>1, <1>6, BanFacts
  <2>2. Op(i) = "logout" /\ pc'[i] = "done" => pc[i] = "close"
    BY <1>1, DoneFacts DEF CloseSession, At
  <2>3. ClosedIsBanned'
    <3>1. SUFFICES ASSUME NEW j \in Requests, Op(j) = "logout", pc'[j] \in {"close", "done"}
                   PROVE  banned[SessionOf(j)] # None
      BY <1>2, <2>1 DEF ClosedIsBanned, Op
    <3>2. pc[j] \in {"close", "done"}
      BY <1>2, <2>1, <2>2, <3>1
    <3>3. QED
      BY <3>1, <3>2 DEF LogoutInv, ClosedIsBanned
  <2>4. BannedByLogout'
    <3>1. SUFFICES ASSUME NEW s \in Requests, banned[s] # None
                   PROVE  \E j \in Requests : /\ Op(j) = "logout" /\ pc'[j] \notin {"ban", "new"}
                                             /\ SessionOf(j) = s /\ arg[j].token = banned[s]
      BY <1>2, <2>1 DEF BannedByLogout, Op
    <3>2. QED
      BY <1>2, <2>1, <3>1 DEF LogoutInv, BannedByLogout
  <2>5. QED
    BY <1>4, <2>3, <2>4
<1>7. QED
  BY <1>5, <1>6

LEMMA NextLogoutInv == LogoutInv /\ [Next]_vars => LogoutInv'
<1>1. SUFFICES ASSUME LogoutInv, [Next]_vars
               PROVE  ClosedIsGone' /\ ClosedIsBanned' /\ BannedByLogout'
  BY NextTInv DEF LogoutInv
<1>2. CASE Expire \/ UNCHANGED vars
  BY <1>1, <1>2 DEF LogoutInv, ClosedIsGone, ClosedIsBanned, BannedByLogout,
     Expire, vars, tables, tokens, Op, SessionOf
<1>3. QED
  BY <1>1, <1>2, NextCases, ArriveLogoutInv, AdvanceLogoutInv

\* Tokens expire in the order in which they were signed: what is accepted of a
\* banned session was signed after the token that banned it.
LEMMA LogoutInvSuffices == LogoutInv => LoggedOutStaysOut
<1>1. SUFFICES ASSUME LogoutInv, NEW i \in Requests, pc[i] = "done", Op(i) = "logout"
               PROVE  /\ sessions[SessionOf(i)] = None
                      /\ \A t \in Signed : of[t] = SessionOf(i) /\ Accepts(t) =>
                            \E j \in Requests : /\ Op(j) = "logout" /\ pc[j] # "ban"
                                               /\ SessionOf(j) = of[t]
                                               /\ SignedAfter(t, arg[j].token)
  BY DEF LoggedOutStaysOut, Done
<1>2. TInv /\ sessions[SessionOf(i)] = None /\ banned[SessionOf(i)] # None /\ SessionOf(i) \in Requests
  BY <1>1, SessionOfFacts DEF LogoutInv, ClosedIsGone, ClosedIsBanned
<1>3. SUFFICES ASSUME NEW t \in Signed, of[t] = SessionOf(i), Accepts(t)
               PROVE  \E j \in Requests : /\ Op(j) = "logout" /\ pc[j] # "ban"
                                         /\ SessionOf(j) = of[t]
                                         /\ SignedAfter(t, arg[j].token)
  BY <1>2
<1>4. PICK j \in Requests : /\ Op(j) = "logout" /\ pc[j] # "ban"
                           /\ SessionOf(j) = of[t] /\ arg[j].token = banned[of[t]]
  BY <1>1, <1>2, <1>3 DEF LogoutInv, BannedByLogout
<1>5. arg[j].token \in Signed
  BY <1>2, <1>3, <1>4 DEF TInv, Shape
<1>6. PICK m \in DOMAIN signed : signed[m] = arg[j].token
  BY <1>5 DEF Signed
<1>7. InTime(t) /\ ~ InTime(arg[j].token)
  BY <1>2, <1>3, <1>4 DEF Accepts, Blacklisted
<1>8. /\ DOMAIN signed = 1 .. Len(signed) /\ Len(signed) \in Nat
      /\ expired \in 0 .. Len(signed)
  BY <1>2 DEF TInv, TypeOK
<1>9. PICK k \in expired + 1 .. Len(signed) : signed[k] = t
  BY <1>7 DEF InTime
<1>10. m \notin expired + 1 .. Len(signed)
  BY <1>6, <1>7 DEF InTime
<1>11. k \in DOMAIN signed /\ m < k
  BY <1>6, <1>8, <1>9, <1>10
<1>12. SignedAfter(t, arg[j].token)
  BY <1>6, <1>9, <1>11 DEF SignedAfter
<1>13. QED
  BY <1>4, <1>12

\* A session that was logged out has no row again, and AuthGuard accepts no
\* access token of it but those signed after one that logged out, for any
\* number of requests and whatever they interleave.
THEOREM LoggedOut == Spec => []LoggedOutStaysOut
BY LogoutInvSuffices, InitLogoutInv, NextLogoutInv, PTL DEF Spec

\* logout, changePassword and UserService.remove end sessions for good: the
\* three together.
THEOREM Ended == Spec => []EndedSessionsStayEnded
<1>1. LoggedOutStaysOut /\ ChangeEndsOtherSessions /\ RemovedSignsNothing
        => EndedSessionsStayEnded
  BY DEF EndedSessionsStayEnded
<1>2. QED
  BY <1>1, LoggedOut, ChangeEnds, RemovedSigns, PTL

-----------------------------------------------------------------------------
(***************************************************************************)
(* JiraIntegration: types, with what a request has and has read at each of *)
(* its awaits.                                                             *)
(***************************************************************************)
Over == {"done", "failed"}

\* The operations that pass each await.
JiraStages ==
    {<<"upsert", "save">>, <<"delete", "erase">>, <<"replace", "read">>,
     <<"replace", "write">>, <<"replace", "take">>, <<"sync", "map">>, <<"sync", "call">>,
     <<"sync", "again">>}

JiraShape == \A i \in Requests :
    /\ jiraPc[i] \in Jira!Awaits => <<Jira!Op(i), jiraPc[i]>> \in JiraStages
    /\ jiraPc[i] = "new" <=> Jira!Op(i) = "none"
    /\ jiraPc[i] = "save" => Jira!Gives(i) \/ held[i] # None
    /\ jiraPc[i] \in {"erase", "read", "write", "take"} => integration # None
    /\ jiraPc[i] \in {"map", "call", "again"} => held[i] # None
    /\ jiraPc[i] \in {"call", "again"} => via[i] # None
    /\ jiraPc[i] \notin Over => attempts[i] = 0
    /\ attempts[i] <= 1
    /\ \A s \in found[i] : mappings[s] # None

JiraBefore == \A j \in Requests : \A i \in jiraBefore[j] : jiraPc[i] \in Over

JInv == Jira!TypeOK /\ JiraShape /\ JiraBefore

LEMMA NoneIsNoRow ==
    /\ None \notin Requests
    /\ None \notin Jira!Integration /\ None \notin Jira!Mapping
    /\ None \notin Comments!Comment /\ None \notin Comments!Attachment
BY ConstantsAssumption, RowsAssumption

LEMMA InitJInv == Jira!Init => JInv
BY NoneIsNoRow DEF Jira!Init, JInv, Jira!TypeOK, JiraShape, JiraBefore, Jira!Op, Jira!Awaits,
   Jira!Ops, Jira!Given, Over

\* The arrival of a request, whatever it asks for.
JiraArrives(i) ==
    Jira!StartUpsert(i) \/ Jira!StartDelete(i) \/ Jira!StartReplace(i) \/ Jira!StartSync(i)

\* The steps that it takes after its arrival.
JiraAdvances(i) ==
    \/ Jira!SaveIntegration(i) \/ Jira!EraseIntegration(i) \/ Jira!ReadMappings(i)
    \/ Jira!WriteMappings(i) \/ Jira!TakeOut(i) \/ Jira!FindMapping(i)
    \/ Jira!CallJira(i) \/ Jira!CallAgain(i) \/ Jira!Fault(i)

LEMMA JiraNextCases ==
    ASSUME Jira!Next
    PROVE  \E i \in Requests : JiraArrives(i) \/ JiraAdvances(i)
BY DEF Jira!Next, JiraArrives, JiraAdvances

\* The arrival of request i, which is then at its await where.
JiraStarts(i, where) ==
    /\ jiraPc[i] = "new" /\ jiraPc' = [jiraPc EXCEPT ![i] = where]
    /\ held' = [held EXCEPT ![i] = Jira!Found]
    /\ jiraBefore' = [jiraBefore EXCEPT ![i] = {j \in Requests : jiraPc[j] \in Over}]
    /\ jiraArg' \in [Requests -> [op : Jira!Ops \cup {"none"}, token : Jira!Given,
                                  on : SUBSET Statuses]]
    /\ \A j \in Requests \ {i} : jiraArg'[j] = jiraArg[j]
    /\ UNCHANGED <<integration, mappings, moved, attempts, found, via>>

LEMMA JiraArriveFacts ==
    ASSUME JInv, NEW i \in Requests, JiraArrives(i)
    PROVE  \E where \in {"save", "erase", "read", "map", "done"} :
             /\ JiraStarts(i, where)
             /\ where # "done" => <<Jira!Op(i)', where>> \in JiraStages
             /\ where \in {"erase", "read", "map"} => Jira!Found # None
             /\ where = "done" => Jira!Op(i)' \in {"delete", "sync"} /\ Jira!Found = None
             /\ where = "save" => Jira!Gives(i)' \/ Jira!Found # None
<1>1. CASE Jira!StartUpsert(i)
  <2>1. PICK given \in Jira!Given :
          (Jira!Found # None \/ given # "none") /\ Jira!Start(i, "save", "upsert", given, {})
    BY <1>1 DEF Jira!StartUpsert
  <2>2. /\ JiraStarts(i, "save")
        /\ jiraArg'[i] = [op |-> "upsert", token |-> given, on |-> {}]
    BY <2>1 DEF Jira!Start, Jira!tables, Jira!jira, JiraStarts, Over, JInv, Jira!TypeOK,
      Jira!Ops, Jira!Given
  <2>3. Jira!Op(i)' = "upsert" /\ (given # "none" => Jira!Gives(i)')
    BY <2>2 DEF Jira!Op, Jira!Gives
  <2>4. QED
    BY <2>1, <2>2, <2>3 DEF JiraStages
<1>2. CASE Jira!StartDelete(i)
  <2>1. PICK where \in {"done", "erase"} :
          /\ where = "done" <=> Jira!Found = None
          /\ Jira!Start(i, where, "delete", "none", {})
    BY <1>2 DEF Jira!StartDelete
  <2>2. /\ JiraStarts(i, where)
        /\ jiraArg'[i] = [op |-> "delete", token |-> "none", on |-> {}]
    BY <2>1 DEF Jira!Start, Jira!tables, Jira!jira, JiraStarts, Over, JInv, Jira!TypeOK,
      Jira!Ops, Jira!Given
  <2>3. Jira!Op(i)' = "delete"
    BY <2>2 DEF Jira!Op
  <2>4. QED
    BY <2>1, <2>2, <2>3 DEF JiraStages
<1>3. CASE Jira!StartReplace(i)
  <2>1. PICK on \in SUBSET Statuses :
          Jira!Found # None /\ Jira!Start(i, "read", "replace", "none", on)
    BY <1>3 DEF Jira!StartReplace
  <2>2. /\ JiraStarts(i, "read")
        /\ jiraArg'[i] = [op |-> "replace", token |-> "none", on |-> on]
    BY <2>1 DEF Jira!Start, Jira!tables, Jira!jira, JiraStarts, Over, JInv, Jira!TypeOK,
      Jira!Ops, Jira!Given
  <2>3. Jira!Op(i)' = "replace"
    BY <2>2 DEF Jira!Op
  <2>4. QED
    BY <2>1, <2>2, <2>3 DEF JiraStages
<1>4. CASE Jira!StartSync(i)
  <2>1. PICK where \in {"done", "map"}, s \in Statuses :
          /\ where = "done" <=> Jira!Found = None
          /\ Jira!Start(i, where, "sync", "none", {s})
    BY <1>4 DEF Jira!StartSync
  <2>2. /\ JiraStarts(i, where)
        /\ jiraArg'[i] = [op |-> "sync", token |-> "none", on |-> {s}]
    BY <2>1 DEF Jira!Start, Jira!tables, Jira!jira, JiraStarts, Over, JInv, Jira!TypeOK,
      Jira!Ops, Jira!Given
  <2>3. Jira!Op(i)' = "sync"
    BY <2>2 DEF Jira!Op
  <2>4. QED
    BY <2>1, <2>2, <2>3 DEF JiraStages
<1>5. QED
  BY <1>1, <1>2, <1>3, <1>4 DEF JiraArrives

LEMMA JiraArriveInv ==
    ASSUME JInv, NEW i \in Requests, JiraArrives(i)
    PROVE  JInv'
<1>1. PICK where \in {"save", "erase", "read", "map", "done"} :
        /\ JiraStarts(i, where)
        /\ where # "done" => <<Jira!Op(i)', where>> \in JiraStages
        /\ where \in {"erase", "read", "map"} => Jira!Found # None
        /\ where = "done" => Jira!Op(i)' \in {"delete", "sync"} /\ Jira!Found = None
        /\ where = "save" => Jira!Gives(i)' \/ Jira!Found # None
  BY JiraArriveFacts
<1>2. Jira!Found \in Jira!Integration \cup {None} /\ (Jira!Found # None => integration # None)
  BY DEF JInv, Jira!TypeOK, Jira!Found, Jira!Live
<1>3. Jira!TypeOK'
  BY <1>1, <1>2 DEF JiraStarts, JInv, Jira!TypeOK, Jira!Awaits
<1>4. \A j \in Requests \ {i} :
        /\ jiraPc'[j] = jiraPc[j] /\ jiraArg'[j] = jiraArg[j] /\ Jira!Op(j)' = Jira!Op(j)
        /\ held'[j] = held[j] /\ jiraBefore'[j] = jiraBefore[j]
  BY <1>1 DEF JiraStarts, JInv, Jira!TypeOK, Jira!Op
<1>5. Jira!Op(i)' # "none"
  BY <1>1 DEF JiraStages
<1>6. /\ jiraPc'[i] = where /\ held'[i] = Jira!Found /\ attempts[i] = 0
      /\ jiraBefore'[i] = {j \in Requests : jiraPc[j] \in Over}
      /\ UNCHANGED <<integration, mappings, moved, attempts, found, via>>
  BY <1>1 DEF JiraStarts, JInv, Jira!TypeOK, JiraShape, Over
<1>7. JiraShape'
  <2>1. ASSUME NEW j \in Requests, j # i
        PROVE  /\ <<Jira!Op(j), jiraPc[j], Jira!Gives(j), held[j]>>' =
                     <<Jira!Op(j), jiraPc[j], Jira!Gives(j), held[j]>>
               /\ UNCHANGED <<integration, mappings, attempts, found, via>>
    BY <1>4, <1>6, <2>1 DEF Jira!Gives
  <2>2. \A s \in found[i] : mappings[s] # None
    BY DEF JInv, JiraShape
  <2>3. QED
    BY <1>1, <1>2, <1>5, <1>6, <2>1, <2>2 DEF JInv, JiraShape, Jira!Awaits
<1>8. JiraBefore'
  BY <1>1, <1>4, <1>6 DEF JInv, JiraBefore, Over, JiraStarts
<1>9. QED
  BY <1>3, <1>7, <1>8 DEF JInv

\* Where a step takes a request from.
JiraMoves ==
    {<<"save", "done">>, <<"erase", "done">>, <<"read", "write">>, <<"write", "take">>,
     <<"take", "done">>, <<"map", "call">>, <<"map", "done">>, <<"call", "done">>,
     <<"call", "again">>, <<"again", "done">>}

JiraGoes(i, next) ==
    /\ jiraPc' = [jiraPc EXCEPT ![i] = next]
    /\ UNCHANGED <<jiraArg, jiraBefore, held>>

LEMMA JiraAdvanceFacts ==
    ASSUME JInv, NEW i \in Requests, JiraAdvances(i)
    PROVE  /\ jiraPc[i] \in Jira!Awaits
           /\ \E next \in Jira!Awaits \cup Over :
                /\ JiraGoes(i, next)
                /\ next # "failed" => <<jiraPc[i], next>> \in JiraMoves
<1> USE DEF Jira!At, JiraGoes, Over, Jira!Awaits, JiraMoves, Jira!tables, Jira!jira, Jira!read
<1>1. CASE Jira!SaveIntegration(i)
  BY <1>1 DEF Jira!SaveIntegration
<1>2. CASE Jira!EraseIntegration(i) \/ Jira!ReadMappings(i) \/ Jira!TakeOut(i)
  BY <1>2 DEF Jira!EraseIntegration, Jira!ReadMappings, Jira!TakeOut
<1>3. CASE Jira!WriteMappings(i)
  BY <1>3 DEF Jira!WriteMappings
<1>4. CASE Jira!FindMapping(i)
  BY <1>4 DEF Jira!FindMapping
<1>5. CASE Jira!CallJira(i) \/ Jira!CallAgain(i)
  BY <1>5 DEF Jira!CallJira, Jira!CallAgain
<1>6. CASE Jira!Fault(i)
  BY <1>6 DEF Jira!Fault
<1>7. QED
  BY <1>1, <1>2, <1>3, <1>4, <1>5, <1>6 DEF JiraAdvances

\* A token that was given is encrypted once, and not at all when it has a colon.
StoredWell(token) ==
    /\ jiraArg[token.of].token \in {"plain", "colon"}
    /\ token.encrypted = IF jiraArg[token.of].token = "plain" THEN 1 ELSE 0

\* The integration that request i saves.
LEMMA JiraConfigured ==
    ASSUME JInv, NEW i \in Requests, jiraPc[i] = "save"
    PROVE  /\ Jira!Configured(i) \in Jira!Integration /\ ~ Jira!Configured(i).deleted
           /\ Jira!Configured(i).token.of = IF Jira!Gives(i) THEN i ELSE held[i].token.of
           /\ Jira!Gives(i) \/ StoredWell(held[i].token) => StoredWell(Jira!Configured(i).token)
<1> DEFINE token == IF Jira!Gives(i) THEN [of |-> i, encrypted |-> 0] ELSE held[i].token
<1>1. Jira!Gives(i) \/ held[i] # None
  BY DEF JInv, JiraShape
<1>2. held[i] # None => held[i] \in Jira!Integration /\ held[i].token \in Jira!Token
  BY DEF JInv, Jira!TypeOK, Jira!Integration
<1>3. token \in Jira!Token
  BY <1>1, <1>2 DEF Jira!Token
<1>4. /\ Jira!Encrypted(token) \in Jira!Token /\ Jira!Encrypted(token).of = token.of
      /\ token.encrypted = 0 \/ StoredWell(token) =>
            Jira!Encrypted(token).encrypted = IF jiraArg[token.of].token = "colon" THEN 0 ELSE 1
  <2> HIDE DEF token
  <2>1. QED
    BY <1>3 DEF Jira!Encrypted, Jira!HasColon, Jira!Token, StoredWell
<1>5. Jira!Configured(i) = [token |-> Jira!Encrypted(token), deleted |-> FALSE]
  BY DEF Jira!Configured
<1>6. /\ token.of = IF Jira!Gives(i) THEN i ELSE held[i].token.of
      /\ Jira!Gives(i) => token.encrypted = 0
      /\ ~ Jira!Gives(i) => token = held[i].token
  OBVIOUS
<1>7. Jira!Gives(i) => jiraArg[i].token \in {"plain", "colon"}
  BY DEF Jira!Gives, Jira!Given, JInv, Jira!TypeOK
<1> HIDE DEF token
<1>8. Jira!Gives(i) \/ StoredWell(held[i].token) => StoredWell(Jira!Encrypted(token))
  BY <1>4, <1>6, <1>7 DEF StoredWell
<1>9. QED
  BY <1>4, <1>5, <1>6, <1>8 DEF Jira!Integration

\* What each step does to the tables, to what was read and to Jira.
LEMMA JiraAdvanceTypeOK ==
    ASSUME JInv, NEW i \in Requests, JiraAdvances(i)
    PROVE  Jira!TypeOK'
<1>1. PICK next \in Jira!Awaits \cup Over : JiraGoes(i, next)
  BY JiraAdvanceFacts
<1>2. /\ jiraPc' \in [Requests -> Jira!Awaits \cup {"new", "done", "failed"}]
      /\ jiraArg' = jiraArg /\ jiraBefore' = jiraBefore /\ held' = held
  BY <1>1 DEF JiraGoes, JInv, Jira!TypeOK, Over
<1> SUFFICES /\ integration' \in Jira!Integration \cup {None}
             /\ mappings' \in [Statuses -> Jira!Mapping \cup {None}]
             /\ moved' \subseteq [by : Requests, to : Requests, token : Requests]
             /\ attempts' \in [Requests -> Nat]
             /\ found' \in [Requests -> SUBSET Statuses]
             /\ via' \in [Requests -> Requests \cup {None}]
             /\ \A s \in Statuses : mappings'[s] # None => integration' # None
  BY <1>2 DEF JInv, Jira!TypeOK
<1> USE DEF Jira!tables, Jira!jira, Jira!read
<1>3. CASE Jira!SaveIntegration(i)
  <2>1. jiraPc[i] = "save"
    BY <1>3 DEF Jira!SaveIntegration, Jira!At
  <2>2. integration' = integration \/ integration' = Jira!Configured(i)
    BY <1>3 DEF Jira!SaveIntegration
  <2>3. QED
    BY <1>3, <2>1, <2>2, JiraConfigured, NoneIsNoRow DEF Jira!SaveIntegration, JInv, Jira!TypeOK
<1>4. CASE Jira!EraseIntegration(i)
  <2>1. integration \in Jira!Integration
    BY <1>4 DEF Jira!EraseIntegration, Jira!At, JInv, JiraShape, Jira!TypeOK
  <2>2. integration' \in Jira!Integration
    BY <1>4, <2>1 DEF Jira!EraseIntegration, Jira!Integration
  <2>3. QED
    BY <1>4, <2>2, NoneIsNoRow DEF Jira!EraseIntegration, JInv, Jira!TypeOK
<1>5. CASE Jira!ReadMappings(i)
  BY <1>5 DEF Jira!ReadMappings, Jira!LiveMappings, JInv, Jira!TypeOK
<1>6. CASE Jira!WriteMappings(i)
  <2>1. [by |-> i, deleted |-> FALSE] \in Jira!Mapping
    BY DEF Jira!Mapping
  <2>2. \/ UNCHANGED mappings
        \/ mappings' = [s \in Statuses |-> IF s \in jiraArg[i].on
                                           THEN [by |-> i, deleted |-> FALSE] ELSE mappings[s]]
    BY <1>6 DEF Jira!WriteMappings
  <2>3. mappings' \in [Statuses -> Jira!Mapping \cup {None}]
    BY <2>1, <2>2 DEF JInv, Jira!TypeOK
  <2>4. UNCHANGED <<integration, moved, attempts, found, via>>
    BY <1>6 DEF Jira!WriteMappings
  <2>5. integration # None
    BY <1>6 DEF Jira!WriteMappings, Jira!At, JInv, JiraShape
  <2>6. QED
    BY <2>3, <2>4, <2>5 DEF JInv, Jira!TypeOK
<1>7. CASE Jira!TakeOut(i)
  <2>1. \A s \in found[i] : [mappings[s] EXCEPT !.deleted = TRUE] \in Jira!Mapping
    <3>1. \A s \in found[i] : mappings[s] \in Jira!Mapping
      BY DEF JInv, JiraShape, Jira!TypeOK
    <3>2. QED
      BY <3>1 DEF Jira!Mapping
  <2>2. integration # None
    BY <1>7 DEF Jira!TakeOut, Jira!At, JInv, JiraShape
  <2>3. QED
    BY <1>7, <2>1, <2>2 DEF Jira!TakeOut, JInv, Jira!TypeOK
<1>8. CASE Jira!FindMapping(i)
  <2>1. PICK s \in jiraArg[i].on :
          /\ via' = [via EXCEPT ![i] = IF Jira!Live(mappings[s]) THEN mappings[s].by ELSE None]
          /\ UNCHANGED <<integration, mappings, moved, attempts, found>>
    BY <1>8 DEF Jira!FindMapping
  <2>2. Jira!Live(mappings[s]) => mappings[s].by \in Requests
    BY DEF JInv, Jira!TypeOK, Jira!Live, Jira!Mapping
  <2>3. QED
    BY <2>1, <2>2 DEF JInv, Jira!TypeOK
<1>9. CASE Jira!CallJira(i) \/ Jira!CallAgain(i)
  <2>1. /\ (moved' = moved \cup {[by |-> i, to |-> via[i], token |-> held[i].token.of]}
              /\ attempts' = [attempts EXCEPT ![i] = @ + 1]) \/ UNCHANGED <<moved, attempts>>
        /\ UNCHANGED <<integration, mappings, found, via>>
        /\ jiraPc[i] \in {"call", "again"}
    BY <1>9 DEF Jira!CallJira, Jira!CallAgain, Jira!Carries, Jira!At
  <2>2. via[i] \in Requests /\ held[i].token.of \in Requests
    BY <2>1 DEF JInv, JiraShape, Jira!TypeOK, Jira!Integration, Jira!Token
  <2>3. QED
    BY <2>1, <2>2 DEF JInv, Jira!TypeOK
<1>10. CASE Jira!Fault(i)
  BY <1>10 DEF Jira!Fault, JInv, Jira!TypeOK
<1>11. QED
  BY <1>3, <1>4, <1>5, <1>6, <1>7, <1>8, <1>9, <1>10 DEF JiraAdvances

\* The rows that are there stay, deleted or not.
LEMMA JiraRowsStay ==
    ASSUME JInv, NEW i \in Requests, JiraAdvances(i)
    PROVE  /\ integration # None => integration' # None
           /\ \A s \in Statuses : mappings[s] # None => mappings'[s] # None
           /\ \A j \in Requests \ {i} : found'[j] = found[j] /\ via'[j] = via[j]
                                        /\ attempts'[j] = attempts[j]
           /\ \A s \in found'[i] : mappings'[s] # None
           /\ jiraPc'[i] \in {"call", "again"} => via'[i] # None
           /\ attempts'[i] <= 1 /\ (jiraPc'[i] \notin Over => attempts'[i] = 0)
<1>1. PICK next \in Jira!Awaits \cup Over : JiraGoes(i, next)
  BY JiraAdvanceFacts
<1>2. jiraPc'[i] = next
  BY <1>1 DEF JiraGoes, JInv, Jira!TypeOK
<1>3. /\ attempts[i] <= 1 /\ (jiraPc[i] \notin Over => attempts[i] = 0)
      /\ jiraPc[i] \in {"call", "again"} => via[i] # None
      /\ \A s \in found[i] : mappings[s] # None
  BY DEF JInv, JiraShape
<1> USE DEF Jira!tables, Jira!jira, Jira!read, Jira!At, Jira!Awaits, Over
<1>4. CASE Jira!SaveIntegration(i)
  <2>1. Jira!Configured(i) # None
    BY <1>4, JiraConfigured, NoneIsNoRow DEF Jira!SaveIntegration
  <2>2. QED
    BY <1>2, <1>3, <1>4, <2>1 DEF Jira!SaveIntegration, JInv, Jira!TypeOK
<1>5. CASE Jira!EraseIntegration(i)
  <2>1. integration' \in Jira!Integration
    BY <1>5 DEF Jira!EraseIntegration, JInv, JiraShape, Jira!TypeOK, Jira!Integration
  <2>2. QED
    BY <1>2, <1>3, <1>5, <2>1, NoneIsNoRow DEF Jira!EraseIntegration, JInv, Jira!TypeOK
<1>6. CASE Jira!ReadMappings(i)
  BY <1>2, <1>3, <1>6 DEF Jira!ReadMappings, Jira!LiveMappings, Jira!Live, JInv, Jira!TypeOK
<1>7. CASE Jira!WriteMappings(i)
  <2>1. [by |-> i, deleted |-> FALSE] # None
    <3>1. [by |-> i, deleted |-> FALSE] \in Jira!Mapping
      BY DEF Jira!Mapping
    <3>2. QED
      BY <3>1, NoneIsNoRow
  <2>2. \/ UNCHANGED mappings
        \/ mappings' = [s \in Statuses |-> IF s \in jiraArg[i].on
                                           THEN [by |-> i, deleted |-> FALSE] ELSE mappings[s]]
    BY <1>7 DEF Jira!WriteMappings
  <2>3. \A s \in Statuses : mappings[s] # None => mappings'[s] # None
    BY <2>1, <2>2
  <2>4. QED
    BY <1>2, <1>3, <1>7, <2>3 DEF Jira!WriteMappings, JInv, Jira!TypeOK
<1>8. CASE Jira!TakeOut(i)
  <2>1. \A s \in found[i] : [mappings[s] EXCEPT !.deleted = TRUE] # None
    <3>1. \A s \in found[i] : mappings[s] \in Jira!Mapping
      BY DEF JInv, JiraShape, Jira!TypeOK
    <3>2. \A s \in found[i] : [mappings[s] EXCEPT !.deleted = TRUE] \in Jira!Mapping
      BY <3>1 DEF Jira!Mapping
    <3>3. QED
      BY <3>2, NoneIsNoRow
  <2>2. \A s \in Statuses : mappings[s] # None => mappings'[s] # None
    BY <1>8, <2>1 DEF Jira!TakeOut
  <2>3. QED
    BY <1>2, <1>3, <1>8, <2>2 DEF Jira!TakeOut, JInv, Jira!TypeOK
<1>9. CASE Jira!FindMapping(i)
  <2>1. PICK s \in jiraArg[i].on :
          /\ Jira!At(i, "map", IF Jira!Live(mappings[s]) THEN "call" ELSE "done")
          /\ via' = [via EXCEPT ![i] = IF Jira!Live(mappings[s]) THEN mappings[s].by ELSE None]
          /\ UNCHANGED <<integration, mappings, moved, attempts, found>>
    BY <1>9 DEF Jira!FindMapping
  <2>2. Jira!Live(mappings[s]) => mappings[s].by # None
    BY NoneIsNoRow DEF JInv, Jira!TypeOK, Jira!Live, Jira!Mapping
  <2>3. QED
    BY <1>2, <1>3, <2>1, <2>2 DEF JInv, Jira!TypeOK
<1>10. CASE Jira!CallJira(i) \/ Jira!CallAgain(i)
  BY <1>2, <1>3, <1>10 DEF Jira!CallJira, Jira!CallAgain, Jira!Carries, JInv, Jira!TypeOK
<1>11. CASE Jira!Fault(i)
  BY <1>2, <1>3, <1>11 DEF Jira!Fault, JInv, Jira!TypeOK
<1>12. QED
  BY <1>4, <1>5, <1>6, <1>7, <1>8, <1>9, <1>10, <1>11 DEF JiraAdvances

LEMMA JiraAdvanceInv ==
    ASSUME JInv, NEW i \in Requests, JiraAdvances(i)
    PROVE  JInv'
<1>1. PICK next \in Jira!Awaits \cup Over :
        JiraGoes(i, next) /\ (next # "failed" => <<jiraPc[i], next>> \in JiraMoves)
  BY JiraAdvanceFacts
<1>2. jiraPc[i] \in Jira!Awaits
  BY JiraAdvanceFacts
<1>3. /\ jiraPc'[i] = next
      /\ \A j \in Requests \ {i} : jiraPc'[j] = jiraPc[j]
      /\ \A j \in Requests : Jira!Op(j)' = Jira!Op(j) /\ Jira!Gives(j)' = Jira!Gives(j)
      /\ UNCHANGED <<jiraArg, jiraBefore, held>>
  BY <1>1 DEF JiraGoes, JInv, Jira!TypeOK, Jira!Op, Jira!Gives
<1>4. JiraShape'
  <2>1. /\ Jira!Op(i) # "none" /\ <<Jira!Op(i), jiraPc[i]>> \in JiraStages
        /\ jiraPc[i] \in {"erase", "read", "write", "take"} => integration # None
        /\ jiraPc[i] \in {"map", "call", "again"} => held[i] # None
    BY <1>2 DEF JInv, JiraShape, Jira!Awaits
  <2>2. /\ next \in Jira!Awaits => <<Jira!Op(i), next>> \in JiraStages
        /\ next \notin {"new", "save"}
        /\ next \in {"erase", "read", "write", "take"} => integration # None
        /\ next \in {"map", "call", "again"} => held[i] # None
    BY <1>1, <2>1 DEF JiraMoves, JiraStages, Jira!Awaits, Over
  <2>3. \A j \in Requests \ {i} : \A s \in found[j] : mappings'[s] # None
    BY JiraRowsStay DEF JInv, JiraShape, Jira!TypeOK
  <2>4. QED
    BY <1>3, <2>1, <2>2, <2>3, JiraRowsStay DEF JInv, JiraShape
<1>5. JiraBefore'
  <2>1. jiraPc[i] \notin Over
    BY <1>2 DEF Jira!Awaits, Over
  <2>2. \A j \in Requests : jiraPc[j] \in Over => jiraPc'[j] \in Over
    BY <1>3, <2>1
  <2>3. jiraBefore' = jiraBefore /\ \A j \in Requests : jiraBefore[j] \subseteq Requests
    BY <1>3 DEF JInv, Jira!TypeOK
  <2>4. QED
    BY <2>2, <2>3 DEF JInv, JiraBefore
<1>6. QED
  BY <1>4, <1>5, JiraAdvanceTypeOK DEF JInv

LEMMA JiraStutter ==
    ASSUME JInv, UNCHANGED Jira!vars
    PROVE  JInv'
BY DEF JInv, Jira!TypeOK, JiraShape, JiraBefore, Jira!Op, Jira!Gives, Jira!vars, Jira!tables,
   Jira!jira, Jira!read

LEMMA JiraNextInv == JInv /\ [Jira!Next]_(Jira!vars) => JInv'
BY JiraNextCases, JiraArriveInv, JiraAdvanceInv, JiraStutter

-----------------------------------------------------------------------------
(***************************************************************************)
(* TokenDecrypts: a token that a request has read is as the one of the row *)
(* was, and no older than the upserts that had ended when it arrived.      *)
(***************************************************************************)
\* Whether no other upsert overlaps that of request i, which gave a token.
AloneWithToken(i) ==
    /\ Jira!Op(i) = "upsert" /\ Jira!Gives(i)
    /\ \A k \in Requests : Jira!Op(k) = "upsert" /\ k # i =>
          k \in jiraBefore[i] \/ i \in jiraBefore[k]

\* The token is that of request i or of one that came later.
NoOlder(token, i) == token.of = i \/ i \in jiraBefore[token.of]

TokensAreOf ==
    /\ integration # None =>
          StoredWell(integration.token) /\ jiraPc[integration.token.of] # "new"
    /\ \A k \in Requests : held[k] # None =>
          StoredWell(held[k].token) /\ jiraPc[held[k].token.of] # "new"
    /\ \A move \in moved :
          jiraArg[move.token].token = "plain" /\ jiraPc[move.token] # "new"
    /\ \A k \in Requests : jiraPc[k] = "again" => Jira!Decrypts(k)

RowNoOlder == integration # None =>
    \A i \in Jira!Done : AloneWithToken(i) => NoOlder(integration.token, i)

HeldNoOlder == \A k \in Requests : held[k] # None /\ Jira!Op(k) = "upsert" =>
    \A i \in Jira!Done : AloneWithToken(i) /\ i \in jiraBefore[k] => NoOlder(held[k].token, i)

TokenInv == TokensAreOf /\ RowNoOlder /\ HeldNoOlder

LEMMA InitTokenInv == Jira!Init => TokenInv
BY DEF Jira!Init, TokenInv, TokensAreOf, RowNoOlder, HeldNoOlder

LEMMA TokenTypes ==
    ASSUME JInv
    PROVE  /\ integration # None => integration.token.of \in Requests
           /\ \A k \in Requests : held[k] # None => held[k].token.of \in Requests
           /\ \A move \in moved : move.token \in Requests
BY DEF JInv, Jira!TypeOK, Jira!Integration, Jira!Token

\* A request that is done and was alone was so before the step.
LEMMA AloneBefore ==
    ASSUME JInv, NEW i \in Requests, JiraArrives(i) \/ JiraAdvances(i),
           NEW j \in Jira!Done, AloneWithToken(j)'
    PROVE  AloneWithToken(j)
<1>1. j \in Requests /\ jiraPc[j] = "done"
  BY DEF Jira!Done
<1>2. CASE JiraAdvances(i)
  BY <1>2, JiraAdvanceFacts DEF JiraGoes, AloneWithToken, Jira!Op, Jira!Gives
<1>3. CASE JiraArrives(i)
  <2> PICK where \in {"save", "erase", "read", "map", "done"} : JiraStarts(i, where)
    BY <1>3, JiraArriveFacts
  <2>1. /\ \A k \in Requests \ {i} : jiraArg'[k] = jiraArg[k] /\ jiraBefore'[k] = jiraBefore[k]
        /\ jiraPc[i] = "new"
    BY DEF JiraStarts, JInv, Jira!TypeOK
  <2>2. j # i /\ Jira!Op(i) = "none"
    BY <1>1, <2>1 DEF JInv, JiraShape
  <2>3. QED
    BY <1>1, <2>1, <2>2 DEF AloneWithToken, Jira!Op, Jira!Gives
<1>4. QED
  BY <1>2, <1>3

LEMMA ArriveTokenInv ==
    ASSUME JInv, TokenInv, NEW i \in Requests, JiraArrives(i)
    PROVE  TokenInv'
<1>1. PICK where \in {"save", "erase", "read", "map", "done"} :
        /\ JiraStarts(i, where)
        /\ where = "done" => Jira!Op(i)' \in {"delete", "sync"} /\ Jira!Found = None
  BY JiraArriveFacts
<1>2. /\ jiraPc[i] = "new" /\ jiraPc'[i] = where /\ where # "new"
      /\ held'[i] = Jira!Found
      /\ jiraBefore'[i] \subseteq Jira!Done \cup {k \in Requests : jiraPc[k] = "failed"}
      /\ \A j \in Requests \ {i} :
            /\ jiraPc'[j] = jiraPc[j] /\ held'[j] = held[j] /\ jiraBefore'[j] = jiraBefore[j]
            /\ Jira!Op(j)' = Jira!Op(j) /\ jiraArg'[j] = jiraArg[j]
      /\ integration' = integration /\ moved' = moved
  BY <1>1 DEF JiraStarts, JInv, Jira!TypeOK, Jira!Op, Jira!Done, Over
<1>3. /\ integration # None => integration.token.of \in Requests \ {i}
      /\ \A k \in Requests : held[k] # None => held[k].token.of \in Requests \ {i}
      /\ \A move \in moved : move.token \in Requests \ {i}
  BY <1>2, TokenTypes DEF TokenInv, TokensAreOf
<1>4. Jira!Found # None => integration # None /\ Jira!Found = integration
  BY DEF Jira!Found, Jira!Live
<1>5. TokensAreOf'
  <2>1. /\ integration # None => StoredWell(integration.token) /\ jiraPc[integration.token.of] # "new"
        /\ \A k \in Requests : held'[k] # None =>
              StoredWell(held'[k].token) /\ jiraPc[held'[k].token.of] # "new"
        /\ \A move \in moved :
              jiraArg[move.token].token = "plain" /\ jiraPc[move.token] # "new"
    BY <1>2, <1>4 DEF TokenInv, TokensAreOf
  <2>2. \A k \in Requests : held'[k] # None => held'[k].token.of \in Requests \ {i}
    BY <1>2, <1>3, <1>4
  <2>3. \A k \in Requests : jiraPc'[k] = "again" => Jira!Decrypts(k)'
    BY <1>2 DEF TokenInv, TokensAreOf, Jira!Decrypts
  <2>4. QED
    BY <1>2, <1>3, <2>1, <2>2, <2>3 DEF TokensAreOf, StoredWell
<1>6. ASSUME NEW j \in Jira!Done', AloneWithToken(j)'
      PROVE  j \in Jira!Done /\ j # i /\ AloneWithToken(j)
  <2>1. j # i
    BY <1>1, <1>2, <1>6 DEF AloneWithToken, Jira!Done
  <2>2. j \in Jira!Done
    BY <1>2, <2>1 DEF Jira!Done
  <2>3. QED
    BY <1>6, <2>1, <2>2, AloneBefore
<1>7. RowNoOlder'
  BY <1>2, <1>3, <1>6 DEF TokenInv, RowNoOlder, NoOlder
<1>8. HeldNoOlder'
  <2> SUFFICES ASSUME NEW k \in Requests, held'[k] # None, Jira!Op(k)' = "upsert",
                      NEW j \in Jira!Done', AloneWithToken(j)', j \in jiraBefore'[k]
               PROVE  NoOlder(held[k].token, j)'
    BY DEF HeldNoOlder
  <2>1. CASE k = i
    BY <1>2, <1>3, <1>4, <1>6, <2>1 DEF TokenInv, RowNoOlder, NoOlder
  <2>2. CASE k # i
    BY <1>2, <1>3, <1>6, <2>2 DEF TokenInv, HeldNoOlder, NoOlder
  <2>3. QED
    BY <2>1, <2>2
<1>9. QED
  BY <1>5, <1>7, <1>8 DEF TokenInv

\* What a request sends to Jira carries a token that decrypts.
LEMMA SendsDecrypted ==
    ASSUME JInv, TokenInv, NEW i \in Requests, JiraAdvances(i)
    PROVE  /\ \A move \in moved' \ moved : Jira!Decrypts(i) /\ move.token = held[i].token.of
           /\ \A move \in moved' \ moved : held[i] # None
           /\ jiraPc'[i] = "again" => Jira!Decrypts(i)
<1>1. CASE Jira!CallJira(i) \/ Jira!CallAgain(i)
  <2>1. /\ \/ UNCHANGED moved
           \/ /\ moved' = moved \cup {[by |-> i, to |-> via[i], token |-> held[i].token.of]}
              /\ Jira!Decrypts(i)
        /\ jiraPc[i] \in {"call", "again"} /\ (jiraPc'[i] = "again" => Jira!Decrypts(i))
    BY <1>1 DEF Jira!CallJira, Jira!CallAgain, Jira!Carries, Jira!At, Jira!jira, JInv, Jira!TypeOK,
       TokenInv, TokensAreOf
  <2>2. held[i] # None
    BY <2>1 DEF JInv, JiraShape
  <2>3. QED
    BY <2>1, <2>2
<1>2. CASE ~ (Jira!CallJira(i) \/ Jira!CallAgain(i))
  BY <1>2 DEF JiraAdvances, Jira!SaveIntegration, Jira!EraseIntegration, Jira!ReadMappings,
     Jira!WriteMappings, Jira!TakeOut, Jira!FindMapping, Jira!Fault, Jira!jira, Jira!At, JInv,
     Jira!TypeOK
<1>3. QED
  BY <1>1, <1>2

LEMMA AdvanceTokenInv ==
    ASSUME JInv, TokenInv, NEW i \in Requests, JiraAdvances(i)
    PROVE  TokenInv'
<1>1. PICK next \in Jira!Awaits \cup Over :
        JiraGoes(i, next) /\ (next # "failed" => <<jiraPc[i], next>> \in JiraMoves)
  BY JiraAdvanceFacts
<1>2. /\ jiraPc[i] \in Jira!Awaits /\ jiraPc[i] \notin Over /\ next # "new"
      /\ jiraPc'[i] = next
      /\ \A j \in Requests \ {i} : jiraPc'[j] = jiraPc[j]
      /\ \A j \in Requests : Jira!Op(j)' = Jira!Op(j)
      /\ UNCHANGED <<jiraArg, jiraBefore, held>>
  BY <1>1, JiraAdvanceFacts DEF JiraGoes, JInv, Jira!TypeOK, Jira!Op, Jira!Awaits, Over
<1>3. \/ integration' = Jira!Configured(i) /\ jiraPc[i] = "save"
      \/ /\ integration' # None => integration # None /\ integration'.token = integration.token
         /\ ~ (jiraPc[i] = "save" /\ next = "done")
  <2>1. CASE Jira!SaveIntegration(i)
    BY <1>1, <1>2, <2>1 DEF Jira!SaveIntegration, Jira!At, JInv, Jira!TypeOK
  <2>2. CASE Jira!EraseIntegration(i)
    BY <2>2 DEF Jira!EraseIntegration, Jira!At, JInv, JiraShape, Jira!TypeOK, Jira!Integration
  <2>3. CASE \/ Jira!ReadMappings(i) \/ Jira!WriteMappings(i) \/ Jira!TakeOut(i)
             \/ Jira!FindMapping(i) \/ Jira!CallJira(i) \/ Jira!CallAgain(i)
    BY <2>3 DEF Jira!ReadMappings, Jira!WriteMappings, Jira!TakeOut, Jira!FindMapping,
       Jira!CallJira, Jira!CallAgain, Jira!At, Jira!tables
  <2>4. CASE Jira!Fault(i)
    BY <1>2, <2>4 DEF Jira!Fault, Jira!At, Jira!tables, JInv, Jira!TypeOK
  <2>5. QED
    BY <2>1, <2>2, <2>3, <2>4 DEF JiraAdvances
<1>4. \A j \in Requests : jiraPc[j] # "new" => jiraPc'[j] # "new"
  BY <1>2
<1>5. \A j \in Jira!Done' : AloneWithToken(j)' => AloneWithToken(j)
  BY <1>2 DEF AloneWithToken, Jira!Done, Jira!Gives
<1>6. \A j \in Jira!Done' : j \in Requests /\ (j # i => j \in Jira!Done)
  BY <1>2 DEF Jira!Done
<1>7. jiraPc[i] = "save" => (Jira!Gives(i) \/ held[i] # None)
  BY DEF JInv, JiraShape
<1>8. TokensAreOf'
  <2>1. integration' # None =>
          StoredWell(integration'.token) /\ jiraPc[integration'.token.of] # "new"
    <3>1. CASE integration' = Jira!Configured(i) /\ jiraPc[i] = "save"
      <4>1. jiraPc[i] # "new" /\ (~ Jira!Gives(i) =>
              StoredWell(held[i].token) /\ jiraPc[held[i].token.of] # "new")
        BY <1>7, <3>1 DEF TokenInv, TokensAreOf
      <4>2. QED
        BY <3>1, <4>1, JiraConfigured
    <3>2. QED
      BY <1>3, <3>1 DEF TokenInv, TokensAreOf
  <2>2. \A move \in moved' : jiraArg[move.token].token = "plain" /\ jiraPc[move.token] # "new"
    <3>1. ASSUME NEW move \in moved' \ moved
          PROVE  /\ held[i] # None /\ held[i].token.encrypted = 1
                 /\ move.token = held[i].token.of
      BY <3>1, SendsDecrypted DEF Jira!Decrypts
    <3>2. QED
      BY <3>1 DEF TokenInv, TokensAreOf, StoredWell
  <2>3. integration' # None => integration'.token.of \in Requests
    BY <1>3, JiraAdvanceTypeOK DEF Jira!TypeOK, Jira!Integration, Jira!Token
  <2>4. \A move \in moved' : move.token \in Requests
    BY JiraAdvanceTypeOK DEF Jira!TypeOK
  <2>5. \A k \in Requests : jiraPc'[k] = "again" => Jira!Decrypts(k)'
    BY <1>2, SendsDecrypted DEF TokenInv, TokensAreOf, Jira!Decrypts
  <2>6. QED
    BY <1>2, <1>4, <2>1, <2>2, <2>3, <2>4, <2>5, TokenTypes DEF TokenInv, TokensAreOf, StoredWell
<1>9. HeldNoOlder'
  <2>1. ASSUME NEW k \in Requests, i \in jiraBefore[k] PROVE FALSE
    BY <1>2, <2>1 DEF JInv, JiraBefore
  <2>2. QED
    BY <1>2, <1>5, <1>6, <2>1 DEF TokenInv, HeldNoOlder, NoOlder
<1>10. RowNoOlder'
  <2> SUFFICES ASSUME integration' # None, NEW j \in Jira!Done', AloneWithToken(j)'
               PROVE  NoOlder(integration.token, j)'
    BY DEF RowNoOlder
  <2>1. CASE integration' = Jira!Configured(i) /\ jiraPc[i] = "save"
    <3>1. Jira!Op(i) = "upsert"
      BY <2>1 DEF JInv, JiraShape, JiraStages, Jira!Awaits
    <3>2. j # i => j \in jiraBefore[i]
      <4>1. i \notin jiraBefore[j]
        BY <1>2, <1>6 DEF JInv, JiraBefore
      <4>2. QED
        BY <1>5, <1>6, <3>1, <4>1 DEF AloneWithToken
    <3>3. CASE Jira!Gives(i)
      BY <1>2, <2>1, <3>2, <3>3, JiraConfigured DEF NoOlder
    <3>4. CASE ~ Jira!Gives(i)
      <4>1. j # i /\ j \in Jira!Done
        BY <1>5, <1>6, <3>4 DEF AloneWithToken
      <4>2. NoOlder(held[i].token, j)
        <5>1. held[i] # None
          BY <1>7, <2>1, <3>4
        <5>2. AloneWithToken(j)
          BY <1>5
        <5>3. QED
          BY <3>1, <3>2, <4>1, <5>1, <5>2 DEF TokenInv, HeldNoOlder
      <4>3. QED
        BY <1>2, <2>1, <3>4, <4>2, JiraConfigured DEF NoOlder
    <3>5. QED
      BY <3>3, <3>4
  <2>2. CASE ~ (integration' = Jira!Configured(i) /\ jiraPc[i] = "save")
    <3>1. j # i
      <4>1. Jira!Op(i) = "upsert" /\ jiraPc'[i] = "done" => jiraPc[i] = "save"
        BY <1>1, <1>2 DEF JInv, JiraShape, JiraStages, JiraMoves
      <4>2. QED
        BY <1>2, <1>3, <1>5, <2>2, <4>1 DEF AloneWithToken, Jira!Done
    <3>2. QED
      BY <1>2, <1>3, <1>5, <1>6, <2>2, <3>1 DEF TokenInv, RowNoOlder, NoOlder
  <2>3. QED
    BY <2>1, <2>2
<1>11. QED
  BY <1>8, <1>9, <1>10 DEF TokenInv

LEMMA TokenStutter ==
    ASSUME TokenInv, UNCHANGED Jira!vars
    PROVE  TokenInv'
BY DEF TokenInv, TokensAreOf, StoredWell, RowNoOlder, HeldNoOlder, AloneWithToken, NoOlder,
   Jira!Done, Jira!Op, Jira!Gives, Jira!Decrypts, Jira!vars, Jira!tables, Jira!jira, Jira!read

LEMMA NextTokenInv == JInv /\ TokenInv /\ [Jira!Next]_(Jira!vars) => TokenInv'
BY JiraNextCases, ArriveTokenInv, AdvanceTokenInv, TokenStutter

LEMMA TokensDecrypt == JInv /\ TokenInv => Jira!TokenDecrypts
BY DEF TokenInv, TokensAreOf, StoredWell, RowNoOlder, AloneWithToken, NoOlder, Jira!TokenDecrypts

-----------------------------------------------------------------------------
(***************************************************************************)
(* ReplacementIsComplete and MovedByMappings: what a replacement has still *)
(* to take out it has read, unless another one wrote since.                *)
(***************************************************************************)
Replaced(i) == [s \in Statuses |-> IF s \in jiraArg[i].on THEN [by |-> i, deleted |-> FALSE]
                                   ELSE mappings[s]]
TakenOut(i) == [s \in Statuses |-> IF s \in found[i] \ jiraArg[i].on
                                   THEN [mappings[s] EXCEPT !.deleted = TRUE]
                                   ELSE mappings[s]]

\* What a step does to the mappings and to what was read of them.
LEMMA MappingSteps ==
    ASSUME JInv, NEW i \in Requests, JiraAdvances(i)
    PROVE  \/ /\ jiraPc[i] = "write" /\ jiraPc'[i] = "take"
              /\ mappings' = Replaced(i) /\ UNCHANGED found
           \/ /\ jiraPc[i] = "take" /\ jiraPc'[i] = "done"
              /\ mappings' = TakenOut(i) /\ UNCHANGED found
           \/ /\ jiraPc[i] = "read" /\ jiraPc'[i] = "write"
              /\ found' = [found EXCEPT ![i] = Jira!LiveMappings] /\ UNCHANGED mappings
           \/ /\ jiraPc'[i] \notin {"write", "take"}
              /\ jiraPc'[i] = "done" => Jira!Op(i)' # "replace"
              /\ UNCHANGED <<mappings, found>>
<1>1. /\ jiraPc[i] \in Jira!Awaits => <<Jira!Op(i), jiraPc[i]>> \in JiraStages
      /\ Jira!Op(i)' = Jira!Op(i)
  BY JiraAdvanceFacts DEF JInv, JiraShape, JiraGoes, Jira!Op
<1>2. \A where, next : Jira!At(i, where, next) => jiraPc[i] = where /\ jiraPc'[i] = next
  BY DEF Jira!At, JInv, Jira!TypeOK
<1> USE DEF Jira!tables, Jira!jira, Jira!read
<1>3. CASE Jira!SaveIntegration(i) \/ Jira!EraseIntegration(i)
  <2>1. jiraPc[i] \in {"save", "erase"} /\ jiraPc'[i] \in Over /\ UNCHANGED <<mappings, found>>
    BY <1>2, <1>3 DEF Jira!SaveIntegration, Jira!EraseIntegration, Over
  <2>2. QED
    BY <1>1, <2>1 DEF JiraStages, Jira!Awaits, Over
<1>4. CASE Jira!ReadMappings(i)
  BY <1>2, <1>4 DEF Jira!ReadMappings
<1>5. CASE Jira!WriteMappings(i)
  <2> DEFINE fits == \A s \in jiraArg[i].on \ found[i] : mappings[s] = None
  <2>1. CASE fits
    BY <1>2, <1>5, <2>1 DEF Jira!WriteMappings, Replaced
  <2>2. CASE ~ fits
    BY <1>2, <1>5, <2>2 DEF Jira!WriteMappings
  <2>3. QED
    BY <2>1, <2>2
<1>6. CASE Jira!TakeOut(i)
  BY <1>2, <1>6 DEF Jira!TakeOut, TakenOut
<1>7. CASE Jira!FindMapping(i) \/ Jira!CallJira(i) \/ Jira!CallAgain(i)
  <2>1. /\ jiraPc[i] \in {"map", "call", "again"}
        /\ jiraPc'[i] \in {"call", "again", "done", "failed"}
        /\ UNCHANGED <<mappings, found>>
    BY <1>2, <1>7 DEF Jira!FindMapping, Jira!CallJira, Jira!CallAgain, Jira!Carries
  <2>2. QED
    BY <1>1, <2>1 DEF JiraStages, Jira!Awaits
<1>8. CASE Jira!Fault(i)
  BY <1>2, <1>8 DEF Jira!Fault
<1>9. QED
  BY <1>3, <1>4, <1>5, <1>6, <1>7, <1>8 DEF JiraAdvances

\* Request i replaces the mappings after all others that do.
LastReplacement(i) ==
    /\ Jira!Op(i) = "replace"
    /\ \A j \in Requests : Jira!Op(j) = "replace" /\ j # i => j \in jiraBefore[i]

ReplacementStages == \A i \in Requests : LastReplacement(i) =>
    /\ jiraPc[i] = "write" => found[i] = Jira!LiveMappings
    /\ jiraPc[i] \in {"take", "done"} =>
          \A s \in jiraArg[i].on : mappings[s] = [by |-> i, deleted |-> FALSE]
    /\ jiraPc[i] = "take" =>
          \A s \in Statuses \ jiraArg[i].on : Jira!Live(mappings[s]) => s \in found[i]
    /\ jiraPc[i] = "done" => \A s \in Statuses \ jiraArg[i].on : ~ Jira!Live(mappings[s])

LEMMA InitReplacement == Jira!Init => ReplacementStages
BY DEF Jira!Init, ReplacementStages, LastReplacement, Jira!Op

LEMMA ArriveReplacement ==
    ASSUME JInv, ReplacementStages, NEW i \in Requests, JiraArrives(i)
    PROVE  ReplacementStages'
<1>1. PICK where \in {"save", "erase", "read", "map", "done"} :
        /\ JiraStarts(i, where)
        /\ where = "done" => Jira!Op(i)' \in {"delete", "sync"} /\ Jira!Found = None
  BY JiraArriveFacts
<1>2. /\ jiraPc[i] = "new" /\ Jira!Op(i) = "none" /\ jiraPc'[i] = where
      /\ where \notin {"write", "take"} /\ (where = "done" => Jira!Op(i)' # "replace")
      /\ \A j \in Requests \ {i} :
            /\ jiraPc'[j] = jiraPc[j] /\ jiraArg'[j] = jiraArg[j]
            /\ jiraBefore'[j] = jiraBefore[j] /\ Jira!Op(j)' = Jira!Op(j)
      /\ mappings' = mappings /\ found' = found
  BY <1>1 DEF JiraStarts, JInv, Jira!TypeOK, JiraShape, Jira!Op
<1>3. \A j \in Requests \ {i} : LastReplacement(j)' => LastReplacement(j)
  BY <1>2 DEF LastReplacement
<1>4. /\ Jira!LiveMappings' = Jira!LiveMappings
      /\ \A s \in Statuses : Jira!Live(mappings[s])' = Jira!Live(mappings[s])
  BY <1>2 DEF Jira!LiveMappings, Jira!Live
<1>5. QED
  BY <1>2, <1>3, <1>4 DEF ReplacementStages, LastReplacement

LEMMA AdvanceReplacement ==
    ASSUME JInv, ReplacementStages, NEW i \in Requests, JiraAdvances(i)
    PROVE  ReplacementStages'
<1>1. PICK next \in Jira!Awaits \cup Over :
        JiraGoes(i, next) /\ (next # "failed" => <<jiraPc[i], next>> \in JiraMoves)
  BY JiraAdvanceFacts
<1>2. /\ jiraPc[i] \in Jira!Awaits /\ jiraPc[i] \notin Over
      /\ jiraPc'[i] = next
      /\ \A j \in Requests \ {i} : jiraPc'[j] = jiraPc[j]
      /\ \A j \in Requests : Jira!Op(j)' = Jira!Op(j)
      /\ UNCHANGED <<jiraArg, jiraBefore>>
  BY <1>1, JiraAdvanceFacts DEF JiraGoes, JInv, Jira!TypeOK, Jira!Op, Jira!Awaits, Over
<1>3. \A j \in Requests : LastReplacement(j)' = LastReplacement(j)
  BY <1>2 DEF LastReplacement
<1>4. \A j \in Requests : i \notin jiraBefore[j]
  BY <1>2 DEF JInv, JiraBefore
\* While another replaces the mappings, none is the last.
<1>5. ASSUME NEW j \in Requests \ {i}, LastReplacement(j) PROVE UNCHANGED <<mappings, found[j]>>
  <2>1. Jira!Op(i) # "replace"
    BY <1>4, <1>5 DEF LastReplacement
  <2>2. jiraPc[i] \notin {"read", "write", "take"}
    BY <1>2, <2>1 DEF JInv, JiraShape, JiraStages
  <2>3. QED
    BY <2>2, MappingSteps
<1>6. [by |-> i, deleted |-> FALSE] # None
  <2>1. [by |-> i, deleted |-> FALSE] \in Jira!Mapping
    BY DEF Jira!Mapping
  <2>2. QED
    BY <2>1, NoneIsNoRow
<1>7. jiraArg[i].on \subseteq Statuses /\ found[i] \subseteq Statuses
      /\ mappings \in [Statuses -> Jira!Mapping \cup {None}]
      /\ \A s \in found[i] : mappings[s] \in Jira!Mapping
  BY DEF JInv, Jira!TypeOK, JiraShape
<1> SUFFICES ASSUME NEW j \in Requests, LastReplacement(j)'
             PROVE  /\ jiraPc'[j] = "write" => found'[j] = Jira!LiveMappings'
                    /\ jiraPc'[j] \in {"take", "done"} =>
                          \A s \in jiraArg[j].on : mappings'[s] = [by |-> j, deleted |-> FALSE]
                    /\ jiraPc'[j] = "take" => \A s \in Statuses \ jiraArg[j].on :
                          Jira!Live(mappings'[s]) => s \in found'[j]
                    /\ jiraPc'[j] = "done" => \A s \in Statuses \ jiraArg[j].on :
                          ~ Jira!Live(mappings'[s])
  BY <1>2 DEF ReplacementStages
<1>8. LastReplacement(j)
  BY <1>3
<1>9. CASE j # i
  <2>1. Jira!LiveMappings' = Jira!LiveMappings
    BY <1>5, <1>8, <1>9 DEF Jira!LiveMappings
  <2>2. QED
    BY <1>2, <1>5, <1>8, <1>9, <2>1 DEF ReplacementStages
<1>10. CASE j = i
  <2>1. CASE /\ jiraPc[i] = "write" /\ jiraPc'[i] = "take"
             /\ mappings' = Replaced(i) /\ UNCHANGED found
    <3>1. found[i] = Jira!LiveMappings
      BY <1>8, <1>10, <2>1 DEF ReplacementStages
    <3>2. QED
      BY <1>7, <1>10, <2>1, <3>1 DEF Replaced, Jira!LiveMappings
  <2>2. CASE /\ jiraPc[i] = "take" /\ jiraPc'[i] = "done"
             /\ mappings' = TakenOut(i) /\ UNCHANGED found
    <3>1. \A s \in jiraArg[i].on : mappings[s] = [by |-> i, deleted |-> FALSE]
      BY <1>8, <1>10, <2>2 DEF ReplacementStages
    <3>2. \A s \in Statuses \ jiraArg[i].on : Jira!Live(mappings[s]) => s \in found[i]
      BY <1>8, <1>10, <2>2 DEF ReplacementStages
    <3>3. \A s \in jiraArg[i].on : mappings'[s] = [by |-> i, deleted |-> FALSE]
      BY <1>7, <2>2, <3>1 DEF TakenOut
    <3>4. \A s \in Statuses \ jiraArg[i].on : ~ Jira!Live(mappings'[s])
      BY <1>7, <2>2, <3>2 DEF TakenOut, Jira!Live, Jira!Mapping
    <3>5. QED
      BY <1>10, <2>2, <3>3, <3>4
  <2>3. CASE /\ jiraPc[i] = "read" /\ jiraPc'[i] = "write"
             /\ found' = [found EXCEPT ![i] = Jira!LiveMappings] /\ UNCHANGED mappings
    <3>1. found'[i] = Jira!LiveMappings /\ Jira!LiveMappings' = Jira!LiveMappings
      BY <2>3 DEF JInv, Jira!TypeOK, Jira!LiveMappings
    <3>2. QED
      BY <1>10, <2>3, <3>1
  <2>4. CASE /\ jiraPc'[i] \notin {"write", "take"}
             /\ jiraPc'[i] = "done" => Jira!Op(i)' # "replace"
    BY <1>2, <1>8, <1>10, <2>4 DEF LastReplacement
  <2>5. QED
    BY <2>1, <2>2, <2>3, <2>4, MappingSteps
<1>11. QED
  BY <1>9, <1>10

LEMMA ReplacementStutter ==
    ASSUME ReplacementStages, UNCHANGED Jira!vars
    PROVE  ReplacementStages'
BY DEF ReplacementStages, LastReplacement, Jira!LiveMappings, Jira!Live, Jira!Op,
   Jira!vars, Jira!tables, Jira!read

LEMMA NextReplacement == JInv /\ ReplacementStages /\ [Jira!Next]_(Jira!vars) => ReplacementStages'
BY JiraNextCases, ArriveReplacement, AdvanceReplacement, ReplacementStutter

LEMMA ReplacementsComplete == JInv /\ ReplacementStages => Jira!ReplacementIsComplete
<1> SUFFICES ASSUME JInv, ReplacementStages, NEW i \in Jira!Done, LastReplacement(i)
             PROVE  /\ Jira!LiveMappings = jiraArg[i].on
                    /\ \A s \in jiraArg[i].on : mappings[s].by = i
  BY DEF Jira!ReplacementIsComplete, LastReplacement
<1>1. i \in Requests /\ jiraPc[i] = "done" /\ jiraArg[i].on \subseteq Statuses
  BY DEF Jira!Done, JInv, Jira!TypeOK
<1>2. /\ \A s \in jiraArg[i].on : mappings[s] = [by |-> i, deleted |-> FALSE]
      /\ \A s \in Statuses \ jiraArg[i].on : ~ Jira!Live(mappings[s])
  BY <1>1 DEF ReplacementStages
<1>3. [by |-> i, deleted |-> FALSE] # None
  <2>1. [by |-> i, deleted |-> FALSE] \in Jira!Mapping
    BY <1>1 DEF Jira!Mapping
  <2>2. QED
    BY <2>1, NoneIsNoRow
<1>4. \A s \in jiraArg[i].on : Jira!Live(mappings[s])
  BY <1>2, <1>3 DEF Jira!Live
<1>5. QED
  BY <1>1, <1>2, <1>4 DEF Jira!LiveMappings

\* Another request configures the integration or mappings after request j.
Renewed(j) == \E k \in Requests \ {j} :
    Jira!Op(k) \in {"upsert", "replace"} /\ k \notin jiraBefore[j]

\* Request j took these statuses' mappings away, once it is done.
TakesAway(j, on) == Jira!Op(j) = "replace" /\ on \cap jiraArg[j].on = {}

RemovalsLast ==
    /\ \A j \in Jira!Done : Jira!Op(j) = "delete" /\ Jira!Live(integration) => Renewed(j)
    /\ \A i \in Requests : held[i] # None =>
          \A j \in jiraBefore[i] \cap Jira!Done : Jira!Op(j) = "delete" => Renewed(j)

MappingsLast ==
    /\ \A j \in Requests : jiraPc[j] \in {"write", "take"} =>
          \A s \in Statuses \ jiraArg[j].on :
             Jira!Live(mappings[s]) => s \in found[j] \/ Renewed(j)
    /\ \A j \in Jira!Done : \A s \in Statuses :
          TakesAway(j, {s}) /\ Jira!Live(mappings[s]) => Renewed(j)
    /\ \A i \in Requests : via[i] # None =>
          \A j \in jiraBefore[i] \cap Jira!Done : TakesAway(j, jiraArg[i].on) => Renewed(j)

MovesKnown ==
    /\ \A i \in Requests : jiraPc[i] = "new" => via[i] = None
    /\ \A move \in moved :
          jiraPc[move.by] \in Over /\ held[move.by] # None /\ via[move.by] # None

MoveInv == RemovalsLast /\ MappingsLast /\ MovesKnown

LEMMA InitMoveInv == Jira!Init => MoveInv
BY DEF Jira!Init, MoveInv, RemovalsLast, MappingsLast, MovesKnown, Jira!Live, Jira!Done

LEMMA ArriveMoveInv ==
    ASSUME JInv, MoveInv, NEW i \in Requests, JiraArrives(i)
    PROVE  MoveInv'
<1>1. PICK where \in {"save", "erase", "read", "map", "done"} :
        /\ JiraStarts(i, where)
        /\ where = "done" => Jira!Op(i)' \in {"delete", "sync"} /\ Jira!Found = None
  BY JiraArriveFacts
<1>2. /\ jiraPc[i] = "new" /\ Jira!Op(i) = "none" /\ jiraPc'[i] = where
      /\ where \notin {"write", "take"}
      /\ where = "done" => Jira!Op(i)' # "replace" /\ ~ Jira!Live(integration)
      /\ held'[i] = Jira!Found /\ jiraBefore'[i] = {j \in Requests : jiraPc[j] \in Over}
      /\ \A j \in Requests \ {i} :
            /\ jiraPc'[j] = jiraPc[j] /\ jiraArg'[j] = jiraArg[j] /\ held'[j] = held[j]
            /\ jiraBefore'[j] = jiraBefore[j] /\ Jira!Op(j)' = Jira!Op(j)
      /\ integration' = integration /\ mappings' = mappings /\ found' = found
      /\ via' = via /\ moved' = moved
  <2>1. Jira!Found = None => ~ Jira!Live(integration)
    BY DEF Jira!Found, Jira!Live
  <2>2. QED
    BY <1>1, <2>1 DEF JiraStarts, JInv, Jira!TypeOK, JiraShape, Jira!Op
<1>3. ASSUME NEW j \in Requests \ {i}, Renewed(j) PROVE Renewed(j)'
  <2>1. PICK k \in Requests \ {j} :
          Jira!Op(k) \in {"upsert", "replace"} /\ k \notin jiraBefore[j]
    BY <1>3 DEF Renewed
  <2>2. k # i
    BY <1>2, <2>1
  <2>3. QED
    BY <1>2, <2>1, <2>2 DEF Renewed
<1>4. /\ \A j \in Jira!Done' : j # i => j \in Jira!Done
      /\ \A k \in Requests : i \notin jiraBefore'[k]
      /\ \A k \in Requests : jiraBefore'[k] \subseteq Requests
  <2>1. \A k \in Requests : i \notin jiraBefore[k] /\ jiraBefore[k] \subseteq Requests
    BY <1>2 DEF JInv, JiraBefore, Over, Jira!TypeOK
  <2>2. QED
    BY <1>2, <2>1 DEF Jira!Done, Over
<1>5. RemovalsLast'
  <2>1. \A j \in Jira!Done' : Jira!Op(j)' = "delete" /\ Jira!Live(integration)' => Renewed(j)'
    BY <1>2, <1>3, <1>4 DEF MoveInv, RemovalsLast, Jira!Done, Jira!Live
  <2>2. ASSUME NEW k \in Requests, held'[k] # None,
               NEW j \in jiraBefore'[k] \cap Jira!Done', Jira!Op(j)' = "delete"
        PROVE  Renewed(j)'
    <3>1. j \in Requests \ {i} /\ j \in Jira!Done /\ Jira!Op(j) = "delete"
      BY <1>2, <1>4, <2>2
    <3>2. CASE k = i
      <4>1. Jira!Live(integration)
        BY <1>2, <2>2, <3>2 DEF Jira!Found
      <4>2. QED
        BY <1>3, <3>1, <4>1 DEF MoveInv, RemovalsLast
    <3>3. CASE k # i
      BY <1>2, <1>3, <2>2, <3>1, <3>3 DEF MoveInv, RemovalsLast
    <3>4. QED
      BY <3>2, <3>3
  <2>3. QED
    BY <2>1, <2>2 DEF RemovalsLast
<1>6. MappingsLast'
  <2>1. \A j \in Requests : jiraPc'[j] \in {"write", "take"} =>
          \A s \in Statuses \ jiraArg'[j].on :
             Jira!Live(mappings[s])' => s \in found'[j] \/ Renewed(j)'
    BY <1>2, <1>3 DEF MoveInv, MappingsLast, Jira!Live
  <2>2. \A j \in Jira!Done' : \A s \in Statuses :
          TakesAway(j, {s})' /\ Jira!Live(mappings[s])' => Renewed(j)'
    BY <1>2, <1>3, <1>4 DEF MoveInv, MappingsLast, Jira!Live, TakesAway, Jira!Done
  <2>3. \A k \in Requests : via'[k] # None =>
          \A j \in jiraBefore'[k] \cap Jira!Done' : TakesAway(j, jiraArg[k].on)' => Renewed(j)'
    <3>1. via[i] = None
      BY <1>2 DEF MoveInv, MovesKnown
    <3>2. QED
      BY <1>2, <1>3, <1>4, <3>1 DEF MoveInv, MappingsLast, TakesAway
  <2>4. QED
    BY <2>1, <2>2, <2>3 DEF MappingsLast
<1>7. MovesKnown'
  <2>1. \A move \in moved : move.by \in Requests
    BY DEF JInv, Jira!TypeOK
  <2>2. QED
    BY <1>2, <2>1 DEF MoveInv, MovesKnown, Over
<1>8. QED
  BY <1>5, <1>6, <1>7 DEF MoveInv

LEMMA AdvanceRenewed ==
    ASSUME JInv, NEW i \in Requests, JiraAdvances(i)
    PROVE  /\ \A j \in Requests : Renewed(j)' = Renewed(j) /\ i \notin jiraBefore[j]
           /\ \A j \in Requests \ {i} :
                 Jira!Op(i) \in {"upsert", "replace"} => Renewed(j)
           /\ \A j \in Requests : \A on : TakesAway(j, on)' = TakesAway(j, on)
<1>1. /\ UNCHANGED <<jiraArg, jiraBefore>> /\ jiraPc[i] \in Jira!Awaits
  BY JiraAdvanceFacts DEF JiraGoes
<1>2. \A j \in Requests : i \notin jiraBefore[j]
  BY <1>1 DEF JInv, JiraBefore, Over, Jira!Awaits
<1>3. QED
  BY <1>1, <1>2 DEF Renewed, TakesAway, Jira!Op

LEMMA AdvanceRemovals ==
    ASSUME JInv, MoveInv, NEW i \in Requests, JiraAdvances(i)
    PROVE  RemovalsLast'
<1>1. PICK next \in Jira!Awaits \cup Over :
        JiraGoes(i, next) /\ (next # "failed" => <<jiraPc[i], next>> \in JiraMoves)
  BY JiraAdvanceFacts
<1>2. /\ jiraPc[i] \in Jira!Awaits /\ jiraPc'[i] = next
      /\ \A j \in Requests \ {i} : jiraPc'[j] = jiraPc[j]
      /\ \A j \in Requests : Jira!Op(j)' = Jira!Op(j)
      /\ UNCHANGED <<jiraArg, jiraBefore, held>>
      /\ \A j \in Jira!Done' : j \in Requests /\ (j # i => j \in Jira!Done)
  BY <1>1, JiraAdvanceFacts DEF JiraGoes, JInv, Jira!TypeOK, Jira!Op, Jira!Done
<1>3. /\ Jira!Live(integration)' /\ ~ Jira!Live(integration) => Jira!Op(i) = "upsert"
      /\ jiraPc'[i] = "done" /\ Jira!Op(i) = "delete" => ~ Jira!Live(integration)'
  <2>1. <<Jira!Op(i), jiraPc[i]>> \in JiraStages
    BY <1>2 DEF JInv, JiraShape
  <2> USE DEF Jira!Live
  <2>2. CASE Jira!SaveIntegration(i)
    <3>1. jiraPc[i] = "save"
      BY <2>2 DEF Jira!SaveIntegration, Jira!At
    <3>2. QED
      BY <2>1, <3>1 DEF JiraStages
  <2>3. CASE Jira!EraseIntegration(i)
    <3>1. ~ Jira!Live(integration)'
      BY <2>3 DEF Jira!EraseIntegration, Jira!At, JInv, JiraShape, Jira!TypeOK, Jira!Integration
    <3>2. QED
      BY <3>1
  <2>4. CASE \/ Jira!ReadMappings(i) \/ Jira!WriteMappings(i) \/ Jira!TakeOut(i)
             \/ Jira!FindMapping(i) \/ Jira!CallJira(i) \/ Jira!CallAgain(i)
    <3>1. /\ jiraPc[i] \in {"read", "write", "take", "map", "call", "again"}
          /\ integration' = integration
      BY <2>4 DEF Jira!ReadMappings, Jira!WriteMappings, Jira!TakeOut, Jira!FindMapping,
         Jira!CallJira, Jira!CallAgain, Jira!At, Jira!tables
    <3>2. Jira!Op(i) # "delete"
      BY <2>1, <3>1 DEF JiraStages
    <3>3. QED
      BY <3>1, <3>2
  <2>5. CASE Jira!Fault(i)
    <3>1. jiraPc'[i] = "failed" /\ integration' = integration
      BY <2>5 DEF Jira!Fault, Jira!At, Jira!tables, JInv, Jira!TypeOK
    <3>2. QED
      BY <3>1
  <2>6. QED
    BY <2>2, <2>3, <2>4, <2>5 DEF JiraAdvances
<1>4. \A j \in Jira!Done' : Jira!Op(j)' = "delete" /\ Jira!Live(integration)' => Renewed(j)'
  <2> SUFFICES ASSUME NEW j \in Jira!Done', Jira!Op(j)' = "delete", Jira!Live(integration)'
               PROVE  Renewed(j)'
    OBVIOUS
  <2>1. j \in Requests \ {i} /\ j \in Jira!Done /\ Jira!Op(j) = "delete"
    BY <1>2, <1>3 DEF Jira!Done
  <2>2. CASE Jira!Live(integration)
    BY <2>1, <2>2, AdvanceRenewed DEF MoveInv, RemovalsLast
  <2>3. CASE ~ Jira!Live(integration)
    BY <1>3, <2>1, <2>3, AdvanceRenewed
  <2>4. QED
    BY <2>2, <2>3
<1>5. ASSUME NEW k \in Requests, held'[k] # None,
             NEW j \in jiraBefore'[k] \cap Jira!Done', Jira!Op(j)' = "delete"
      PROVE  Renewed(j)'
  <2>1. j \in Jira!Done /\ j \in Requests /\ Jira!Op(j) = "delete" /\ j \in jiraBefore[k]
    BY <1>2, <1>5, AdvanceRenewed
  <2>2. QED
    BY <1>2, <1>5, <2>1, AdvanceRenewed DEF MoveInv, RemovalsLast
<1>6. QED
  BY <1>4, <1>5 DEF RemovalsLast

LEMMA AdvanceMappings ==
    ASSUME JInv, MoveInv, NEW i \in Requests, JiraAdvances(i)
    PROVE  MappingsLast'
<1>1. PICK next \in Jira!Awaits \cup Over :
        JiraGoes(i, next) /\ (next # "failed" => <<jiraPc[i], next>> \in JiraMoves)
  BY JiraAdvanceFacts
<1>2. /\ jiraPc[i] \in Jira!Awaits /\ jiraPc'[i] = next
      /\ \A j \in Requests \ {i} : jiraPc'[j] = jiraPc[j]
      /\ \A j \in Requests : Jira!Op(j)' = Jira!Op(j)
      /\ UNCHANGED <<jiraArg, jiraBefore, held>>
      /\ \A j \in Jira!Done' : j \in Requests /\ (j # i => j \in Jira!Done)
  BY <1>1, JiraAdvanceFacts DEF JiraGoes, JInv, Jira!TypeOK, Jira!Op, Jira!Done
<1>3. /\ mappings \in [Statuses -> Jira!Mapping \cup {None}]
      /\ found[i] \subseteq Statuses
      /\ \A s \in found[i] : mappings[s] \in Jira!Mapping
      /\ found \in [Requests -> SUBSET Statuses]
  BY DEF JInv, Jira!TypeOK, JiraShape
<1>4. /\ jiraPc[i] = "write" => Jira!Op(i) = "replace"
      /\ jiraPc'[i] = "done" /\ Jira!Op(i) = "replace" => jiraPc[i] = "take"
  BY <1>1, <1>2 DEF JInv, JiraShape, JiraStages, JiraMoves
\* A mapping that begins to live is written by another request.
<1>5. ASSUME NEW s \in Statuses, Jira!Live(mappings'[s]), NEW j \in Requests,
             s \notin jiraArg[j].on
      PROVE  Jira!Live(mappings[s]) \/ Renewed(j)
  <2>1. CASE mappings' = Replaced(i) /\ jiraPc[i] = "write"
    BY <1>3, <1>4, <1>5, <2>1, AdvanceRenewed DEF Replaced
  <2>2. CASE mappings' = TakenOut(i)
    BY <1>3, <1>5, <2>2 DEF TakenOut, Jira!Live, Jira!Mapping
  <2>3. QED
    BY <1>5, <2>1, <2>2, MappingSteps
<1>6. \A j \in Requests : jiraPc'[j] \in {"write", "take"} =>
        \A s \in Statuses \ jiraArg'[j].on :
           Jira!Live(mappings[s])' => s \in found'[j] \/ Renewed(j)'
  <2> SUFFICES ASSUME NEW j \in Requests, jiraPc'[j] \in {"write", "take"},
                      NEW s \in Statuses \ jiraArg[j].on, Jira!Live(mappings'[s]),
                      ~ Renewed(j)
               PROVE  s \in found'[j]
    BY <1>2, AdvanceRenewed DEF Jira!Live
  <2>1. Jira!Live(mappings[s])
    BY <1>5
  <2>2. CASE jiraPc[j] \in {"write", "take"}
    <3>1. s \in found[j]
      BY <2>1, <2>2 DEF MoveInv, MappingsLast
    <3>2. found'[j] = found[j]
      BY <1>2, <1>3, <2>2, MappingSteps
    <3>3. QED
      BY <3>1, <3>2
  <2>3. CASE jiraPc[j] \notin {"write", "take"}
    <3>1. j = i /\ found' = [found EXCEPT ![i] = Jira!LiveMappings]
      BY <1>2, <2>3, MappingSteps
    <3>2. QED
      BY <1>3, <2>1, <3>1 DEF Jira!LiveMappings
  <2>4. QED
    BY <2>2, <2>3
<1>7. \A j \in Jira!Done' : \A s \in Statuses :
        TakesAway(j, {s})' /\ Jira!Live(mappings[s])' => Renewed(j)'
  <2> SUFFICES ASSUME NEW j \in Jira!Done', NEW s \in Statuses, TakesAway(j, {s}),
                      Jira!Live(mappings'[s]), ~ Renewed(j)
               PROVE  FALSE
    BY <1>2, AdvanceRenewed DEF Jira!Live
  <2>1. j \in Requests /\ s \notin jiraArg[j].on /\ Jira!Op(j) = "replace"
    BY <1>2 DEF TakesAway
  <2>2. Jira!Live(mappings[s])
    BY <1>5, <2>1
  <2>3. CASE j = i
    <3>1. jiraPc[i] = "take" /\ mappings' = TakenOut(i)
      BY <1>2, <1>4, <2>1, <2>3, MappingSteps DEF Jira!Done
    <3>2. s \in found[i]
      BY <2>1, <2>2, <2>3, <3>1 DEF MoveInv, MappingsLast
    <3>3. QED
      BY <1>3, <2>1, <2>3, <3>1, <3>2 DEF TakenOut, Jira!Live, Jira!Mapping
  <2>4. CASE j # i
    BY <1>2, <2>2, <2>4 DEF MoveInv, MappingsLast
  <2>5. QED
    BY <2>3, <2>4
<1>8. \A k \in Requests : via'[k] # None =>
        \A j \in jiraBefore'[k] \cap Jira!Done' : TakesAway(j, jiraArg[k].on)' => Renewed(j)'
  <2> SUFFICES ASSUME NEW k \in Requests, via'[k] # None,
                      NEW j \in jiraBefore[k] \cap Jira!Done', TakesAway(j, jiraArg[k].on),
                      ~ Renewed(j)
               PROVE  FALSE
    BY <1>2, AdvanceRenewed DEF TakesAway
  <2>1. j \in Jira!Done /\ j \in Requests
    BY <1>2, AdvanceRenewed
  <2>2. via[k] = None
    BY <2>1 DEF MoveInv, MappingsLast
  <2>3. k = i /\ Jira!FindMapping(i)
    <3>1. Jira!FindMapping(i) \/ UNCHANGED via
      BY DEF JiraAdvances, Jira!SaveIntegration, Jira!EraseIntegration, Jira!ReadMappings,
         Jira!WriteMappings, Jira!TakeOut, Jira!CallJira, Jira!CallAgain, Jira!Fault, Jira!read
    <3>2. QED
      BY <2>2, <3>1, JiraRowsStay
  <2>4. PICK s \in jiraArg[i].on : Jira!Live(mappings[s])
    BY <2>2, <2>3 DEF Jira!FindMapping, JInv, Jira!TypeOK
  <2>5. s \in Statuses
    BY DEF JInv, Jira!TypeOK
  <2>6. TakesAway(j, {s})
    BY <2>3, <2>4 DEF TakesAway
  <2>7. QED
    BY <2>1, <2>4, <2>5, <2>6 DEF MoveInv, MappingsLast
<1>9. QED
  BY <1>6, <1>7, <1>8 DEF MappingsLast

LEMMA AdvanceMoves ==
    ASSUME JInv, MoveInv, NEW i \in Requests, JiraAdvances(i)
    PROVE  MovesKnown'
<1>1. PICK next \in Jira!Awaits \cup Over :
        JiraGoes(i, next) /\ (next # "failed" => <<jiraPc[i], next>> \in JiraMoves)
  BY JiraAdvanceFacts
<1>2. /\ jiraPc[i] \in Jira!Awaits /\ jiraPc'[i] = next /\ next # "new" /\ jiraPc[i] \notin Over
      /\ \A j \in Requests \ {i} : jiraPc'[j] = jiraPc[j]
      /\ UNCHANGED held
  BY <1>1, JiraAdvanceFacts DEF JiraGoes, JInv, Jira!TypeOK, Jira!Awaits, Over
<1>3. \A move \in moved : move.by \in Requests \ {i}
  BY <1>2 DEF JInv, Jira!TypeOK, MoveInv, MovesKnown
<1>4. \/ UNCHANGED moved
      \/ /\ moved' = moved \cup {[by |-> i, to |-> via[i], token |-> held[i].token.of]}
         /\ jiraPc[i] \in {"call", "again"} /\ jiraPc'[i] # "again" /\ UNCHANGED via
  <2>1. CASE Jira!CallJira(i) \/ Jira!CallAgain(i)
    BY <1>1, <2>1 DEF Jira!CallJira, Jira!CallAgain, Jira!Carries, Jira!At, Jira!jira, Jira!read,
       JInv, Jira!TypeOK
  <2>2. QED
    BY <2>1 DEF JiraAdvances, Jira!SaveIntegration, Jira!EraseIntegration, Jira!ReadMappings,
       Jira!WriteMappings, Jira!TakeOut, Jira!FindMapping, Jira!Fault, Jira!jira
<1>5. jiraPc[i] \in {"call", "again"} => held[i] # None /\ via[i] # None
  BY DEF JInv, JiraShape
<1>6. jiraPc[i] \in {"call", "again"} /\ next # "again" => next \in Over
  BY <1>1 DEF JiraMoves, Over
<1>7. QED
  BY <1>2, <1>3, <1>4, <1>5, <1>6, JiraRowsStay DEF MoveInv, MovesKnown

LEMMA MoveStutter ==
    ASSUME MoveInv, UNCHANGED Jira!vars
    PROVE  MoveInv'
BY DEF MoveInv, RemovalsLast, MappingsLast, MovesKnown, Renewed, TakesAway, Jira!Live, Jira!Done,
   Jira!Op, Jira!vars, Jira!tables, Jira!jira, Jira!read

LEMMA NextMoveInv == JInv /\ MoveInv /\ [Jira!Next]_(Jira!vars) => MoveInv'
BY JiraNextCases, ArriveMoveInv, AdvanceRemovals, AdvanceMappings, AdvanceMoves, MoveStutter
   DEF MoveInv

LEMMA MovesByMappings == JInv /\ TokenInv /\ MoveInv => Jira!MovedByMappings
<1> SUFFICES ASSUME JInv, MoveInv, NEW move \in moved, NEW j \in Jira!Done,
                    j \in jiraBefore[move.by],
                    Jira!Op(j) = "delete" \/ TakesAway(j, jiraArg[move.by].on)
             PROVE  Renewed(j)
  BY DEF JInv, JiraShape, TokenInv, TokensAreOf, Jira!MovedByMappings, TakesAway, Renewed
<1>1. move.by \in Requests /\ held[move.by] # None /\ via[move.by] # None
  BY DEF JInv, Jira!TypeOK, MoveInv, MovesKnown
<1>2. QED
  BY <1>1 DEF MoveInv, RemovalsLast, MappingsLast

-----------------------------------------------------------------------------
(***************************************************************************)
(* The steps of MCServices are steps of one component, and stutters of the *)
(* others.                                                                 *)
(***************************************************************************)
allVars == <<vars, jiraVars, commentVars, pageVars, part>>

LEMMA InitOfEach == MCInit => Init /\ Jira!Init /\ Comments!Init
BY DEF MCInit

LEMMA StepOfEach ==
    ASSUME [MCNext]_allVars
    PROVE  [Next]_vars /\ [Jira!Next]_(Jira!vars) /\ [Comments!Next]_(Comments!vars)
<1>1. UNCHANGED jiraVars => UNCHANGED Jira!vars
  BY DEF jiraVars, Jira!vars, Jira!tables, Jira!jira, Jira!read
<1>2. UNCHANGED commentVars => UNCHANGED Comments!vars
  BY DEF commentVars, Comments!vars, Comments!tables
<1>3. QED
  BY <1>1, <1>2 DEF MCNext, allVars

\* The stored token is encrypted once and is the last that was given, mappings
\* are replaced as a whole, and issues move once and only by mappings that were
\* not taken away before, for any number of requests and statuses.
THEOREM IssuesMove == MCSpec => []IssuesMoveAsConfigured
<1>1. MCInit => JInv /\ TokenInv /\ ReplacementStages /\ MoveInv
  BY InitOfEach, InitJInv, InitTokenInv, InitReplacement, InitMoveInv
<1>2. /\ JInv /\ TokenInv /\ ReplacementStages /\ MoveInv
      /\ [MCNext]_allVars
      => (JInv /\ TokenInv /\ ReplacementStages /\ MoveInv)'
  BY StepOfEach, JiraNextInv, NextTokenInv, NextReplacement, NextMoveInv
<1>3. JInv /\ TokenInv /\ ReplacementStages /\ MoveInv => IssuesMoveAsConfigured
  BY TokensDecrypt, ReplacementsComplete, MovesByMappings DEF IssuesMoveAsConfigured
<1>4. QED
  BY <1>1, <1>2, <1>3, PTL DEF MCSpec, allVars

-----------------------------------------------------------------------------
(***************************************************************************)
(* TodoComments: types, with the rows that a request at each of its awaits *)
(* refers to.                                                              *)
(***************************************************************************)
CommentStages ==
    {<<"create", "insert">>, <<"create", "find">>, <<"create", "attach">>,
     <<"update", "save">>, <<"delete", "erase">>, <<"complete", "upload">>,
     <<"discard", "drop">>}

CommentShape == \A i \in Requests :
    /\ commentPc[i] \in Comments!Awaits => <<Comments!Op(i), commentPc[i]>> \in CommentStages
    /\ commentPc[i] = "new" <=> Comments!Op(i) = "none"
    /\ commentPc[i] \in {"new", "insert"} => comments[i] = None
    /\ commentPc[i] \in {"find", "attach"} => comments[i] # None
    /\ commentPc[i] \in {"save", "erase"} =>
          commentArg[i].on \in Requests /\ comments[commentArg[i].on] # None
    /\ commentPc[i] = "upload" /\ commentArg[i].on # None => comments[commentArg[i].on] # None
    /\ commentPc[i] = "drop" => \A k \in commentArg[i].keys : attachments[k] # None
    /\ \A k \in commentHeld[i] : attachments[k] # None
    /\ Comments!Op(i) = "create" => commentHeld[i] \subseteq commentArg[i].keys
    /\ i \in telling \cup activities => commentPc[i] = "done"

CommentsBefore == \A j \in Requests : \A i \in commentBefore[j] : commentPc[i] \in Over

CInv == Comments!TypeOK /\ CommentShape /\ CommentsBefore

LEMMA InitCInv == Comments!Init => CInv
BY NoneIsNoRow DEF Comments!Init, CInv, Comments!TypeOK, CommentShape, CommentsBefore, Comments!Op,
   Comments!Awaits, Comments!Ops, Over

\* The arrival of a request, whatever it asks for.
CommentArrives(i) ==
    \/ Comments!StartCreate(i) \/ Comments!StartUpdate(i) \/ Comments!StartDelete(i)
    \/ Comments!StartComplete(i) \/ Comments!StartDiscard(i)

\* The steps that it takes after its arrival.
CommentAdvances(i) ==
    \/ Comments!InsertComment(i) \/ Comments!FindAttachments(i) \/ Comments!Attach(i)
    \/ Comments!SaveComment(i) \/ Comments!EraseComment(i) \/ Comments!InsertAttachment(i)
    \/ Comments!DropAttachment(i) \/ Comments!Fault(i)

LEMMA CommentNextCases ==
    ASSUME Comments!Next
    PROVE  \E i \in Requests :
             CommentArrives(i) \/ CommentAdvances(i) \/ Comments!RecordActivity(i)
BY DEF Comments!Next, CommentArrives, CommentAdvances

\* The arrival of request i, which is then at its await where and has read.
CommentStarts(i, where, op, read) ==
    /\ commentPc[i] = "new" /\ commentPc' = [commentPc EXCEPT ![i] = where]
    /\ Comments!Op(i)' = op
    /\ commentHeld' = [commentHeld EXCEPT ![i] = read]
    /\ commentBefore' =
          [commentBefore EXCEPT ![i] = {j \in Requests : commentPc[j] \in Over}]
    /\ commentArg' \in [Requests -> [op : Comments!Ops \cup {"none"}, on : Requests \cup {None},
                                     keys : SUBSET Keys]]
    /\ \A j \in Requests \ {i} : commentArg'[j] = commentArg[j]
    /\ UNCHANGED <<comments, attachments, activities, telling>>

LEMMA CommentArriveFacts ==
    ASSUME CInv, NEW i \in Requests, CommentArrives(i)
    PROVE  \/ /\ CommentStarts(i, "insert", "create", {})
              /\ commentArg'[i].keys \subseteq Comments!LiveKeys
           \/ /\ CommentStarts(i, "save", "update", Comments!Shown(commentArg'[i].on))
              /\ commentArg'[i].on \in Comments!LiveComments
           \/ /\ CommentStarts(i, "erase", "delete", {})
              /\ commentArg'[i].on \in Comments!LiveComments
           \/ /\ CommentStarts(i, "upload", "complete", {})
              /\ commentArg'[i].on # None => comments[commentArg'[i].on] # None
           \/ /\ CommentStarts(i, "drop", "discard", {})
              /\ commentArg'[i].keys \subseteq Comments!LiveKeys
<1> USE DEF Comments!Start, Comments!tables, CommentStarts, Over, CInv, Comments!TypeOK,
        Comments!Ops, Comments!Op
<1>1. CASE Comments!StartCreate(i)
  <2>1. PICK keys \in SUBSET Comments!LiveKeys :
          Comments!Start(i, "insert", "create", None, keys, {})
    BY <1>1 DEF Comments!StartCreate
  <2>2. QED
    BY <2>1 DEF Comments!LiveKeys
<1>2. CASE Comments!StartUpdate(i)
  <2>1. PICK c \in Comments!LiveComments :
          Comments!Start(i, "save", "update", c, {}, Comments!Shown(c))
    BY <1>2 DEF Comments!StartUpdate
  <2>2. commentArg'[i].on = c /\ c \in Requests
    BY <2>1 DEF Comments!LiveComments
  <2>3. QED
    BY <2>1, <2>2
<1>3. CASE Comments!StartDelete(i)
  <2>1. PICK c \in Comments!LiveComments : Comments!Start(i, "erase", "delete", c, {}, {})
    BY <1>3 DEF Comments!StartDelete
  <2>2. QED
    BY <2>1 DEF Comments!LiveComments
<1>4. CASE Comments!StartComplete(i)
  <2>1. PICK k \in Keys, c \in {j \in Requests : comments[j] # None} \cup {None} :
          Comments!Start(i, "upload", "complete", c, {k}, {})
    BY <1>4 DEF Comments!StartComplete
  <2>2. QED
    BY <2>1
<1>5. CASE Comments!StartDiscard(i)
  <2>1. PICK k \in Comments!LiveKeys : Comments!Start(i, "drop", "discard", None, {k}, {})
    BY <1>5 DEF Comments!StartDiscard
  <2>2. QED
    BY <2>1 DEF Comments!LiveKeys
<1>6. QED
  BY <1>1, <1>2, <1>3, <1>4, <1>5 DEF CommentArrives

LEMMA CommentArriveInv ==
    ASSUME CInv, NEW i \in Requests, CommentArrives(i)
    PROVE  CInv'
<1>1. PICK where \in {"insert", "save", "erase", "upload", "drop"}, op \in Comments!Ops,
           read \in SUBSET Keys :
        /\ CommentStarts(i, where, op, read) /\ <<op, where>> \in CommentStages
        /\ \A k \in read : attachments[k] # None
        /\ op = "create" => read = {}
        /\ where \in {"save", "erase"} => commentArg'[i].on \in Comments!LiveComments
        /\ where = "upload" /\ commentArg'[i].on # None => comments[commentArg'[i].on] # None
        /\ where = "drop" => commentArg'[i].keys \subseteq Comments!LiveKeys
  <2>1. Comments!Shown(commentArg'[i].on) \in SUBSET Keys
        /\ \A k \in Comments!Shown(commentArg'[i].on) : attachments[k] # None
    BY DEF Comments!Shown, Comments!LiveKeys, Comments!Live
  <2>2. CASE CommentStarts(i, "save", "update", Comments!Shown(commentArg'[i].on))
             /\ commentArg'[i].on \in Comments!LiveComments
    <3>1. PICK read \in SUBSET Keys : read = Comments!Shown(commentArg'[i].on)
      BY <2>1
    <3>2. QED
      BY <2>1, <2>2, <3>1 DEF CommentStages, Comments!Ops
  <2>3. CASE ~ (CommentStarts(i, "save", "update", Comments!Shown(commentArg'[i].on))
                /\ commentArg'[i].on \in Comments!LiveComments)
    <3>1. {} \in SUBSET Keys
      OBVIOUS
    <3>2. QED
      BY <2>3, <3>1, CommentArriveFacts DEF CommentStages, Comments!Ops
  <2>4. QED
    BY <2>2, <2>3
<1>2. /\ commentPc[i] = "new" /\ commentPc'[i] = where /\ Comments!Op(i)' = op
      /\ commentHeld'[i] = read
      /\ commentBefore'[i] = {j \in Requests : commentPc[j] \in Over}
      /\ \A j \in Requests \ {i} :
            /\ commentPc'[j] = commentPc[j] /\ commentArg'[j] = commentArg[j]
            /\ commentHeld'[j] = commentHeld[j] /\ commentBefore'[j] = commentBefore[j]
            /\ Comments!Op(j)' = Comments!Op(j)
      /\ UNCHANGED <<comments, attachments, activities, telling>>
  BY <1>1 DEF CommentStarts, CInv, Comments!TypeOK, Comments!Op
<1>3. Comments!TypeOK'
  BY <1>1 DEF CommentStarts, CInv, Comments!TypeOK, Comments!Awaits
<1>4. /\ i \notin telling \cup activities /\ comments[i] = None /\ op # "none"
      /\ \A c \in Comments!LiveComments : c \in Requests /\ comments[c] # None
      /\ \A k \in Comments!LiveKeys : attachments[k] # None
  BY <1>2 DEF CInv, CommentShape, Comments!Ops, Comments!LiveComments, Comments!LiveKeys,
     Comments!Live
<1>5. CommentShape'
  BY <1>1, <1>2, <1>4 DEF CInv, CommentShape, Comments!Awaits
<1>6. CommentsBefore'
  <2>1. \A j \in Requests : commentPc[j] \in Over => commentPc'[j] \in Over
    BY <1>2 DEF Over
  <2>2. \A j \in Requests : commentBefore[j] \subseteq Requests
    BY DEF CInv, Comments!TypeOK
  <2>3. QED
    BY <1>2, <2>1, <2>2 DEF CInv, CommentsBefore
<1>7. QED
  BY <1>3, <1>5, <1>6 DEF CInv

CommentMoves ==
    {<<"insert", "done">>, <<"insert", "find">>, <<"find", "attach">>, <<"attach", "done">>,
     <<"save", "done">>, <<"erase", "done">>, <<"upload", "done">>, <<"drop", "done">>}

CommentGoes(i, next) ==
    /\ commentPc' = [commentPc EXCEPT ![i] = next]
    /\ UNCHANGED <<commentArg, commentBefore>>

LEMMA CommentAdvanceFacts ==
    ASSUME CInv, NEW i \in Requests, CommentAdvances(i)
    PROVE  /\ commentPc[i] \in Comments!Awaits
           /\ \E next \in {"find", "attach", "done", "failed"} :
                /\ CommentGoes(i, next)
                /\ next # "failed" => <<commentPc[i], next>> \in CommentMoves
<1> USE DEF Comments!At, CommentGoes, Comments!Awaits, CommentMoves
<1>1. CASE Comments!InsertComment(i)
  BY <1>1 DEF Comments!InsertComment
<1>2. CASE Comments!FindAttachments(i) \/ Comments!Attach(i)
  BY <1>2 DEF Comments!FindAttachments, Comments!Attach
<1>3. CASE Comments!SaveComment(i)
  BY <1>3 DEF Comments!SaveComment
<1>4. CASE Comments!EraseComment(i) \/ Comments!DropAttachment(i)
  BY <1>4 DEF Comments!EraseComment, Comments!DropAttachment
<1>5. CASE Comments!InsertAttachment(i)
  BY <1>5 DEF Comments!InsertAttachment
<1>6. CASE Comments!Fault(i)
  BY <1>6 DEF Comments!Fault
<1>7. QED
  BY <1>1, <1>2, <1>3, <1>4, <1>5, <1>6 DEF CommentAdvances

\* The rows that a request writes.
LEMMA CommentRowTypes ==
    /\ \A i \in Requests : [content |-> i, deleted |-> FALSE] \in Comments!Comment
    /\ \A i \in Requests : [content |-> i, deleted |-> FALSE] # None
    /\ \A i \in Requests \cup {None} : [of |-> i, deleted |-> FALSE] \in Comments!Attachment
    /\ \A i \in Requests \cup {None} : [of |-> i, deleted |-> FALSE] # None
<1>1. \A i \in Requests : [content |-> i, deleted |-> FALSE] \in Comments!Comment
  BY DEF Comments!Comment
<1>2. \A i \in Requests \cup {None} : [of |-> i, deleted |-> FALSE] \in Comments!Attachment
  BY DEF Comments!Attachment
<1>3. QED
  BY <1>1, <1>2, NoneIsNoRow

LEMMA AttachmentTypes ==
    ASSUME CInv, NEW k \in Keys, attachments[k] # None
    PROVE  /\ attachments[k] \in Comments!Attachment
           /\ attachments[k].of \in Requests \cup {None}
           /\ \A c \in Requests \cup {None} :
                /\ [attachments[k] EXCEPT !.of = c] \in Comments!Attachment
                /\ [attachments[k] EXCEPT !.of = c].of = c
                /\ [attachments[k] EXCEPT !.of = c].deleted = attachments[k].deleted
                /\ [attachments[k] EXCEPT !.of = c] # None
           /\ [attachments[k] EXCEPT !.deleted = TRUE] \in Comments!Attachment
           /\ [attachments[k] EXCEPT !.deleted = TRUE].of = attachments[k].of
           /\ [attachments[k] EXCEPT !.deleted = TRUE] # None
<1>1. attachments[k] \in Comments!Attachment
  BY DEF CInv, Comments!TypeOK
<1>2. /\ \A c \in Requests \cup {None} :
           [attachments[k] EXCEPT !.of = c] \in Comments!Attachment
      /\ [attachments[k] EXCEPT !.deleted = TRUE] \in Comments!Attachment
  BY <1>1 DEF Comments!Attachment
<1>3. QED
  BY <1>1, <1>2, NoneIsNoRow DEF Comments!Attachment

\* What each step does to comments and attachments.
LEMMA CommentTables ==
    ASSUME CInv, NEW i \in Requests, CommentAdvances(i)
    PROVE  /\ comments' \in [Requests -> Comments!Comment \cup {None}]
           /\ attachments' \in [Keys -> Comments!Attachment \cup {None}]
           /\ commentHeld' \in [Requests -> SUBSET Keys]
           /\ \A c \in Requests : comments[c] # None => comments'[c] # None
           /\ \A k \in Keys : attachments[k] # None => attachments'[k] # None
           /\ \A c \in Requests : comments'[c] # None /\ comments[c] = None =>
                 c = i /\ commentPc[i] = "insert"
           /\ \A k \in Keys : attachments'[k] # None /\ attachments'[k].of # None =>
                 comments'[attachments'[k].of] # None
           /\ \A j \in Requests \ {i} : commentHeld'[j] = commentHeld[j]
           /\ \A k \in commentHeld'[i] : attachments[k] # None
           /\ Comments!Op(i) = "create" /\ commentHeld[i] \subseteq commentArg[i].keys =>
                 commentHeld'[i] \subseteq commentArg[i].keys
<1>1. /\ comments \in [Requests -> Comments!Comment \cup {None}]
      /\ attachments \in [Keys -> Comments!Attachment \cup {None}]
      /\ commentHeld \in [Requests -> SUBSET Keys]
      /\ \A k \in commentHeld[i] : attachments[k] # None
      /\ \A k \in Keys : attachments[k] # None /\ attachments[k].of # None =>
            comments[attachments[k].of] # None
  BY DEF CInv, Comments!TypeOK, CommentShape
<1> USE DEF Comments!At, Comments!tables
<1>2. CASE Comments!InsertComment(i)
  <2>1. /\ comments' = [comments EXCEPT ![i] = [content |-> i, deleted |-> FALSE]]
        /\ UNCHANGED <<attachments, commentHeld>> /\ commentPc[i] = "insert"
    BY <1>2 DEF Comments!InsertComment
  <2>2. /\ comments'[i] # None /\ \A c \in Requests \ {i} : comments'[c] = comments[c]
        /\ comments' \in [Requests -> Comments!Comment \cup {None}]
    BY <1>1, <2>1, CommentRowTypes
  <2>3. \A k \in Keys : attachments[k] # None => attachments[k].of \in Requests \cup {None}
    BY AttachmentTypes
  <2>4. QED
    BY <1>1, <2>1, <2>2, <2>3
<1>3. CASE Comments!FindAttachments(i)
  BY <1>1, <1>3 DEF Comments!FindAttachments, Comments!LiveKeys, Comments!Live
<1>4. CASE Comments!Attach(i)
  <2>1. comments[i] # None
    BY <1>4 DEF Comments!Attach, CInv, CommentShape
  <2>2. /\ attachments' = [k \in Keys |-> IF k \in commentHeld[i]
                                          THEN [of |-> i, deleted |-> FALSE] ELSE attachments[k]]
        /\ UNCHANGED <<comments, commentHeld>>
    BY <1>4 DEF Comments!Attach
  <2>3. QED
    BY <1>1, <2>1, <2>2, CommentRowTypes
<1>5. CASE Comments!SaveComment(i)
  <2>1. PICK c \in Requests : c = commentArg[i].on /\ comments[c] # None
    BY <1>5 DEF Comments!SaveComment, CInv, CommentShape
  <2>2. /\ comments' = [comments EXCEPT ![c] = [content |-> i, deleted |-> FALSE]]
        /\ attachments' = [k \in Keys |->
              IF k \in commentHeld[i] THEN [attachments[k] EXCEPT !.of = c]
              ELSE IF attachments[k] # None /\ attachments[k].of = c
                   THEN [attachments[k] EXCEPT !.of = None]
                   ELSE attachments[k]]
        /\ UNCHANGED commentHeld
    BY <1>5, <2>1 DEF Comments!SaveComment
  <2>3. /\ \A d \in Requests : comments'[d] # None <=> comments[d] # None
        /\ comments' \in [Requests -> Comments!Comment \cup {None}]
    BY <1>1, <2>1, <2>2, CommentRowTypes
  <2>4. ASSUME NEW k \in Keys
        PROVE  /\ attachments'[k] \in Comments!Attachment \cup {None}
               /\ attachments[k] # None => attachments'[k] # None
               /\ attachments'[k] # None /\ attachments'[k].of # None =>
                     comments'[attachments'[k].of] # None
    <3>1. CASE k \in commentHeld[i]
      <4>1. attachments[k] # None /\ attachments'[k] = [attachments[k] EXCEPT !.of = c]
        BY <1>1, <2>2, <3>1
      <4>2. attachments[k] \in Comments!Attachment
        BY <4>1, AttachmentTypes
      <4>3. attachments'[k] \in Comments!Attachment /\ attachments'[k].of = c
        BY <4>1, <4>2 DEF Comments!Attachment
      <4>4. QED
        BY <2>1, <2>3, <4>3, NoneIsNoRow
    <3>2. CASE k \notin commentHeld[i] /\ attachments[k] # None /\ attachments[k].of = c
      <4>1. attachments'[k] = [attachments[k] EXCEPT !.of = None]
        BY <2>2, <3>2
      <4>2. /\ [attachments[k] EXCEPT !.of = None] \in Comments!Attachment
            /\ [attachments[k] EXCEPT !.of = None].of = None
        BY <3>2, AttachmentTypes
      <4>3. QED
        BY <4>1, <4>2, NoneIsNoRow
    <3>3. CASE k \notin commentHeld[i] /\ ~ (attachments[k] # None /\ attachments[k].of = c)
      <4>1. attachments'[k] = attachments[k]
        BY <2>2, <3>3
      <4>2. attachments[k] # None => attachments[k].of \in Requests \cup {None}
        BY AttachmentTypes
      <4>3. QED
        BY <1>1, <2>3, <4>1, <4>2
    <3>4. QED
      BY <3>1, <3>2, <3>3
  <2>5. attachments' \in [Keys -> Comments!Attachment \cup {None}]
    BY <2>2, <2>4
  <2>6. QED
    BY <1>1, <2>2, <2>3, <2>4, <2>5
<1>6. CASE Comments!EraseComment(i)
  <2>1. PICK c \in Requests : c = commentArg[i].on /\ comments[c] \in Comments!Comment
    <3>1. commentPc[i] = "erase"
      BY <1>1, <1>6 DEF Comments!EraseComment
    <3>2. commentArg[i].on \in Requests /\ comments[commentArg[i].on] # None
      BY <3>1 DEF CInv, CommentShape
    <3>3. QED
      BY <1>1, <3>2
  <2>2. /\ comments' = [comments EXCEPT ![c] = [comments[c] EXCEPT !.deleted = TRUE]]
        /\ UNCHANGED <<attachments, commentHeld>>
    BY <1>6, <2>1 DEF Comments!EraseComment
  <2>3. [comments[c] EXCEPT !.deleted = TRUE] \in Comments!Comment
    BY <2>1 DEF Comments!Comment
  <2>4. \A k \in Keys : attachments[k] # None => attachments[k].of \in Requests \cup {None}
    BY AttachmentTypes
  <2>5. /\ \A d \in Requests : comments'[d] # None <=> comments[d] # None
        /\ comments' \in [Requests -> Comments!Comment \cup {None}]
    BY <1>1, <2>1, <2>2, <2>3, NoneIsNoRow
  <2>6. QED
    BY <1>1, <2>2, <2>4, <2>5
<1>7. CASE Comments!InsertAttachment(i)
  <2>1. PICK k \in commentArg[i].keys :
          /\ \/ UNCHANGED attachments
             \/ /\ attachments[k] = None
                /\ attachments' = [attachments EXCEPT ![k] =
                                     [of |-> commentArg[i].on, deleted |-> FALSE]]
          /\ UNCHANGED <<comments, commentHeld>> /\ commentPc[i] = "upload"
    BY <1>7 DEF Comments!InsertAttachment
  <2>2. /\ commentArg[i].on \in Requests \cup {None} /\ k \in Keys
        /\ commentArg[i].on # None => comments[commentArg[i].on] # None
    BY <2>1 DEF CInv, Comments!TypeOK, CommentShape
  <2>3. QED
    BY <1>1, <2>1, <2>2, CommentRowTypes
<1>8. CASE Comments!DropAttachment(i)
  <2>1. PICK k \in commentArg[i].keys :
          /\ attachments' = [attachments EXCEPT ![k] = [attachments[k] EXCEPT !.deleted = TRUE]]
          /\ UNCHANGED <<comments, commentHeld>> /\ commentPc[i] = "drop"
    BY <1>8 DEF Comments!DropAttachment
  <2>2. k \in Keys /\ attachments[k] # None
    BY <2>1 DEF CInv, Comments!TypeOK, CommentShape
  <2>3. QED
    BY <1>1, <2>1, <2>2, AttachmentTypes
<1>9. CASE Comments!Fault(i)
  BY <1>1, <1>9 DEF Comments!Fault
<1>10. QED
  BY <1>2, <1>3, <1>4, <1>5, <1>6, <1>7, <1>8, <1>9 DEF CommentAdvances

LEMMA CommentAdvanceInv ==
    ASSUME CInv, NEW i \in Requests, CommentAdvances(i)
    PROVE  CInv'
<1>1. PICK next \in {"find", "attach", "done", "failed"} :
        CommentGoes(i, next) /\ (next # "failed" => <<commentPc[i], next>> \in CommentMoves)
  BY CommentAdvanceFacts
<1>2. /\ commentPc[i] \in Comments!Awaits /\ commentPc[i] \notin Over
      /\ commentPc'[i] = next
      /\ \A j \in Requests \ {i} : commentPc'[j] = commentPc[j]
      /\ \A j \in Requests : Comments!Op(j)' = Comments!Op(j)
      /\ UNCHANGED <<commentArg, commentBefore>>
  BY <1>1, CommentAdvanceFacts DEF CommentGoes, CInv, Comments!TypeOK, Comments!Op,
     Comments!Awaits, Over
<1>3. i \notin telling \cup activities
  BY <1>2 DEF CInv, CommentShape, Over
<1>4. /\ activities' = activities
      /\ \/ telling' = telling
         \/ telling' = telling \cup {i} /\ next = "done"
  <2> USE DEF Comments!At, Comments!Tell, Comments!TellNothing, Comments!tables
  <2>1. CASE Comments!InsertComment(i)
    <3>1. CASE commentArg[i].keys = {}
      BY <1>2, <2>1, <3>1 DEF Comments!InsertComment, CInv, Comments!TypeOK
    <3>2. CASE commentArg[i].keys # {}
      BY <2>1, <3>2 DEF Comments!InsertComment
    <3>3. QED
      BY <3>1, <3>2
  <2>2. CASE Comments!Attach(i) \/ Comments!EraseComment(i)
    BY <1>2, <2>2 DEF Comments!Attach, Comments!EraseComment, CInv, Comments!TypeOK
  <2>3. CASE Comments!SaveComment(i)
    BY <1>2, <2>3 DEF Comments!SaveComment, CInv, Comments!TypeOK
  <2>4. CASE \/ Comments!FindAttachments(i) \/ Comments!InsertAttachment(i)
             \/ Comments!DropAttachment(i) \/ Comments!Fault(i)
    BY <2>4 DEF Comments!FindAttachments, Comments!InsertAttachment, Comments!DropAttachment,
       Comments!Fault
  <2>5. QED
    BY <2>1, <2>2, <2>3, <2>4 DEF CommentAdvances
<1>5. Comments!TypeOK'
  <2>1. commentPc' \in [Requests -> Comments!Awaits \cup {"new", "done", "failed"}]
    BY <1>1 DEF CommentGoes, CInv, Comments!TypeOK, Comments!Awaits
  <2>2. telling' \subseteq Requests \ activities'
    BY <1>3, <1>4 DEF CInv, Comments!TypeOK
  <2>3. QED
    BY <1>2, <1>4, <2>1, <2>2, CommentTables DEF CInv, Comments!TypeOK
<1>6. CommentShape'
  <2>1. next = "find" => comments'[i] # None
    <3>1. next = "find" => Comments!InsertComment(i)
      BY <1>2 DEF CommentAdvances, Comments!FindAttachments, Comments!Attach,
         Comments!SaveComment, Comments!EraseComment, Comments!InsertAttachment,
         Comments!DropAttachment, Comments!Fault, Comments!At, CInv, Comments!TypeOK
    <3>2. Comments!InsertComment(i) => comments'[i] # None
      BY CommentRowTypes DEF Comments!InsertComment, CInv, Comments!TypeOK
    <3>3. QED
      BY <3>1, <3>2
  <2>2. /\ next = "find" => commentPc[i] = "insert"
        /\ next = "attach" => commentPc[i] = "find"
        /\ <<Comments!Op(i), commentPc[i]>> \in CommentStages
    BY <1>1, <1>2 DEF CommentMoves, CInv, CommentShape
  <2>3. /\ next = "find" => Comments!Op(i) = "create"
        /\ next = "attach" => Comments!Op(i) = "create" /\ comments[i] # None
        /\ Comments!Op(i) # "none"
        /\ next \in Comments!Awaits => <<Comments!Op(i), next>> \in CommentStages
    BY <2>2 DEF CommentStages, CInv, CommentShape, Comments!Awaits
  <2>4. ASSUME NEW j \in Requests \ {i}
        PROVE  /\ commentPc[j] \in {"new", "insert"} => comments'[j] = None
               /\ comments[j] # None => comments'[j] # None
               /\ \A k \in commentHeld'[j] : attachments'[k] # None
               /\ commentPc[j] = "drop" => \A k \in commentArg[j].keys : attachments'[k] # None
    <3>1. /\ commentPc[j] \in {"new", "insert"} => comments[j] = None
          /\ commentHeld[j] \subseteq Keys /\ \A k \in commentHeld[j] : attachments[k] # None
          /\ commentArg[j].keys \subseteq Keys
          /\ commentPc[j] = "drop" => \A k \in commentArg[j].keys : attachments[k] # None
      BY DEF CInv, CommentShape, Comments!TypeOK
    <3>2. QED
      BY <3>1, CommentTables
  <2>5. /\ \A k \in commentHeld'[i] : attachments'[k] # None
        /\ Comments!Op(i) = "create" => commentHeld'[i] \subseteq commentArg[i].keys
        /\ comments[i] # None => comments'[i] # None
    <3>1. /\ Comments!Op(i) = "create" => commentHeld[i] \subseteq commentArg[i].keys
          /\ commentHeld'[i] \subseteq Keys
      BY CommentTables DEF CInv, CommentShape
    <3>2. QED
      BY <3>1, CommentTables
  <2>6. \A c \in Requests : comments[c] # None => comments'[c] # None
    BY CommentTables
  <2>7. ASSUME NEW j \in Requests
        PROVE  /\ commentPc'[j] \in Comments!Awaits =>
                     <<Comments!Op(j)', commentPc'[j]>> \in CommentStages
               /\ commentPc'[j] = "new" <=> Comments!Op(j)' = "none"
               /\ commentPc'[j] \in {"new", "insert"} => comments'[j] = None
               /\ commentPc'[j] \in {"find", "attach"} => comments'[j] # None
               /\ commentPc'[j] = "drop" => \A k \in commentArg'[j].keys : attachments'[k] # None
               /\ j \in telling' \cup activities' => commentPc'[j] = "done"
    BY <1>2, <1>3, <1>4, <2>1, <2>2, <2>3, <2>4, <2>5 DEF CInv, CommentShape
  <2>8. ASSUME NEW j \in Requests
        PROVE  /\ commentPc'[j] \in {"save", "erase"} =>
                     commentArg'[j].on \in Requests /\ comments'[commentArg'[j].on] # None
               /\ commentPc'[j] = "upload" /\ commentArg'[j].on # None =>
                     comments'[commentArg'[j].on] # None
    <3>1. commentPc'[j] \in {"save", "erase", "upload"} => commentPc[j] = commentPc'[j]
      BY <1>2
    <3>2. commentArg[j].on \in Requests \cup {None} /\ commentArg' = commentArg
      BY <1>2 DEF CInv, Comments!TypeOK
    <3>3. QED
      BY <2>6, <3>1, <3>2 DEF CInv, CommentShape
  <2>9. ASSUME NEW j \in Requests
        PROVE  /\ \A k \in commentHeld'[j] : attachments'[k] # None
               /\ Comments!Op(j)' = "create" => commentHeld'[j] \subseteq commentArg'[j].keys
    <3>1. CASE j = i
      BY <1>2, <2>5, <3>1
    <3>2. CASE j # i
      <4>1. \A k \in commentHeld'[j] : attachments'[k] # None
        BY <2>4, <3>2
      <4>2. Comments!Op(j) = "create" => commentHeld[j] \subseteq commentArg[j].keys
        BY DEF CInv, CommentShape
      <4>3. commentHeld'[j] = commentHeld[j]
        BY <3>2, CommentTables
      <4>4. QED
        BY <1>2, <4>1, <4>2, <4>3
    <3>3. QED
      BY <3>1, <3>2
  <2>10. QED
    BY <2>7, <2>8, <2>9 DEF CommentShape
<1>7. CommentsBefore'
  <2>1. \A j \in Requests : commentPc[j] \in Over => commentPc'[j] \in Over
    BY <1>2
  <2>2. \A j \in Requests : commentBefore[j] \subseteq Requests
    BY DEF CInv, Comments!TypeOK
  <2>3. QED
    BY <1>2, <2>1, <2>2 DEF CInv, CommentsBefore
<1>8. QED
  BY <1>5, <1>6, <1>7 DEF CInv

LEMMA RecordInv ==
    ASSUME CInv, NEW i \in Requests, Comments!RecordActivity(i)
    PROVE  CInv'
<1>1. /\ i \in telling /\ telling' = telling \ {i}
      /\ activities' = activities \cup {i} \/ activities' = activities
      /\ UNCHANGED <<comments, attachments, commentPc, commentArg, commentHeld, commentBefore>>
  BY DEF Comments!RecordActivity
<1>2. QED
  BY <1>1 DEF CInv, Comments!TypeOK, CommentShape, CommentsBefore, Comments!Op

LEMMA CommentStutter ==
    ASSUME CInv, UNCHANGED Comments!vars
    PROVE  CInv'
BY DEF CInv, Comments!TypeOK, CommentShape, CommentsBefore, Comments!Op, Comments!vars,
   Comments!tables

LEMMA CommentNextInv == CInv /\ [Comments!Next]_(Comments!vars) => CInv'
BY CommentNextCases, CommentArriveInv, CommentAdvanceInv, RecordInv, CommentStutter

-----------------------------------------------------------------------------
(***************************************************************************)
(* CommentsAreKept: who ended the life of a row, or took an image from its *)
(* comment, since a request read it.                                       *)
(***************************************************************************)
\* What a step does to rows that are there, and to what was read of them.
LEMMA CommentSteps ==
    ASSUME CInv, NEW i \in Requests, CommentAdvances(i)
    PROVE  /\ \A c \in Requests :
                 comments[c] # None /\ Comments!Live(comments'[c]) # Comments!Live(comments[c]) =>
                    \/ commentPc[i] = "save" /\ commentArg[i].on = c /\ Comments!Live(comments'[c])
                    \/ /\ commentPc[i] = "erase" /\ commentArg[i].on = c
                       /\ ~ Comments!Live(comments'[c])
           /\ \A k \in Keys : attachments[k] # None /\ attachments'[k] # attachments[k] =>
                 \/ /\ commentPc[i] = "attach" /\ k \in commentHeld[i]
                    /\ Comments!Live(attachments'[k]) /\ attachments'[k].of = i
                 \/ /\ commentPc[i] = "drop" /\ k \in commentArg[i].keys
                    /\ ~ Comments!Live(attachments'[k])
                 \/ /\ commentPc[i] = "save"
                    /\ Comments!Live(attachments'[k]) = Comments!Live(attachments[k])
                    /\ \/ k \in commentHeld[i] /\ attachments'[k].of = commentArg[i].on
                       \/ k \notin commentHeld[i] /\ attachments[k].of = commentArg[i].on
           /\ commentPc[i] = "attach" /\ commentPc'[i] = "done" => \A k \in commentHeld[i] :
                 Comments!Live(attachments'[k]) /\ attachments'[k].of = i
           /\ commentPc'[i] = "attach" =>
                 commentPc[i] = "find"
                 /\ commentHeld'[i] = commentArg[i].keys \cap Comments!LiveKeys
           /\ commentPc[i] # "find" => UNCHANGED commentHeld
           /\ commentPc[i] = "insert" /\ commentPc'[i] = "done" => commentArg[i].keys = {}
<1>1. /\ comments \in [Requests -> Comments!Comment \cup {None}]
      /\ attachments \in [Keys -> Comments!Attachment \cup {None}]
      /\ \A where, next : Comments!At(i, where, next) =>
            commentPc[i] = where /\ commentPc'[i] = next
  BY DEF CInv, Comments!TypeOK, Comments!At
<1> USE DEF Comments!tables, Comments!Live
<1>2. CASE Comments!InsertComment(i)
  <2>1. /\ comments' = [comments EXCEPT ![i] = [content |-> i, deleted |-> FALSE]]
        /\ commentPc[i] = "insert" /\ comments[i] = None
        /\ commentPc'[i] \in {"done", "find"}
        /\ commentPc'[i] = "done" => commentArg[i].keys = {}
        /\ UNCHANGED <<attachments, commentHeld>>
    BY <1>1, <1>2 DEF Comments!InsertComment, CInv, CommentShape
  <2>2. QED
    BY <1>1, <2>1
<1>3. CASE Comments!FindAttachments(i)
  BY <1>1, <1>3 DEF Comments!FindAttachments, CInv, Comments!TypeOK
<1>4. CASE Comments!Attach(i)
  <2>1. /\ attachments' = [k \in Keys |-> IF k \in commentHeld[i]
                                          THEN [of |-> i, deleted |-> FALSE] ELSE attachments[k]]
        /\ UNCHANGED <<comments, commentHeld>>
        /\ commentPc[i] = "attach" /\ commentPc'[i] = "done"
    BY <1>1, <1>4 DEF Comments!Attach
  <2>2. commentHeld[i] \subseteq Keys
    BY DEF CInv, Comments!TypeOK
  <2>3. QED
    BY <1>1, <2>1, <2>2, CommentRowTypes
<1>5. CASE Comments!SaveComment(i)
  <2>1. PICK c \in Requests : c = commentArg[i].on
    BY <1>5 DEF Comments!SaveComment, Comments!At, CInv, CommentShape
  <2>2. /\ comments' = [comments EXCEPT ![c] = [content |-> i, deleted |-> FALSE]]
        /\ attachments' = [k \in Keys |->
              IF k \in commentHeld[i] THEN [attachments[k] EXCEPT !.of = c]
              ELSE IF attachments[k] # None /\ attachments[k].of = c
                   THEN [attachments[k] EXCEPT !.of = None]
                   ELSE attachments[k]]
        /\ UNCHANGED commentHeld
        /\ commentPc[i] = "save" /\ commentPc'[i] = "done"
    BY <1>1, <1>5, <2>1 DEF Comments!SaveComment
  <2>3. \A d \in Requests : /\ d # c => comments'[d] = comments[d]
                            /\ d = c => ~ comments'[d].deleted /\ comments'[d] # None
    BY <1>1, <2>2, CommentRowTypes
  <2>4. ASSUME NEW k \in Keys, attachments[k] # None, attachments'[k] # attachments[k]
        PROVE  /\ attachments'[k].deleted = attachments[k].deleted /\ attachments'[k] # None
               /\ \/ k \in commentHeld[i] /\ attachments'[k].of = c
                  \/ k \notin commentHeld[i] /\ attachments[k].of = c
    <3>1. attachments[k] \in Comments!Attachment
      BY <1>1, <2>4
    <3>2. PICK d \in Requests \cup {None} : attachments'[k] = [attachments[k] EXCEPT !.of = d]
            /\ \/ k \in commentHeld[i] /\ d = c
               \/ k \notin commentHeld[i] /\ attachments[k].of = c
      BY <2>2, <2>4
    <3>3. /\ attachments'[k] \in Comments!Attachment /\ attachments'[k].of = d
          /\ attachments'[k].deleted = attachments[k].deleted
      BY <3>1, <3>2 DEF Comments!Attachment
    <3>4. QED
      BY <3>2, <3>3, NoneIsNoRow
  <2>5. /\ \A d \in Requests : Comments!Live(comments'[d]) # Comments!Live(comments[d]) =>
              d = c /\ Comments!Live(comments'[d])
        /\ \A k \in Keys : attachments[k] # None /\ attachments'[k] # attachments[k] =>
              /\ Comments!Live(attachments'[k]) = Comments!Live(attachments[k])
              /\ \/ k \in commentHeld[i] /\ attachments'[k].of = c
                 \/ k \notin commentHeld[i] /\ attachments[k].of = c
    BY <2>3, <2>4
  <2>6. QED
    BY <2>1, <2>2, <2>5
<1>6. CASE Comments!EraseComment(i)
  <2>1. PICK c \in Requests : c = commentArg[i].on /\ comments[c] \in Comments!Comment
    <3>1. commentPc[i] = "erase"
      BY <1>1, <1>6 DEF Comments!EraseComment
    <3>2. QED
      BY <1>1, <3>1 DEF CInv, CommentShape
  <2>2. /\ comments' = [comments EXCEPT ![c] = [comments[c] EXCEPT !.deleted = TRUE]]
        /\ UNCHANGED <<attachments, commentHeld>>
        /\ commentPc[i] = "erase" /\ commentPc'[i] = "done"
    BY <1>1, <1>6, <2>1 DEF Comments!EraseComment
  <2>3. /\ \A d \in Requests : d # c => comments'[d] = comments[d]
        /\ comments'[c].deleted
    BY <1>1, <2>1, <2>2 DEF Comments!Comment
  <2>4. QED
    BY <2>1, <2>2, <2>3
<1>7. CASE Comments!InsertAttachment(i)
  <2>1. PICK k \in commentArg[i].keys :
          /\ \/ UNCHANGED attachments
             \/ /\ attachments[k] = None
                /\ attachments' = [attachments EXCEPT ![k] =
                                     [of |-> commentArg[i].on, deleted |-> FALSE]]
          /\ UNCHANGED <<comments, commentHeld>>
          /\ commentPc[i] = "upload" /\ commentPc'[i] \in Over
    BY <1>1, <1>7 DEF Comments!InsertAttachment, Over
  <2>2. QED
    BY <1>1, <2>1 DEF Over
<1>8. CASE Comments!DropAttachment(i)
  <2>1. PICK k \in commentArg[i].keys :
          /\ attachments' = [attachments EXCEPT ![k] = [attachments[k] EXCEPT !.deleted = TRUE]]
          /\ UNCHANGED <<comments, commentHeld>>
          /\ commentPc[i] = "drop" /\ commentPc'[i] = "done"
    BY <1>1, <1>8 DEF Comments!DropAttachment
  <2>2. k \in Keys /\ attachments[k] \in Comments!Attachment
    BY <1>1, <2>1 DEF CInv, Comments!TypeOK, CommentShape
  <2>3. attachments'[k].deleted /\ \A l \in Keys : l # k => attachments'[l] = attachments[l]
    BY <1>1, <2>1, <2>2 DEF Comments!Attachment
  <2>4. QED
    BY <2>1, <2>3
<1>9. CASE Comments!Fault(i)
  BY <1>1, <1>9 DEF Comments!Fault
<1>10. QED
  BY <1>2, <1>3, <1>4, <1>5, <1>6, <1>7, <1>8, <1>9 DEF CommentAdvances

\* Rows that a request saves, or takes for its comment, and that are gone by
\* now, are gone by a request that had not ended when it arrived.
DeletedSince(i, c) == \E j \in Requests :
    Comments!Op(j) = "delete" /\ commentArg[j].on = c /\ j \notin commentBefore[i]
DiscardedSince(i, k) == \E j \in Requests :
    Comments!Op(j) = "discard" /\ k \in commentArg[j].keys /\ j \notin commentBefore[i]

\* What may have taken an image from the comment that request i created.
Taken(i, k) == \E j \in Requests \ {i} :
    k \in commentArg[j].keys /\ Comments!Op(j) \in {"create", "discard"}
UpdatedAside(i) == \E j \in Requests : Comments!Op(j) = "update" /\ Comments!Overlap(i, j)

RowsGone == \A i \in Requests :
    /\ commentPc[i] = "save" =>
          Comments!Live(comments[commentArg[i].on]) \/ DeletedSince(i, commentArg[i].on)
    /\ commentPc[i] \in {"insert", "find", "attach"} => \A k \in commentArg[i].keys :
          Comments!Live(attachments[k]) \/ DiscardedSince(i, k)

ImagesKept == \A i \in Requests : Comments!Op(i) = "create" => \A k \in commentArg[i].keys :
    /\ commentPc[i] = "attach" => k \in commentHeld[i] \/ Taken(i, k)
    /\ commentPc[i] = "done" => k \in Comments!Shown(i) \/ Taken(i, k) \/ UpdatedAside(i)

\* An update that came later has read of a comment the images it still has.
ImagesRead == \A j \in Requests : Comments!Op(j) = "update" =>
    \A i \in Comments!Done \cap commentBefore[j] :
       Comments!Op(i) = "create" => \A k \in commentArg[i].keys :
          \/ k \in commentHeld[j] <=> commentArg[j].on = i
          \/ Taken(i, k) \/ UpdatedAside(i)

KeptInv == RowsGone /\ ImagesKept /\ ImagesRead

LEMMA InitKeptInv == Comments!Init => KeptInv
BY DEF Comments!Init, KeptInv, RowsGone, ImagesKept, ImagesRead, Comments!Op

\* What a request asks for does not change, so neither does what came since.
LEMMA SinceStays ==
    ASSUME CInv, NEW i \in Requests,
           \A j \in Requests \ {i} :
              commentArg'[j] = commentArg[j] /\ commentBefore'[j] = commentBefore[j],
           \/ UNCHANGED <<commentArg, commentBefore>>
           \/ Comments!Op(i) = "none"
    PROVE  \A j \in Requests : Comments!Op(j) # "none" =>
             /\ Comments!Op(j)' = Comments!Op(j) /\ commentArg'[j] = commentArg[j]
             /\ commentBefore'[j] = commentBefore[j]
             /\ \A c : DeletedSince(j, c) => DeletedSince(j, c)'
             /\ \A k : DiscardedSince(j, k) => DiscardedSince(j, k)'
             /\ \A k : Taken(j, k) => Taken(j, k)'
             /\ UpdatedAside(j) => UpdatedAside(j)'
<1>1. \A j \in Requests : Comments!Op(j) # "none" =>
        /\ Comments!Op(j)' = Comments!Op(j) /\ commentArg'[j] = commentArg[j]
        /\ commentBefore'[j] = commentBefore[j]
  BY DEF Comments!Op
<1>2. QED
  BY <1>1 DEF DeletedSince, DiscardedSince, Taken, UpdatedAside, Comments!Overlap

LEMMA ArriveKeptInv ==
    ASSUME CInv, KeptInv, NEW i \in Requests, CommentArrives(i)
    PROVE  KeptInv'
<1>1. /\ commentPc[i] = "new" /\ Comments!Op(i) = "none" /\ commentPc'[i] \in Comments!Awaits
      /\ commentPc'[i] \notin {"find", "attach", "done"}
      /\ commentPc'[i] = "save" => commentArg'[i].on \in Comments!LiveComments
      /\ commentPc'[i] = "insert" => commentArg'[i].keys \subseteq Comments!LiveKeys
      /\ Comments!Op(i)' = "update" => commentHeld'[i] = Comments!Shown(commentArg'[i].on)
      /\ commentBefore'[i] = {j \in Requests : commentPc[j] \in Over}
      /\ \A j \in Requests \ {i} :
            /\ commentPc'[j] = commentPc[j] /\ commentArg'[j] = commentArg[j]
            /\ commentHeld'[j] = commentHeld[j] /\ commentBefore'[j] = commentBefore[j]
      /\ comments' = comments /\ attachments' = attachments
  <2>a. /\ commentPc[i] = "new" => Comments!Op(i) = "none"
        /\ commentPc \in [Requests -> Comments!Awaits \cup {"new", "done", "failed"}]
        /\ commentHeld \in [Requests -> SUBSET Keys]
        /\ commentBefore \in [Requests -> SUBSET Requests]
    BY DEF CInv, CommentShape, Comments!TypeOK
  <2>1. ASSUME NEW where, NEW op, NEW read, CommentStarts(i, where, op, read)
        PROVE  /\ commentPc[i] = "new" /\ Comments!Op(i) = "none" /\ commentPc'[i] = where
               /\ Comments!Op(i)' = op /\ commentHeld'[i] = read
               /\ commentBefore'[i] = {j \in Requests : commentPc[j] \in Over}
               /\ \A j \in Requests \ {i} :
                     /\ commentPc'[j] = commentPc[j] /\ commentArg'[j] = commentArg[j]
                     /\ commentHeld'[j] = commentHeld[j] /\ commentBefore'[j] = commentBefore[j]
               /\ comments' = comments /\ attachments' = attachments
    BY <2>a, <2>1 DEF CommentStarts
  <2>2. CASE /\ CommentStarts(i, "insert", "create", {})
             /\ commentArg'[i].keys \subseteq Comments!LiveKeys
    BY <2>1, <2>2 DEF Comments!Awaits
  <2>3. CASE /\ CommentStarts(i, "save", "update", Comments!Shown(commentArg'[i].on))
             /\ commentArg'[i].on \in Comments!LiveComments
    <3>1. PICK read : read = Comments!Shown(commentArg'[i].on)
      OBVIOUS
    <3>2. QED
      BY <2>1, <2>3, <3>1 DEF Comments!Awaits
  <2>4. CASE CommentStarts(i, "erase", "delete", {})
    BY <2>1, <2>4 DEF Comments!Awaits
  <2>5. CASE CommentStarts(i, "upload", "complete", {}) \/ CommentStarts(i, "drop", "discard", {})
    BY <2>1, <2>5 DEF Comments!Awaits
  <2>6. QED
    BY <2>2, <2>3, <2>4, <2>5, CommentArriveFacts
<1>2. \A j \in Requests : Comments!Op(j) # "none" =>
        /\ Comments!Op(j)' = Comments!Op(j) /\ commentArg'[j] = commentArg[j]
        /\ commentBefore'[j] = commentBefore[j]
        /\ \A c : DeletedSince(j, c) => DeletedSince(j, c)'
        /\ \A k : DiscardedSince(j, k) => DiscardedSince(j, k)'
        /\ \A k : Taken(j, k) => Taken(j, k)'
        /\ UpdatedAside(j) => UpdatedAside(j)'
  BY <1>1, SinceStays
<1>3. \A j \in Requests \ {i} : /\ Comments!Op(j)' = Comments!Op(j)
                                /\ commentPc[j] # "new" => Comments!Op(j) # "none"
  BY <1>1 DEF Comments!Op, CInv, CommentShape
<1>4. /\ \A c : Comments!Live(comments[c])' = Comments!Live(comments'[c])
      /\ \A c : Comments!Shown(c)' = Comments!Shown(c)
      /\ \A k \in Keys : Comments!Live(attachments'[k]) = Comments!Live(attachments[k])
      /\ \A c : Comments!Live(comments'[c]) = Comments!Live(comments[c])
  BY <1>1 DEF Comments!Shown, Comments!LiveKeys, Comments!Live
<1>5. RowsGone'
  <2> SUFFICES ASSUME NEW j \in Requests
               PROVE  /\ commentPc'[j] = "save" =>
                            \/ Comments!Live(comments'[commentArg'[j].on])
                            \/ DeletedSince(j, commentArg[j].on)'
                      /\ commentPc'[j] \in {"insert", "find", "attach"} =>
                            \A k \in commentArg'[j].keys :
                               Comments!Live(attachments'[k]) \/ DiscardedSince(j, k)'
    BY DEF RowsGone, Comments!Live
  <2>1. CASE j = i
    BY <1>1, <2>1 DEF Comments!LiveComments, Comments!LiveKeys, Comments!Live
  <2>2. CASE j # i
    <3>1. commentArg[j].keys \subseteq Keys /\ commentArg'[j] = commentArg[j]
      BY <1>1, <2>2 DEF CInv, Comments!TypeOK
    <3>2. PICK c : c = commentArg[j].on
      OBVIOUS
    <3>3. DeletedSince(j, commentArg[j].on)' = DeletedSince(j, c)'
      BY <3>1, <3>2
    <3>4. QED
      BY <1>1, <1>2, <1>3, <1>4, <2>2, <3>1, <3>2, <3>3 DEF KeptInv, RowsGone
  <2>3. QED
    BY <2>1, <2>2
<1>6. ImagesKept'
  BY <1>1, <1>2, <1>3, <1>4 DEF KeptInv, ImagesKept
<1>7. ImagesRead'
  <2> SUFFICES ASSUME NEW j \in Requests, Comments!Op(j)' = "update",
                      NEW l \in Comments!Done', l \in commentBefore'[j],
                      Comments!Op(l)' = "create", NEW k \in commentArg'[l].keys
               PROVE  \/ k \in commentHeld'[j] <=> commentArg'[j].on = l
                      \/ Taken(l, k)' \/ UpdatedAside(l)'
    BY DEF ImagesRead
  <2>1. /\ l \in Requests \ {i} /\ l \in Comments!Done /\ commentPc[l] = "done"
        /\ Comments!Op(l) = "create" /\ commentArg'[l] = commentArg[l]
    BY <1>1, <1>3 DEF Comments!Done
  <2>2. CASE j = i
    <3>1. k \in Comments!Shown(l) \/ Taken(l, k) \/ UpdatedAside(l)
      BY <2>1 DEF KeptInv, ImagesKept
    <3>2. k \in Comments!Shown(l) =>
            (k \in Comments!Shown(commentArg'[i].on) <=> commentArg'[i].on = l)
      BY DEF Comments!Shown
    <3>3. QED
      BY <1>1, <1>2, <2>1, <2>2, <3>1, <3>2
  <2>3. CASE j # i
    BY <1>1, <1>2, <1>3, <2>1, <2>3 DEF KeptInv, ImagesRead
  <2>4. QED
    BY <2>2, <2>3
<1>8. QED
  BY <1>5, <1>6, <1>7 DEF KeptInv

LEMMA AdvanceKeptInv ==
    ASSUME CInv, KeptInv, NEW i \in Requests, CommentAdvances(i)
    PROVE  KeptInv'
<1>1. PICK next \in {"find", "attach", "done", "failed"} :
        CommentGoes(i, next) /\ (next # "failed" => <<commentPc[i], next>> \in CommentMoves)
  BY CommentAdvanceFacts
<1>2. /\ commentPc[i] \in Comments!Awaits /\ commentPc[i] \notin Over /\ commentPc[i] # "new"
      /\ commentPc'[i] = next
      /\ \A j \in Requests \ {i} : commentPc'[j] = commentPc[j]
      /\ \A j \in Requests : Comments!Op(j)' = Comments!Op(j)
      /\ UNCHANGED <<commentArg, commentBefore>>
      /\ \A j \in Requests \ {i} : commentHeld'[j] = commentHeld[j]
  BY <1>1, CommentAdvanceFacts, CommentTables DEF CommentGoes, CInv, Comments!TypeOK, Comments!Op,
     Comments!Awaits, Over
<1>3. /\ <<Comments!Op(i), commentPc[i]>> \in CommentStages
      /\ \A j \in Requests : i \notin commentBefore[j]
      /\ \A j \in Requests : commentArg[j].keys \subseteq Keys
      /\ commentHeld[i] \subseteq Keys
      /\ Comments!Op(i) = "create" => commentHeld[i] \subseteq commentArg[i].keys
  BY <1>2 DEF CInv, CommentShape, CommentsBefore, Comments!TypeOK
<1>4. /\ commentPc[i] = "erase" => Comments!Op(i) = "delete"
      /\ commentPc[i] = "drop" => Comments!Op(i) = "discard"
      /\ commentPc[i] = "save" => Comments!Op(i) = "update"
      /\ commentPc[i] \in {"insert", "find", "attach"} <=> Comments!Op(i) = "create"
  BY <1>2, <1>3 DEF CommentStages, Comments!Awaits
<1>5. /\ UNCHANGED <<commentArg, commentBefore>>
      /\ \A j \in Requests : \A c : DeletedSince(j, c)' = DeletedSince(j, c)
      /\ \A j \in Requests, k \in Keys : DiscardedSince(j, k)' = DiscardedSince(j, k)
      /\ \A j \in Requests, k \in Keys : Taken(j, k)' = Taken(j, k)
      /\ \A j \in Requests : UpdatedAside(j)' = UpdatedAside(j)
  BY <1>2 DEF DeletedSince, DiscardedSince, Taken, UpdatedAside, Comments!Overlap
<1>6. RowsGone'
  <2>1. ASSUME NEW j \in Requests, NEW c \in Requests, c = commentArg[j].on,
               commentPc'[j] = "save"
        PROVE  Comments!Live(comments'[c]) \/ DeletedSince(j, c)
    <3>1. j # i /\ commentPc[j] = "save"
      BY <1>2, <2>1
    <3>2. comments[c] # None
      BY <2>1, <3>1 DEF CInv, CommentShape
    <3>3. Comments!Live(comments[c]) \/ DeletedSince(j, c)
      BY <2>1, <3>1 DEF KeptInv, RowsGone
    <3>4. CASE Comments!Live(comments[c]) /\ ~ Comments!Live(comments'[c])
      <4>1. commentPc[i] = "erase" /\ commentArg[i].on = c
        BY <3>2, <3>4, CommentSteps
      <4>2. QED
        BY <1>3, <1>4, <4>1 DEF DeletedSince
    <3>5. QED
      BY <3>3, <3>4
  <2>2. ASSUME NEW j \in Requests, commentPc'[j] \in {"insert", "find", "attach"},
               NEW k \in commentArg[j].keys
        PROVE  Comments!Live(attachments'[k]) \/ DiscardedSince(j, k)
    <3>1. commentPc[j] \in {"insert", "find", "attach"}
      BY <1>1, <1>2, <2>2 DEF CommentMoves
    <3>2. Comments!Live(attachments[k]) \/ DiscardedSince(j, k)
      BY <3>1 DEF KeptInv, RowsGone
    <3>3. CASE Comments!Live(attachments[k]) /\ ~ Comments!Live(attachments'[k])
      <4>1. k \in Keys /\ attachments[k] # None /\ attachments'[k] # attachments[k]
        BY <1>3, <3>3 DEF Comments!Live
      <4>2. commentPc[i] = "drop" /\ k \in commentArg[i].keys
        BY <3>3, <4>1, CommentSteps
      <4>3. QED
        BY <1>3, <1>4, <4>2 DEF DiscardedSince
    <3>4. QED
      BY <3>2, <3>3
  <2>3. ASSUME NEW j \in Requests, commentPc'[j] = "save"
        PROVE  \/ Comments!Live(comments'[commentArg'[j].on])
               \/ DeletedSince(j, commentArg[j].on)'
    <3>1. commentPc[j] = "save"
      BY <1>2, <2>3
    <3>2. PICK c \in Requests : c = commentArg[j].on
      BY <3>1 DEF CInv, CommentShape
    <3>3. DeletedSince(j, commentArg[j].on)' = DeletedSince(j, c)'
      BY <1>2, <3>2
    <3>4. QED
      BY <1>2, <1>5, <2>1, <2>3, <3>2, <3>3
  <2>4. QED
    BY <1>2, <1>3, <1>5, <2>2, <2>3 DEF RowsGone, Comments!Live
<1>7. ImagesKept'
  <2> SUFFICES ASSUME NEW j \in Requests, Comments!Op(j) = "create",
                      NEW k \in commentArg[j].keys, ~ Taken(j, k)
               PROVE  /\ commentPc'[j] = "attach" => k \in commentHeld'[j]
                      /\ commentPc'[j] = "done" =>
                            \/ Comments!Live(attachments'[k]) /\ attachments'[k].of = j
                            \/ UpdatedAside(j)
    BY <1>2, <1>3, <1>5 DEF ImagesKept, Comments!Shown, Comments!LiveKeys
  <2>1. k \in Keys
    BY <1>3
  <2>2. commentPc'[j] = "attach" => k \in commentHeld'[j]
    <3>1. CASE j # i
      BY <1>2, <3>1 DEF KeptInv, ImagesKept
    <3>2. CASE j = i
      <4>1. \A l \in Requests : Comments!Op(l) = "discard" => l # j
        OBVIOUS
      <4>2. commentPc[i] = "find" => Comments!Live(attachments[k])
        BY <3>2, <4>1 DEF KeptInv, RowsGone, DiscardedSince, Taken
      <4>3. QED
        BY <2>1, <3>2, <4>2, CommentSteps DEF Comments!LiveKeys
    <3>3. QED
      BY <3>1, <3>2
  <2>3. ASSUME commentPc'[j] = "done", ~ UpdatedAside(j)
        PROVE  Comments!Live(attachments'[k]) /\ attachments'[k].of = j
    <3>1. CASE j = i
      <4>1. commentPc[i] \in {"insert", "attach"}
        BY <1>1, <1>2, <1>4, <2>3, <3>1 DEF CommentMoves
      <4>2. CASE commentPc[i] = "insert"
        BY <2>3, <3>1, <4>2, CommentSteps
      <4>3. CASE commentPc[i] = "attach"
        <5>1. k \in commentHeld[i]
          BY <3>1, <4>3 DEF KeptInv, ImagesKept
        <5>2. QED
          BY <2>3, <3>1, <4>3, <5>1, CommentSteps
      <4>4. QED
        BY <4>1, <4>2, <4>3
    <3>2. CASE j # i
      <4>1. commentPc[j] = "done" /\ j \in Comments!Done
        BY <1>2, <2>3, <3>2 DEF Comments!Done
      <4>2. Comments!Live(attachments[k]) /\ attachments[k].of = j
        BY <2>3, <4>1 DEF KeptInv, ImagesKept, Comments!Shown, Comments!LiveKeys
      <4>3. attachments[k] # None
        BY <4>2 DEF Comments!Live
      <4>4. CASE attachments'[k] = attachments[k]
        BY <4>2, <4>4
      <4>5. CASE commentPc[i] \in {"attach", "drop"} /\ attachments'[k] # attachments[k]
        <5>1. k \in commentArg[i].keys
          BY <1>3, <1>4, <2>1, <4>3, <4>5, CommentSteps
        <5>2. QED
          BY <1>4, <3>2, <4>5, <5>1 DEF Taken
      <4>6. CASE commentPc[i] = "save" /\ attachments'[k] # attachments[k]
        <5>1. j \in commentBefore[i]
          BY <1>3, <1>4, <2>3, <4>6 DEF UpdatedAside, Comments!Overlap
        <5>2. k \in commentHeld[i] <=> commentArg[i].on = j
          BY <1>4, <2>3, <4>1, <4>6, <5>1 DEF KeptInv, ImagesRead
        <5>3. QED
          BY <2>1, <4>2, <4>3, <4>6, <5>2, CommentSteps
      <4>7. QED
        BY <2>1, <4>3, <4>4, <4>5, <4>6, CommentSteps
    <3>3. QED
      BY <3>1, <3>2
  <2>4. QED
    BY <2>2, <2>3
<1>8. ImagesRead'
  <2> SUFFICES ASSUME NEW j \in Requests, Comments!Op(j) = "update",
                      NEW l \in Comments!Done', l \in commentBefore[j],
                      Comments!Op(l) = "create", NEW k \in commentArg[l].keys,
                      ~ Taken(l, k), ~ UpdatedAside(l)
               PROVE  k \in commentHeld'[j] <=> commentArg[j].on = l
    BY <1>2, <1>3, <1>5 DEF ImagesRead, Comments!Done
  <2>1. l # i /\ l \in Requests /\ l \in Comments!Done
    BY <1>2, <1>3 DEF Comments!Done
  <2>2. commentHeld'[j] = commentHeld[j]
    BY <1>2, <1>4, CommentSteps
  <2>3. QED
    BY <2>1, <2>2 DEF KeptInv, ImagesRead
<1>9. QED
  BY <1>6, <1>7, <1>8 DEF KeptInv

LEMMA QuietKeptInv ==
    ASSUME KeptInv, (\E i \in Requests : Comments!RecordActivity(i)) \/ UNCHANGED Comments!vars
    PROVE  KeptInv'
BY DEF KeptInv, RowsGone, ImagesKept, ImagesRead, DeletedSince, DiscardedSince, Taken, UpdatedAside,
   Comments!RecordActivity, Comments!vars, Comments!tables, Comments!Shown, Comments!LiveKeys,
   Comments!Live, Comments!Overlap, Comments!Op, Comments!Done

LEMMA NextKeptInv == CInv /\ KeptInv /\ [Comments!Next]_(Comments!vars) => KeptInv'
BY CommentNextCases, ArriveKeptInv, AdvanceKeptInv, QuietKeptInv

LEMMA ImagesAreKept == CInv /\ KeptInv => Comments!CommentKeepsItsImages
BY DEF KeptInv, ImagesKept, Taken, UpdatedAside, Comments!CommentKeepsItsImages, Comments!Done

\* What a step that brings a comment, or an attachment, back to life says of the
\* requests.
CommentsRevivedByOverlap ==
    \A c \in Comments!LiveComments' \ Comments!LiveComments : comments[c] # None =>
        \E i, j \in Requests :
           /\ Comments!Op(i) = "update" /\ Comments!Op(j) = "delete"
           /\ commentArg[i].on = c /\ commentArg[j].on = c /\ Comments!Overlap(i, j)
ImagesRevivedByOverlap ==
    \A k \in Comments!LiveKeys' \ Comments!LiveKeys : attachments[k] # None =>
        \E i, j \in Requests :
           /\ Comments!Op(i) = "create" /\ Comments!Op(j) = "discard"
           /\ k \in commentArg[i].keys \cap commentArg[j].keys /\ Comments!Overlap(i, j)

\* A step brings a row back to life only if it saves what its request read
\* before another one deleted it.
LEMMA LifeComesBack ==
    ASSUME CInv, KeptInv, [Comments!Next]_(Comments!vars)
    PROVE  CommentsRevivedByOverlap /\ ImagesRevivedByOverlap
<1> USE DEF CommentsRevivedByOverlap, ImagesRevivedByOverlap
<1>1. CASE UNCHANGED <<comments, attachments>>
  BY <1>1 DEF Comments!LiveComments, Comments!LiveKeys, Comments!Live
<1>2. ASSUME NEW i \in Requests, CommentAdvances(i)
      PROVE  /\ \A c \in Comments!LiveComments' \ Comments!LiveComments : comments[c] # None =>
                   \E j \in Requests :
                      /\ Comments!Op(i) = "update" /\ Comments!Op(j) = "delete"
                      /\ commentArg[i].on = c /\ commentArg[j].on = c /\ Comments!Overlap(i, j)
             /\ \A k \in Comments!LiveKeys' \ Comments!LiveKeys : attachments[k] # None =>
                   \E j \in Requests :
                      /\ Comments!Op(i) = "create" /\ Comments!Op(j) = "discard"
                      /\ k \in commentArg[i].keys \cap commentArg[j].keys
                      /\ Comments!Overlap(i, j)
  <2>1. /\ <<Comments!Op(i), commentPc[i]>> \in CommentStages
        /\ \A j \in Requests : i \notin commentBefore[j]
        /\ Comments!Op(i) = "create" => commentHeld[i] \subseteq commentArg[i].keys
    BY <1>2, CommentAdvanceFacts DEF CInv, CommentShape, CommentsBefore, Comments!Awaits, Over
  <2>2. ASSUME NEW c \in Comments!LiveComments' \ Comments!LiveComments, comments[c] # None
        PROVE  \E j \in Requests :
                  /\ Comments!Op(i) = "update" /\ Comments!Op(j) = "delete"
                  /\ commentArg[i].on = c /\ commentArg[j].on = c /\ Comments!Overlap(i, j)
    <3>1. /\ c \in Requests /\ ~ Comments!Live(comments[c]) /\ Comments!Live(comments'[c])
      BY <2>2 DEF Comments!LiveComments, Comments!Live
    <3>2. commentPc[i] = "save" /\ commentArg[i].on = c
      BY <1>2, <2>2, <3>1, CommentSteps
    <3>3. DeletedSince(i, c)
      BY <3>1, <3>2 DEF KeptInv, RowsGone
    <3>4. QED
      BY <2>1, <3>2, <3>3 DEF DeletedSince, Comments!Overlap, CommentStages
  <2>3. ASSUME NEW k \in Comments!LiveKeys' \ Comments!LiveKeys, attachments[k] # None
        PROVE  \E j \in Requests :
                  /\ Comments!Op(i) = "create" /\ Comments!Op(j) = "discard"
                  /\ k \in commentArg[i].keys \cap commentArg[j].keys
                  /\ Comments!Overlap(i, j)
    <3>1. /\ k \in Keys /\ ~ Comments!Live(attachments[k]) /\ Comments!Live(attachments'[k])
      BY <2>3 DEF Comments!LiveKeys, Comments!Live
    <3>2. commentPc[i] = "attach" /\ k \in commentHeld[i]
      BY <1>2, <2>3, <3>1, CommentSteps
    <3>3. Comments!Op(i) = "create"
      BY <2>1, <3>2 DEF CommentStages
    <3>4. k \in commentArg[i].keys /\ DiscardedSince(i, k)
      BY <2>1, <3>1, <3>2, <3>3 DEF KeptInv, RowsGone
    <3>5. QED
      BY <2>1, <3>3, <3>4 DEF DiscardedSince, Comments!Overlap
  <2>4. QED
    BY <2>2, <2>3
<1>3. ASSUME NEW i \in Requests, CommentArrives(i) PROVE UNCHANGED <<comments, attachments>>
  BY <1>3, CommentArriveFacts DEF CommentStarts
<1>4. ASSUME NEW i \in Requests, Comments!RecordActivity(i)
      PROVE  UNCHANGED <<comments, attachments>>
  BY <1>4 DEF Comments!RecordActivity
<1>5. UNCHANGED Comments!vars => UNCHANGED <<comments, attachments>>
  BY DEF Comments!vars, Comments!tables
<1>6. QED
  BY <1>1, <1>2, <1>3, <1>4, <1>5, CommentNextCases

-----------------------------------------------------------------------------
\* A comment that was answered keeps its images until they are taken by name
\* or an update overlaps, and what was deleted stays deleted unless requests
\* overlapped, for any number of requests and storage keys.
THEOREM CommentsKept == MCSpec => CommentsAreKept
<1>1. MCInit => CInv /\ KeptInv
  BY InitOfEach, InitCInv, InitKeptInv
<1>2. CInv /\ KeptInv /\ [MCNext]_allVars => (CInv /\ KeptInv)'
  BY StepOfEach, CommentNextInv, NextKeptInv
<1>3. CInv /\ KeptInv => Comments!CommentKeepsItsImages
  BY ImagesAreKept
<1>4. CInv /\ KeptInv /\ [MCNext]_allVars =>
        [CommentsRevivedByOverlap /\ ImagesRevivedByOverlap]_(Comments!tables)
  BY StepOfEach, LifeComesBack
<1>5. [][CommentsRevivedByOverlap /\ ImagesRevivedByOverlap]_(Comments!tables) =>
        Comments!DeletedStaysDeleted
  BY PTL DEF Comments!DeletedStaysDeleted, CommentsRevivedByOverlap, ImagesRevivedByOverlap
<1>6. QED
  BY <1>1, <1>2, <1>3, <1>4, <1>5, PTL DEF MCSpec, allVars, CommentsAreKept

\* The rows of all three components have their types and refer to rows that
\* were there, and every activity is told of once.
THEOREM ServicesTypes == MCSpec => []ServicesTypeOK
<1>1. MCInit => TInv /\ JInv /\ CInv
  BY InitOfEach, InitTInv, InitJInv, InitCInv
<1>2. TInv /\ JInv /\ CInv /\ [MCNext]_allVars => (TInv /\ JInv /\ CInv)'
  BY StepOfEach, NextTInv, JiraNextInv, CommentNextInv
<1>3. TInv /\ JInv /\ CInv => ServicesTypeOK
  BY DEF ServicesTypeOK, TInv, JInv, CInv
<1>4. QED
  BY <1>1, <1>2, <1>3, PTL DEF MCSpec, allVars

-----------------------------------------------------------------------------
(***************************************************************************)
(* UserPages.  In the order of a page everybody has a rank, the number of  *)
(* those who are newer, and no two have the same.                          *)
(***************************************************************************)
Sorted(seq) == \A i, j \in 1 .. Len(seq) : i < j => seq[i] > seq[j]
Shows(seq, t) == \E k \in 1 .. Len(seq) : seq[k] = t

LEMMA SameCount == \A S : Pages!Cardinality(S) = Cardinality(S)
BY DEF Pages!Cardinality, Cardinality

LEMMA Ranked ==
    ASSUME NEW S \in SUBSET Times
    PROVE  /\ Pages!Descending(S) \in Seq(S)
           /\ Len(Pages!Descending(S)) = Cardinality(S)
           /\ Sorted(Pages!Descending(S))
           /\ \A t \in S : Shows(Pages!Descending(S), t)
<1> DEFINE newer(t) == {u \in S : u > t}
           n == Cardinality(S)
           r == [t \in S |-> Cardinality(newer(t)) + 1]
           s == Pages!Descending(S)
<1>1. S \subseteq Nat /\ IsFiniteSet(S) /\ n \in Nat
  BY PagesAssumption, FS_Subset, FS_CardinalityType
<1>2. ASSUME NEW t \in S
      PROVE  /\ IsFiniteSet(newer(t)) /\ Cardinality(newer(t)) \in Nat
             /\ Cardinality(newer(t)) < n
  <2>1. newer(t) \in SUBSET S
    OBVIOUS
  <2>2. t \notin newer(t)
    BY <1>1
  <2> HIDE DEF newer
  <2>3. IsFiniteSet(newer(t)) /\ Cardinality(newer(t)) <= n /\ Cardinality(newer(t)) # n
    BY <1>1, <2>1, <2>2, FS_Subset
  <2>4. Cardinality(newer(t)) \in Nat
    BY <2>3, FS_CardinalityType
  <2>5. QED
    BY <1>1, <2>3, <2>4
<1>3. ASSUME NEW t \in S, NEW u \in S, t < u
      PROVE  r[u] < r[t]
  <2>0. t \in Nat /\ u \in Nat /\ \A v \in S : v \in Nat
    BY <1>1
  <2>1. newer(u) \in SUBSET newer(t) /\ u \in newer(t) /\ u \notin newer(u)
    <3>1. \A v \in S : v > u => v > t
      BY <1>3, <2>0
    <3>2. u > t /\ ~ (u > u)
      BY <1>3, <2>0
    <3>3. QED
      BY <3>1, <3>2
  <2>2. IsFiniteSet(newer(t)) /\ Cardinality(newer(t)) \in Nat /\ Cardinality(newer(u)) \in Nat
    BY <1>2
  <2>3. r[u] = Cardinality(newer(u)) + 1 /\ r[t] = Cardinality(newer(t)) + 1
    OBVIOUS
  <2> HIDE DEF newer, r
  <2>4. Cardinality(newer(u)) <= Cardinality(newer(t))
        /\ Cardinality(newer(u)) # Cardinality(newer(t))
    BY <2>1, <2>2, FS_Subset
  <2>5. QED
    BY <2>2, <2>3, <2>4
<1>4. r \in [S -> 1 .. n]
  BY <1>1, <1>2
<1>5. \A t, u \in S : r[t] = r[u] => t = u
  <2> HIDE DEF r
  <2>1. QED
    BY <1>1, <1>3, <1>4
<1>6. \A k \in 1 .. n : \E t \in S : r[t] = k
  <2>1. r \in Injection(S, 1 .. n)
    <3> HIDE DEF r
    <3>1. QED
      BY <1>4, <1>5 DEF Injection, IsInjective
  <2>2. IsFiniteSet(1 .. n) /\ Cardinality(1 .. n) = n
    BY <1>1, FS_Interval
  <2>3. r \in Surjection(S, 1 .. n)
    BY <2>1, <2>2, FS_Injection
  <2>4. QED
    BY <2>3 DEF Surjection
<1>7. ASSUME NEW k \in 1 .. n
      PROVE  s[k] \in S /\ r[s[k]] = k
  <2>1. s[k] = Pages!Nth(S, k)
    BY SameCount DEF Pages!Descending
  <2>2. PICK t \in S : r[t] = k
    BY <1>6
  <2>3. Cardinality(newer(t)) = k - 1
    <3>1. Cardinality(newer(t)) + 1 = k
      BY <2>2
    <3> HIDE DEF newer
    <3>2. QED
      BY <1>2, <3>1
  <2>4. \E v \in S : Pages!Cardinality({u \in S : u > v}) = k - 1
    BY <2>3, SameCount
  <2>5. /\ Pages!Nth(S, k) \in S
        /\ Pages!Cardinality({u \in S : u > Pages!Nth(S, k)}) = k - 1
    BY <2>4, Zenon DEF Pages!Nth
  <2>6. Cardinality(newer(Pages!Nth(S, k))) = k - 1
    BY <2>5, SameCount
  <2> HIDE DEF newer, s
  <2>7. QED
    BY <1>1, <2>1, <2>5, <2>6
<1>8. s = [k \in 1 .. n |-> Pages!Nth(S, k)]
  BY SameCount DEF Pages!Descending
<1> HIDE DEF r, s, newer
<1>9. s \in Seq(S) /\ Len(s) = n
  BY <1>1, <1>7, <1>8
<1>10. Sorted(s)
  <2>1. SUFFICES ASSUME NEW i \in 1 .. n, NEW j \in 1 .. n, i < j
                 PROVE  s[i] > s[j]
    BY <1>9 DEF Sorted
  <2>2. s[i] \in S /\ s[j] \in S /\ r[s[i]] = i /\ r[s[j]] = j
    BY <1>7
  <2>3. s[i] # s[j] /\ ~ (s[i] < s[j])
    <3>1. s[i] < s[j] => r[s[j]] < r[s[i]]
      BY <1>3, <2>2
    <3>2. QED
      BY <2>1, <2>2, <3>1
  <2>4. s[i] \in Nat /\ s[j] \in Nat
    BY <1>1, <2>2
  <2>5. QED
    BY <2>3, <2>4
<1>11. \A t \in S : Shows(s, t)
  <2>1. SUFFICES ASSUME NEW t \in S PROVE s[r[t]] = t /\ r[t] \in 1 .. n
    BY <1>9 DEF Shows
  <2>2. r[t] \in 1 .. n
    BY <1>4
  <2>3. QED
    BY <1>5, <1>7, <2>2
<1>12. QED
  BY <1>9, <1>10, <1>11 DEF s


\* A later microsecond is in no earlier millisecond.
LEMMA MilliGrows ==
    ASSUME NEW t \in Times, NEW u \in Times
    PROVE  /\ Pages!Milli(t) \in Nat
           /\ t <= u => Pages!Milli(t) <= Pages!Milli(u)
           /\ Pages!Milli(t) < Pages!Milli(u) => t < u
<1>1. t \in Nat /\ u \in Nat /\ PerMilli \in Nat /\ PerMilli > 0
  BY PagesAssumption
<1>2. PICK p : p = t \div PerMilli
  OBVIOUS
<1>3. PICK q : q = u \div PerMilli
  OBVIOUS
<1>4. /\ p \in Nat /\ PerMilli * p <= t /\ t < PerMilli * p + PerMilli
      /\ q \in Nat /\ PerMilli * q <= u /\ u < PerMilli * q + PerMilli
  BY <1>1, <1>2, <1>3
<1>5. ASSUME t <= u, p > q
      PROVE  FALSE
  <2>1. PerMilli * p >= PerMilli * (q + 1)
    BY <1>1, <1>4, <1>5
  <2>2. PerMilli * (q + 1) = PerMilli * q + PerMilli
    BY <1>1, <1>4
  <2>3. QED
    BY <1>1, <1>4, <1>5, <2>1, <2>2
<1>6. QED
  BY <1>1, <1>2, <1>3, <1>4, <1>5 DEF Pages!Milli

LEMMA MilliOfTime ==
    ASSUME NEW t \in Times
    PROVE  Pages!Milli(t) \in Pages!Millis /\ Pages!Milli(t) # None
BY MilliGrows, PagesAssumption DEF Pages!Millis

\* The rows of a page: the newest of those that were found, ...
LEMMA Newest ==
    ASSUME NEW S \in SUBSET Times
    PROVE  LET seq == Pages!Take(Pages!Descending(S), Limit) IN
           /\ seq \in Seq(S) /\ Len(seq) <= Limit /\ Sorted(seq)
           /\ Len(Pages!Descending(S)) <= Limit => \A t \in S : Shows(seq, t)
           /\ Len(Pages!Descending(S)) > Limit =>
                 /\ seq # <<>>
                 /\ \A t \in S : Shows(seq, t) \/ t < seq[Len(seq)]
<1>1. PICK all : all = Pages!Descending(S)
  OBVIOUS
<1>2. PICK seq : seq = Pages!Take(all, Limit)
  OBVIOUS
<1>3. /\ all \in Seq(S) /\ Sorted(all) /\ \A t \in S : Shows(all, t)
      /\ S \subseteq Nat /\ Limit \in Nat /\ Limit > 0
  BY <1>1, Ranked, PagesAssumption
<1>4. PICK n : n = IF Len(all) < Limit THEN Len(all) ELSE Limit
  OBVIOUS
<1>5. n \in Nat /\ n <= Len(all) /\ n <= Limit /\ Len(all) \in Nat
  BY <1>3, <1>4
<1>6. seq = SubSeq(all, 1, n)
  BY <1>2, <1>4 DEF Pages!Take
<1>7. seq \in Seq(S) /\ Len(seq) = n /\ \A k \in 1 .. n : seq[k] = all[k]
  BY <1>3, <1>5, <1>6
<1>8. Sorted(seq)
  BY <1>3, <1>5, <1>7 DEF Sorted
<1>9. ASSUME Len(all) <= Limit, NEW t \in S
      PROVE  Shows(seq, t)
  BY <1>3, <1>4, <1>5, <1>7, <1>9 DEF Shows
<1>10. ASSUME Len(all) > Limit
       PROVE  seq # <<>> /\ \A t \in S : Shows(seq, t) \/ t < seq[Len(seq)]
  <2>1. n = Limit /\ seq # <<>> /\ seq[n] = all[n]
    BY <1>3, <1>4, <1>5, <1>7, <1>10
  <2>2. ASSUME NEW t \in S, ~ Shows(seq, t)
        PROVE  t < seq[Len(seq)]
    <3>1. PICK k \in 1 .. Len(all) : all[k] = t
      BY <1>3 DEF Shows
    <3>2. k > n
      BY <1>5, <1>7, <2>2, <3>1 DEF Shows
    <3>3. n \in 1 .. Len(all) /\ n < k
      BY <1>3, <1>5, <2>1, <3>2
    <3>4. all[n] > all[k] /\ all[n] \in S /\ all[k] \in S
      BY <1>3, <3>1, <3>3 DEF Sorted
    <3>5. all[n] \in Nat /\ all[k] \in Nat
      BY <1>3, <3>4
    <3>6. QED
      BY <1>7, <2>1, <3>1, <3>4, <3>5
  <2>3. QED
    BY <2>1, <2>2
<1>11. QED
  BY <1>1, <1>2, <1>5, <1>7, <1>8, <1>9, <1>10

\* ... or, going back, the oldest, and the newest of them first again.
LEMMA Oldest ==
    ASSUME NEW S \in SUBSET Times
    PROVE  LET seq == Pages!Reverse(Pages!Take(Pages!Ascending(S), Limit)) IN
           /\ seq \in Seq(S) /\ Len(seq) <= Limit /\ Sorted(seq)
           /\ \A t \in S : Shows(seq, t) \/ \A k \in 1 .. Len(seq) : seq[k] < t
<1>1. PICK all : all = Pages!Descending(S)
  OBVIOUS
<1>2. PICK up : up = Pages!Ascending(S)
  OBVIOUS
<1>3. PICK some : some = Pages!Take(up, Limit)
  OBVIOUS
<1>4. PICK seq : seq = Pages!Reverse(some)
  OBVIOUS
<1>5. /\ all \in Seq(S) /\ Sorted(all) /\ \A t \in S : Shows(all, t)
      /\ S \subseteq Nat /\ Limit \in Nat /\ Limit > 0
  BY <1>1, Ranked, PagesAssumption
<1>6. PICK m : m = Len(all)
  OBVIOUS
<1>7. PICK n : n = IF m < Limit THEN m ELSE Limit
  OBVIOUS
<1>8. m \in Nat /\ n \in Nat /\ n <= m /\ n <= Limit
  BY <1>5, <1>6, <1>7
<1>9. up = [k \in 1 .. m |-> all[(m - k) + 1]]
  BY <1>1, <1>2, <1>6 DEF Pages!Ascending, Pages!Reverse
<1>10. up \in Seq(S) /\ Len(up) = m /\ \A k \in 1 .. m : up[k] = all[(m - k) + 1]
  <2>1. \A k \in 1 .. m : all[(m - k) + 1] \in S
    BY <1>5, <1>6, <1>8
  <2>2. QED
    BY <1>8, <1>9, <2>1
<1>11. some = SubSeq(up, 1, n)
  BY <1>3, <1>7, <1>10 DEF Pages!Take
<1>12. some \in Seq(S) /\ Len(some) = n /\ \A k \in 1 .. n : some[k] = up[k]
  BY <1>8, <1>10, <1>11
<1>13. seq = [k \in 1 .. n |-> some[(n - k) + 1]]
  BY <1>4, <1>12 DEF Pages!Reverse
<1>14. /\ seq \in Seq(S) /\ Len(seq) = n
       /\ \A k \in 1 .. n : seq[k] = all[(m - n) + k]
  <2>1. ASSUME NEW k \in 1 .. n
        PROVE  some[(n - k) + 1] \in S /\ some[(n - k) + 1] = all[(m - n) + k]
    <3>1. (n - k) + 1 \in 1 .. n /\ (n - k) + 1 \in 1 .. m
      BY <1>8
    <3>2. some[(n - k) + 1] = all[(m - ((n - k) + 1)) + 1]
      BY <1>10, <1>12, <3>1
    <3>3. (m - ((n - k) + 1)) + 1 = (m - n) + k
      BY <1>8
    <3>4. QED
      BY <1>12, <3>1, <3>2, <3>3
  <2>2. QED
    BY <1>8, <1>13, <2>1
<1>15. Sorted(seq)
  <2>1. SUFFICES ASSUME NEW i \in 1 .. n, NEW j \in 1 .. n, i < j
                 PROVE  seq[i] > seq[j]
    BY <1>14 DEF Sorted
  <2>2. /\ (m - n) + i \in 1 .. m /\ (m - n) + j \in 1 .. m
        /\ (m - n) + i < (m - n) + j
    BY <1>8, <2>1
  <2>3. all[(m - n) + i] > all[(m - n) + j]
    BY <1>5, <1>6, <2>2 DEF Sorted
  <2>4. QED
    BY <1>14, <2>3
<1>16. ASSUME NEW t \in S, ~ Shows(seq, t), NEW k \in 1 .. n
       PROVE  seq[k] < t
  <2>1. PICK l \in 1 .. m : all[l] = t
    BY <1>5, <1>6, <1>16 DEF Shows
  <2>2. l <= m - n
    <3>1. SUFFICES ASSUME l > m - n PROVE FALSE
      BY <1>8, <2>1
    <3>2. l - (m - n) \in 1 .. n /\ (m - n) + (l - (m - n)) = l
      BY <1>8, <2>1, <3>1
    <3>3. seq[l - (m - n)] = t
      BY <1>14, <2>1, <3>2
    <3>4. QED
      BY <1>14, <1>16, <3>2, <3>3 DEF Shows
  <2>3. (m - n) + k \in 1 .. m /\ l < (m - n) + k
    BY <1>8, <2>1, <2>2
  <2>4. /\ all[l] > all[(m - n) + k]
        /\ all[l] \in S /\ all[(m - n) + k] \in S
    BY <1>5, <1>6, <2>1, <2>3 DEF Sorted
  <2>5. all[l] \in Nat /\ all[(m - n) + k] \in Nat
    BY <1>5, <2>4
  <2>6. QED
    BY <1>14, <2>1, <2>4, <2>5
<1>17. QED
  BY <1>2, <1>3, <1>4, <1>8, <1>14, <1>15, <1>16


(***************************************************************************)
(* What a walk has shown is in order and, up to its cursor and what shares *)
(* a millisecond with a page's end, all that there was when it began.      *)
(***************************************************************************)
LastOf(seq) == seq[Len(seq)]

Cursors ==
    /\ afterCursor # None => page # <<>> /\ afterCursor = Pages!Milli(LastOf(page))
    /\ beforeCursor # None => page # <<>> /\ beforeCursor = Pages!Milli(page[1])

\* Shown, or left out where a page ends.
Covered(t) ==
    \/ Shows(walked, t)
    \/ \E k \in 1 .. Len(walked) :
          Pages!Milli(walked[k]) = Pages!Milli(t) /\ Pages!Milli(t) \in ends

WalkInOrder == forward =>
    /\ Sorted(walked)
    /\ afterCursor # None => walked # <<>> /\ LastOf(walked) = LastOf(page)

WalkComplete == forward => \A t \in known \ removed :
    Covered(t) \/ (afterCursor # None /\ Pages!Milli(t) <= afterCursor)

PInv == /\ Pages!TypeOK /\ Sorted(page) /\ Cursors
        /\ WalkInOrder /\ WalkComplete
        /\ known \subseteq users \cup removed

LEMMA InitPInv == Pages!Init => PInv
<1>1. SUFFICES ASSUME Pages!Init PROVE PInv
  OBVIOUS
<1>2. Pages!TypeOK
  BY <1>1, PagesAssumption DEF Pages!Init, Pages!TypeOK
<1>3. QED
  BY <1>1, <1>2 DEF Pages!Init, PInv, Sorted, Cursors, WalkInOrder, WalkComplete

\* The page that a client gets who comes with no cursor or an afterCursor, ...
LEMMA LoadedForward ==
    ASSUME users \subseteq Times, NEW ac \in Pages!Millis \cup {None},
           Pages!Load(ac, None), NEW S, S = IF ac = None THEN users ELSE Pages!Older(ac)
    PROVE  /\ S \subseteq users /\ (ac # None => \A t \in S : Pages!Milli(t) < ac)
           /\ page' \in Seq(S) /\ Len(page') <= Limit /\ Sorted(page') /\ Cursors'
           /\ afterCursor' \in Pages!Millis \cup {None}
           /\ beforeCursor' \in Pages!Millis \cup {None}
           /\ \A t \in S : \/ Shows(page', t)
                           \/ afterCursor' # None /\ t < LastOf(page')
<1>1. /\ S \subseteq users /\ S \in SUBSET Times
      /\ ac # None => \A t \in S : Pages!Milli(t) < ac
  BY DEF Pages!Older
<1>2. PICK all : all = Pages!Descending(S)
  OBVIOUS
<1>3. Pages!Found(ac, None) = all
  BY <1>2 DEF Pages!Found
<1>4. PICK seq : seq = Pages!Take(all, Limit)
  OBVIOUS
<1>5. Pages!Rows(ac, None) = seq /\ (Pages!HasMore(ac, None) <=> Len(all) > Limit)
  BY <1>3, <1>4 DEF Pages!Rows, Pages!HasMore
<1>6. /\ page' = seq
      /\ afterCursor' = IF seq # <<>> /\ Len(all) > Limit THEN Pages!Milli(LastOf(seq)) ELSE None
      /\ beforeCursor' = IF seq # <<>> /\ ac # None THEN Pages!Milli(seq[1]) ELSE None
  BY <1>5 DEF Pages!Load, Pages!NextAfter, Pages!NextBefore, LastOf
<1>7. /\ seq \in Seq(S) /\ Len(seq) <= Limit /\ Sorted(seq)
      /\ Len(all) <= Limit => \A t \in S : Shows(seq, t)
      /\ Len(all) > Limit =>
            /\ seq # <<>>
            /\ \A t \in S : Shows(seq, t) \/ t < LastOf(seq)
  BY <1>1, <1>2, <1>4, Newest DEF LastOf
<1>8. seq # <<>> => seq[1] \in Times /\ LastOf(seq) \in Times
  BY <1>1, <1>7 DEF LastOf
<1>9. /\ seq # <<>> => /\ Pages!Milli(seq[1]) \in Pages!Millis
                       /\ Pages!Milli(LastOf(seq)) \in Pages!Millis
                       /\ Pages!Milli(LastOf(seq)) # None
  BY <1>8, MilliOfTime
<1>10. Len(all) \in Nat /\ Limit \in Nat
  <2>1. all \in Seq(S)
    BY <1>1, <1>2, Ranked
  <2>2. QED
    BY <2>1, PagesAssumption
<1>11. Cursors'
  BY <1>6 DEF Cursors
<1>12. \A t \in S : \/ Shows(page', t)
                    \/ afterCursor' # None /\ t < LastOf(page')
  BY <1>6, <1>7, <1>9, <1>10
<1>13. QED
  BY <1>1, <1>6, <1>7, <1>9, <1>11, <1>12

\* ... and who goes back.
LEMMA LoadedBack ==
    ASSUME users \subseteq Times, NEW bc \in Pages!Millis, Pages!Load(None, bc)
    PROVE  /\ page' \in Seq(Pages!Newer(bc)) /\ Len(page') <= Limit /\ Sorted(page')
           /\ Cursors'
           /\ afterCursor' \in Pages!Millis \cup {None}
           /\ beforeCursor' \in Pages!Millis \cup {None}
           /\ \A t \in Pages!Newer(bc) :
                 Shows(page', t) \/ \A k \in 1 .. Len(page') : page'[k] < t
<1>1. PICK S : S = Pages!Newer(bc)
  OBVIOUS
<1>2. S \in SUBSET Times /\ bc # None
  <2>1. \A t \in Times : Pages!Milli(t) # None
    BY MilliOfTime
  <2>2. QED
    BY <1>1, <2>1 DEF Pages!Newer, Pages!Millis
<1>3. Pages!Found(None, bc) = Pages!Ascending(S)
  BY <1>1, <1>2 DEF Pages!Found
<1>4. PICK seq : seq = Pages!Reverse(Pages!Take(Pages!Ascending(S), Limit))
  OBVIOUS
<1>5. Pages!Rows(None, bc) = seq
  BY <1>2, <1>3, <1>4 DEF Pages!Rows
<1>6. PICK more \in BOOLEAN : more <=> Pages!HasMore(None, bc)
  OBVIOUS
<1>7. /\ page' = seq
      /\ afterCursor' = IF seq # <<>> THEN Pages!Milli(LastOf(seq)) ELSE None
      /\ beforeCursor' = IF seq # <<>> /\ more THEN Pages!Milli(seq[1]) ELSE None
  BY <1>2, <1>5, <1>6 DEF Pages!Load, Pages!NextAfter, Pages!NextBefore, LastOf
<1>8. /\ seq \in Seq(S) /\ Len(seq) <= Limit /\ Sorted(seq)
      /\ \A t \in S : Shows(seq, t) \/ \A k \in 1 .. Len(seq) : seq[k] < t
  BY <1>2, <1>4, Oldest
<1>9. seq # <<>> => seq[1] \in Times /\ LastOf(seq) \in Times
  BY <1>2, <1>8 DEF LastOf
<1>10. seq # <<>> => /\ Pages!Milli(seq[1]) \in Pages!Millis
                     /\ Pages!Milli(LastOf(seq)) \in Pages!Millis
  BY <1>9, MilliOfTime
<1>11. Cursors'
  BY <1>7 DEF Cursors
<1>12. QED
  BY <1>1, <1>7, <1>8, <1>10, <1>11


LEMMA FirstPInv ==
    ASSUME PInv, Pages!First
    PROVE  PInv'
<1>1. /\ Pages!Load(None, None) /\ UNCHANGED <<users, removed>>
      /\ walked' = page' /\ ends' = {} /\ forward' = TRUE /\ known' = users
  BY DEF Pages!First, Pages!Load
<1>2. users \subseteq Times
  BY DEF PInv, Pages!TypeOK
<1>3. /\ page' \in Seq(users) /\ Len(page') <= Limit /\ Sorted(page') /\ Cursors'
      /\ afterCursor' \in Pages!Millis \cup {None}
      /\ beforeCursor' \in Pages!Millis \cup {None}
      /\ \A t \in users : \/ Shows(page', t)
                          \/ afterCursor' # None /\ t < LastOf(page')
  BY <1>1, <1>2, LoadedForward
<1>4. Pages!TypeOK'
  BY <1>1, <1>2, <1>3 DEF PInv, Pages!TypeOK
<1>5. Sorted(page)' /\ WalkInOrder'
  BY <1>1, <1>3 DEF WalkInOrder, Sorted, Cursors
<1>6. WalkComplete'
  <2>1. SUFFICES ASSUME NEW t \in users, ~ Shows(walked', t)
                 PROVE  afterCursor' # None /\ Pages!Milli(t) <= afterCursor'
    BY <1>1 DEF WalkComplete, Covered, Shows
  <2>2. afterCursor' # None /\ t < LastOf(page')
    BY <1>1, <1>3, <2>1
  <2>3. page' # <<>> /\ afterCursor' = Pages!Milli(LastOf(page'))
    BY <1>3, <2>2 DEF Cursors, LastOf
  <2>4. LastOf(page') \in Times /\ t \in Times
    BY <1>2, <1>3, <2>3 DEF LastOf
  <2>5. t <= LastOf(page')
    <3>1. t \in Nat /\ LastOf(page') \in Nat
      BY <2>4, PagesAssumption
    <3>2. QED
      BY <2>2, <3>1
  <2>6. QED
    BY <2>2, <2>3, <2>4, <2>5, MilliGrows
<1>7. (known \subseteq users \cup removed)'
  BY <1>1
<1>8. QED
  BY <1>3, <1>4, <1>5, <1>6, <1>7 DEF PInv

\* What a page forward shows is older than all that the page before showed.
LEMMA ForwardOlder ==
    ASSUME PInv, Pages!Forward
    PROVE  /\ page' \in Seq(users) /\ Len(page') <= Limit /\ Sorted(page') /\ Cursors'
           /\ afterCursor' \in Pages!Millis \cup {None}
           /\ beforeCursor' \in Pages!Millis \cup {None}
           /\ \A k \in 1 .. Len(page') : Pages!Milli(page'[k]) < afterCursor
           /\ \A t \in users : Pages!Milli(t) < afterCursor =>
                 \/ Shows(page', t)
                 \/ afterCursor' # None /\ t < LastOf(page')
<1>1. afterCursor # None /\ Pages!Load(afterCursor, None)
  BY DEF Pages!Forward
<1>2. users \subseteq Times /\ afterCursor \in Pages!Millis \cup {None}
  BY DEF PInv, Pages!TypeOK
<1>3. PICK S : S = Pages!Older(afterCursor)
  OBVIOUS
<1>4. /\ S \subseteq users /\ \A t \in S : Pages!Milli(t) < afterCursor
      /\ page' \in Seq(S) /\ Len(page') <= Limit /\ Sorted(page') /\ Cursors'
      /\ afterCursor' \in Pages!Millis \cup {None}
      /\ beforeCursor' \in Pages!Millis \cup {None}
      /\ \A t \in S : \/ Shows(page', t)
                      \/ afterCursor' # None /\ t < LastOf(page')
  BY <1>1, <1>2, <1>3, LoadedForward
<1>5. page' \in Seq(users) /\ \A k \in 1 .. Len(page') : page'[k] \in S
  BY <1>4
<1>6. \A t \in users : Pages!Milli(t) < afterCursor => t \in S
  BY <1>3 DEF Pages!Older
<1>7. QED
  BY <1>4, <1>5, <1>6

LEMMA ForwardPInv ==
    ASSUME PInv, Pages!Forward
    PROVE  PInv'
<1>1. /\ afterCursor # None /\ UNCHANGED <<users, removed, forward, known>>
      /\ walked' = walked \o page' /\ ends' = ends \cup {afterCursor}
  BY DEF Pages!Forward, Pages!Load
<1>2. /\ users \subseteq Times /\ Times \subseteq Nat
      /\ walked \in Seq(Times) /\ ends \subseteq Pages!Millis /\ known \subseteq Times
      /\ page \in Seq(Times) /\ afterCursor \in Pages!Millis
  BY <1>1, PagesAssumption DEF PInv, Pages!TypeOK
<1>3. /\ page' \in Seq(users) /\ Len(page') <= Limit /\ Sorted(page') /\ Cursors'
      /\ afterCursor' \in Pages!Millis \cup {None}
      /\ beforeCursor' \in Pages!Millis \cup {None}
      /\ \A k \in 1 .. Len(page') : Pages!Milli(page'[k]) < afterCursor
      /\ \A t \in users : Pages!Milli(t) < afterCursor =>
            \/ Shows(page', t)
            \/ afterCursor' # None /\ t < LastOf(page')
  BY ForwardOlder
<1>4. page' \in Seq(Times) /\ walked' \in Seq(Times)
  <2>1. page' \in Seq(users) /\ users \subseteq Times
    BY <1>2, <1>3
  <2>2. page' \in Seq(Times)
    BY <2>1
  <2>3. QED
    BY <1>1, <1>2, <2>2
<1>5. Pages!TypeOK'
  BY <1>1, <1>2, <1>3, <1>4 DEF PInv, Pages!TypeOK
<1>6. PICK m : m = Len(walked)
  OBVIOUS
<1>7. PICK n : n = Len(page')
  OBVIOUS
<1>8. /\ m \in Nat /\ n \in Nat /\ Len(walked') = m + n
      /\ \A k \in 1 .. m : walked'[k] = walked[k]
      /\ \A k \in 1 .. n : walked'[m + k] = page'[k]
      /\ \A k \in 1 .. m + n : k > m => k - m \in 1 .. n /\ walked'[k] = page'[k - m]
  BY <1>1, <1>2, <1>4, <1>6, <1>7
<1>9. \A t : Shows(walked, t) => Shows(walked', t)
  BY <1>6, <1>8 DEF Shows
<1>10. \A t : Shows(page', t) => Shows(walked', t)
  <2>1. ASSUME NEW k \in 1 .. n
        PROVE  m + k \in 1 .. Len(walked') /\ walked'[m + k] = page'[k]
    BY <1>8
  <2>2. QED
    BY <1>7, <2>1 DEF Shows
<1>11. page # <<>> /\ afterCursor = Pages!Milli(LastOf(page))
  BY <1>1 DEF PInv, Cursors
<1>12. ASSUME forward
       PROVE  /\ Sorted(walked) /\ walked # <<>> /\ m \in 1 .. m
              /\ walked[m] \in Times /\ Pages!Milli(walked[m]) = afterCursor
  <2>1. Sorted(walked) /\ walked # <<>> /\ LastOf(walked) = LastOf(page)
    BY <1>1, <1>12 DEF PInv, WalkInOrder
  <2>2. m \in 1 .. m /\ walked[m] \in Times
    BY <1>2, <1>6, <1>8, <2>1
  <2>3. QED
    BY <1>6, <1>11, <2>1, <2>2 DEF LastOf
<1>13. WalkInOrder'
  <2>1. SUFFICES ASSUME forward PROVE WalkInOrder'
    BY <1>1 DEF WalkInOrder
  <2>2. ASSUME NEW i \in 1 .. m + n, NEW j \in 1 .. m + n, i < j
        PROVE  walked'[i] > walked'[j]
    <3>1. CASE j <= m
      <4>1. i \in 1 .. m /\ j \in 1 .. m
        BY <1>8, <2>2, <3>1
      <4>2. walked[i] > walked[j]
        BY <1>6, <1>12, <2>1, <2>2, <4>1 DEF Sorted
      <4>3. QED
        BY <1>8, <4>1, <4>2
    <3>2. CASE i > m
      <4>1. i - m \in 1 .. n /\ j - m \in 1 .. n /\ i - m < j - m
        BY <1>8, <2>2, <3>2
      <4>2. page'[i - m] > page'[j - m]
        BY <1>3, <1>7, <4>1 DEF Sorted
      <4>3. walked'[i] = page'[i - m] /\ walked'[j] = page'[j - m]
        BY <1>8, <2>2, <3>2
      <4>4. QED
        BY <4>2, <4>3
    <3>3. CASE i <= m /\ j > m
      <4>1. i \in 1 .. m /\ j - m \in 1 .. n
        BY <1>8, <2>2, <3>3
      <4>2. walked'[i] = walked[i] /\ walked'[j] = page'[j - m]
        BY <1>8, <2>2, <3>3, <4>1
      <4>3. walked[i] \in Times /\ page'[j - m] \in Times
        BY <1>2, <1>4, <1>6, <1>7, <4>1
      <4>4. Pages!Milli(page'[j - m]) < Pages!Milli(walked[m])
        BY <1>3, <1>7, <1>12, <2>1, <4>1
      <4>5. page'[j - m] < walked[m]
        BY <1>12, <2>1, <4>3, <4>4, MilliGrows
      <4>6. i = m \/ walked[i] > walked[m]
        BY <1>6, <1>8, <1>12, <2>1, <4>1 DEF Sorted
      <4>7. walked[m] \in Nat /\ walked[i] \in Nat /\ page'[j - m] \in Nat
        BY <1>2, <1>12, <2>1, <4>3
      <4>8. QED
        BY <4>2, <4>5, <4>6, <4>7
    <3>4. QED
      BY <1>8, <3>1, <3>2, <3>3
  <2>3. Sorted(walked')
    BY <1>8, <2>2 DEF Sorted
  <2>4. afterCursor' # None => walked' # <<>> /\ LastOf(walked') = LastOf(page')
    <3>1. SUFFICES ASSUME afterCursor' # None
                   PROVE  walked' # <<>> /\ LastOf(walked') = LastOf(page')
      OBVIOUS
    <3>2. page' # <<>>
      BY <1>3, <3>1 DEF Cursors
    <3>3. n \in 1 .. n
      BY <1>4, <1>7, <1>8, <3>2
    <3>4. walked'[m + n] = page'[n] /\ Len(walked') = m + n /\ m + n > 0
      BY <1>8, <3>3
    <3>5. QED
      BY <1>7, <3>4 DEF LastOf
  <2>5. QED
    BY <2>3, <2>4 DEF WalkInOrder, LastOf, Sorted
<1>14. WalkComplete'
  <2>1. SUFFICES ASSUME forward, NEW t \in known \ removed
                 PROVE  Covered(t)' \/ (afterCursor' # None /\ Pages!Milli(t) <= afterCursor')
    BY <1>1 DEF WalkComplete
  <2>2. t \in users /\ t \in Times /\ Pages!Milli(t) \in Nat
    BY <1>2, <2>1, MilliGrows DEF PInv
  <2>3. afterCursor \in Nat
    BY <1>12, <2>1, MilliGrows
  <2>4. CASE Covered(t)
    <3>1. CASE Shows(walked, t)
      BY <1>9, <3>1 DEF Covered, Shows
    <3>2. CASE ~ Shows(walked, t)
      <4>1. PICK k \in 1 .. m :
              Pages!Milli(walked[k]) = Pages!Milli(t) /\ Pages!Milli(t) \in ends
        BY <1>6, <2>4, <3>2 DEF Covered
      <4>2. k \in 1 .. Len(walked') /\ walked'[k] = walked[k] /\ Pages!Milli(t) \in ends'
        BY <1>1, <1>8, <4>1
      <4>3. QED
        BY <4>1, <4>2 DEF Covered
    <3>3. QED
      BY <3>1, <3>2
  <2>5. CASE Pages!Milli(t) = afterCursor
    <3>1. m \in 1 .. Len(walked') /\ walked'[m] = walked[m]
      BY <1>8, <1>12, <2>1
    <3>2. Pages!Milli(walked'[m]) = Pages!Milli(t) /\ Pages!Milli(t) \in ends'
      BY <1>1, <1>12, <2>1, <2>5, <3>1
    <3>3. QED
      BY <3>1, <3>2 DEF Covered
  <2>6. CASE Pages!Milli(t) < afterCursor
    <3>1. CASE Shows(page', t)
      BY <1>10, <3>1 DEF Covered, Shows
    <3>2. CASE afterCursor' # None /\ t < LastOf(page')
      <4>1. page' # <<>> /\ afterCursor' = Pages!Milli(LastOf(page'))
        BY <1>3, <3>2 DEF Cursors, LastOf
      <4>2. LastOf(page') \in Times
        BY <1>4, <4>1 DEF LastOf
      <4>3. t <= LastOf(page')
        <5>1. t \in Nat /\ LastOf(page') \in Nat
          BY <1>2, <2>2, <4>2
        <5>2. QED
          BY <3>2, <5>1
      <4>4. QED
        BY <2>2, <3>2, <4>1, <4>2, <4>3, MilliGrows
    <3>3. QED
      BY <1>3, <2>2, <2>6, <3>1, <3>2
  <2>7. Covered(t) \/ Pages!Milli(t) <= afterCursor
    BY <2>1 DEF PInv, WalkComplete
  <2>8. QED
    BY <2>2, <2>3, <2>4, <2>5, <2>6, <2>7
<1>15. (known \subseteq users \cup removed)'
  BY <1>1 DEF PInv
<1>16. QED
  BY <1>3, <1>5, <1>13, <1>14, <1>15 DEF PInv, Sorted

LEMMA BackPInv ==
    ASSUME PInv, Pages!Back
    PROVE  PInv'
<1>1. /\ beforeCursor # None /\ Pages!Load(None, beforeCursor)
      /\ UNCHANGED <<users, removed>>
      /\ walked' = <<>> /\ ends' = {} /\ forward' = FALSE /\ known' = {}
  BY DEF Pages!Back, Pages!Load
<1>2. users \subseteq Times /\ beforeCursor \in Pages!Millis
  BY <1>1 DEF PInv, Pages!TypeOK
<1>3. PICK S : S = Pages!Newer(beforeCursor)
  OBVIOUS
<1>4. S \subseteq users
  BY <1>3 DEF Pages!Newer
<1>5. /\ page' \in Seq(S) /\ Len(page') <= Limit /\ Sorted(page')
      /\ Cursors'
      /\ afterCursor' \in Pages!Millis \cup {None}
      /\ beforeCursor' \in Pages!Millis \cup {None}
  BY <1>1, <1>2, <1>3, LoadedBack
<1>6. page' \in Seq(Times)
  BY <1>2, <1>4, <1>5
<1>7. Pages!TypeOK'
  <2>1. <<>> \in Seq(Times)
    OBVIOUS
  <2>2. users \subseteq Times /\ removed \subseteq Times \ users
    BY DEF PInv, Pages!TypeOK
  <2>3. QED
    BY <1>1, <1>5, <1>6, <2>1, <2>2 DEF Pages!TypeOK
<1>8. QED
  BY <1>1, <1>5, <1>7 DEF PInv, WalkInOrder, WalkComplete, Sorted

\* Users come and go, and the client shows what it showed.
LEMMA UsersPInv ==
    ASSUME PInv, Pages!Register \/ Pages!RemoveUser \/ UNCHANGED pageVars
    PROVE  PInv'
<1>1. /\ UNCHANGED <<page, afterCursor, beforeCursor, walked, ends, forward, known>>
      /\ removed \subseteq removed' /\ users \cup removed \subseteq users' \cup removed'
  BY DEF Pages!Register, Pages!RemoveUser, Pages!client, pageVars
<1>2. users' \subseteq Times /\ removed' \subseteq Times \ users'
  <2>1. CASE Pages!Register
    <3>1. PICK t \in Times : /\ \A u \in users \cup removed : u < t
                             /\ users' = users \cup {t} /\ removed' = removed
      BY <2>1 DEF Pages!Register
    <3>2. t \notin removed
      BY <3>1, PagesAssumption
    <3>3. QED
      BY <3>1, <3>2 DEF PInv, Pages!TypeOK
  <2>2. CASE Pages!RemoveUser
    BY <2>2 DEF Pages!RemoveUser, PInv, Pages!TypeOK
  <2>3. CASE UNCHANGED pageVars
    BY <2>3 DEF pageVars, PInv, Pages!TypeOK
  <2>4. QED
    BY <2>1, <2>2, <2>3
<1>3. Pages!TypeOK'
  BY <1>1, <1>2 DEF PInv, Pages!TypeOK
<1>4. QED
  BY <1>1, <1>3 DEF PInv, WalkInOrder, WalkComplete, Cursors, Covered, Sorted, LastOf, Shows


LEMMA NextPInv == PInv /\ [Pages!Next]_pageVars => PInv'
BY FirstPInv, ForwardPInv, BackPInv, UsersPInv DEF Pages!Next

\* A walk shows nobody twice, ...
LEMMA InOrderOnce == PInv => Pages!NobodyTwice
<1>1. SUFFICES ASSUME PInv, forward PROVE Pages!IsInjective(walked)
  BY DEF Pages!NobodyTwice
<1>2. Sorted(walked) /\ walked \in Seq(Times) /\ Times \subseteq Nat
  BY <1>1, PagesAssumption DEF PInv, WalkInOrder, Pages!TypeOK
<1>3. ASSUME NEW i \in 1 .. Len(walked), NEW j \in 1 .. Len(walked), walked[i] = walked[j]
      PROVE  i = j
  <2>1. walked[i] \in Nat /\ walked[j] \in Nat
    <3>1. walked[i] \in Times /\ walked[j] \in Times
      BY <1>2, <1>3
    <3>2. QED
      BY <1>2, <3>1
  <2>2. ~ (i < j) /\ ~ (j < i)
    BY <1>2, <1>3, <2>1 DEF Sorted
  <2>3. QED
    BY <1>2, <2>2
<1>4. DOMAIN walked = 1 .. Len(walked)
  BY <1>2
<1>5. QED
  BY <1>3, <1>4 DEF Pages!IsInjective

LEMMA ShownInSet ==
    ASSUME NEW seq \in Seq(Times)
    PROVE  \A t : t \in Pages!ToSet(seq) <=> Shows(seq, t)
BY DEF Pages!ToSet, Shows

\* ... and in the end everybody.
LEMMA CompleteInTheEnd == PInv => Pages!EverybodyOnce
<1>1. SUFFICES ASSUME PInv, forward, afterCursor = None, NEW t \in known \ removed
               PROVE  \/ t \in Pages!ToSet(walked)
                      \/ \E u \in Pages!ToSet(walked) :
                            Pages!Milli(u) = Pages!Milli(t) /\ Pages!Milli(t) \in ends
  BY DEF Pages!EverybodyOnce
<1>2. Covered(t) /\ walked \in Seq(Times)
  BY <1>1 DEF PInv, WalkComplete, Pages!TypeOK
<1>3. \A u : u \in Pages!ToSet(walked) <=> Shows(walked, u)
  BY <1>2, ShownInSet
<1>4. QED
  BY <1>2, <1>3 DEF Covered, Shows

\* Who goes back meets the neighbours; who then goes forward, older ones.
Adjacent == ~ forward' /\ beforeCursor # None =>
    \A t \in users : Pages!Milli(t) > beforeCursor /\ t \notin Pages!ToSet(page') =>
        \A u \in Pages!ToSet(page') : u < t

LEMMA StepAdjacent ==
    ASSUME PInv, Pages!Next, ~ UNCHANGED Pages!client
    PROVE  Adjacent
<1>1. SUFFICES ASSUME ~ forward', beforeCursor # None, NEW t \in users,
                      Pages!Milli(t) > beforeCursor, t \notin Pages!ToSet(page'),
                      NEW u \in Pages!ToSet(page')
               PROVE  u < t
  BY DEF Adjacent
<1>2. PInv' /\ page' \in Seq(Times) /\ page \in Seq(Times)
      /\ users \subseteq Times /\ Times \subseteq Nat
  <2>1. PInv'
    BY FirstPInv, ForwardPInv, BackPInv, UsersPInv DEF Pages!Next
  <2>2. QED
    BY <2>1, PagesAssumption DEF PInv, Pages!TypeOK
<1>3. ~ Shows(page', t)
  BY <1>1, <1>2, ShownInSet
<1>4. PICK k \in 1 .. Len(page') : page'[k] = u
  BY <1>1, <1>2, ShownInSet DEF Shows
<1>5. Pages!Forward \/ Pages!Back
  BY <1>1 DEF Pages!Next, Pages!First, Pages!Register, Pages!RemoveUser
<1>6. CASE Pages!Back
  <2>1. Pages!Load(None, beforeCursor) /\ beforeCursor \in Pages!Millis
    BY <1>1, <1>6 DEF Pages!Back, PInv, Pages!TypeOK
  <2>2. t \in Pages!Newer(beforeCursor)
    BY <1>1 DEF Pages!Newer
  <2>3. QED
    BY <1>2, <1>3, <1>4, <2>1, <2>2, LoadedBack
<1>7. CASE Pages!Forward
  <2>1. Pages!Milli(u) < afterCursor
    BY <1>4, <1>7, ForwardOlder
  <2>2. /\ page # <<>> /\ afterCursor = Pages!Milli(LastOf(page))
        /\ beforeCursor = Pages!Milli(page[1]) /\ Sorted(page)
    BY <1>1, <1>7 DEF Pages!Forward, PInv, Cursors
  <2>3. /\ 1 \in 1 .. Len(page) /\ Len(page) \in 1 .. Len(page)
        /\ page[1] \in Times /\ LastOf(page) \in Times
    BY <1>2, <2>2 DEF LastOf
  <2>4. LastOf(page) <= page[1]
    <3>1. page[1] \in Nat /\ LastOf(page) \in Nat
      <4>1. page[1] \in Times /\ LastOf(page) \in Times
        BY <2>3
      <4>2. QED
        BY <4>1, PagesAssumption
    <3>2. Len(page) = 1 \/ page[1] > LastOf(page)
      <4>1. 1 < Len(page) => page[1] > page[Len(page)]
        BY <2>2, <2>3 DEF Sorted
      <4>2. Len(page) = 1 \/ 1 < Len(page)
        <5>1. Len(page) \in Nat
          BY <1>2
        <5>2. 1 <= Len(page)
          BY <2>3, <5>1
        <5>3. \A n \in Nat : 1 <= n => n = 1 \/ 1 < n
          OBVIOUS
        <5>4. QED
          BY <5>1, <5>2, <5>3, Zenon
      <4>3. QED
        BY <4>1, <4>2, Zenon DEF LastOf
    <3>3. QED
      BY <3>1, <3>2 DEF LastOf
  <2>5. afterCursor <= beforeCursor
    BY <2>2, <2>3, <2>4, MilliGrows
  <2>6. t \in Times /\ u \in Times
    BY <1>2, <1>4
  <2>7. /\ afterCursor \in Nat /\ beforeCursor \in Nat
        /\ Pages!Milli(t) \in Nat /\ Pages!Milli(u) \in Nat
    BY <2>2, <2>3, <2>6, MilliGrows
  <2>8. Pages!Milli(u) < Pages!Milli(t)
    BY <1>1, <2>1, <2>5, <2>7
  <2>9. QED
    BY <2>6, <2>8, MilliGrows
<1>8. QED
  BY <1>5, <1>6, <1>7


\* A client that pages through the users while users come and go sees, going
\* forward, nobody twice and all who stay but for those who share the
\* millisecond of a page's end, and going back the neighbours: for any number of
\* users, any length of a page and any precision of the cursor.
THEOREM PagesComplete == MCSpec => PagesAreComplete
<1>1. MCInit => PInv
  BY InitPInv DEF MCInit
<1>2. [MCNext]_allVars => [Pages!Next]_pageVars
  BY DEF MCNext, allVars
<1>3. PInv /\ [Pages!Next]_pageVars => PInv'
  BY NextPInv
<1>4. PInv => Pages!TypeOK /\ Pages!NobodyTwice /\ Pages!EverybodyOnce
  BY InOrderOnce, CompleteInTheEnd DEF PInv
<1>5. PInv /\ [Pages!Next]_pageVars => [Adjacent]_(Pages!client)
  <2>1. UNCHANGED pageVars => UNCHANGED Pages!client
    BY DEF pageVars, Pages!client
  <2>2. QED
    BY <2>1, StepAdjacent
<1>6. [][Adjacent]_(Pages!client) => Pages!BackIsAdjacent
  BY PTL DEF Pages!BackIsAdjacent, Adjacent
<1>7. QED
  BY <1>1, <1>2, <1>3, <1>4, <1>5, <1>6, PTL DEF MCSpec, allVars, PagesAreComplete

=============================================================================
