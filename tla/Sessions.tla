------------------------------ MODULE Sessions ------------------------------
(***************************************************************************)
(* The sessions of one account: table session, the access and refresh      *)
(* tokens that AuthService signs for them, and the blacklist of the cache  *)
(* (signIn, googleLogin, refreshToken, logout, verifyAccessToken,          *)
(* changePassword, resetPassword, UserService.remove).                     *)
(*                                                                         *)
(* A request opens at most one session and signs at most one pair of       *)
(* tokens, so a session, a hash, a password and a pair of tokens are all   *)
(* named by the request that made them.  Access tokens live equally long:  *)
(* they expire in the order in which they were signed.  A refresh token    *)
(* outlives every access token; a client that has lost one does not use    *)
(* it.  Requests that are refused where they arrive are left out.          *)
(***************************************************************************)
EXTENDS Naturals, Sequences

CONSTANTS
    Requests, \* identities of the requests, each used at most once
    None,     \* no request
    Faults    \* whether a call of a request may reject

ASSUME ConstantsAssumption == None \notin Requests

Ops == {"signIn", "google", "refresh", "logout", "change", "reset", "remove"}

VARIABLES
    account,  \* [live, password]: the row of user, its password by who set it
    sessions, \* table session: the hash of session s by who made it, or None
    banned,   \* banned[s]: the access token with which SESSION_BLACKLIST expires
    signed,   \* the requests that signed tokens, in this order
    expired,  \* how many of their access tokens have expired
    pc, arg,  \* of request i: its next await, and its operation and token
    of,       \* the session that the tokens of i are for
    before    \* the requests that had ended when it started

tables == <<account, sessions, banned>>
tokens == <<signed, expired, of>>
vars == <<tables, tokens, pc, arg, before>>

Awaits == {"open", "user", "rotate", "ban", "close", "save", "revoke", "erase"}
Maybe == Requests \cup {None}

TypeOK ==
    /\ account \in [live : BOOLEAN, password : Maybe]
    /\ sessions \in [Requests -> Maybe]
    /\ banned \in [Requests -> Maybe]
    /\ signed \in Seq(Requests)
    /\ expired \in 0 .. Len(signed)
    /\ pc \in [Requests -> Awaits \cup {"new", "done", "failed"}]
    /\ arg \in [Requests -> [op : Ops \cup {"none"}, token : Maybe]]
    /\ of \in [Requests -> Maybe]
    /\ before \in [Requests -> SUBSET Requests]
    /\ \A s \in Requests : sessions[s] # None => of[sessions[s]] = s

\* An account that is there, with a password; None set it.
Init ==
    /\ account = [live |-> TRUE, password |-> None]
    /\ sessions = [s \in Requests |-> None]
    /\ banned = [s \in Requests |-> None]
    /\ signed = <<>> /\ expired = 0
    /\ pc = [i \in Requests |-> "new"]
    /\ arg = [i \in Requests |-> [op |-> "none", token |-> None]]
    /\ of = [i \in Requests |-> None]
    /\ before = [i \in Requests |-> {}]

-----------------------------------------------------------------------------
Op(i) == arg[i].op
Done == {i \in Requests : pc[i] = "done"}
Signed == {signed[k] : k \in DOMAIN signed}
InTime(t) == \E k \in expired + 1 .. Len(signed) : signed[k] = t

\* The session that request i is about: its own, or that of its token.
SessionOf(i) == IF arg[i].token = None THEN i ELSE of[arg[i].token]

\* The entry lives as long as the access token that logged out.
Blacklisted(t) == banned[of[t]] # None /\ InTime(banned[of[t]])

\* verifyAccessToken, which AuthGuard awaits; it reads no table.
Accepts(t) == InTime(t) /\ ~ Blacklisted(t)

Start(i, where, op, t) ==
    /\ pc[i] = "new"
    /\ pc' = [pc EXCEPT ![i] = where]
    /\ arg' = [arg EXCEPT ![i] = [op |-> op, token |-> t]]
    /\ before' = [before EXCEPT ![i] = {j \in Requests : pc[j] \in {"done", "failed"}}]
    /\ UNCHANGED <<tables, tokens>>

At(i, where, next) == pc[i] = where /\ pc' = [pc EXCEPT ![i] = next] /\ UNCHANGED <<arg, before>>

\* Mutant of Sign: the tokens name another session than the row.
SignOwn(i, s) == signed' = Append(signed, i) /\ of' = [of EXCEPT ![i] = i] /\ UNCHANGED expired

\* createToken is signed with the hash that i has made.
Sign(i, s) == signed' = Append(signed, i) /\ of' = [of EXCEPT ![i] = s] /\ UNCHANGED expired

\* The user is found and the password, if any, is right.
StartSignIn(i) == account.live /\ Start(i, "open", "signIn", None)
StartGoogle(i) == account.live /\ Start(i, "open", "google", None)

\* createSessionAndToken.
OpenSession(i) ==
    /\ At(i, "open", "done")
    /\ sessions' = [sessions EXCEPT ![i] = i]
    /\ Sign(i, i)
    /\ UNCHANGED <<account, banned>>

\* The session is there and its hash is that of the token.
StartRefresh(i) == \E t \in Signed :
    sessions[of[t]] = t /\ Start(i, "user", "refresh", t)

\* Mutant of FindUser: the session is trusted.
FindAnyUser(i) == At(i, "user", "rotate") /\ UNCHANGED <<tables, tokens>>

FindUser(i) ==
    /\ At(i, "user", IF account.live THEN "rotate" ELSE "failed")
    /\ UNCHANGED <<tables, tokens>>

\* Mutants of Rotate: save in place of update; the hash is kept.
RotateSave(i) ==
    /\ At(i, "rotate", "done")
    /\ sessions' = [sessions EXCEPT ![SessionOf(i)] = i]
    /\ Sign(i, SessionOf(i))
    /\ UNCHANGED <<account, banned>>
RotateNot(i) ==
    /\ At(i, "rotate", "done")
    /\ signed' = Append(signed, arg[i].token) /\ UNCHANGED <<of, expired>>
    /\ UNCHANGED tables

\* update does nothing when the row is gone; the tokens are signed all the same.
Rotate(i) ==
    /\ At(i, "rotate", "done")
    /\ sessions' = [sessions EXCEPT ![SessionOf(i)] = IF @ = None THEN None ELSE i]
    /\ Sign(i, SessionOf(i))
    /\ UNCHANGED <<account, banned>>

StartLogout(i) == \E t \in Signed : Accepts(t) /\ Start(i, "ban", "logout", t)

\* The TTL is what is left of the token.
BanSession(i) ==
    /\ At(i, "ban", "close")
    /\ banned' = [banned EXCEPT ![SessionOf(i)] = arg[i].token]
    /\ UNCHANGED <<account, sessions, tokens>>

CloseSession(i) ==
    /\ At(i, "close", "done")
    /\ sessions' = [sessions EXCEPT ![SessionOf(i)] = None]
    /\ UNCHANGED <<account, banned, tokens>>

\* changePassword, of AuthService and of UserService: the password is right.
StartChange(i) == account.live /\ \E t \in Signed : Accepts(t) /\ Start(i, "save", "change", t)

\* resetPassword, whose token UserAccount models.
StartReset(i) == account.live /\ Start(i, "save", "reset", None)

\* A save by key, whether or not the user is still there.
SavePassword(i) ==
    /\ At(i, "save", IF Op(i) = "change" THEN "revoke" ELSE "done")
    /\ account' = [account EXCEPT !.password = i]
    /\ UNCHANGED <<sessions, banned, tokens>>

\* Mutant of RevokeSessions: the condition on the session is inverted.
RevokeOwnSession(i) ==
    /\ At(i, "revoke", "done")
    /\ sessions' = [s \in Requests |-> IF s = SessionOf(i) THEN None ELSE sessions[s]]
    /\ UNCHANGED <<account, banned, tokens>>

RevokeSessions(i) ==
    /\ At(i, "revoke", "done")
    /\ sessions' = [s \in Requests |-> IF s = SessionOf(i) THEN sessions[s] ELSE None]
    /\ UNCHANGED <<account, banned, tokens>>

\* UserService.remove: found, then soft-deleted; sessions stay.
StartRemove(i) == account.live /\ Start(i, "erase", "remove", None)
EraseUser(i) ==
    /\ At(i, "erase", "done")
    /\ account' = [account EXCEPT !.live = FALSE]
    /\ UNCHANGED <<sessions, banned, tokens>>

\* The oldest access token expires.  Not while its logout computes the TTL
\* from it: that takes no time.
Expire ==
    /\ expired < Len(signed)
    /\ \A i \in Requests : pc[i] = "ban" => arg[i].token # signed[expired + 1]
    /\ expired' = expired + 1
    /\ UNCHANGED <<tables, signed, of, pc, arg, before>>

Fault(i) ==
    /\ Faults
    /\ pc[i] \in Awaits
    /\ At(i, pc[i], "failed")
    /\ UNCHANGED <<tables, tokens>>

Next ==
    \/ \E i \in Requests :
          \/ StartSignIn(i) \/ StartGoogle(i) \/ OpenSession(i)
          \/ StartRefresh(i) \/ FindUser(i) \/ Rotate(i)
          \/ StartLogout(i) \/ BanSession(i) \/ CloseSession(i)
          \/ StartChange(i) \/ StartReset(i) \/ SavePassword(i) \/ RevokeSessions(i)
          \/ StartRemove(i) \/ EraseUser(i) \/ Fault(i)
    \/ Expire

Spec == Init /\ [][Next]_vars

-----------------------------------------------------------------------------
SignedAfter(t, u) == \E j, k \in DOMAIN signed : j < k /\ signed[j] = u /\ signed[k] = t

\* A session that was logged out has no row again, not even by a refresh that
\* had read it before, so none of its refresh tokens works; and AuthGuard
\* refuses all its access tokens but those signed later than the one that
\* logged out, which outlive the blacklist.
LoggedOutStaysOut == \A i \in Done : Op(i) = "logout" =>
    /\ sessions[SessionOf(i)] = None
    /\ \A t \in Signed : of[t] = SessionOf(i) /\ Accepts(t) =>
          \E j \in Requests : /\ Op(j) = "logout" /\ pc[j] # "ban" /\ SessionOf(j) = of[t]
                             /\ SignedAfter(t, arg[j].token)

\* A refresh token is used once, except by requests that overlap.
RefreshTokenWorksOnce == \A i, j \in Done :
    Op(i) = "refresh" /\ Op(j) = "refresh" /\ i # j /\ arg[i].token = arg[j].token =>
        i \notin before[j] /\ j \notin before[i]

\* Once a password was changed, the only older session that can be refreshed
\* is the one that changed it, whatever overlapped the change.
ChangeEndsOtherSessions == \A i \in Done : Op(i) = "change" =>
    \A s \in before[i] \ {SessionOf(i)} : sessions[s] = None

\* Nobody who comes after the removal of the account signs tokens for it.
RemovedSignsNothing == \A i \in Done : Op(i) = "remove" =>
    \A t \in Signed : i \notin before[t]

\* logout, changePassword and UserService.remove end sessions for good, whatever
\* signs tokens meanwhile.
EndedSessionsStayEnded ==
    LoggedOutStaysOut /\ ChangeEndsOtherSessions /\ RemovedSignsNothing
=============================================================================
