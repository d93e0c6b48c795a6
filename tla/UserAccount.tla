----------------------------- MODULE UserAccount -----------------------------
(***************************************************************************)
(* The accounts of one e-mail address: table user, and the tokens that     *)
(* AuthService mails to verify the address and to reset the password.      *)
(*                                                                         *)
(* UserService and AuthService read a user, await other calls and save     *)
(* what they read.  A user that was read whole is saved whole: deleted_at, *)
(* email_verified_at and the password go back as they were read, and the   *)
(* @BeforeUpdate of UserEntity hashes the password on the way.  A user     *)
(* read with select: ['id', 'password'] is saved with these two only.      *)
(* Each await on the table, the cache or the queue is one action.          *)
(*                                                                         *)
(* Names, bios and images are left out; sessions are not part of this      *)
(* module.  Two tokens for one user are different: they were signed in     *)
(* different seconds.                                                      *)
(***************************************************************************)
EXTENDS Naturals, FiniteSets

CONSTANTS
    Requests,   \* identities of the requests, each used at most once
    Users,      \* primary keys available to table user
    Passwords,  \* passwords that people choose
    Tokens,     \* tokens that can be signed
    NoRow,      \* no row of user, and no entity in a request
    NoUser,     \* the user of a request that was given an address only
    NoPassword, \* password IS NULL, a Google account
    NoToken,    \* no value in the cache
    NoArg,      \* the argument of a request that has not arrived
    Apart,      \* pairs of operations whose requests do not overlap
    Faults      \* whether a call of a request may reject

\* What the password column can hold: the hash of a password, or the hash of
\* a hash (2 stands for two or more).
Stored == [of : Passwords, hashes : {1, 2}] \cup {NoPassword}

Row == [password : Stored, verified : BOOLEAN, deleted : BOOLEAN]

\* CacheKey.EMAIL_VERIFICATION and CacheKey.PASSWORD_RESET.
Kinds == {"verification", "reset"}

Creations == {"register", "create", "google"}

Ops == Creations \cup
    {"verifyEmail", "resend", "forgot", "reset", "change", "edit", "remove"}

Arg == [op : Ops, user : Users \cup {NoUser}, token : Tokens \cup {NoToken},
        password : Stored, verified : BOOLEAN]

Mail == [kind : Kinds, user : Users, token : Tokens]

ASSUME ConstantsAssumption ==
    /\ NoRow \notin Row
    /\ NoUser \notin Users
    /\ NoPassword \notin [of : Passwords, hashes : {1, 2}]
    /\ NoToken \notin Tokens
    /\ NoArg \notin Arg
    /\ Apart \subseteq SUBSET Ops
    /\ Faults \in BOOLEAN

VARIABLES
    rows,   \* table user: rows[u] is a Row or NoRow
    cached, \* cached[k][u]: the token of kind k that the cache holds for u
    mails,  \* the mails handed to the e-mail queue
    last,   \* last[k][u]: token of the last of them that has not expired
    used,   \* the tokens that a request saved a user with
    pc,     \* pc[i]: "new", the await that request i is about to make, "done"
    arg,    \* arg[i]: the operation of request i and what it is given
    held    \* held[i]: the user as request i read it

vars == <<rows, cached, mails, last, used, pc, arg, held>>

Awaits == {"find", "insert", "check", "save", "erase", "set", "mail"}

TypeOK ==
    /\ rows \in [Users -> Row \cup {NoRow}]
    /\ cached \in [Kinds -> [Users -> Tokens \cup {NoToken}]]
    /\ mails \subseteq Mail
    /\ last \in [Kinds -> [Users -> Tokens \cup {NoToken}]]
    /\ used \subseteq Tokens
    /\ pc \in [Requests -> {"new", "done"} \cup Awaits]
    /\ arg \in [Requests -> Arg \cup {NoArg}]
    /\ held \in [Requests -> Row \cup {NoRow}]

Init ==
    /\ rows = [u \in Users |-> NoRow]
    /\ cached = [k \in Kinds |-> [u \in Users |-> NoToken]]
    /\ mails = {}
    /\ last = [k \in Kinds |-> [u \in Users |-> NoToken]]
    /\ used = {}
    /\ pc = [i \in Requests |-> "new"]
    /\ arg = [i \in Requests |-> NoArg]
    /\ held = [i \in Requests |-> NoRow]

-----------------------------------------------------------------------------
\* hashPassword of UserEntity, before every insert and update of a password
\* that is not null: a new password is hashed, a stored one hashed again.
Hashed(p) == [of |-> p, hashes |-> 1]

\* Mutant of Rehashed: a password that is null is hashed too.
RehashedNull(stored) == [of |-> stored, hashes |-> 2]

Rehashed(stored) ==
    IF stored = NoPassword THEN NoPassword ELSE [stored EXCEPT !.hashes = 2]

\* A row that queries find.
IsLive(u) == rows[u] # NoRow /\ ~ rows[u].deleted

\* Mutant of IndexAllows: table user has no unique index on email.
IndexMissing(table) == TRUE

\* The unique index on email leaves soft-deleted rows out.
IndexAllows(table) ==
    \A u, v \in Users :
        /\ table[u] # NoRow /\ ~ table[u].deleted
        /\ table[v] # NoRow /\ ~ table[v].deleted
        => u = v

InFlight == {i \in Requests : pc[i] \in Awaits}

(***************************************************************************)
(* The assumption a run makes on the arrival of requests.  Nothing in the  *)
(* code makes requests wait, which is Apart = {}; other values say which   *)
(* pairs of operations must not overlap for a guarantee to hold; {op} is   *)
(* the pair of two requests of one kind.                                   *)
(***************************************************************************)
Admitted(op) == \A i \in InFlight : {op, arg[i].op} \notin Apart

Start(i, where, op, u, t, p, v) ==
    /\ pc[i] = "new"
    /\ Admitted(op)
    /\ pc' = [pc EXCEPT ![i] = where]
    /\ arg' = [arg EXCEPT ![i] = [op |-> op, user |-> u, token |-> t,
                                  password |-> p, verified |-> v]]
    /\ UNCHANGED <<rows, cached, mails, last, used, held>>

\* register, create and googleLogin: u is the uuid that an insert will make;
\* Google says whether it verified the address.
StartCreation(i) ==
    \E u \in Users :
        /\ rows[u] = NoRow
        /\ \A j \in InFlight : arg[j].user # u
        /\ \/ \E op \in {"register", "create"}, p \in Passwords :
                 Start(i, "find", op, u, NoToken, Hashed(p), FALSE)
           \/ \E v \in BOOLEAN :
                 Start(i, "find", "google", u, NoToken, NoPassword, v)

\* resendVerifyEmail and forgotPassword find the user by the address.
StartMailing(i) ==
    \E op \in {"resend", "forgot"} :
        Start(i, "find", op, NoUser, NoToken, NoPassword, FALSE)

\* verifyEmail and resetPassword, with a token from a mail.
StartWithToken(i) ==
    \E m \in mails :
        \/ /\ m.kind = "verification"
           /\ Start(i, "find", "verifyEmail", m.user, m.token,
                    NoPassword, FALSE)
        \/ /\ m.kind = "reset"
           /\ \E p \in Passwords :
                 Start(i, "check", "reset", m.user, m.token, Hashed(p), FALSE)

\* update, updateMe, completeAvatar; changePassword; remove.
StartOnUser(i) ==
    \E u \in Users :
        /\ rows[u] # NoRow
        /\ \/ \E op \in {"edit", "remove"} :
                 Start(i, "find", op, u, NoToken, NoPassword, FALSE)
           \/ \E p \in Passwords :
                 Start(i, "find", "change", u, NoToken, Hashed(p), FALSE)

-----------------------------------------------------------------------------
Op(i) == arg[i].op
User(i) == arg[i].user

Advance(i, where) == pc' = [pc EXCEPT ![i] = where]

\* What a request on an account does next if it finds the account.
AfterFind(i) ==
    CASE Op(i) = "verifyEmail" ->
            IF rows[User(i)].verified THEN "done" ELSE "check"
      [] OTHER -> "save"

\* No account has the address yet: exists of register, findOne of the others.
FindNone(i) ==
    /\ pc[i] = "find"
    /\ Op(i) \in Creations
    /\ Advance(i, IF \E u \in Users : IsLive(u) THEN "done" ELSE "insert")
    /\ UNCHANGED <<rows, cached, mails, last, used, arg, held>>

\* The account that has the address now.
FindByEmail(i) ==
    /\ pc[i] = "find"
    /\ Op(i) \in {"resend", "forgot"}
    /\ \/ /\ \E u \in Users :
                /\ IsLive(u)
                /\ Op(i) = "resend" => ~ rows[u].verified
                /\ arg' = [arg EXCEPT ![i].user = u]
          /\ Advance(i, "set")
       \/ /\ \A u \in Users :
                IsLive(u) => Op(i) = "resend" /\ rows[u].verified
          /\ Advance(i, "done")
          /\ UNCHANGED arg
    /\ UNCHANGED <<rows, cached, mails, last, used, held>>

\* The account with an id.  changePassword also compares the current password,
\* which only a password that was hashed once can equal.
FindById(i) ==
    /\ pc[i] = "find"
    /\ Op(i) \notin Creations \cup {"resend", "forgot"}
    /\ \/ /\ IsLive(User(i))
          /\ Op(i) = "change" => rows[User(i)].password \in
                                    {Hashed(p) : p \in Passwords}
          /\ held' = [held EXCEPT ![i] = rows[User(i)]]
          /\ Advance(i, AfterFind(i))
       \/ /\ Op(i) = "change" \/ ~ IsLive(User(i))
          /\ Advance(i, "done")
          /\ UNCHANGED held
    /\ UNCHANGED <<rows, cached, mails, last, used, arg>>

\* The insert of a new user, refused if the address was taken meanwhile.
Insert(i) ==
    /\ pc[i] = "insert"
    /\ LET row == [password |-> arg[i].password, verified |-> arg[i].verified,
                   deleted |-> FALSE]
           table == [rows EXCEPT ![User(i)] = row]
       IN \/ /\ IndexAllows(table)
             /\ rows' = table
             /\ Advance(i, IF Op(i) = "register" THEN "set" ELSE "done")
          \/ /\ ~ IndexAllows(table)
             /\ Advance(i, "done")
             /\ UNCHANGED rows
    /\ UNCHANGED <<cached, mails, last, used, arg, held>>

-----------------------------------------------------------------------------
(* Tokens. *)

Kind(i) == IF Op(i) \in {"reset", "forgot"} THEN "reset" ELSE "verification"

\* A token that was not signed before: requests keep the one they signed.
FreshTokens ==
    {t \in Tokens : \A j \in Requests : pc[j] # "new" => arg[j].token # t}

\* enqueueEmailVerification and forgotPassword: sign and put in the cache ...
SetToken(i) ==
    /\ pc[i] = "set"
    /\ \E t \in FreshTokens :
        /\ cached' = [cached EXCEPT ![Kind(i)][User(i)] = t]
        /\ arg' = [arg EXCEPT ![i].token = t]
    /\ Advance(i, "mail")
    /\ UNCHANGED <<rows, mails, last, used, held>>

\* ... then hand the mail to the queue.
MailToken(i) ==
    /\ pc[i] = "mail"
    /\ mails' = mails \cup {[kind |-> Kind(i), user |-> User(i),
                             token |-> arg[i].token]}
    /\ last' = [last EXCEPT ![Kind(i)][User(i)] = arg[i].token]
    /\ Advance(i, "done")
    /\ UNCHANGED <<rows, cached, used, arg, held>>

\* The token that was given must be the one in the cache.
CheckToken(i) ==
    /\ pc[i] = "check"
    /\ Advance(i, IF cached[Kind(i)][User(i)] # arg[i].token THEN "done"
                  ELSE IF Op(i) = "reset" THEN "find" ELSE "save")
    /\ UNCHANGED <<rows, cached, mails, last, used, arg, held>>

\* Mutant of EraseToken: resetPassword leaves the token in the cache.
KeepToken(i) ==
    /\ pc[i] = "erase"
    /\ Advance(i, "done")
    /\ UNCHANGED <<rows, cached, mails, last, used, arg, held>>

\* Mutant of EraseToken: every operation deletes the verification token.
EraseVerification(i) ==
    /\ pc[i] = "erase"
    /\ cached' = [cached EXCEPT !["verification"][User(i)] = NoToken]
    /\ Advance(i, "done")
    /\ UNCHANGED <<rows, mails, last, used, arg, held>>

\* cacheManager.del, whatever token is there by now.
EraseToken(i) ==
    /\ pc[i] = "erase"
    /\ cached' = [cached EXCEPT ![Kind(i)][User(i)] = NoToken]
    /\ Advance(i, "done")
    /\ UNCHANGED <<rows, mails, last, used, arg, held>>

\* The time to live of a cache entry ends, and with it the token's.  It is
\* longer than the request that put the token there.
Expire ==
    \E k \in Kinds, u \in Users :
        /\ cached[k][u] \in {m.token : m \in mails}
        /\ cached' = [cached EXCEPT ![k][u] = NoToken]
        /\ last' = [last EXCEPT ![k][u] =
                        IF @ = cached[k][u] THEN NoToken ELSE @]
        /\ UNCHANGED <<rows, mails, used, pc, arg, held>>

-----------------------------------------------------------------------------
(* Saves. *)

\* Operations that read the user whole, and so save the user whole.
Whole == {"verifyEmail", "edit"}

WholeEntity(i) ==
    [held[i] EXCEPT !.password = Rehashed(@),
                    !.verified = @ \/ Op(i) = "verifyEmail"]

\* Mutant of SavedRow: resetPassword and changePassword read the user whole.
SavedRowWhole(i) ==
    CASE Op(i) \in Whole -> WholeEntity(i)
      [] Op(i) \in {"reset", "change"} ->
            [held[i] EXCEPT !.password = arg[i].password]
      [] OTHER -> [rows[User(i)] EXCEPT !.deleted = TRUE]

\* The row that the request leaves: save of what was read whole, save of the
\* password alone, softDelete.
SavedRow(i) ==
    CASE Op(i) \in Whole -> WholeEntity(i)
      [] Op(i) \in {"reset", "change"} ->
            [rows[User(i)] EXCEPT !.password = arg[i].password]
      [] OTHER -> [rows[User(i)] EXCEPT !.deleted = TRUE]

\* The save of the request, refused if it brings back an account whose address
\* was taken meanwhile.  An edit that changes nothing updates nothing.
Save(i) ==
    /\ pc[i] = "save"
    /\ LET table == [rows EXCEPT ![User(i)] = SavedRow(i)]
       IN \/ /\ IndexAllows(table)
             /\ rows' = table
             /\ used' = used \cup ({arg[i].token} \ {NoToken})
             /\ Advance(i, IF Op(i) \in {"verifyEmail", "reset"} THEN "erase"
                                                                 ELSE "done")
          \/ /\ ~ IndexAllows(table) \/ (Op(i) = "edit" /\ held[i] = rows[User(i)])
             /\ Advance(i, "done")
             /\ UNCHANGED <<rows, used>>
    /\ UNCHANGED <<cached, mails, last, arg, held>>

\* A call of the request rejects or the process dies: the request ends, and
\* what it did stays.
Abort(i) ==
    /\ Faults
    /\ pc[i] \in Awaits
    /\ Advance(i, "done")
    /\ UNCHANGED <<rows, cached, mails, last, used, arg, held>>

-----------------------------------------------------------------------------
Arrive(i) ==
    StartCreation(i) \/ StartMailing(i) \/ StartWithToken(i) \/ StartOnUser(i)

RequestStep(i) ==
    \/ FindNone(i) \/ FindByEmail(i) \/ FindById(i) \/ Insert(i)
    \/ SetToken(i) \/ MailToken(i) \/ CheckToken(i) \/ EraseToken(i)
    \/ Save(i)

Next ==
    \/ \E i \in Requests : Arrive(i) \/ RequestStep(i) \/ Abort(i)
    \/ Expire

Spec == Init /\ [][Next]_vars

-----------------------------------------------------------------------------
(* Properties. *)

\* At most one account that is not deleted has the address, although requests
\* test it in one call and write in another, and although a save can bring a
\* deleted account back after the address was registered again.
OneLiveAccount == \A u, v \in Users : IsLive(u) /\ IsLive(v) => u = v

\* If no edit of the profile overlaps with verifyEmail, a verified address stays
\* verified: resetPassword and changePassword may overlap with it, for they do
\* not take back what was read before.
VerifiedStaysVerified ==
    [][\A u \in Users :
          rows[u] # NoRow /\ rows[u].verified => rows'[u].verified]_rows

\* If neither an edit nor verifyEmail overlaps with the removal of an account, a
\* removed account stays removed: resetPassword and changePassword may overlap
\* with the removal, they do not bring the account back.
RemovedAccountStaysRemoved ==
    [][\A u \in Users :
          rows[u] # NoRow /\ rows[u].deleted => rows'[u].deleted]_rows

\* If requests for mails of one kind do not overlap with each other, nor with the
\* use of such a mail, and no call fails, the last mail that was sent works until
\* it is used or expires: a use erases no token that was set after it.
LastMailWorks ==
    InFlight = {} =>
        \A k \in Kinds, u \in Users :
            last[k][u] \in {NoToken, cached[k][u]} \cup used

\* If no two resetPassword overlap and no call fails, a token resets the password
\* once: no request that is about to save has one that was used.
TokenResetsOnce ==
    \A i \in Requests :
        pc[i] = "save" /\ Op(i) = "reset" => arg[i].token \notin used

\* README.md:66 lists "Sign in and sign up via email": signIn compares the
\* password with the column, so the column holds a password hashed once.
PasswordSignsIn ==
    \A u \in Users :
        IsLive(u) /\ rows[u].password # NoPassword =>
            rows[u].password.hashes = 1
=============================================================================
