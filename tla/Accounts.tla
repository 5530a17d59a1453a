------------------------------ MODULE Accounts ------------------------------
(***************************************************************************)
(* The accounts of users: UsersService, which makes sure at start that the *)
(* administrator has one, and AuthService with the guard of its routes.    *)
(* Every request reads the account and acts later on what it has read.     *)
(*                                                                         *)
(* Emails are unique in the collection.  A password stands for its hash,   *)
(* a token for the account it was signed for.  The soft deletion sets a    *)
(* mark that none of these requests reads, and the last login, the name    *)
(* and the settings decide nothing: they are left out.                     *)
(***************************************************************************)
EXTENDS Naturals

CONSTANTS
  Req, Account, Email, Password, None,
  Admin,      \* admin@admin.com
  MaxCalls    \* bound on requests

VARIABLES
  user,       \* the documents, by id
  req,        \* a request: what it is, where it is, what it was given and what it has read
  calls,
  started,    \* an instance has started
  \* history
  renamed,    \* an account's email was changed
  answers     \* whether what was answered or written was right, and whether another wrote meanwhile

vars == <<user, req, calls, started, renamed, answers>>

Idle == [op |-> None, at |-> "idle", account |-> None, email |-> None, password |-> None, overlapped |-> FALSE]

Init ==
  /\ user = [a \in Account |-> None] /\ req = [r \in Req |-> Idle] /\ calls = 0
  /\ started = FALSE /\ renamed = FALSE /\ answers = {}

Existing == {a \in Account : user[a] # None}
Of(email) == {a \in Existing : user[a].email = email}
Taken(email) == Of(email) # {}

At(r, op, at)  == req[r].op = op /\ req[r].at = at
Go(r, at)      == req' = [req EXCEPT ![r].at = at]
Done(r)        == req' = [req EXCEPT ![r] = Idle]
Kept           == UNCHANGED <<user, started, renamed, answers>>
Answer(r, right) == answers' = answers \cup {[right |-> right, overlapped |-> req[r].overlapped]}
\* A write ends its request; the others for that account or email have overlapped with it.
Ends(r, a, emails) ==
  req' = [q \in Req |->
    IF q = r \/ req[q].at = "idle" THEN Idle
    ELSE [req[q] EXCEPT !.overlapped = @ \/ req[q].account = a \/ req[q].email \in emails]]

Begin(r, op, at, a, e, p) ==
  /\ req[r].at = "idle" /\ calls < MaxCalls /\ calls' = calls + 1
  /\ req' = [req EXCEPT ![r] = [Idle EXCEPT !.op = op, !.at = at, !.account = a, !.email = e, !.password = p]]
  /\ Kept
Request(r) ==
  \/ \E p \in Password : Begin(r, "start", "look", None, Admin, p)
  \/ \E e \in Email, p \in Password : \/ Begin(r, "register", "lookAgain", None, e, p)
                                      \/ Begin(r, "login", "find", None, e, p)
  \/ \E a \in Existing :
       \/ Begin(r, "refresh", "find", a, None, None)
       \/ Begin(r, "deactivate", "guard", a, None, None)
       \/ \E p \in Password : Begin(r, "change", "guard", a, None, p)
       \/ \E e \in Email : Begin(r, "profile", "guard", a, e, None)
       \/ Begin(r, "put", "write", a, None, None)

\* onModuleInit of an instance that starts.
Look(r) ==
  /\ At(r, "start", "look")
  /\ IF Taken(Admin) THEN Done(r) /\ started' = TRUE ELSE Go(r, "lookAgain") /\ started' = started
  /\ UNCHANGED <<user, calls, renamed, answers>>

\* createUser, of a start or of a registration: a start that is refused fails.
Fails(r) == /\ Done(r)
            /\ IF req[r].op = "start" THEN Answer(r, FALSE) ELSE answers' = answers
            /\ UNCHANGED <<user, calls, started, renamed>>
LookAgain(r) ==
  /\ req[r].at = "lookAgain"
  /\ IF Taken(req[r].email) THEN Fails(r) ELSE Go(r, "insert") /\ calls' = calls /\ Kept
InsertRefused(r) == req[r].at = "insert" /\ Taken(req[r].email) /\ Fails(r)
Insert(r) ==
  /\ req[r].at = "insert" /\ ~Taken(req[r].email)
  /\ \E a \in Account \ Existing :
       /\ user' = [user EXCEPT ![a] = [email |-> req[r].email, password |-> req[r].password, isActive |-> TRUE]]
       /\ Ends(r, a, {req[r].email})
  /\ started' = (started \/ req[r].op = "start")
  /\ UNCHANGED <<calls, renamed, answers>>

\* validateUser: the account, the password and isActive are those of one read.
ValidateUser(r) ==
  /\ At(r, "login", "find")
  /\ LET found == {a \in Of(req[r].email) : user[a].password = req[r].password /\ user[a].isActive}
     IN IF found = {} THEN Done(r)
        ELSE \E a \in found : req' = [req EXCEPT ![r].at = "issue", ![r].account = a]
  /\ calls' = calls /\ Kept

\* Mutant: whoever has a refresh token gets another.
RefreshTokenAny(r) == At(r, "refresh", "find") /\ Go(r, "issue") /\ calls' = calls /\ Kept
RefreshToken(r) ==
  /\ At(r, "refresh", "find")
  /\ IF user[req[r].account].isActive THEN Go(r, "issue") ELSE Done(r)
  /\ calls' = calls /\ Kept

\* generateTokens, and the answer.
GenerateTokens(r) ==
  /\ req[r].at = "issue"
  /\ LET u == user[req[r].account]
     IN Answer(r, u.isActive /\ (req[r].op = "login" => u.email = req[r].email /\ u.password = req[r].password))
  /\ Done(r) /\ UNCHANGED <<user, calls, started, renamed>>

\* JwtStrategy.validate, before the routes under /auth/me.
Validate(r) ==
  /\ req[r].at = "guard"
  /\ IF user[req[r].account].isActive THEN Go(r, IF req[r].op = "change" THEN "find" ELSE "write") ELSE Done(r)
  /\ calls' = calls /\ Kept

ChangePassword(r) ==
  /\ At(r, "change", "find")
  /\ IF user[req[r].account].password = req[r].password THEN Go(r, "write") ELSE Done(r)
  /\ calls' = calls /\ Kept

Write(r, u, right) ==
  LET a == req[r].account
  IN /\ user' = [user EXCEPT ![a] = u] /\ renamed' = (renamed \/ u.email # user[a].email)
     /\ Answer(r, right) /\ Ends(r, a, {u.email, user[a].email}) /\ UNCHANGED <<calls, started>>
WritePassword(r) ==
  /\ At(r, "change", "write")
  /\ LET u == user[req[r].account]
     IN \E p \in Password : Write(r, [u EXCEPT !.password = p], u.isActive /\ u.password = req[r].password)
DeactivateAccount(r) ==
  /\ At(r, "deactivate", "write")
  /\ LET u == user[req[r].account] IN Write(r, [u EXCEPT !.isActive = FALSE], u.isActive)
\* updateProfile; the unique index may refuse the email.
UpdateProfile(r) ==
  /\ At(r, "profile", "write")
  /\ LET u == user[req[r].account]
     IN IF Of(req[r].email) \subseteq {req[r].account} THEN Write(r, [u EXCEPT !.email = req[r].email], u.isActive)
        ELSE Done(r) /\ calls' = calls /\ Kept
\* An administrator's PUT, of an email that is free: one write.
UpdateUser(r) ==
  /\ At(r, "put", "write")
  /\ \E e \in Email, p \in Password, v \in BOOLEAN :
       /\ Of(e) \subseteq {req[r].account}
       /\ Write(r, [email |-> e, password |-> p, isActive |-> v], TRUE)

Step(r) ==
  \/ Request(r) \/ Look(r) \/ LookAgain(r) \/ Insert(r) \/ InsertRefused(r) \/ ValidateUser(r) \/ RefreshToken(r)
  \/ GenerateTokens(r) \/ Validate(r) \/ ChangePassword(r)
  \/ WritePassword(r) \/ DeactivateAccount(r) \/ UpdateProfile(r) \/ UpdateUser(r)
Next == \E r \in Req : Step(r)
Spec == Init /\ [][Next]_vars

-----------------------------------------------------------------------------
\* Tokens are given for an account that is active and has the password given, its
\* owner's writes find it active, a new password replaces the one that was proven,
\* and an instance starts, unless another request wrote that account or took that
\* email in between.
\* Once an instance has started, the administrator has an account, under its email
\* unless that was changed.
AccountRules ==
  /\ \A a \in answers : a.right \/ a.overlapped
  /\ started => Taken(Admin) \/ renamed
=============================================================================
