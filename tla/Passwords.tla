------------------------------ MODULE Passwords ------------------------------
(***************************************************************************)
(* Passwords of platform users: reset tokens and password changes          *)
(* (app/password_reset_token), the platform login, the gate of             *)
(* app/middleware/auth.py before the first change, and the user update and *)
(* deletion that touch the same row.  A reset token and a session are named*)
(* after the request that made them.  A stored password stands for the     *)
(* secret it is a hash of: two hashes of one secret are the same here.     *)
(***************************************************************************)
EXTENDS Handlers

CONSTANTS
    PlatformUser,       \* all in the status NEW at the start
    Secret,             \* what people choose and type as a password
    PasswordEndpoint    \* the endpoints clients of this instance call

Password == Secret \cup {"unhashed"}
CredentialRow == [live : BOOLEAN, status : {"NEW", "ACTIVE", "SUSPENDED"}, password : Password]
TokenRow == [user : PlatformUser, used : BOOLEAN]
NoToken == [user |-> None, used |-> FALSE]

(* A password stored as it was typed is no hash of a password.             *)
ASSUME PasswordAssumption ==
    /\ PlatformUser \cap Request = {}
    /\ "unhashed" \notin Secret
    /\ None \notin CredentialRow \cup TokenRow \cup {NoToken} \cup PlatformUser

VARIABLES
    lapsed,     \* reset tokens whose hour has passed
    session,    \* platform token -> [user, pwd_chg], None before it is issued
    changed,    \* history: users for whom /password-reset/change has succeeded
    overridden  \* history: users whose status an administrator has set

around == <<lapsed, session, changed, overridden>>
passwordVars == <<db, pend, pc, job, seen, around>>

LoginJob == [op : {"login"}, user : PlatformUser, password : Secret]
ChangeJob == [op : {"change"}, by : Request, current : Secret, new : Secret]
RequestJob == [op : {"request"}, user : PlatformUser]
CompleteJob == [op : {"complete"}, token : Request, new : Secret]
PutJob == [op : {"password", "suspend"}, user : PlatformUser]
RemoveJob == [op : {"delete"}, user : PlatformUser]

PasswordInit ==
    /\ \E first \in [PlatformUser -> Secret] :
         db = [k \in PlatformUser \cup Request |->
                 IF k \in PlatformUser THEN [live |-> TRUE, status |-> "NEW", password |-> first[k]]
                 ELSE NoToken]
    /\ HandlersInit
    /\ lapsed = {}
    /\ session = [n \in Request |-> None]
    /\ changed = {}
    /\ overridden = {}

TurnedDown(r) == Fail(r) /\ UNCHANGED around

-----------------------------------------------------------------------------
(* AuthMiddleware: a session issued before the first change opens          *)
(* /password-reset/change and nothing else; the other paths are called by  *)
(* people with unrestricted sessions, of whom there are others.            *)
Issued(n) == session[n] # None
Unrestricted(n) == n \in {m \in Request : Issued(m)} /\ ~session[n].pwd_chg

Offered(Jobs) == {j \in Jobs : j.op \in PasswordEndpoint}

CallPasswords(r) ==
    /\ \/ Begin(r, Offered(LoginJob), "credentials")
       \/ Begin(r, {j \in Offered(ChangeJob) : Issued(j.by)}, "verify")
       \/ Begin(r, Offered(RequestJob), "insert")
       \/ Begin(r, {j \in Offered(CompleteJob) : db[j.token] # NoToken}, "validate")
       \/ Begin(r, Offered(PutJob), "load")
       \/ Begin(r, Offered(RemoveJob), "remove")
    /\ UNCHANGED around

(* Time passes the expires_at of a token.                                  *)
Lapse(t) ==
    /\ db[t] # NoToken /\ t \notin lapsed
    /\ lapsed' = lapsed \cup {t}
    /\ UNCHANGED <<db, pend, pc, job, seen, session, changed, overridden>>

(* Whose password the request is about to write or check.                  *)
Subject(r) == CASE job[r].op = "change" -> session[job[r].by].user
                [] job[r].op = "complete" -> db[job[r].token].user
                [] OTHER -> job[r].user

Live(r) == View(r, Subject(r)).live

(* PasswordHash.verify: it raises on what is no hash, so that neither the  *)
(* login nor the change ever succeeds with an unhashed password.           *)
Verifies(r, secret) == Live(r) /\ View(r, Subject(r)).password = secret

-----------------------------------------------------------------------------
(* POST /admin/users/login.                                                *)

(* Mutant: the status is not looked at.                                    *)
ChangeNeverRequired(r) == FALSE

ChangeRequired(r) == View(r, Subject(r)).status = "NEW"

Authenticate(r) ==
    /\ pc[r] = "credentials"
    /\ \/ /\ Verifies(r, job[r].password)
          /\ Read(r, [user |-> Subject(r), pwd_chg |-> ChangeRequired(r)], "login")
          /\ UNCHANGED around
       \/ ~Verifies(r, job[r].password) /\ TurnedDown(r)

IssueToken(r) ==
    /\ pc[r] = "login"
    /\ session' = [session EXCEPT ![r] = seen[r]]
    /\ Finish(r)
    /\ UNCHANGED <<lapsed, changed, overridden>>

-----------------------------------------------------------------------------
(* POST /password-reset/change.                                            *)

(* The current password and the status are read here and not again.        *)
VerifyCurrent(r) ==
    /\ pc[r] = "verify"
    /\ \/ /\ Verifies(r, job[r].current)
          /\ Read(r, [was_new |-> View(r, Subject(r)).status = "NEW"], "load")
          /\ UNCHANGED around
       \/ ~Verifies(r, job[r].current) /\ TurnedDown(r)

(* update_user reads the live user, then flushes an UPDATE of its row by   *)
(* id, deleted meanwhile or not; a status that is the loaded one is not    *)
(* flushed, while a hash is salted and differs from every other.           *)
AfterLoad(r) ==
    IF job[r].op # "suspend" THEN "write"
    ELSE IF View(r, Subject(r)).status = "SUSPENDED" THEN "commit" ELSE "status"

LoadUser(r) ==
    /\ pc[r] = "load"
    /\ \/ Live(r) /\ Continue(r, AfterLoad(r)) /\ UNCHANGED around
       \/ ~Live(r) /\ TurnedDown(r)

AfterWrite(r) ==
    CASE job[r].op = "change" -> IF seen[r].was_new THEN "status" ELSE "commit"
      [] job[r].op = "complete" -> "mark"
      [] OTHER -> "commit"

(* The secret of a change or a reset is hashed as it is given, be it the   *)
(* one in force or an earlier one: nothing is compared.  PUT does not hash.*)
NewPassword(r) == IF job[r].op = "password" THEN "unhashed" ELSE job[r].new

WritePassword(r) ==
    /\ pc[r] = "write"
    /\ Write(r, Subject(r), [View(r, Subject(r)) EXCEPT !.password = NewPassword(r)], AfterWrite(r))
    /\ UNCHANGED around

(* A PUT of the status, and the second update_user of a change, which      *)
(* reads again and fails when the user was deleted before the first.       *)
WriteStatus(r) ==
    LET status == IF job[r].op = "suspend" THEN "SUSPENDED" ELSE "ACTIVE"
        gone == job[r].op = "change" /\ ~Live(r)
    IN  /\ pc[r] = "status"
        /\ \/ /\ ~gone
              /\ Write(r, Subject(r), [View(r, Subject(r)) EXCEPT !.status = status], "commit")
              /\ UNCHANGED around
           \/ gone /\ TurnedDown(r)

(* The answer to a change carries a session without pwd_chg, unless the    *)
(* user is gone.                                                           *)
CommitPasswords(r) ==
    /\ pc[r] = "commit"
    /\ session' = IF job[r].op = "change" /\ Live(r)
                  THEN [session EXCEPT ![r] = [user |-> Subject(r), pwd_chg |-> FALSE]]
                  ELSE session
    /\ changed' = changed \cup (IF job[r].op = "change" THEN {Subject(r)} ELSE {})
    /\ overridden' = overridden \cup (IF job[r].op = "suspend" THEN {job[r].user} ELSE {})
    /\ Finish(r)
    /\ UNCHANGED lapsed

-----------------------------------------------------------------------------
(* POST /password-reset/request.  Earlier tokens stay as they are.         *)
InsertToken(r) ==
    /\ pc[r] = "insert"
    /\ \/ /\ Live(r)
          /\ Write(r, r, [user |-> Subject(r), used |-> FALSE], "commit") /\ UNCHANGED around
       \/ ~Live(r) /\ Continue(r, "commit") /\ UNCHANGED around

(* POST /password-reset/complete.                                          *)
ValidateToken(r) ==
    LET valid == ~View(r, job[r].token).used /\ job[r].token \notin lapsed IN
    /\ pc[r] = "validate"
    /\ \/ valid /\ Continue(r, "load") /\ UNCHANGED around
       \/ ~valid /\ TurnedDown(r)

(* Mutant: the UPDATE matches used tokens too.                             *)
MarkableAlways(r) == TRUE

Markable(r) == ~View(r, job[r].token).used

MarkUsed(r) ==
    LET t == job[r].token IN
    /\ pc[r] = "mark" /\ ~HeldByOther(r, t)
    /\ \/ Markable(r) /\ Write(r, t, [View(r, t) EXCEPT !.used = TRUE], "commit") /\ UNCHANGED around
       \/ ~Markable(r) /\ TurnedDown(r)

-----------------------------------------------------------------------------
(* DELETE /users/{id}.                                                     *)
RemoveUser(r) ==
    LET u == job[r].user IN
    /\ pc[r] = "remove" /\ ~HeldByOther(r, u)
    /\ \/ Live(r) /\ Write(r, u, [View(r, u) EXCEPT !.live = FALSE], "commit") /\ UNCHANGED around
       \/ ~Live(r) /\ TurnedDown(r)

PasswordsCutOff(r) == Running(r) /\ TurnedDown(r)

PasswordNext ==
    \/ \E r \in Request :
         \/ CallPasswords(r) \/ Authenticate(r) \/ IssueToken(r) \/ VerifyCurrent(r) \/ LoadUser(r)
         \/ WritePassword(r) \/ WriteStatus(r) \/ InsertToken(r) \/ ValidateToken(r) \/ MarkUsed(r)
         \/ RemoveUser(r) \/ CommitPasswords(r) \/ PasswordsCutOff(r)
    \/ \E t \in Request : Lapse(t)

PasswordSpec == PasswordInit /\ [][PasswordNext]_passwordVars
-----------------------------------------------------------------------------
(* Properties.                                                             *)

PasswordLabel == {"new", "done", "failed", "credentials", "login", "verify", "load", "write", "status",
          "commit", "insert", "validate", "mark", "remove"}

PasswordJob == {NoJob} \cup LoginJob \cup ChangeJob \cup RequestJob \cup CompleteJob \cup PutJob
         \cup RemoveJob

PasswordTypeOK ==
    /\ db \in [PlatformUser \cup Request -> CredentialRow \cup TokenRow \cup {NoToken}]
    /\ \A u \in PlatformUser : db[u] \in CredentialRow
    /\ \A t \in Request : db[t] \in TokenRow \cup {NoToken}
    /\ \A r \in Request, u \in PlatformUser : pend[r][u] \in CredentialRow \cup {None}
    /\ \A r, t \in Request : pend[r][t] \in TokenRow \cup {None}
    /\ pc \in [Request -> PasswordLabel] /\ job \in [Request -> PasswordJob]
    /\ lapsed \in SUBSET Request
    /\ changed \in SUBSET PlatformUser /\ overridden \in SUBSET PlatformUser
    /\ session \in [Request -> [user : PlatformUser, pwd_chg : BOOLEAN] \cup {None}]

(* A reset that commits spends its token, which no reset before it had     *)
(* spent, in the same step in which the password becomes the one it set:   *)
(* of several completions with one token, however they overlap and fail,   *)
(* one succeeds.                                                           *)
ResetSpendsToken ==
    [][\A r \in Request :
         pc[r] = "commit" /\ pc'[r] = "done" /\ job[r].op = "complete" =>
           LET t == job[r].token IN
           ~db[t].used /\ db'[t].used /\ db'[db[t].user].password = job[r].new]_passwordVars

(* The first login has to lead to a change: whoever has an unrestricted    *)
(* session belongs to a user for whom a change of the password, which asks *)
(* for the one in force, has been committed.  A reset does not do, nor an  *)
(* overlap of logins, resets and changes that fail; a status set by an     *)
(* administrator does.                                                     *)
ChangeComesFirst ==
    \A n \in Request : Unrestricted(n) => session[n].user \in changed \cup overridden
=============================================================================
