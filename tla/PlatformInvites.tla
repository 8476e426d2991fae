--------------------------- MODULE PlatformInvites ---------------------------
(***************************************************************************)
(* Invitations to the platform: app/platform_invite with the users and     *)
(* platform users an acceptance creates, and customer signup and user      *)
(* deletion, which touch the same users.  A token is named after the       *)
(* request that generated it.                                              *)
(***************************************************************************)
EXTENDS Handlers

CONSTANTS
    Invite,         \* platform_invites rows, existing or to come
    Email,          \* e-mail addresses; also the key of the live user
    PrivilegeSet,   \* platform privilege sets beside "Super Admin"
    Invited,        \* the invite that is pending at the start
    Invitee,        \* its address
    FirstSet,       \* its privilege set
    FirstToken,     \* its token, already mailed
    Op              \* the endpoints clients of this instance call

Set == PrivilegeSet \cup {"Super Admin"}
Token == Request \cup {FirstToken}
InviteStatus == {"PENDING", "ACCEPTED", "REJECTED", "EXPIRED", "REVOKED"}
InviteRow == [status : InviteStatus, email : Email, set : Set, token : Token]
NoInvite == [status |-> "NONE"]
(* A user and the privilege set of its platform account, None without one. *)
UserRow == [exists : BOOLEAN, set : Set \cup {None}]

ASSUME InviteAssumption ==
    /\ Invited \in Invite /\ Invitee \in Email /\ FirstSet \in PrivilegeSet
    /\ Invite \cap Email = {}
    /\ FirstToken \notin Request
    /\ None \notin InviteRow \cup {NoInvite} \cup UserRow \cup Set

VARIABLES
    late,       \* tokens whose expires_at has passed
    mailed      \* history: tokens that have been e-mailed

handler == <<pc, job, seen>>
outside == <<late, mailed>>
vars == <<db, pend, handler, outside>>

CreateJob == [op : {"create"}, email : Email, set : Set]
ResendJob == [op : {"resend"}, invite : Invite, set : Set \cup {None}]
RevokeJob == [op : {"revoke"}, invite : Invite]
TokenJob == [op : {"validate", "accept", "reject"}, token : Token]
SignupJob == [op : {"signup"}, email : Email]
DeleteUserJob == [op : {"deleteUser"}, email : Email]

Init ==
    /\ db = [k \in Invite \cup Email |->
               IF k \in Email THEN [exists |-> FALSE, set |-> None]
               ELSE IF k = Invited
               THEN [status |-> "PENDING", email |-> Invitee, set |-> FirstSet,
                     token |-> FirstToken]
               ELSE NoInvite]
    /\ HandlersInit
    /\ late = {} /\ mailed = {FirstToken}

Rejected(r) == Fail(r) /\ UNCHANGED outside

Pending(i) == i.status = "PENDING"

-----------------------------------------------------------------------------
(* Requests arrive; a token is known from the e-mail it came with.         *)
Known(j) == j.op \in Op /\ (j.op \in {"validate", "accept", "reject"} => j.token \in mailed)

Arrive(r) ==
    /\ \/ Begin(r, {j \in CreateJob \cup ResendJob \cup RevokeJob \cup TokenJob : Known(j)}, "sweep")
       \/ Begin(r, {j \in SignupJob : Known(j)}, "user")
       \/ Begin(r, {j \in DeleteUserJob : Known(j)}, "delete")
    /\ UNCHANGED outside

(* Time passes the expires_at of a token.                                  *)
Elapse(t) ==
    /\ t \in mailed \ late
    /\ late' = late \cup {t}
    /\ UNCHANGED <<db, pend, handler, mailed>>

-----------------------------------------------------------------------------
(* mark_expired_invites: one UPDATE over all overdue pending invites; it   *)
(* waits for each that another transaction holds and looks at it again.    *)

AfterSweep(r) == CASE job[r].op = "create" -> "access"
                   [] job[r].op \in {"resend", "revoke"} -> "require"
                   [] OTHER -> "validate"

Overdue(r) == {i \in Invite : Pending(View(r, i)) /\ View(r, i).token \in late}

Sweep(r) ==
    /\ pc[r] = "sweep"
    /\ Read(r, [todo |-> Overdue(r)], IF Overdue(r) = {} THEN AfterSweep(r) ELSE "expire")
    /\ UNCHANGED outside

NextSwept(r, i) ==
    /\ Keep(r, [todo |-> seen[r].todo \ {i}])
    /\ Goto(r, IF seen[r].todo = {i} THEN AfterSweep(r) ELSE "expire")
    /\ UNCHANGED <<job, outside>>

(* Mutant: the invites selected are expired without another look.          *)
ExpireSelected(r, i) ==
    /\ pc[r] = "expire" /\ i \in seen[r].todo
    /\ WriteRow(r, i, [View(r, i) EXCEPT !.status = "EXPIRED"])
    /\ NextSwept(r, i)

Expire(r, i) ==
    /\ pc[r] = "expire" /\ i \in seen[r].todo
    /\ ~HeldByOther(r, i)
    /\ \/ i \in Overdue(r) /\ WriteRow(r, i, [View(r, i) EXCEPT !.status = "EXPIRED"])
       \/ i \notin Overdue(r) /\ UNCHANGED <<db, pend>>
    /\ NextSwept(r, i)

-----------------------------------------------------------------------------
(* POST /admin/invites.                                                    *)

(* _ensure_email_not_platform_user.                                        *)
CheckAccess(r) ==
    LET free == View(r, job[r].email).set = None IN
    /\ pc[r] = "access"
    /\ \/ free /\ Continue(r, "pending") /\ UNCHANGED outside
       \/ ~free /\ Rejected(r)

(* The pending invite of the address, then                                 *)
(* ensure_super_admin_not_invitable.                                       *)
CheckPending(r) ==
    LET free == /\ \A i \in Invite : ~(Pending(View(r, i)) /\ View(r, i).email = job[r].email)
                /\ job[r].set # "Super Admin"
    IN  /\ pc[r] = "pending"
        /\ \/ free /\ Continue(r, "insert") /\ UNCHANGED outside
           \/ ~free /\ Rejected(r)

InsertInvite(r) ==
    /\ pc[r] = "insert"
    /\ \E i \in Invite :
         /\ db[i] = NoInvite
         /\ WriteRow(r, i, [status |-> "PENDING", email |-> job[r].email,
                            set |-> job[r].set, token |-> r])
         /\ Keep(r, i)
    /\ Goto(r, "mail")
    /\ UNCHANGED <<job, outside>>

(* _email_invite runs before the commit.                                   *)
MailSent(r) ==
    /\ pc[r] = "mail"
    /\ mailed' = mailed \cup {r}
    /\ Continue(r, "commit")
    /\ UNCHANGED late

MailFails(r) ==
    /\ pc[r] = "mail"
    /\ Continue(r, IF job[r].op = "create" THEN "revokeUnsent" ELSE "raise")
    /\ UNCHANGED outside

RevokeUnsent(r) ==
    /\ pc[r] = "revokeUnsent"
    /\ Write(r, seen[r], [View(r, seen[r]) EXCEPT !.status = "REVOKED"], "raise")
    /\ UNCHANGED outside

(* Mutant: the failure of the mail server is not raised.                   *)
ReturnUndelivered(r) == pc[r] = "raise" /\ FailKeepingWrites(r) /\ UNCHANGED outside

(* The 503 rolls back whatever was written.                                *)
Undelivered(r) == pc[r] = "raise" /\ Rejected(r)

-----------------------------------------------------------------------------
(* PATCH /admin/invites/{id}/resend and POST /admin/invites/{id}/revoke.   *)

(* _require_pending_invite; the EXPIRED it may write is rolled back by the *)
(* error it raises.  A resend also checks the privilege set.               *)
RequirePending(r) ==
    LET i == View(r, job[r].invite)
        fit == /\ Pending(i) /\ i.token \notin late
               /\ job[r].op = "resend" => job[r].set # "Super Admin"
    IN  /\ pc[r] = "require"
        /\ \/ /\ fit
              /\ Read(r, [invite |-> job[r].invite, row |-> i],
                      IF job[r].op = "resend" THEN "refresh" ELSE "settle")
              /\ UNCHANGED outside
           \/ ~fit /\ Rejected(r)

(* resend_pending_invite: UPDATE .. WHERE status = 'PENDING'.              *)
Refresh(r) ==
    LET i == job[r].invite
        set == IF job[r].set = None THEN seen[r].row.set ELSE job[r].set
    IN  /\ pc[r] = "refresh" /\ ~HeldByOther(r, i)
        /\ \/ /\ Pending(View(r, i))
              /\ Write(r, i, [View(r, i) EXCEPT !.token = r, !.set = set], "mail")
              /\ UNCHANGED outside
           \/ ~Pending(View(r, i)) /\ Rejected(r)

-----------------------------------------------------------------------------
(* GET /admin/invites/validate, POST /admin/invites/accept and .../reject. *)

(* validate_invite.  The GET ends here: its session never commits.         *)
Validate(r) ==
    LET good == {i \in Invite : /\ Pending(View(r, i)) /\ View(r, i).token = job[r].token
                                /\ View(r, i).token \notin late}
    IN  /\ pc[r] = "validate"
        /\ \/ \E i \in good :
                /\ job[r].op # "validate"
                /\ Read(r, [invite |-> i, row |-> View(r, i)],
                        IF job[r].op = "accept" THEN "user" ELSE "settle")
                /\ UNCHANGED outside
           \/ (good = {} \/ job[r].op = "validate") /\ Rejected(r)

Address(r) == IF job[r].op = "accept" THEN seen[r].row.email ELSE job[r].email

(* An acceptance and a customer's signup look the address up, ...          *)
FindUser(r) ==
    LET taken == View(r, Address(r)).exists IN
    /\ pc[r] = "user"
    /\ \/ ~taken /\ Continue(r, "signup") /\ UNCHANGED outside
       \/ taken /\ Rejected(r)

AfterSignup(r) == IF job[r].op = "accept" THEN "account" ELSE "commit"

(* Mutant: users has no unique index on the address.                       *)
SignUpAgain(r) ==
    /\ pc[r] = "signup"
    /\ Write(r, Address(r), [exists |-> TRUE, set |-> None], AfterSignup(r))
    /\ UNCHANGED outside

(* ... then insert the user; uq_users_email_active makes the INSERT wait   *)
(* for another that is in progress, and fail when it committed.            *)
SignUp(r) ==
    LET e == Address(r) IN
    /\ pc[r] = "signup" /\ ~HeldByOther(r, e)
    /\ \/ /\ ~db[e].exists
          /\ Write(r, e, [exists |-> TRUE, set |-> None], AfterSignup(r))
          /\ UNCHANGED outside
       \/ db[e].exists /\ Rejected(r)

(* PlatformUserService.create for the new user.                            *)
CreateAccount(r) ==
    LET set == seen[r].row.set IN
    /\ pc[r] = "account"
    /\ \/ /\ set # "Super Admin"
          /\ Write(r, Address(r), [exists |-> TRUE, set |-> set], "settle")
          /\ UNCHANGED outside
       \/ set = "Super Admin" /\ Rejected(r)

Outcome(op) ==
    CASE op = "accept" -> "ACCEPTED" [] op = "reject" -> "REJECTED" [] OTHER -> "REVOKED"

(* update_invite_status: WHERE id = .., whatever the status is by now.     *)
Settle(r) ==
    LET i == seen[r].invite IN
    /\ pc[r] = "settle"
    /\ Write(r, i, [View(r, i) EXCEPT !.status = Outcome(job[r].op)], "commit")
    /\ UNCHANGED outside

-----------------------------------------------------------------------------
(* DELETE /users/{id}.  The platform account of a deleted user stays, but  *)
(* belongs to nobody who can sign in.                                      *)
DeleteUser(r) ==
    LET e == job[r].email IN
    /\ pc[r] = "delete" /\ ~HeldByOther(r, e)
    /\ \/ /\ View(r, e).exists
          /\ Write(r, e, [exists |-> FALSE, set |-> None], "commit")
          /\ UNCHANGED outside
       \/ ~View(r, e).exists /\ Rejected(r)

Commit(r) == pc[r] = "commit" /\ Finish(r) /\ UNCHANGED outside

ConnectionLost(r) == Running(r) /\ Rejected(r)

Next ==
    \/ \E t \in Token : Elapse(t)
    \/ \E r \in Request :
         \/ Arrive(r) \/ Sweep(r) \/ \E i \in Invite : Expire(r, i)
         \/ CheckAccess(r) \/ CheckPending(r) \/ InsertInvite(r)
         \/ MailSent(r) \/ MailFails(r) \/ RevokeUnsent(r) \/ Undelivered(r)
         \/ RequirePending(r) \/ Refresh(r)
         \/ Validate(r) \/ FindUser(r) \/ SignUp(r) \/ CreateAccount(r) \/ Settle(r)
         \/ DeleteUser(r) \/ Commit(r) \/ ConnectionLost(r)

Spec == Init /\ [][Next]_vars
-----------------------------------------------------------------------------
(* Properties.                                                             *)

Label == {"new", "done", "failed", "sweep", "expire", "access", "pending", "insert", "mail",
          "revokeUnsent", "raise", "require", "refresh", "validate", "user", "signup",
          "account", "settle", "delete", "commit"}

TypeOK ==
    /\ db \in [Invite \cup Email -> InviteRow \cup {NoInvite} \cup UserRow]
    /\ pend \in [Request -> [Invite \cup Email -> InviteRow \cup UserRow \cup {None}]]
    /\ pc \in [Request -> Label]
    /\ job \in [Request -> {NoJob} \cup CreateJob \cup ResendJob \cup RevokeJob \cup TokenJob
                             \cup SignupJob \cup DeleteUserJob]
    /\ seen \in [Request -> {None} \cup Invite \cup [todo : SUBSET Invite]
                              \cup [invite : Invite, row : InviteRow]]
    /\ late \subseteq Token /\ mailed \subseteq Token

Accepting(r) == At(r, "accept", "commit") /\ pc'[r] = "done"

(* Acceptance is transactional: a platform account appears only in the     *)
(* commit that also creates its user and marks the invite, and only for a  *)
(* token that was mailed; an acceptance never takes over a user that       *)
(* somebody else created.                                                  *)
AcceptanceIsWhole ==
    [][/\ \A e \in Email : db[e].set = None /\ db'[e].set # None =>
            \E r \in Request : /\ Accepting(r) /\ seen[r].row.email = e
                               /\ db'[seen[r].invite].status = "ACCEPTED"
       /\ \A r \in Request : Accepting(r) =>
            /\ ~db[seen[r].row.email].exists /\ db'[seen[r].row.email].set # None
            /\ job[r].token \in mailed]_vars

(* A pending invite can be answered: its token has been mailed.  A token   *)
(* whose mail failed never replaces one that was sent.                     *)
PendingInvitesWereMailed == \A i \in Invite : Pending(db[i]) => db[i].token \in mailed

(* Only overdue invites are expired, also when one is resent while another *)
(* request sweeps.                                                         *)
ExpiredMeansLate == \A i \in Invite : db[i].status = "EXPIRED" => db[i].token \in late
=============================================================================
