----------------------------- MODULE SuperAdmin ------------------------------
(***************************************************************************)
(* Platform users and the singleton super admin role: app/platform_user,   *)
(* service and guards.  The guards read in sessions of their own, before   *)
(* the statements that write.                                              *)
(***************************************************************************)
EXTENDS Handlers

CONSTANTS
    Account,    \* platform_users rows, existing or to come
    User,       \* users
    UserOf,     \* the user of each account
    Founder,    \* the account that bootstraps as super admin
    Member,     \* accounts that exist at the start beside the founder
    Endpoint    \* the endpoints clients of this instance call

Role == {"Super Admin", "Admin", "Editor"}      \* platform_privilege_sets
Status == {"ACTIVE", "SUSPENDED", "DELETED"}
AccountRow == [role : Role, status : Status, live : BOOLEAN]

ASSUME AccountAssumption ==
    /\ UserOf \in [Account -> User]
    /\ Founder \in Account /\ Member \subseteq Account \ {Founder}
    /\ None \notin AccountRow
    /\ \A a, b \in Member \cup {Founder} : UserOf[a] = UserOf[b] => a = b

VARIABLE overtaken  \* history: a request committed what it had decided on
                    \* a role that had changed meanwhile

accountVars == <<db, pend, pc, job, seen, overtaken>>

TransferJob == [op : {"transfer"}, caller : User, account : Account]
(* A field the client leaves out is None.  The status may be any text; the *)
(* guards only ask whether it is ACTIVE.                                   *)
UpdateJob == [op : {"update"}, account : Account, role : Role \cup {None},
              status : {"ACTIVE", "SUSPENDED", None}]
DeleteJob == [op : {"delete"}, account : Account]
CreateAccountJob == [op : {"create"}, account : Account, role : Role]

Called(Jobs) == {j \in Jobs : j.op \in Endpoint}

AccountInit ==
    /\ db = [a \in Account |->
               [role |-> IF a = Founder THEN "Super Admin" ELSE "Admin",
                status |-> "ACTIVE",
                live |-> a \in Member \cup {Founder}]]
    /\ HandlersInit
    /\ overtaken = FALSE

Refused(r) == Fail(r) /\ UNCHANGED overtaken

IsSuperAdmin(row) == row.live /\ row.role = "Super Admin"

-----------------------------------------------------------------------------
(* POST /admin/users/transfer-super-admin.                                 *)

BeginTransfer(r) == Begin(r, Called(TransferJob), "caller") /\ UNCHANGED overtaken

(* Mutant: any platform user may call.                                     *)
MayTransferAnybody(caller, s) == TRUE

MayTransfer(caller, s) == UserOf[s] = caller

(* ensure_caller_is_super_admin: some active super admin, the first the    *)
(* query finds.                                                            *)
CheckCaller(r) ==
    LET active == {a \in Account : IsSuperAdmin(db[a]) /\ db[a].status = "ACTIVE"}
    IN  /\ At(r, "transfer", "caller")
        /\ \/ \E s \in active :
                /\ MayTransfer(job[r].caller, s) /\ s # job[r].account
                /\ Read(r, s, "target")
                /\ UNCHANGED overtaken
           \/ /\ active = {} \/ \E s \in active : \/ ~MayTransfer(job[r].caller, s)
                                                  \/ s = job[r].account
              /\ Refused(r)

CheckTarget(r) ==
    LET target == View(r, job[r].account)
        fit == target.live /\ target.role # "Super Admin"
    IN  /\ At(r, "transfer", "target")
        /\ \/ fit /\ Continue(r, "loadCaller") /\ UNCHANGED overtaken
           \/ ~fit /\ Refused(r)

(* update_platform_user of the caller: it is loaded here for the first     *)
(* time, and when it has been demoted meanwhile there is nothing to flush. *)
LoadCaller(r) ==
    LET caller == View(r, seen[r]) IN
    /\ At(r, "transfer", "loadCaller")
    /\ \/ /\ caller.live
          /\ Continue(r, IF caller.role = "Admin" THEN "loadTarget" ELSE "demote")
          /\ UNCHANGED overtaken
       \/ ~caller.live /\ Refused(r)

Demote(r) ==
    /\ At(r, "transfer", "demote")
    /\ Write(r, seen[r], [View(r, seen[r]) EXCEPT !.role = "Admin"], "loadTarget")
    /\ UNCHANGED overtaken

LoadTarget(r) ==
    LET live == View(r, job[r].account).live IN
    /\ At(r, "transfer", "loadTarget")
    /\ \/ live /\ Continue(r, "promote") /\ UNCHANGED overtaken
       \/ ~live /\ Refused(r)

(* Mutant: the target is not the account asked for but the caller again.   *)
PromoteCaller(r) ==
    /\ At(r, "transfer", "promote")
    /\ Write(r, seen[r], [View(r, seen[r]) EXCEPT !.role = "Super Admin"], "commit")
    /\ UNCHANGED overtaken

Promote(r) ==
    LET a == job[r].account IN
    /\ At(r, "transfer", "promote")
    /\ Write(r, a, [View(r, a) EXCEPT !.role = "Super Admin"], "commit")
    /\ UNCHANGED overtaken

-----------------------------------------------------------------------------
(* PUT /admin/users/{id}.                                                  *)

BeginUpdate(r) == Begin(r, Called(UpdateJob), "read") /\ UNCHANGED overtaken

(* Mutant: ensure_super_admin_not_assignable_via_update is missing.        *)
RoleMayBeSetAtAll(from, to) == to = from \/ from # "Super Admin"

(* ensure_super_admin_not_demoted and .._not_assignable_via_update.        *)
RoleMayBeSet(from, to) ==
    /\ to = from \/ from # "Super Admin" \/ to = "Super Admin"
    /\ to # "Super Admin"

ReadForUpdate(r) ==
    LET row == View(r, job[r].account)
        allowed == row.live /\ (job[r].role # None => RoleMayBeSet(row.role, job[r].role))
    IN  /\ At(r, "update", "read")
        /\ \/ allowed /\ Read(r, row, "reload") /\ UNCHANGED overtaken
           \/ ~allowed /\ Refused(r)

(* What the flush writes: the fields given that differ from what the       *)
(* session has loaded.                                                     *)
Changed(r) ==
    {f \in {"role", "status"} : job[r][f] # None /\ job[r][f] # seen[r][f]}

Reload(r) ==
    LET live == View(r, job[r].account).live IN
    /\ At(r, "update", "reload")
    /\ \/ /\ live
          /\ Continue(r, IF Changed(r) = {} THEN "commit" ELSE "flush")
          /\ UNCHANGED overtaken
       \/ ~live /\ Refused(r)

Flush(r) ==
    LET a == job[r].account
        row == View(r, a)
    IN  /\ At(r, "update", "flush")
        /\ Write(r, a, [f \in DOMAIN row |-> IF f \in Changed(r) THEN job[r][f] ELSE row[f]],
                 "commit")
        /\ UNCHANGED overtaken

-----------------------------------------------------------------------------
(* DELETE /admin/users/{id} and POST /admin/users.                         *)

BeginDelete(r) == Begin(r, Called(DeleteJob), "read") /\ UNCHANGED overtaken

(* ensure_super_admin_not_removed.                                         *)
ReadForDelete(r) ==
    LET row == View(r, job[r].account)
        allowed == row.live /\ row.role # "Super Admin"
    IN  /\ At(r, "delete", "read")
        /\ \/ allowed /\ Continue(r, "remove") /\ UNCHANGED overtaken
           \/ ~allowed /\ Refused(r)

(* soft_delete_platform_user: its WHERE clause asks for a live row, of     *)
(* whatever role.                                                          *)
Remove(r) ==
    LET row == View(r, job[r].account) IN
    /\ At(r, "delete", "remove")
    /\ \/ /\ row.live
          /\ Write(r, job[r].account, [row EXCEPT !.live = FALSE, !.status = "DELETED"], "commit")
          /\ UNCHANGED overtaken
       \/ ~row.live /\ Refused(r)

(* A row that is new: never live, not written by another request.          *)
Fresh(j) == ~db[j.account].live /\ db[j.account].status # "DELETED"

BeginCreate(r) ==
    Begin(r, {j \in Called(CreateAccountJob) : Fresh(j)}, "exists") /\ UNCHANGED overtaken

SameUser(a) == {b \in Account \ {a} : UserOf[b] = UserOf[a]}

(* The user has no account yet, and the role is not super admin.           *)
CheckNew(r) ==
    LET allowed == /\ \A b \in SameUser(job[r].account) : ~View(r, b).live
                   /\ job[r].role # "Super Admin"
    IN  /\ At(r, "create", "exists")
        /\ \/ allowed /\ Continue(r, "insert") /\ UNCHANGED overtaken
           \/ ~allowed /\ Refused(r)

(* uq_platform_users_user_id_active: the INSERT waits for transactions     *)
(* that write an account of the user, and fails when one is live.          *)
Insert(r) ==
    LET a == job[r].account IN
    /\ At(r, "create", "insert")
    /\ \A b \in SameUser(a) : ~HeldByOther(r, b)
    /\ ~HeldByOther(r, a) /\ Fresh(job[r])
    /\ \/ /\ \A b \in SameUser(a) : ~db[b].live
          /\ Write(r, a, [role |-> job[r].role, status |-> "ACTIVE", live |-> TRUE], "commit")
          /\ UNCHANGED overtaken
       \/ (\E b \in SameUser(a) : db[b].live) /\ Refused(r)

-----------------------------------------------------------------------------
(* What r decided on is no longer so when it commits.  A transfer that     *)
(* found its caller demoted wrote nothing to that account; the caller may  *)
(* be the super admin again by now.                                        *)
Overtaken(r) ==
    LET a == job[r].account IN
    CASE job[r].op = "transfer" -> \/ ~Holds(r, seen[r]) \/ ~IsSuperAdmin(db[seen[r]])
                                   \/ ~db[a].live \/ IsSuperAdmin(db[a])
      [] job[r].op = "update" -> IsSuperAdmin(db[a]) # IsSuperAdmin(seen[r]) /\ "role" \in Changed(r)
      [] job[r].op = "delete" -> IsSuperAdmin(db[a])
      [] OTHER -> FALSE

CommitAccounts(r) ==
    /\ pc[r] = "commit"
    /\ overtaken' = (overtaken \/ Overtaken(r))
    /\ Finish(r)

Disconnected(r) == Running(r) /\ Refused(r)

AccountNext == \E r \in Request :
    \/ BeginTransfer(r) \/ CheckCaller(r) \/ CheckTarget(r)
    \/ LoadCaller(r) \/ Demote(r) \/ LoadTarget(r) \/ Promote(r)
    \/ BeginUpdate(r) \/ ReadForUpdate(r) \/ Reload(r) \/ Flush(r)
    \/ BeginDelete(r) \/ ReadForDelete(r) \/ Remove(r)
    \/ BeginCreate(r) \/ CheckNew(r) \/ Insert(r)
    \/ CommitAccounts(r) \/ Disconnected(r)

AccountSpec == AccountInit /\ [][AccountNext]_accountVars
-----------------------------------------------------------------------------
(* Properties.                                                             *)

AccountLabel == {"new", "done", "failed", "commit", "caller", "target", "loadCaller", "demote",
          "loadTarget", "promote", "read", "reload", "flush", "remove", "exists", "insert"}

AccountTypeOK ==
    /\ db \in [Account -> AccountRow]
    /\ pend \in [Request -> [Account -> AccountRow \cup {None}]]
    /\ pc \in [Request -> AccountLabel]
    /\ job \in [Request -> {NoJob} \cup TransferJob \cup UpdateJob \cup DeleteJob
                             \cup CreateAccountJob]
    /\ seen \in [Request -> {None} \cup Account \cup AccountRow]
    /\ overtaken \in BOOLEAN

SuperAdmins == {a \in Account : IsSuperAdmin(db[a])}

(* There is exactly one super admin as long as no request commits what it  *)
(* decided on a role that had changed: the guards, the two UPDATEs of a    *)
(* transfer and its rollback never lose the role nor double it.            *)
OneSuperAdminUnlessOvertaken == ~overtaken => Cardinality(SuperAdmins) = 1

(* An account gains the role only in the commit of a transfer that takes   *)
(* it from the caller's own account, unless that transfer was overtaken.   *)
RoleMovesByTransfer ==
    [][\A a \in Account : ~IsSuperAdmin(db[a]) /\ IsSuperAdmin(db'[a]) =>
         \E r \in Request : /\ At(r, "transfer", "commit") /\ job[r].account = a
                            /\ UserOf[seen[r]] = job[r].caller
                            /\ overtaken' \/ (IsSuperAdmin(db[seen[r]])
                                                /\ ~IsSuperAdmin(db'[seen[r]]))]_accountVars
=============================================================================
