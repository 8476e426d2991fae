----------------------------- MODULE Membership ------------------------------
(***************************************************************************)
(* Businesses, their members and the sessions that act for them:           *)
(* app/business, app/business_user, app/role_privilege, the login and      *)
(* context switches of app/user, and app/utility/revocation.  Rows are     *)
(* transactional; the two kinds of Redis keys are not: a request writes    *)
(* them while it runs and a rollback does not take them back.              *)
(***************************************************************************)
EXTENDS Handlers

CONSTANTS
    Business,       \* businesses rows, existing or to come
    Mapping,        \* business_users rows, existing or to come
    User,
    Role,           \* roles rows; each grants the one privilege or not
    OwnerRole,      \* the one with OWNER_ROLE_CODE
    Home,           \* the business at the start,
    Owner,          \* its owner,
    Hired,          \* its other members at the start,
    HiredAs,        \* their role,
    MappingOf,      \* and the rows that say so
    Op,             \* the endpoints clients of this instance call
    Body            \* the bodies of their PATCH /business-users

BusinessRow == [state : {"none", "live", "deleted"}, owner : User]
MappingRow == [state : {"none", "live", "deleted"}, business : Business, user : User, role : Role]
RoleRow == [granted : BOOLEAN]

(* What a PATCH of a membership names; None is what it leaves out.  That   *)
(* it gives a status is all that matters of one.                           *)
PatchBody == [business : Business \cup {None}, user : User \cup {None},
              role : Role \cup {None}, status : BOOLEAN]

ASSUME MembershipAssumption ==
    /\ Home \in Business /\ OwnerRole \in Role /\ HiredAs \in Role
    /\ Owner \in User /\ Hired \subseteq User \ {Owner}
    /\ MappingOf \in [Hired \cup {Owner} -> Mapping]
    /\ \A u, v \in Hired \cup {Owner} : MappingOf[u] = MappingOf[v] => u = v
    /\ Business \cap Mapping = {} /\ Business \cap Role = {} /\ Mapping \cap Role = {}
    /\ User \cap Request = {}
    /\ Body \subseteq PatchBody /\ None \notin Business \cup User \cup Role
    /\ None \notin BusinessRow \cup MappingRow \cup RoleRow

(* A token is named after the request that issued it, those of the start   *)
(* after their users.                                                      *)
Name == Request \cup User
CustomerToken == [ctx : {"CUSTOMER"}, user : User]
BusinessToken == [ctx : {"BUSINESS"}, user : User, business : Business, owner : BOOLEAN,
                  role : Role, privileged : BOOLEAN]

(* A token that was issued is there.                                       *)
ASSUME NoneIsNoToken == None \notin CustomerToken \cup BusinessToken

VARIABLES
    token,      \* name -> what the token says, None before it is issued
    stored,     \* Redis: the token under the user's e-mail address
    revoked,    \* Redis: the tokens whose jti is on the blocklist
    overlapped, \* history: two requests were running at once
    left        \* history: the sessions whose membership a PATCH gave to
                \* another user or business

redis == <<stored, revoked>>
sessions == <<token, redis>>
vars == <<db, pend, pc, job, seen, sessions, overlapped, left>>

LoginJob == [op : {"login"}, user : User]
ToCustomerJob == [op : {"toCustomer"}, by : Name]
ToBusinessJob == [op : {"toBusiness"}, by : Name, business : Business]
CreateJob == [op : {"create"}, by : Name]
HandOverJob == [op : {"handOver"}, by : Name, user : User]
DeleteJob == [op : {"delete"}, by : Name]
AddJob == [op : {"add"}, by : Name, business : Business, user : User, role : Role]
ReassignJob == [op : {"reassign"}, by : Name, mapping : Mapping, to : Body]
RemoveJob == [op : {"remove"}, by : Name, mapping : Mapping]
DropJob == [op : {"drop"}, role : Role]
GrantJob == [op : {"grant"}, role : Role]

StaffToken(u, role) ==
    [ctx |-> "BUSINESS", user |-> u, business |-> Home, owner |-> u = Owner, role |-> role,
     privileged |-> TRUE]

RoleAtStart(u) == IF u = Owner THEN OwnerRole ELSE HiredAs
Staff == Hired \cup {Owner}

InitialRow(k) ==
    IF k \in Business
    THEN [state |-> IF k = Home THEN "live" ELSE "none", owner |-> Owner]
    ELSE IF k \in Role THEN [granted |-> TRUE]
    ELSE IF \E u \in Staff : MappingOf[u] = k
    THEN LET u == CHOOSE v \in Staff : MappingOf[v] = k
         IN  [state |-> "live", business |-> Home, user |-> u, role |-> RoleAtStart(u)]
    ELSE [state |-> "none", business |-> Home, user |-> Owner, role |-> OwnerRole]

Init ==
    /\ db = [k \in Business \cup Mapping \cup Role |-> InitialRow(k)]
    /\ HandlersInit
    /\ token = [n \in Name |-> IF n \in Staff THEN StaffToken(n, RoleAtStart(n)) ELSE None]
    /\ stored = [u \in User |-> IF u \in Staff THEN u ELSE None]
    /\ revoked = {}
    /\ overlapped = FALSE
    /\ left = {}

Live(row) == row.state = "live"

-----------------------------------------------------------------------------
(* get_token_payload and the require_.. dependencies: a token that was     *)
(* issued and is not on the blocklist says what its bearer may do.         *)
Valid(n) == n \in {m \in Name \ revoked : token[m] # None}

Customer(n) == Valid(n) /\ token[n].ctx = "CUSTOMER"
Member(n) == Valid(n) /\ token[n].ctx = "BUSINESS"
Privileged(n) == Member(n) /\ token[n].privileged
Proprietor(n) == Member(n) /\ token[n].owner

(* switch_to_business refuses a bearer who is there already.               *)
MaySwitch(j) == Customer(j.by) \/ (Member(j.by) /\ token[j.by].business # j.business)

Called(Jobs) == {j \in Jobs : j.op \in Op}

ArriveAt(r, Jobs, label) ==
    /\ Begin(r, Called(Jobs), label)
    /\ overlapped' = (overlapped \/ \E s \in Request : Running(s))
    /\ UNCHANGED <<sessions, left>>

Arrive(r) ==
    \/ ArriveAt(r, LoginJob \cup {j \in ToCustomerJob : Member(j.by)}, "issue")
    \/ ArriveAt(r, {j \in ToBusinessJob : MaySwitch(j)}, "member")
    \/ ArriveAt(r, {j \in CreateJob : Customer(j.by)}, "exists")
    \/ ArriveAt(r, {j \in HandOverJob \cup DeleteJob : Proprietor(j.by)}, "business")
    \/ ArriveAt(r, {j \in AddJob : Privileged(j.by)}, "enroll")
    \/ ArriveAt(r, {j \in ReassignJob \cup RemoveJob : Privileged(j.by)}, "mapping")
    \/ ArriveAt(r, DropJob \cup GrantJob, "role")

Unmoved == UNCHANGED <<sessions, overlapped, left>>
Rejected(r) == Fail(r) /\ Unmoved

Issue(r, contents) ==
    /\ token' = [token EXCEPT ![r] = contents]
    /\ stored' = [stored EXCEPT ![contents.user] = r]
    /\ UNCHANGED <<revoked, overlapped, left>>

-----------------------------------------------------------------------------
(* POST /auth/login and POST /auth/context/customer.  The token replaces   *)
(* the one stored before, which stays valid.                               *)
IssueCustomerToken(r) ==
    /\ pc[r] = "issue"
    /\ Issue(r, [ctx |-> "CUSTOMER",
                 user |-> IF job[r].op = "login" THEN job[r].user ELSE token[job[r].by].user])
    /\ Finish(r)

(* POST /auth/context/business/{id}: a membership of the user, whichever   *)
(* the query returns; then the business; then the role's privileges.       *)
Memberships(r, u) == {m \in Mapping : Live(View(r, m)) /\ View(r, m).user = u}

FindMembership(r) ==
    LET found == Memberships(r, token[job[r].by].user)
        fit == {m \in found : View(r, m).business = job[r].business}
    IN  /\ pc[r] = "member"
        /\ \/ \E m \in fit : Read(r, View(r, m).role, "switch") /\ Unmoved
           \/ (found # fit \/ found = {}) /\ Rejected(r)

ResolveRole(r) ==
    LET b == View(r, job[r].business)
        u == token[job[r].by].user
    IN  /\ pc[r] = "switch"
        /\ \/ /\ Live(b)
              /\ Read(r, [owner |-> b.owner = u, role |-> IF b.owner = u THEN OwnerRole ELSE seen[r]],
                      "privileges")
              /\ Unmoved
           \/ ~Live(b) /\ Rejected(r)

ReadPrivileges(r) ==
    /\ pc[r] = "privileges"
    /\ Read(r, [ctx |-> "BUSINESS", user |-> token[job[r].by].user, business |-> job[r].business,
                owner |-> seen[r].owner, role |-> seen[r].role,
                privileged |-> View(r, seen[r].role).granted], "store")
    /\ Unmoved

StoreToken(r) == pc[r] = "store" /\ Issue(r, seen[r]) /\ Finish(r)

-----------------------------------------------------------------------------
(* Partial unique indexes: one live business per owner, one live mapping   *)
(* per business and user.  A statement that makes row k into x waits for   *)
(* others that are writing a conflicting row, and fails when one remains.  *)
Table(k) == IF k \in Business THEN Business ELSE Mapping

Conflict(k, x, y) ==
    /\ Live(x) /\ Live(y)
    /\ IF k \in Business THEN x.owner = y.owner
       ELSE x.business = y.business /\ x.user = y.user

Undecided(r, k, x) ==
    \E s \in Request \ {r}, o \in Table(k) :
        Holds(s, o) /\ (o = k \/ Conflict(k, x, db[o]) \/ Conflict(k, x, pend[s][o]))

(* Mutant: the index is missing.                                           *)
TakenByNobody(r, k, x) == FALSE

Taken(r, k, x) == \E o \in Table(k) \ {k} : Conflict(k, x, View(r, o))

(* The foreign key of a membership: its business is there, deleted or not. *)
Dangling(r, k, x) == k \in Mapping /\ View(r, x.business).state = "none"

Store(r, k, x, label) ==
    /\ ~Undecided(r, k, x)
    /\ IF Taken(r, k, x) \/ Dangling(r, k, x) THEN Rejected(r)
       ELSE Write(r, k, x, label) /\ Unmoved

-----------------------------------------------------------------------------
(* POST /businesses.  The token in the answer is a customer's, and is not  *)
(* stored.                                                                 *)
CheckNoBusiness(r) ==
    LET u == token[job[r].by].user
        free == \A b \in Business : ~(Live(View(r, b)) /\ View(r, b).owner = u)
    IN  /\ pc[r] = "exists"
        /\ \/ free /\ Continue(r, "found") /\ Unmoved
           \/ ~free /\ Rejected(r)

Fresh(k) == db[k].state = "none" /\ \A s \in Request : ~Holds(s, k)

(* Mutant: the business is committed before its owner is enrolled.         *)
FoundAndReturn(r) ==
    /\ pc[r] = "found"
    /\ \E b \in {k \in Business : Fresh(k)} :
         Store(r, b, [state |-> "live", owner |-> token[job[r].by].user], "commit")

Found(r) ==
    /\ pc[r] = "found"
    /\ \E b \in {k \in Business : Fresh(k)} :
         Store(r, b, [state |-> "live", owner |-> token[job[r].by].user], "enroll")

(* The owner's mapping, and POST /business-users, which asks nothing about *)
(* the business.                                                           *)
NewMapping(r) ==
    IF job[r].op = "create"
    THEN [state |-> "live", business |-> CHOOSE b \in Business : Holds(r, b),
          user |-> token[job[r].by].user, role |-> OwnerRole]
    ELSE [state |-> "live", business |-> job[r].business, user |-> job[r].user,
          role |-> job[r].role]

Enroll(r) ==
    /\ pc[r] = "enroll"
    /\ \E m \in {k \in Mapping : Fresh(k)} : Store(r, m, NewMapping(r), "commit")

(* PATCH and DELETE /businesses/{id} begin by reading it.  The update may  *)
(* name another owner; an unchanged one is not flushed.                    *)
ReadBusiness(r) ==
    LET b == View(r, token[job[r].by].business) IN
    /\ pc[r] = "business"
    /\ \/ /\ Live(b)
          /\ Read(r, [owner |-> b.owner, todo |-> {}],
                  IF job[r].op = "delete" THEN "members"
                  ELSE IF b.owner = job[r].user THEN "commit" ELSE "handOver")
          /\ Unmoved
       \/ ~Live(b) /\ Rejected(r)

HandOver(r) ==
    LET b == token[job[r].by].business IN
    /\ pc[r] = "handOver"
    /\ Store(r, b, [View(r, b) EXCEPT !.owner = job[r].user], "commit")

(* DELETE: the members are listed before anything is deleted.              *)
MembersOf(r, b) == {m \in Mapping : Live(View(r, m)) /\ View(r, m).business = b}

UsersOf(r, M) == {View(r, m).user : m \in M}

ListMembers(r) ==
    /\ pc[r] = "members"
    /\ Read(r, [owner |-> seen[r].owner, todo |-> {},
                users |-> UsersOf(r, MembersOf(r, token[job[r].by].business))], "close")
    /\ Unmoved

Close(r) ==
    LET b == token[job[r].by].business IN
    /\ pc[r] = "close" /\ ~HeldByOther(r, b)
    /\ \/ Live(View(r, b)) /\ Write(r, b, [View(r, b) EXCEPT !.state = "deleted"], "dismiss") /\ Unmoved
       \/ ~Live(View(r, b)) /\ Rejected(r)

(* delete_by_business_id: one UPDATE of all live mappings, which waits for *)
(* those that others hold and looks at them again.                         *)
SelectMappings(r) ==
    LET todo == MembersOf(r, token[job[r].by].business) IN
    /\ pc[r] = "dismiss"
    /\ Read(r, [seen[r] EXCEPT !.todo = todo], IF todo = {} THEN "revoke" ELSE "dismissing")
    /\ Unmoved

Dismiss(r, m) ==
    /\ pc[r] = "dismissing" /\ m \in seen[r].todo
    /\ ~HeldByOther(r, m)
    /\ \/ /\ m \in MembersOf(r, token[job[r].by].business)
          /\ WriteRow(r, m, [View(r, m) EXCEPT !.state = "deleted"])
       \/ m \notin MembersOf(r, token[job[r].by].business) /\ UNCHANGED <<db, pend>>
    /\ Keep(r, [seen[r] EXCEPT !.todo = @ \ {m}])
    /\ Goto(r, IF seen[r].todo = {m} THEN "revoke" ELSE "dismissing")
    /\ UNCHANGED job /\ Unmoved

-----------------------------------------------------------------------------
(* PATCH and DELETE /business-users/{id}.                                  *)
ReadMapping(r) ==
    LET m == View(r, job[r].mapping) IN
    /\ pc[r] = "mapping"
    /\ \/ /\ Live(m)
          /\ Read(r, [users |-> {m.user}, loaded |-> m],
                  IF job[r].op = "reassign" THEN "reload" ELSE "dismissOne")
          /\ Unmoved
       \/ ~Live(m) /\ Rejected(r)

(* authority_changed: a role or a status is named, be it the present one.  *)
(* The user whose session goes is then the one of the object loaded, which *)
(* the update has changed: the new user where the body names one.          *)
LosesSession(to, loaded) ==
    IF to.role = None /\ ~to.status THEN {}
    ELSE {IF to.user = None THEN loaded.user ELSE to.user}

(* A column is written when it is named and is not what was loaded.        *)
Column(named, loaded, now) == IF named \in {None, loaded} THEN now ELSE named

Patched(to, loaded, now) ==
    [now EXCEPT !.business = Column(to.business, loaded.business, @),
                !.user = Column(to.user, loaded.user, @),
                !.role = Column(to.role, loaded.role, @)]

(* update_business_user reads again, and nothing is flushed when nothing   *)
(* changes; a status that is named may be the present one.  (A null for a  *)
(* user, business or role ends like a lost connection: its column refuses  *)
(* it.)                                                                    *)
Reload(r) ==
    LET to == job[r].to
        loaded == seen[r].loaded
        changes == Patched(to, loaded, loaded) # loaded
        after == [seen[r] EXCEPT !.users = LosesSession(to, loaded)]
    IN  /\ pc[r] = "reload"
        /\ IF Live(View(r, job[r].mapping))
           THEN /\ \/ (changes \/ to.status) /\ Read(r, after, "reassign")
                   \/ ~changes /\ Read(r, after, "revoke")
                /\ Unmoved
           ELSE Rejected(r)

Reassign(r) ==
    LET m == job[r].mapping IN
    /\ pc[r] = "reassign"
    /\ Store(r, m, Patched(job[r].to, seen[r].loaded, View(r, m)), "revoke")

DismissOne(r) ==
    LET m == job[r].mapping IN
    /\ pc[r] = "dismissOne" /\ ~HeldByOther(r, m)
    /\ \/ Live(View(r, m)) /\ Write(r, m, [View(r, m) EXCEPT !.state = "deleted"], "revoke") /\ Unmoved
       \/ ~Live(View(r, m)) /\ Rejected(r)

(* POST and DELETE /roles/{id}/privileges, for a role's privilege.         *)
ReadRole(r) ==
    LET granted == View(r, job[r].role).granted IN
    /\ pc[r] = "role"
    /\ \/ /\ job[r].op = "grant"
          /\ Continue(r, IF granted THEN "commit" ELSE "grant") /\ Unmoved
       \/ job[r].op = "drop" /\ granted /\ Continue(r, "drop") /\ Unmoved
       \/ job[r].op = "drop" /\ ~granted /\ Rejected(r)

(* The INSERT fails on the unique index when another has granted it.       *)
Grant(r) ==
    LET k == job[r].role IN
    /\ pc[r] = "grant" /\ ~HeldByOther(r, k)
    /\ \/ ~View(r, k).granted /\ Write(r, k, [granted |-> TRUE], "commit") /\ Unmoved
       \/ View(r, k).granted /\ Rejected(r)

Drop(r) ==
    LET k == job[r].role IN
    /\ pc[r] = "drop" /\ ~HeldByOther(r, k)
    /\ \/ View(r, k).granted /\ Write(r, k, [granted |-> FALSE], "list") /\ Unmoved
       \/ ~View(r, k).granted /\ Rejected(r)

(* read_user_ids_by_role_id.                                               *)
ListUsersOfRole(r) ==
    LET holders == {m \in Mapping : Live(View(r, m)) /\ View(r, m).role = job[r].role} IN
    /\ pc[r] = "list"
    /\ Read(r, [users |-> UsersOf(r, holders)], "revoke")
    /\ Unmoved

-----------------------------------------------------------------------------
(* Mutant: the caller's session is revoked instead of the member's.        *)
ToRevokeOfCaller(r, u) == IF job[r].op = "reassign" THEN {job[r].by} ELSE {stored[u]} \ {None}

(* revoke_user_active_session: the token stored last.                      *)
ToRevoke(r, u) == {stored[u]} \ {None}

RevokeSession(r, u) ==
    /\ pc[r] = "revoke" /\ u \in seen[r].users
    /\ revoked' = revoked \cup ToRevoke(r, u)
    /\ Keep(r, [seen[r] EXCEPT !.users = @ \ {u}])
    /\ UNCHANGED <<db, pend, pc, job, token, stored, overlapped, left>>

Holder(r) == seen[r].owner

(* A business deletion also revokes the caller's token and issues one to   *)
(* the owner it had read.                                                  *)
AfterRevoking(r) ==
    /\ pc[r] = "revoke" /\ seen[r].users = {}
    /\ IF job[r].op = "delete"
         THEN /\ revoked' = revoked \cup {job[r].by}
              /\ token' = [token EXCEPT ![r] = [ctx |-> "CUSTOMER", user |-> seen[r].owner]]
              /\ stored' = [stored EXCEPT ![Holder(r)] = r]
         ELSE UNCHANGED sessions
    /\ Continue(r, "commit")
    /\ UNCHANGED <<overlapped, left>>

(* The users whose memberships r gives to another user or business.        *)
Leavers(r) ==
    {db[m].user : m \in {k \in Mapping : /\ Live(db[k]) /\ Live(View(r, k))
                                       /\ \/ View(r, k).user # db[k].user
                                          \/ View(r, k).business # db[k].business}}

Commit(r) ==
    /\ pc[r] = "commit"
    /\ Finish(r)
    /\ left' = left \cup {stored[u] : u \in Leavers(r)}
    /\ UNCHANGED <<sessions, overlapped>>

ConnectionLost(r) == Running(r) /\ Rejected(r)

Next == \E r \in Request :
    \/ Arrive(r) \/ IssueCustomerToken(r)
    \/ FindMembership(r) \/ ResolveRole(r) \/ ReadPrivileges(r) \/ StoreToken(r)
    \/ CheckNoBusiness(r) \/ Found(r) \/ Enroll(r)
    \/ ReadBusiness(r) \/ HandOver(r)
    \/ ListMembers(r) \/ Close(r) \/ SelectMappings(r) \/ \E m \in Mapping : Dismiss(r, m)
    \/ ReadMapping(r) \/ Reload(r) \/ Reassign(r) \/ DismissOne(r)
    \/ ReadRole(r) \/ Grant(r) \/ Drop(r) \/ ListUsersOfRole(r)
    \/ \E u \in User : RevokeSession(r, u)
    \/ AfterRevoking(r) \/ Commit(r) \/ ConnectionLost(r)

Spec == Init /\ [][Next]_vars
-----------------------------------------------------------------------------
(* Properties.                                                             *)

Label == {"new", "done", "failed", "issue", "member", "switch", "privileges", "store",
          "exists", "found", "enroll", "business", "handOver", "members", "close", "dismiss",
          "dismissing", "mapping", "reload", "reassign", "dismissOne", "role", "grant", "drop",
          "list", "revoke", "commit"}

Job == {NoJob} \cup LoginJob \cup ToCustomerJob \cup ToBusinessJob \cup CreateJob
         \cup HandOverJob \cup DeleteJob \cup AddJob \cup ReassignJob \cup RemoveJob
         \cup DropJob \cup GrantJob

TypeOK ==
    /\ db \in [Business \cup Mapping \cup Role -> BusinessRow \cup MappingRow \cup RoleRow]
    /\ \A k \in DOMAIN db : db[k] \in IF k \in Business THEN BusinessRow
                                     ELSE IF k \in Mapping THEN MappingRow ELSE RoleRow
    /\ \A r \in Request, k \in DOMAIN db : Holds(r, k) => DOMAIN pend[r][k] = DOMAIN db[k]
    /\ pc \in [Request -> Label]
    /\ job \in [Request -> Job]
    /\ token \in [Name -> CustomerToken \cup BusinessToken \cup {None}]
    /\ stored \in [User -> Name \cup {None}]
    /\ \A u \in User : stored[u] # None => token[stored[u]] # None /\ token[stored[u]].user = u
    /\ revoked \in SUBSET Name
    /\ overlapped \in BOOLEAN
    /\ left \in SUBSET (Name \cup {None})

(* A business never appears without its owner's membership.                *)
FoundedWithOwner ==
    [][\A b \in Business : ~Live(db[b]) /\ Live(db'[b]) =>
         \E m \in Mapping : /\ Live(db'[m]) /\ db'[m].business = b
                            /\ db'[m].user = db'[b].owner /\ db'[m].role = OwnerRole]_vars

MemberOf(u, b) == {m \in Mapping : Live(db[m]) /\ db[m].user = u /\ db[m].business = b}

(* "Each user can only create one business", and a user is a member of a   *)
(* business once: also when creations, changes of owner and additions      *)
(* overlap, which all check by reading or not at all.                      *)
NobodyTwice ==
    /\ \A b, c \in Business : Live(db[b]) /\ Live(db[c]) /\ db[b].owner = db[c].owner => b = c
    /\ \A u \in User, b \in Business : Cardinality(MemberOf(u, b)) <= 1

(* The session of a user that is stored says no more than the committed    *)
(* rows: it is revoked before its membership, role or privilege goes, also *)
(* by a PATCH that names several things at once.  An owner's role is not   *)
(* that of the membership, so only the membership is claimed for owners.   *)
(* Any sequence of requests that do not overlap, failing at any statement, *)
(* keeps it so, but for the sessions left by a membership that moved: a    *)
(* PATCH revokes for a new role or status only, and then the session of    *)
(* the user it names.                                                      *)
Current(t) ==
    t.ctx = "BUSINESS" =>
      \E m \in MemberOf(t.user, t.business) :
        t.owner \/ (db[m].role = t.role /\ (t.privileged => db[t.role].granted))

StoredSessionIsCurrent ==
    ~overlapped =>
      \A u \in User : stored[u] \notin revoked \cup left \cup {None} => Current(token[stored[u]])
=============================================================================
