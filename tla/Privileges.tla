------------------------------ MODULE Privileges ------------------------------
(***************************************************************************)
(* Who may do what: roles and privileges of businesses (app/role,          *)
(* app/privilege, app/role_privilege), those of the platform               *)
(* (app/platform_privilege, app/platform_privilege_set,                    *)
(* app/platform_privilege_set_privilege), privileges of a whole module     *)
(* (app/module), and scripts/seed_defaults.py, which installs all of it    *)
(* and the variant vocabulary.                                             *)
(*                                                                         *)
(* Every handler here works off a list of small steps, so a request        *)
(* carries its agenda in seen: the steps it still has to do.  A step that  *)
(* finds rows may put new steps in front.                                  *)
(***************************************************************************)
EXTENDS Handlers, SequencesExt

CONSTANTS
    Entry,          \* rows of the five tables of names, existing or to come
    KindOf,         \* entry -> its table
    Link,           \* the pairs of a role and a privilege, a set and a privilege,
                    \* a type and a value, that this instance makes
    Operations,     \* CRUD_OPERATIONS
    Catalogue,      \* BUSINESS_CRUD_RESOURCES
    PlatformCodes,  \* PLATFORM_PRIVILEGES
    PlatformSets,   \* PLATFORM_PRIVILEGE_SETS
    Vocabulary,     \* VARIANT_TYPES
    Word,           \* codes and names besides the business privileges' codes
    Owner,          \* the code of the owner's role
    Module,         \* names of modules
    Upper,          \* a module's name in capitals, the resource of its codes
    Undeletable,    \* the resource that create_module gives no DELETE
    Starts,         \* the databases this instance may begin with
    Same,           \* a field that an update leaves out
    Asked           \* request -> the calls it may make in this instance

Resource == {Upper[m] : m \in Module}
Code == {Operations[i] : i \in DOMAIN Operations} \X Resource
Name == Code \cup Word
Kind == {"role", "privilege", "platformPrivilege", "set", "type"}
Holders == {e \in Entry : KindOf[e] \in {"role", "set", "type"}}
Roles == {e \in Entry : KindOf[e] = "role"}
Sets == {e \in Entry : KindOf[e] = "set"}
RoleLink == {l \in Link : l[1] \in Roles}
SetLink == {l \in Link : l[1] \in Sets}
Rows == Entry \cup Link

State == {"none", "live", "deleted"}
(* A code or name, and the module of a privilege.                          *)
EntryRow == [state : State, name : Name, group : Module \cup {None}]
(* The index entry of a pair: whether a live row is under it, and which.   *)
LinkRow == [state : State, by : Request \cup {None}]

VARIABLES
    token,      \* role -> codes in the sessions stored for its members
    beside,     \* history: request -> endpoints called while it runs
    tidy        \* history: only whole modules have been changed

vars == <<db, pend, pc, job, seen, token, beside, tidy>>

CreateRole == [op : {"createRole"}, name : Name, codes : Seq(Name)]
CreatePrivilege == [op : {"createPrivilege"}, name : Name, group : Module]
CreatePlatform == [op : {"createPlatform", "createSet"}, name : Name]
Rename == [op : {"rename"}, row : Entry, name : Name \cup {Same}, group : Module \cup {Same}]
DropJob == [op : {"drop"}, row : Entry]
GrantJob == [op : {"grant"}, holder : Roles, codes : Seq(Name)]
              \cup [op : {"grant"}, holder : Sets, codes : {<<n>> : n \in Name}]
UngrantJob == [op : {"ungrant"}, link : RoleLink]
SetLinkJob == [op : {"touchLink", "dropLink"}, link : SetLink, by : Request \cup {None}]
ModuleJob == [op : {"createModule", "updateModule", "deleteModule"}, module : Module]
SwitchJob == [op : {"switch"}, role : Roles]
SeedJob == [op : {"seed"}]

Job == CreateRole \cup CreatePrivilege \cup CreatePlatform \cup Rename \cup DropJob
         \cup GrantJob \cup UngrantJob \cup SetLinkJob \cup ModuleJob \cup SwitchJob \cup SeedJob

ASSUME PrivilegesAssumption ==
    /\ KindOf \in [Entry -> Kind] /\ Link \subseteq Holders \X Name
    /\ IsFiniteSet(Entry) /\ Entry \cap ((Entry \cup {None}) \X Name) = {}
    /\ Operations \in Seq(STRING) /\ Upper \in [Module -> Resource] /\ Owner \in Word
    /\ Catalogue \in Seq([resource : Resource, module : Module, update : BOOLEAN, delete : BOOLEAN])
    /\ PlatformCodes \in Seq(Word)
    /\ PlatformSets \in Seq([name : Word, members : Seq(Word)])
    /\ Vocabulary \in Seq([name : Word, members : Seq(Word)])
    /\ \A start \in Starts : /\ DOMAIN start.entries \subseteq Entry
                              /\ \A k \in DOMAIN start.entries : start.entries[k] \in EntryRow
    /\ DOMAIN Asked = Request /\ \A r \in Request : Asked[r] \subseteq Job
    /\ None \notin Request \cup Module \cup Entry \cup EntryRow \cup LinkRow
    /\ Same \notin Name \cup Module

Live(x) == x.state = "live"

-----------------------------------------------------------------------------
(* crud_privilege_defs: a code per operation, except those left out.       *)
Includes(def, o) == (o = "UPDATE" => def.update) /\ (o = "DELETE" => def.delete)

Crud(def) ==
    FlattenSeq([i \in DOMAIN Operations |->
        IF Includes(def, Operations[i])
        THEN <<[name |-> <<Operations[i], def.resource>>, group |-> def.module]>> ELSE <<>>])

BusinessPrivileges == FlattenSeq([i \in DOMAIN Catalogue |-> Crud(Catalogue[i])])

(* The steps of an agenda.  A link belongs to the role, set or type that   *)
(* the request works on, its holder.                                       *)
Ensure(kind, name, group) == [do |-> "ensure", kind |-> kind, name |-> name, group |-> group]
New(kind, name, group) == [do |-> "insert", kind |-> kind, name |-> name, group |-> group]
Refuse(kind, name, row) == [do |-> "clash", kind |-> kind, name |-> name, row |-> row]
Grant(name) == [do |-> "link", name |-> name, strict |-> FALSE]
Ungrant(link) ==
    <<[do |-> "mapping", link |-> link], [do |-> "unlink", link |-> link], [do |-> "revoke", link |-> link]>>
Commits == <<[do |-> "commit"]>>

GrantAll(names) == [i \in DOMAIN names |-> Grant(names[i])]

(* Mutant: a privilege that exists counts as granted.                      *)
InstallNew(defs) ==
    FlattenSeq([i \in DOMAIN defs |->
        <<Ensure("privilege", defs[i].name, defs[i].group)>>
          \o IF \E e \in Entry : KindOf[e] = "privilege" /\ Live(db[e]) /\ db[e].name = defs[i].name
             THEN <<>> ELSE <<Grant(defs[i].name)>>])

Install(defs) ==
    FlattenSeq([i \in DOMAIN defs |->
        <<Ensure("privilege", defs[i].name, defs[i].group), Grant(defs[i].name)>>])

SetUp(kind, sets) ==
    FlattenSeq([i \in DOMAIN sets |-> <<Ensure(kind, sets[i].name, None)>> \o GrantAll(sets[i].members)])

(* scripts/seed_defaults.py: three transactions.                           *)
SeedBusiness == <<Ensure("role", Owner, None)>> \o Install(BusinessPrivileges)
SeedPlatform ==
    [i \in DOMAIN PlatformCodes |-> Ensure("platformPrivilege", PlatformCodes[i], None)]
      \o SetUp("set", PlatformSets)
SeedVocabulary == SetUp("type", Vocabulary)
Seed == SeedBusiness \o Commits \o SeedPlatform \o Commits \o SeedVocabulary \o Commits

ModuleCreation(m) ==
    <<[do |-> "owner"]>>
      \o Install(Crud([resource |-> Upper[m], module |-> m, update |-> TRUE,
                       delete |-> Upper[m] # Undeletable]))
ModuleUpdate(m) == <<[do |-> "owner"], [do |-> "list", module |-> m, then |-> "update"]>>
ModuleDeletion(m) == <<[do |-> "list", module |-> m, then |-> "delete"]>>

Renaming(j) ==
    (IF KindOf[j.row] = "platformPrivilege" /\ j.name # Same
     THEN <<Refuse("platformPrivilege", j.name, j.row)>> ELSE <<>>)
      \o <<[do |-> "reload", row |-> j.row, name |-> j.name, group |-> j.group]>>

RoleCreation(j) == <<New("role", j.name, None)>> \o GrantAll(j.codes)
PrivilegeCreation(j) == <<New("privilege", j.name, j.group)>>
PlatformCreation(j) ==
    <<Refuse("platformPrivilege", j.name, None), New("platformPrivilege", j.name, None)>>
SetCreation(j) == <<New("set", j.name, None)>>
(* A role may be given what it has; a set may not.                         *)
RoleGranting(j) == GrantAll(j.codes)
SetGranting(j) == <<[Grant(j.codes[1]) EXCEPT !.strict = TRUE]>>

Touching(j) ==
    <<[do |-> "mappingRow", link |-> j.link, by |-> j.by], [do |-> "touch", link |-> j.link, by |-> j.by]>>
Unlinking(j) == <<[do |-> "unlinkRow", link |-> j.link, by |-> j.by]>>

Switching(j) == <<[do |-> "codes", role |-> j.role]>>

Agenda(j) ==
    CASE j.op = "seed" -> Seed
      [] j.op = "createModule" -> ModuleCreation(j.module) \o Commits
      [] j.op = "updateModule" -> ModuleUpdate(j.module) \o Commits
      [] j.op = "deleteModule" -> ModuleDeletion(j.module) \o Commits
      [] j.op = "createRole" -> RoleCreation(j) \o Commits
      [] j.op = "createPrivilege" -> PrivilegeCreation(j) \o Commits
      [] j.op = "createPlatform" -> PlatformCreation(j) \o Commits
      [] j.op = "createSet" -> SetCreation(j) \o Commits
      [] j.op = "rename" -> Renaming(j) \o Commits
      [] j.op = "drop" -> <<[do |-> "drop", row |-> j.row]>> \o Commits
      [] j.op = "grant" /\ j.holder \in Roles -> RoleGranting(j) \o Commits
      [] j.op = "grant" /\ j.holder \notin Roles -> SetGranting(j) \o Commits
      [] j.op = "ungrant" -> Ungrant(j.link) \o Commits
      [] j.op = "touchLink" -> Touching(j) \o Commits
      [] j.op = "dropLink" -> Unlinking(j) \o Commits
      [] j.op = "switch" -> Switching(j) \o Commits

-----------------------------------------------------------------------------
Installers == {"createModule", "updateModule", "seed"}
Whole == Installers \cup {"deleteModule", "switch"}

(* Who holds what at the start: some of the catalogue may be there.        *)
InitialRow(start, k) ==
    IF k \in DOMAIN start.entries THEN start.entries[k]
    ELSE IF k \in Entry THEN [state |-> "none", name |-> Owner, group |-> None]
    ELSE [state |-> IF k \in start.links THEN "live" ELSE "none", by |-> None]

Has(rows, kind, name, members) ==
    \E e \in Entry : /\ KindOf[e] = kind /\ Live(rows[e]) /\ rows[e].name = name
                     /\ \A n \in members : Live(rows[<<e, n>>])

Installed(rows, c) == Has(rows, "privilege", c, {}) /\ Has(rows, "role", Owner, {c})
Absent(rows, c) == ~Has(rows, "privilege", c, {}) /\ ~Has(rows, "role", Owner, {c})

CodesOf(i) == {d.name : d \in ToSet(Crud(Catalogue[i]))}

(* A resource is in the catalogue once, and without a DELETE if            *)
(* create_module gives it none; roles can have all the catalogue's codes;  *)
(* and the unique indexes hold from the start.                             *)
ASSUME CatalogueAssumption ==
    /\ \A i, j \in DOMAIN Catalogue : Catalogue[i].resource = Catalogue[j].resource => i = j
    /\ \A i \in DOMAIN Catalogue : Catalogue[i].delete => Catalogue[i].resource # Undeletable
    /\ \A i \in DOMAIN Catalogue : Roles \X CodesOf(i) \subseteq Link
    /\ \A start \in Starts : \A e, p \in DOMAIN start.entries :
         /\ Live(start.entries[e]) /\ Live(start.entries[p])
         /\ KindOf[e] = KindOf[p] /\ start.entries[e].name = start.entries[p].name
         => e = p

WholeModules(rows) ==
    \A i \in DOMAIN Catalogue :
        \/ \A c \in CodesOf(i) : Installed(rows, c)
        \/ \A c \in CodesOf(i) : Absent(rows, c)

(* The privileges of a resource are filed under one module.                *)
Filed(rows, i) ==
    \A e, p \in Entry :
        /\ KindOf[e] = "privilege" /\ Live(rows[e]) /\ rows[e].name \in CodesOf(i)
        /\ KindOf[p] = "privilege" /\ Live(rows[p]) /\ rows[p].name \in CodesOf(i)
        => rows[e].group = rows[p].group

Init ==
    /\ \E start \in Starts : db = [k \in Rows |-> InitialRow(start, k)]
    /\ HandlersInit
    /\ token = [h \in Roles |-> {}]
    /\ beside = [r \in Request |-> {}]
    /\ tidy = (WholeModules(db) /\ \A i \in DOMAIN Catalogue : Filed(db, i))

Arrive(r) ==
    /\ pc[r] = "new"
    /\ \E j \in Asked[r] :
         LET others == {s \in Request \ {r} : Running(s)}
             now == {job[s].op : s \in others} \cup {j.op}
         IN  /\ job' = [job EXCEPT ![r] = j]
             /\ Keep(r, [todo |-> Agenda(j), holder |-> IF j.op = "grant" THEN j.holder ELSE None,
                         codes |-> {}])
             /\ Goto(r, Head(Agenda(j)).do)
             /\ beside' = [s \in Request |->
                  IF s = r THEN {job[t].op : t \in others}
                  ELSE IF s \in others THEN beside[s] \cup {j.op} ELSE {}]
             /\ tidy' = (/\ tidy /\ j.op \in Whole
                         /\ ~("deleteModule" \in now /\ now \cap Installers # {}))
    /\ UNCHANGED <<db, pend, token>>

Calm == UNCHANGED <<token, beside, tidy>>
Forget(r) == beside' = [beside EXCEPT ![r] = {}] /\ UNCHANGED <<token, tidy>>

(* Mutant: the transaction of a request that fails is committed.           *)
AbandonCommitting(r) == FailKeepingWrites(r) /\ Forget(r)

(* get_db rolls back, and so does the script's session, which then stops.  *)
Abandon(r) == Fail(r) /\ Forget(r)
ConnectionLost(r) == Running(r) /\ Abandon(r)

Item(r) == Head(seen[r].todo)

(* On to the next step, with new steps in front.                           *)
Insertion(r, steps, holder) ==
    LET todo == steps \o Tail(seen[r].todo) IN
    /\ Keep(r, [seen[r] EXCEPT !.todo = todo, !.holder = holder])
    /\ Goto(r, Head(todo).do) /\ UNCHANGED job /\ Calm

Proceed(r) == Insertion(r, <<>>, seen[r].holder)
Unwritten == UNCHANGED <<db, pend>>

Commit(r) ==
    /\ pc[r] = "commit"
    /\ IF Tail(seen[r].todo) = <<>> THEN Finish(r) /\ Forget(r) ELSE CommitWrites(r) /\ Proceed(r)

-----------------------------------------------------------------------------
(* Entries by name.                                                        *)
Named(r, kind, name) ==
    {e \in Entry : KindOf[e] = kind /\ Live(View(r, e)) /\ View(r, e).name = name}

HolderAfter(r, e) == IF e \in Holders THEN e ELSE seen[r].holder

FindOwner(r) ==
    LET found == Named(r, "role", Owner) IN
    /\ pc[r] = "owner"
    /\ \/ \E e \in found : Insertion(r, <<>>, e) /\ Unwritten
       \/ found = {} /\ Abandon(r)

EnsureEntry(r) ==
    LET found == Named(r, Item(r).kind, Item(r).name) IN
    /\ pc[r] = "ensure"
    /\ \/ \E e \in found : Insertion(r, <<>>, HolderAfter(r, e)) /\ Unwritten
       \/ found = {} /\ Continue(r, "insert") /\ Calm

RefuseTaken(r) ==
    LET taken == Named(r, Item(r).kind, Item(r).name) \ {Item(r).row} IN
    /\ pc[r] = "clash"
    /\ \/ taken = {} /\ Proceed(r) /\ Unwritten
       \/ taken # {} /\ Abandon(r)

(* The unique index of each of the five tables: one live row per name.     *)
Undecided(r, e, name) ==
    \E s \in Request \ {r}, o \in Entry :
        /\ KindOf[o] = KindOf[e] /\ Holds(s, o)
        /\ o = e \/ (Live(db[o]) /\ db[o].name = name) \/ (Live(pend[s][o]) /\ pend[s][o].name = name)

Taken(r, e, name) == Named(r, KindOf[e], name) \ {e} # {}

Store(r, e, x) ==
    /\ ~Undecided(r, e, x.name)
    /\ pend' = [pend EXCEPT ![r][e] = x] /\ UNCHANGED db

Fresh(kind) ==
    {e \in Entry : KindOf[e] = kind /\ db[e].state = "none" /\ \A s \in Request : ~Holds(s, e)}

InsertEntry(r) ==
    /\ pc[r] = "insert" /\ Fresh(Item(r).kind) # {}
    /\ LET e == CHOOSE k \in Fresh(Item(r).kind) : TRUE
           i == Item(r)
       IN  \/ /\ ~Taken(r, e, i.name)
              /\ Store(r, e, [state |-> "live", name |-> i.name, group |-> i.group])
              /\ Insertion(r, <<>>, HolderAfter(r, e))
           \/ Taken(r, e, i.name) /\ ~Undecided(r, e, i.name) /\ Abandon(r)

(* A PATCH reads the row and writes what differs from it.                  *)
ReloadEntry(r) ==
    LET i == Item(r)
        x == View(r, i.row)
        name == IF i.name = x.name THEN Same ELSE i.name
        group == IF i.group = x.group THEN Same ELSE i.group
    IN  /\ pc[r] = "reload"
        /\ \/ /\ Live(x)
              /\ Insertion(r, IF name = Same /\ group = Same THEN <<>>
                              ELSE <<[do |-> "edit", row |-> i.row, name |-> name, group |-> group]>>,
                           seen[r].holder)
              /\ Unwritten
           \/ ~Live(x) /\ Abandon(r)

EditEntry(r) ==
    LET i == Item(r)
        x == View(r, i.row)
        y == [x EXCEPT !.name = IF i.name = Same THEN @ ELSE i.name,
                       !.group = IF i.group = Same THEN @ ELSE i.group]
    IN  /\ pc[r] = "edit" /\ ~Undecided(r, i.row, y.name)
        /\ \/ ~(Live(y) /\ Taken(r, i.row, y.name)) /\ Store(r, i.row, y) /\ Proceed(r)
           \/ Live(y) /\ Taken(r, i.row, y.name) /\ Abandon(r)

(* The grants of a role, the members of a set and the values of a type     *)
(* that go are not touched: their own rows stay.                           *)
DropEntry(r) ==
    LET e == Item(r).row IN
    /\ pc[r] = "drop" /\ ~HeldByOther(r, e)
    /\ \/ Live(View(r, e)) /\ WriteRow(r, e, [View(r, e) EXCEPT !.state = "deleted"]) /\ Proceed(r)
       \/ ~Live(View(r, e)) /\ Abandon(r)

-----------------------------------------------------------------------------
(* Links: a privilege of a role or of a set, a value of a type.            *)
HeldLink(r) == <<seen[r].holder, Item(r).name>>

LookForLink(r) ==
    LET live == Live(View(r, HeldLink(r))) IN
    /\ pc[r] = "link"
    /\ \/ ~live /\ Continue(r, "attach") /\ Calm
       \/ live /\ ~Item(r).strict /\ Proceed(r) /\ Unwritten
       \/ live /\ Item(r).strict /\ Abandon(r)

Attach(r) ==
    LET k == HeldLink(r) IN
    /\ pc[r] = "attach" /\ ~HeldByOther(r, k)
    /\ \/ ~Live(View(r, k)) /\ WriteRow(r, k, [state |-> "live", by |-> r]) /\ Proceed(r)
       \/ Live(View(r, k)) /\ Abandon(r)

(* DELETE /roles/{id}/privileges/{code}: a read, a conditional UPDATE, and *)
(* the sessions of the role's members, in Redis and for good.              *)
FindMapping(r) ==
    LET live == Live(View(r, Item(r).link)) IN
    /\ pc[r] = "mapping"
    /\ \/ live /\ Proceed(r) /\ Unwritten
       \/ ~live /\ Abandon(r)

DeleteMapping(r) ==
    LET k == Item(r).link IN
    /\ pc[r] = "unlink" /\ ~HeldByOther(r, k)
    /\ \/ Live(View(r, k)) /\ WriteRow(r, k, [View(r, k) EXCEPT !.state = "deleted"]) /\ Proceed(r)
       \/ ~Live(View(r, k)) /\ Abandon(r)

RevokeSessions(r) ==
    LET todo == Tail(seen[r].todo) IN
    /\ pc[r] = "revoke"
    /\ token' = [token EXCEPT ![Item(r).link[1]] = {}]
    /\ Keep(r, [seen[r] EXCEPT !.todo = todo]) /\ Goto(r, Head(todo).do)
    /\ UNCHANGED <<db, pend, job, beside, tidy>>

(* The platform's PATCH and DELETE name a row of a set by its id.          *)
ThisRow(r) == Live(View(r, Item(r).link)) /\ View(r, Item(r).link).by = Item(r).by

FindSetRow(r) ==
    /\ pc[r] = "mappingRow"
    /\ \/ ThisRow(r) /\ Proceed(r) /\ Unwritten
       \/ ~ThisRow(r) /\ Abandon(r)

(* A status that nothing reads.                                            *)
TouchSetRow(r) ==
    LET k == Item(r).link IN
    /\ pc[r] = "touch" /\ ~HeldByOther(r, k)
    /\ IF View(r, k).by = Item(r).by THEN WriteRow(r, k, View(r, k)) ELSE Unwritten
    /\ Proceed(r)

DropSetRow(r) ==
    LET k == Item(r).link IN
    /\ pc[r] = "unlinkRow" /\ ~HeldByOther(r, k)
    /\ \/ ThisRow(r) /\ WriteRow(r, k, [View(r, k) EXCEPT !.state = "deleted"]) /\ Proceed(r)
       \/ ~ThisRow(r) /\ Abandon(r)

-----------------------------------------------------------------------------
(* Whole modules.                                                          *)
OfModule(r, m) == {e \in Entry : KindOf[e] = "privilege" /\ Live(View(r, e)) /\ View(r, e).group = m}

StepsFor(r, e, then) ==
    LET code == View(r, e).name IN
    IF then = "update"
    THEN <<[do |-> "reload", row |-> e, name |-> Same, group |-> Same], Grant(code)>>
    ELSE <<[do |-> "grants", code |-> code], [do |-> "dropCode", code |-> code]>>

ListModule(r) ==
    LET rows == OfModule(r, Item(r).module) IN
    /\ pc[r] = "list"
    /\ \/ /\ rows # {}
          /\ \E s \in SetToSeqs(rows) :
               Insertion(r, FlattenSeq([i \in DOMAIN s |-> StepsFor(r, s[i], Item(r).then)]), seen[r].holder)
          /\ Unwritten
       \/ rows = {} /\ Abandon(r)

(* Mutant: only the owner's grant is looked for.                           *)
GrantsOfOwner(r, code) ==
    {h \in Roles : <<h, code>> \in Link /\ Live(View(r, <<h, code>>)) /\ View(r, h).name = Owner}

GrantsOf(r, code) == {h \in Roles : <<h, code>> \in Link /\ Live(View(r, <<h, code>>))}

(* Mutant: the mappings are deleted past the service, which revokes.       *)
UngrantQuietly(r, s, code) ==
    FlattenSeq([i \in DOMAIN s |-> <<[do |-> "unlink", link |-> <<s[i], code>>]>>])

UngrantEach(r, s, code) == FlattenSeq([i \in DOMAIN s |-> Ungrant(<<s[i], code>>)])

ListGrants(r) ==
    /\ pc[r] = "grants"
    /\ \E s \in SetToSeqs(GrantsOf(r, Item(r).code)) :
         Insertion(r, UngrantEach(r, s, Item(r).code), seen[r].holder)
    /\ Unwritten

(* Whether a row was deleted is not asked.                                 *)
DropCode(r) ==
    LET found == Named(r, "privilege", Item(r).code) IN
    /\ pc[r] = "dropCode" /\ \A e \in found : ~HeldByOther(r, e)
    /\ \/ \E e \in found : WriteRow(r, e, [View(r, e) EXCEPT !.state = "deleted"])
       \/ found = {} /\ Unwritten
    /\ Proceed(r)

-----------------------------------------------------------------------------
(* A member of the role switches to the business: the codes are read, the  *)
(* token is stored.  Of switches that overlap a removal of grants          *)
(* Membership tells more; their tokens are left out here.                  *)
Removers == {"rename", "drop", "ungrant", "dropLink", "deleteModule"}

ReadCodes(r) ==
    LET h == Item(r).role IN
    /\ pc[r] = "codes"
    /\ Read(r, [seen[r] EXCEPT !.codes = {k[2] : k \in {l \in Link : l[1] = h /\ Live(View(r, l))}}], "issue")
    /\ Calm

IssueToken(r) ==
    LET todo == Tail(seen[r].todo) IN
    /\ pc[r] = "issue"
    /\ token' = [token EXCEPT ![Item(r).role] = IF beside[r] \cap Removers = {} THEN @ \cup seen[r].codes ELSE @]
    /\ Keep(r, [seen[r] EXCEPT !.todo = todo]) /\ Goto(r, Head(todo).do)
    /\ UNCHANGED <<db, pend, job, beside, tidy>>

Next == \E r \in Request :
    \/ Arrive(r) \/ FindOwner(r) \/ EnsureEntry(r) \/ RefuseTaken(r) \/ InsertEntry(r)
    \/ ReloadEntry(r) \/ EditEntry(r) \/ DropEntry(r)
    \/ LookForLink(r) \/ Attach(r) \/ FindMapping(r) \/ DeleteMapping(r) \/ RevokeSessions(r)
    \/ FindSetRow(r) \/ TouchSetRow(r) \/ DropSetRow(r)
    \/ ListModule(r) \/ ListGrants(r) \/ DropCode(r) \/ ReadCodes(r) \/ IssueToken(r)
    \/ Commit(r) \/ ConnectionLost(r)

Spec == Init /\ [][Next]_vars
-----------------------------------------------------------------------------
(* Properties.                                                             *)

RowType(k) == IF k \in Entry THEN EntryRow ELSE LinkRow

(* Every row is of its table's type, whatever fields an update leaves out, *)
(* and a request is at a step of its agenda or at the second half of one.  *)
TypeOK ==
    /\ DOMAIN db = Rows
    /\ \A k \in Rows : db[k] \in RowType(k)
    /\ \A r \in Request :
         /\ \A k \in Rows : Holds(r, k) => pend[r][k] \in RowType(k)
         /\ job[r] \in Job \cup {NoJob}
         /\ Running(r) => \/ pc[r] = Item(r).do
                          \/ <<Item(r).do, pc[r]>> \in {<<"ensure", "insert">>, <<"link", "attach">>,
                                                        <<"codes", "issue">>}
    /\ token \in [Roles -> SUBSET Name] /\ tidy \in BOOLEAN

(* What an installation ends with is all there: every code of the module   *)
(* or of the catalogue has its privilege and is the owner's, every set has *)
(* its members and every type its values, whatever part of it was there    *)
(* before and whoever else installs, unless something was removed or       *)
(* renamed in between.                                                     *)
PartOf(r) == 4 - Len(SelectSeq(seen[r].todo, LAMBDA i : i.do = "commit"))

Promise(r, rows) ==
    CASE job[r].op = "createModule" ->
           LET m == job[r].module IN
           \A i \in DOMAIN Operations :
               \/ Operations[i] = "DELETE" /\ Upper[m] = Undeletable
               \/ Installed(rows, <<Operations[i], Upper[m]>>)
      [] job[r].op = "updateModule" ->
           \A e \in Entry : KindOf[e] = "privilege" /\ Live(rows[e]) /\ rows[e].group = job[r].module
                              => Installed(rows, rows[e].name)
      [] job[r].op = "seed" /\ PartOf(r) = 1 -> \A d \in ToSet(BusinessPrivileges) : Installed(rows, d.name)
      [] job[r].op = "seed" /\ PartOf(r) = 2 ->
           /\ \A c \in ToSet(PlatformCodes) : Has(rows, "platformPrivilege", c, {})
           /\ \A s \in ToSet(PlatformSets) : Has(rows, "set", s.name, ToSet(s.members))
      [] job[r].op = "seed" /\ PartOf(r) = 3 ->
           \A t \in ToSet(Vocabulary) : Has(rows, "type", t.name, ToSet(t.members))
      [] OTHER -> TRUE

Unmet(r) ==
    Removers \cup IF job[r].op = "updateModule" THEN {"createModule", "createPrivilege", "seed"} ELSE {}

InstalledAsPromised ==
    [][\A r \in Request :
         /\ pc[r] = "commit" /\ pc'[r] \notin {"commit", "failed"}
         /\ beside[r] \cap Unmet(r) = {}
         => Promise(r, db')]_vars

(* A module that is deleted while nobody else changes anything is gone     *)
(* with every grant of its privileges.                                     *)
ModuleGone ==
    [][\A r \in Request :
         /\ pc[r] = "commit" /\ pc'[r] = "done"
         /\ job[r].op = "deleteModule" /\ beside[r] \subseteq {"switch"}
         => \A e \in Entry : KindOf[e] = "privilege" /\ db[e].group = job[r].module /\ db[e].state # "none" =>
              /\ ~Live(db'[e])
              /\ Live(db[e]) => \A l \in RoleLink : l[2] = db[e].name => ~Live(db'[l])]_vars

(* No module is ever half installed or half deleted, whatever fails and    *)
(* however often it is tried again, as long as modules are created, seeded *)
(* and deleted as a whole and not deleted while they are being installed.  *)
NoHalfModule == tidy => WholeModules(db)

(* A session carries no privilege that its role has lost: the sessions of  *)
(* a role are revoked whenever a grant of it goes, also when the module    *)
(* goes, before the removal is committed.                                  *)
TokensAreBacked == \A h \in Roles : \A c \in token[h] : Live(db[<<h, c>>])
=============================================================================
