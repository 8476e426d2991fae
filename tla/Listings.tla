------------------------------- MODULE Listings -------------------------------
(***************************************************************************)
(* What shops sell: listings of books (app/business_book), their variants  *)
(* (app/variant), the options that tell variants apart (app/variant_type,  *)
(* app/variant_option, app/variant_config).  What pages show of them is    *)
(* ShopPages'; the stock that checkouts and cancellations move is          *)
(* OrderStock's.                                                           *)
(***************************************************************************)
EXTENDS Handlers, Sequences

CONSTANTS
    Listing,    \* business_books rows, existing or to come
    Variant,    \* variants rows, existing or to come
    Option,     \* product_option_values rows, existing or to come
    Kind,       \* product_options rows (variant types), existing or to come
    Book, Shop, \* books and businesses rows, which exist
    Name,       \* names of types, values of options
    Listed,     \* listing -> its row at the start, for those that exist
    Stocked,    \* variant -> its row at the start, for those that exist
    Optioned,   \* option -> its row at the start, for those that exist
    Named,      \* type -> its row at the start, for those that exist
    Configured, \* the options of the variants at the start
    Same,       \* a field that an update leaves out
    Asked       \* request -> the calls it may make in this instance

Config == Variant \X Option
State == {"none", "live", "deleted"}
Status == {"DRAFT", "ACTIVE", "INACTIVE", "DELETED"}
ListingRow == [state : State, status : Status, book : Book, shop : Shop]
VariantRow == [state : State, listing : Listing, stock : Nat]
OptionRow == [state : State, kind : Kind, value : Name]
KindRow == [state : State, name : Name]
(* The index entry of a pair: whether a live row is under it, and which.   *)
ConfigRow == [state : State, by : Request \cup {None}]
BookRow == [state : State]
ShopRow == [state : State, open : BOOLEAN]

VARIABLES
    alone,      \* history: request -> nothing it depends on was changed meanwhile
    odd         \* history: variants created in a race, with an option without
                \* a type, or whose options an administrator has edited

vars == <<db, pend, pc, job, seen, alone, odd>>

CreateListing == [op : {"createListing"}, book : Book, shop : Shop]
UpdateListing == [op : {"updateListing"}, listing : Listing, shop : Shop,
                  book : Book \cup {Same}, status : Status \cup {Same}]
DeleteListing == [op : {"deleteListing"}, listing : Listing, shop : Shop]
CreateVariant == [op : {"createVariant"}, listing : Listing, shop : Shop,
                  options : Seq(Option), stock : Int]
UpdateVariant == [op : {"updateVariant"}, listing : Listing, variant : Variant,
                  shop : Shop, stock : Int]
DeleteVariant == [op : {"deleteVariant"}, listing : Listing, variant : Variant, shop : Shop]
ConfigJob == [op : {"addConfig", "touchConfig", "dropConfig"}, config : Config]
OptionJob == [op : {"newOption"}, kind : Kind, value : Name]
               \cup [op : {"editOption"}, row : Option, kind : Kind \cup {Same}, value : Name]
KindJob == [op : {"newKind"}, value : Name] \cup [op : {"editKind"}, row : Kind, value : Name]
DropJob == [op : {"drop"}, row : Option \cup Kind \cup Book \cup Shop]
CloseJob == [op : {"close"}, row : Shop]

Job == CreateListing \cup UpdateListing \cup DeleteListing \cup CreateVariant
         \cup UpdateVariant \cup DeleteVariant \cup ConfigJob \cup OptionJob \cup KindJob
         \cup DropJob \cup CloseJob

Tables == <<Listing, Variant, Option, Kind, Book, Shop, Config>>
Rows == UNION {Tables[i] : i \in 1..7}

ASSUME ListingsAssumption ==
    /\ \A i, j \in 1..7 : i # j => Tables[i] \cap Tables[j] = {}
    /\ DOMAIN Listed \subseteq Listing /\ \A l \in DOMAIN Listed : Listed[l] \in ListingRow
    /\ DOMAIN Stocked \subseteq Variant /\ \A v \in DOMAIN Stocked : Stocked[v] \in VariantRow
    /\ DOMAIN Optioned \subseteq Option /\ \A o \in DOMAIN Optioned : Optioned[o] \in OptionRow
    /\ DOMAIN Named \subseteq Kind /\ \A t \in DOMAIN Named : Named[t] \in KindRow
    /\ Configured \subseteq (DOMAIN Stocked) \X (DOMAIN Optioned)
    /\ DOMAIN Asked = Request /\ \A r \in Request : Asked[r] \subseteq Job
    /\ Same \notin Book \cup Status \cup Kind /\ None \notin Request
    /\ {} \notin {Listing, Kind, Book, Shop, Name} /\ IsFiniteSet(Variant)
    /\ None \notin ListingRow \cup VariantRow \cup OptionRow \cup KindRow \cup BookRow
                  \cup ShopRow \cup ConfigRow

(* The rows at the start fit their foreign keys; a variant that is deleted *)
(* has no options left, and one that is live is of a live listing, of      *)
(* which no two have the same options.                                     *)
ASSUME StartAssumption ==
    /\ \A o \in DOMAIN Optioned :
         /\ Optioned[o].state # "none"
         /\ Optioned[o].kind \in DOMAIN Named /\ Named[Optioned[o].kind].state # "none"
    /\ \A v \in DOMAIN Stocked :
         /\ Stocked[v].state # "none" /\ Stocked[v].listing \in DOMAIN Listed
         /\ Stocked[v].state = "live" => Listed[Stocked[v].listing].state = "live"
         /\ Stocked[v].state = "deleted" => \A o \in Option : <<v, o>> \notin Configured
    /\ \A v, w \in DOMAIN Stocked :
         /\ v # w /\ Stocked[v].state = "live" /\ Stocked[w].state = "live"
         /\ Stocked[v].listing = Stocked[w].listing
         => {o \in Option : <<v, o>> \in Configured} # {o \in Option : <<w, o>> \in Configured}

Live(x) == x.state = "live"

Blank(k) ==
    IF k \in Listing THEN [state |-> "none", status |-> "DRAFT", book |-> CHOOSE b \in Book : TRUE,
                           shop |-> CHOOSE s \in Shop : TRUE]
    ELSE IF k \in Variant THEN [state |-> "none", listing |-> CHOOSE l \in Listing : TRUE, stock |-> 0]
    ELSE IF k \in Option THEN [state |-> "none", kind |-> CHOOSE t \in Kind : TRUE,
                               value |-> CHOOSE n \in Name : TRUE]
    ELSE IF k \in Kind THEN [state |-> "none", name |-> CHOOSE n \in Name : TRUE]
    ELSE [state |-> "none", by |-> None]

InitialRow(k) ==
    IF k \in DOMAIN Listed THEN Listed[k]
    ELSE IF k \in DOMAIN Stocked THEN Stocked[k]
    ELSE IF k \in DOMAIN Optioned THEN Optioned[k]
    ELSE IF k \in DOMAIN Named THEN Named[k]
    ELSE IF k \in Configured THEN [state |-> "live", by |-> None]
    ELSE IF k \in Book THEN [state |-> "live"]
    ELSE IF k \in Shop THEN [state |-> "live", open |-> TRUE]
    ELSE Blank(k)

Init ==
    /\ db = [k \in Rows |-> InitialRow(k)]
    /\ HandlersInit
    /\ alone = [r \in Request |-> TRUE]
    /\ odd = [why \in {"raced", "untyped", "edited"} |-> {}]

-----------------------------------------------------------------------------
(* What a creation of a variant has read before it writes.                 *)
Disturbs(j, i) ==
    /\ i.op = "createVariant"
    /\ \/ j.op \in {"createVariant", "deleteListing"} /\ j.listing = i.listing
       \/ j.op \in {"addConfig", "dropConfig", "editOption", "drop"}

ArriveAt(r, ops, label) ==
    /\ Begin(r, {j \in Asked[r] : j.op \in ops}, label)
    /\ alone' = [s \in Request |->
         LET others == {t \in Request \ {s} : Running(t) \/ t = r} IN
         /\ alone[s]
         /\ (Running(s) \/ s = r) => \A t \in others : ~Disturbs(job'[t], job'[s])]
    /\ UNCHANGED odd

Arrive(r) ==
    \/ ArriveAt(r, {"createListing", "newOption", "newKind"}, "insert")
    \/ ArriveAt(r, {"updateListing", "deleteListing", "createVariant", "updateVariant",
                    "deleteVariant"}, "listing")
    \/ ArriveAt(r, {"addConfig"}, "addConfig")
    \/ ArriveAt(r, {"touchConfig"}, "config")
    \/ ArriveAt(r, {"dropConfig"}, "dropConfig")
    \/ ArriveAt(r, {"editOption", "editKind"}, "row")
    \/ ArriveAt(r, {"drop"}, "drop")
    \/ ArriveAt(r, {"close"}, "close")

Calm == UNCHANGED <<alone, odd>>

Abandon(r) == Fail(r) /\ Calm
ConnectionLost(r) == Running(r) /\ Abandon(r)

OptionsOf(j) == {j.options[i] : i \in DOMAIN j.options}

Commit(r) ==
    LET creating == job[r].op = "createVariant"
        untyped == creating /\ \E o \in OptionsOf(job[r]) : ~Live(View(r, View(r, o).kind))
        edited == job[r].op \in {"addConfig", "dropConfig"}
    IN  /\ pc[r] = "commit" /\ Finish(r)
        /\ odd' = [raced   |-> IF creating /\ ~alone[r] THEN odd.raced \cup {seen[r]} ELSE odd.raced,
                   untyped |-> IF untyped THEN odd.untyped \cup {seen[r]} ELSE odd.untyped,
                   edited  |-> IF edited THEN odd.edited \cup {job[r].config[1]} ELSE odd.edited]
        /\ UNCHANGED alone

-----------------------------------------------------------------------------
(* The unique indexes: one live listing per shop and book, one live option *)
(* per type and value, one live type per name.                             *)
Table(k) == IF k \in Listing THEN Listing ELSE IF k \in Option THEN Option ELSE Kind

SameEntry(k, x, y) ==
    /\ Live(x) /\ Live(y)
    /\ k \in Listing => x.shop = y.shop /\ x.book = y.book
    /\ k \in Option => x.kind = y.kind /\ x.value = y.value
    /\ k \in Kind => x.name = y.name

Undecided(r, k, x) ==
    \E s \in Request \ {r}, o \in Table(k) :
        Holds(s, o) /\ (o = k \/ SameEntry(k, x, db[o]) \/ SameEntry(k, x, pend[s][o]))

Taken(r, k, x) == \E o \in Table(k) \ {k} : SameEntry(k, x, View(r, o))

(* The foreign key of an option; a type that was deleted satisfies it.     *)
Exists(r, k) == View(r, k).state # "none"

Refers(r, k, x) == k \in Option => Exists(r, x.kind)

Store(r, k, x) ==
    /\ ~Undecided(r, k, x)
    /\ \/ ~Taken(r, k, x) /\ Refers(r, k, x) /\ Write(r, k, x, "commit") /\ Calm
       \/ (Taken(r, k, x) \/ ~Refers(r, k, x)) /\ Abandon(r)

Fresh(k) == db[k].state = "none" /\ \A s \in Request : ~Holds(s, k)

(* POST /business-books, /variant-options and /variant-types.  Every new   *)
(* listing is a draft.                                                     *)
NewRow(j) ==
    CASE j.op = "createListing" -> [state |-> "live", status |-> "DRAFT", book |-> j.book, shop |-> j.shop]
      [] j.op = "newOption" -> [state |-> "live", kind |-> j.kind, value |-> j.value]
      [] j.op = "newKind" -> [state |-> "live", name |-> j.value]

InsertRow(r) ==
    LET table == CASE job[r].op = "createListing" -> Listing
                   [] job[r].op = "newOption" -> Option
                   [] job[r].op = "newKind" -> Kind
    IN  /\ pc[r] = "insert"
        /\ \E k \in {o \in table : Fresh(o)} : Store(r, k, NewRow(job[r]))

(* PATCH /variant-options/{id} and /variant-types/{id}: a read, and the    *)
(* fields that it changes; a row deleted meanwhile stays deleted.          *)
ReadRow(r) ==
    LET x == View(r, job[r].row) IN
    /\ pc[r] = "row"
    /\ \/ Live(x) /\ Read(r, x, "edit") /\ Calm
       \/ ~Live(x) /\ Abandon(r)

EditRow(r) ==
    LET k == job[r].row
        field == IF k \in Kind THEN "name" ELSE "value"
        renamed == job[r].value # seen[r][field]
        moved == k \in Option /\ job[r].kind \notin {Same, seen[r].kind}
        named == IF renamed THEN [View(r, k) EXCEPT ![field] = job[r].value] ELSE View(r, k)
    IN  /\ pc[r] = "edit"
        /\ IF renamed \/ moved
             THEN Store(r, k, IF moved THEN [named EXCEPT !.kind = job[r].kind] ELSE named)
             ELSE Continue(r, "commit") /\ Calm

(* DELETE of an option or a type, and of a book or a business, which other *)
(* components do: one conditional UPDATE.  Nothing that refers to the row  *)
(* is touched.                                                             *)
DropRow(r) ==
    LET k == job[r].row IN
    /\ pc[r] = "drop" /\ ~HeldByOther(r, k)
    /\ \/ Live(View(r, k)) /\ Write(r, k, [View(r, k) EXCEPT !.state = "deleted"], "commit") /\ Calm
       \/ ~Live(View(r, k)) /\ Abandon(r)

(* A business that is no longer ACTIVE.                                    *)
CloseShop(r) ==
    /\ pc[r] = "close"
    /\ Write(r, job[r].row, [View(r, job[r].row) EXCEPT !.open = FALSE], "commit") /\ Calm

-----------------------------------------------------------------------------
(* The listing a seller names must be live and his.                        *)
ListingMayMove(from, to) ==
    \/ from = "DRAFT" /\ to \in {"DRAFT", "ACTIVE"}
    \/ from \in {"ACTIVE", "INACTIVE"} /\ to \in {"ACTIVE", "INACTIVE"}

OwnListing(r, x) == Live(x) /\ x.shop = job[r].shop

ReadListing(r) ==
    LET x == View(r, job[r].listing)
        next == CASE job[r].op = "updateListing" -> "reload"
                  [] job[r].op = "deleteListing" -> "variants"
                  [] job[r].op = "createVariant" -> "options"
                  [] OTHER -> "variant"
        allowed == /\ OwnListing(r, x)
                   /\ job[r].op = "updateListing" /\ job[r].status # Same =>
                        ListingMayMove(x.status, job[r].status)
    IN  /\ pc[r] = "listing"
        /\ \/ allowed /\ Read(r, x, next) /\ Calm
           \/ ~allowed /\ Abandon(r)

(* update_business_book reads again whether the row is still there, but    *)
(* its fields are those loaded before; only what differs from them is      *)
(* written.                                                                *)
ReloadListing(r) ==
    /\ pc[r] = "reload"
    /\ \/ Live(View(r, job[r].listing)) /\ Continue(r, "update") /\ Calm
       \/ ~Live(View(r, job[r].listing)) /\ Abandon(r)

WriteListing(r) ==
    LET moved == job[r].book \notin {Same, seen[r].book}
        switched == job[r].status \notin {Same, seen[r].status}
        now == View(r, job[r].listing)
    IN  /\ pc[r] = "update"
        /\ IF moved \/ switched
             THEN Store(r, job[r].listing,
                        [now EXCEPT !.status = IF switched THEN job[r].status ELSE @,
                                    !.book = IF moved THEN job[r].book ELSE @])
             ELSE Continue(r, "commit") /\ Calm

(* soft_delete_variants_by_business_book: a SELECT of the ids, an UPDATE   *)
(* of these rows, an UPDATE of their configurations; then the listing.     *)
(* Mutant: variants that are sold out are not compared.                    *)
VariantsInStock(rows, l) == {v \in Variant : Live(rows[v]) /\ rows[v].listing = l /\ rows[v].stock > 0}

VariantsOf(rows, l) == {v \in Variant : Live(rows[v]) /\ rows[v].listing = l}

ViewAll(r) == [k \in Rows |-> View(r, k)]

ListVariants(r) ==
    LET ids == VariantsOf(ViewAll(r), job[r].listing) IN
    /\ pc[r] = "variants"
    /\ Read(r, ids, IF ids = {} THEN "unlist" ELSE "removeAll")
    /\ Calm

Deleted(rows, K) == [k \in Rows |-> IF k \in K THEN [rows[k] EXCEPT !.state = "deleted"] ELSE None]

(* One UPDATE of several rows; it waits for each of them.                  *)
DeleteAll(r, K, label) ==
    /\ \A k \in K : ~HeldByOther(r, k)
    /\ pend' = [pend EXCEPT ![r] =
         [k \in Rows |-> IF k \in K THEN Deleted(ViewAll(r), K)[k] ELSE pend[r][k]]]
    /\ Goto(r, label)
    /\ UNCHANGED <<db, job, seen>> /\ Calm

RemoveVariants(r) == pc[r] = "removeAll" /\ DeleteAll(r, seen[r], "unconfigure")

(* Mutant: the configurations of a deleted variant are forgotten.          *)
ConfigsOfNone(rows, V) == {}

ConfigsOf(rows, V) == {p \in V \X Option : Live(rows[p])}

RemoveConfigs(r) ==
    /\ pc[r] = "unconfigure"
    /\ DeleteAll(r, ConfigsOf(ViewAll(r), seen[r]),
                 IF job[r].op = "deleteListing" THEN "unlist" ELSE "commit")

RemoveListing(r) ==
    LET l == job[r].listing IN
    /\ pc[r] = "unlist" /\ ~HeldByOther(r, l)
    /\ \/ /\ Live(View(r, l))
          /\ Write(r, l, [View(r, l) EXCEPT !.state = "deleted", !.status = "DELETED"], "commit")
          /\ Calm
       \/ ~Live(View(r, l)) /\ Abandon(r)

-----------------------------------------------------------------------------
(* POST /business-books/{id}/variants.                                     *)
(* validate_product_option_values: at least one option, all live, none     *)
(* twice, one per type.  Whether the type is live is not asked.            *)
ValidOptions(rows, options) ==
    LET given == {options[i] : i \in DOMAIN options} IN
    /\ given # {} /\ Cardinality(given) = Len(options)
    /\ \A o \in given : Live(rows[o])
    /\ \A o, p \in given : rows[o].kind = rows[p].kind => o = p

ValidateOptions(r) ==
    /\ pc[r] = "options"
    /\ \/ ValidOptions(ViewAll(r), job[r].options) /\ Continue(r, "siblings") /\ Calm
       \/ ~ValidOptions(ViewAll(r), job[r].options) /\ Abandon(r)

(* duplicate_option_set_exists reads the live variants of the listing,     *)
(* their configurations, the options of these, and the types of those.     *)
ReadSiblings(r) ==
    LET ids == VariantsOf(ViewAll(r), job[r].listing) IN
    /\ pc[r] = "siblings"
    /\ Read(r, [ids |-> ids, configs |-> {}, values |-> {}],
            IF ids = {} THEN "store" ELSE "configs")
    /\ Calm

ReadConfigs(r) ==
    LET configs == ConfigsOf(ViewAll(r), seen[r].ids) IN
    /\ pc[r] = "configs"
    /\ Read(r, [seen[r] EXCEPT !.configs = configs], IF configs = {} THEN "store" ELSE "values")
    /\ Calm

ReadValues(r) ==
    LET live == {p \in seen[r].configs : Live(View(r, p[2]))} IN
    /\ pc[r] = "values"
    /\ Read(r, [seen[r] EXCEPT !.configs = live,
                               !.values = {<<p[2], View(r, p[2]).kind>> : p \in live}], "kinds")
    /\ Calm

(* What resolve_configs_for_variants returns: an option that is deleted,   *)
(* or whose type is, is dropped.                                           *)
Resolved(configs, values, rows, v) ==
    {o \in Option : <<v, o>> \in configs /\ \E t \in Kind : <<o, t>> \in values /\ Live(rows[t])}

DuplicateSet(r) ==
    \E v \in seen[r].ids :
        OptionsOf(job[r]) = Resolved(seen[r].configs, seen[r].values, ViewAll(r), v)

ReadKinds(r) ==
    /\ pc[r] = "kinds"
    /\ \/ DuplicateSet(r) /\ Abandon(r)
       \/ ~DuplicateSet(r) /\ Continue(r, "store") /\ Calm

(* Two INSERTs: the variant, which must not start below zero, and all of   *)
(* its configurations.  Nobody else can know the new row.                  *)
InsertVariant(r) ==
    LET j == job[r] IN
        /\ pc[r] = "store"
        /\ \/ j.stock < 0 /\ Abandon(r)
           \/ /\ j.stock >= 0
              /\ \E v \in {k \in Variant : Fresh(k)} :
                   /\ WriteRow(r, v, [state |-> "live", listing |-> j.listing, stock |-> j.stock])
                   /\ Keep(r, v)
              /\ Goto(r, "configure") /\ UNCHANGED job /\ Calm

InsertConfigs(r) ==
    LET new == {<<seen[r], o>> : o \in OptionsOf(job[r])} IN
    /\ pc[r] = "configure"
    /\ pend' = [pend EXCEPT ![r] =
         [k \in Rows |-> IF k \in new THEN [state |-> "live", by |-> r] ELSE @[k]]]
    /\ Goto(r, "commit") /\ UNCHANGED <<db, job, seen>> /\ Calm

-----------------------------------------------------------------------------
(* PATCH and DELETE /business-books/{id}/variants/{variant_id}: the        *)
(* variant must be of the seller's listing.  A PATCH reads it once more.   *)

OwnVariant(r, x) == Live(x) /\ x.listing = job[r].listing

ReadVariant(r) ==
    LET x == View(r, job[r].variant) IN
    /\ pc[r] = "variant"
    /\ \/ /\ OwnVariant(r, x)
          /\ Read(r, x, IF job[r].op = "updateVariant" THEN "reread" ELSE "remove")
          /\ Calm
       \/ ~OwnVariant(r, x) /\ Abandon(r)

RereadVariant(r) ==
    LET live == Live(View(r, job[r].variant)) IN
    /\ pc[r] = "reread"
    /\ \/ live /\ Continue(r, IF job[r].stock = seen[r].stock THEN "commit" ELSE "stock") /\ Calm
       \/ ~live /\ Abandon(r)

(* ck_variants_stock_non_negative refuses what is below zero.              *)
WriteVariant(r) ==
    LET v == job[r].variant IN
    /\ pc[r] = "stock" /\ ~HeldByOther(r, v)
    /\ \/ job[r].stock >= 0 /\ Write(r, v, [View(r, v) EXCEPT !.stock = job[r].stock], "commit") /\ Calm
       \/ job[r].stock < 0 /\ Abandon(r)

RemoveVariant(r) ==
    LET v == job[r].variant IN
    /\ pc[r] = "remove" /\ ~HeldByOther(r, v)
    /\ \/ /\ Live(View(r, v))
          /\ WriteRow(r, v, [View(r, v) EXCEPT !.state = "deleted"])
          /\ Keep(r, {v}) /\ Goto(r, "unconfigure") /\ UNCHANGED job /\ Calm
       \/ ~Live(View(r, v)) /\ Abandon(r)

-----------------------------------------------------------------------------
(* POST, PATCH and DELETE /variant-configs.  A POST asks only that both    *)
(* rows exist; a PATCH changes a status that nothing reads, and refuses to *)
(* change the pair.                                                        *)
AddConfig(r) ==
    LET p == job[r].config
        may == ~Live(View(r, p)) /\ Exists(r, p[1]) /\ Exists(r, p[2])
    IN  /\ pc[r] = "addConfig" /\ ~HeldByOther(r, p)
        /\ \/ may /\ Write(r, p, [state |-> "live", by |-> r], "commit") /\ Calm
           \/ ~may /\ Abandon(r)

ReadConfig(r) ==
    LET x == View(r, job[r].config) IN
    /\ pc[r] = "config"
    /\ \/ Live(x) /\ Read(r, x, "touch") /\ Calm
       \/ ~Live(x) /\ Abandon(r)

TouchConfig(r) ==
    LET p == job[r].config IN
    /\ pc[r] = "touch"
    /\ IF View(r, p).by = seen[r].by THEN Write(r, p, View(r, p), "commit") ELSE Continue(r, "commit")
    /\ Calm

DropConfig(r) ==
    LET p == job[r].config IN
    /\ pc[r] = "dropConfig" /\ ~HeldByOther(r, p)
    /\ \/ Live(View(r, p)) /\ Write(r, p, [View(r, p) EXCEPT !.state = "deleted"], "commit") /\ Calm
       \/ ~Live(View(r, p)) /\ Abandon(r)

Next == \E r \in Request :
    \/ Arrive(r)
    \/ InsertRow(r) \/ ReadRow(r) \/ EditRow(r) \/ DropRow(r) \/ CloseShop(r)
    \/ ReadListing(r) \/ ReloadListing(r) \/ WriteListing(r)
    \/ ListVariants(r) \/ RemoveVariants(r) \/ RemoveConfigs(r) \/ RemoveListing(r)
    \/ ValidateOptions(r) \/ ReadSiblings(r) \/ ReadConfigs(r) \/ ReadValues(r) \/ ReadKinds(r)
    \/ InsertVariant(r) \/ InsertConfigs(r)
    \/ ReadVariant(r) \/ RereadVariant(r) \/ WriteVariant(r) \/ RemoveVariant(r)
    \/ AddConfig(r) \/ ReadConfig(r) \/ TouchConfig(r) \/ DropConfig(r)
    \/ Commit(r) \/ ConnectionLost(r)

Spec == Init /\ [][Next]_vars
-----------------------------------------------------------------------------
(* Properties.                                                             *)

Label == {"new", "done", "failed", "insert", "listing", "addConfig", "config", "dropConfig", "row",
          "edit", "drop", "close", "reload", "update", "variants", "removeAll", "unconfigure",
          "unlist", "options", "siblings", "configs", "values", "kinds", "store", "configure",
          "variant", "reread", "stock", "remove", "touch", "commit"}

RowType(k) ==
    IF k \in Listing THEN ListingRow ELSE IF k \in Variant THEN VariantRow
    ELSE IF k \in Option THEN OptionRow ELSE IF k \in Kind THEN KindRow
    ELSE IF k \in Book THEN BookRow ELSE IF k \in Shop THEN ShopRow ELSE ConfigRow

(* Every row is of its table's type: no stock is below zero, whatever a    *)
(* seller sends.                                                           *)
TypeOK ==
    /\ DOMAIN db = Rows
    /\ \A k \in Rows : /\ db[k] \in RowType(k)
                       /\ \A r \in Request : pend[r][k] \in RowType(k) \cup {None}
    /\ pc \in [Request -> Label]
    /\ \A r \in Request : job[r] \in Job \cup {NoJob}
    /\ alone \in [Request -> BOOLEAN]

(* Two live variants of a listing never have the same options, although no *)
(* index says so: unless they were created in a race, with an option whose *)
(* type is deleted (which the comparison cannot see), or an administrator  *)
(* has added or removed options since.                                     *)
OptionSet(v) == {o \in Option : Live(db[<<v, o>>])}

OptionSetsDistinct ==
    \A v, w \in Variant :
        /\ v # w /\ Live(db[v]) /\ Live(db[w]) /\ db[v].listing = db[w].listing
        /\ OptionSet(v) = OptionSet(w)
        => {v, w} \cap (odd.raced \cup odd.untyped \cup odd.edited) # {}

(* The options of a variant go when it does, and a variant goes when its   *)
(* listing does: unless an administrator adds options, or the variant was  *)
(* created while its listing was being deleted.                            *)
NothingLeftBehind ==
    \A v \in Variant :
        /\ db[v].state = "deleted" => OptionSet(v) = {} \/ v \in odd.edited
        /\ Live(db[v]) => Live(db[db[v].listing]) \/ v \in odd.raced
=============================================================================
