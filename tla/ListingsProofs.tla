---------------------------- MODULE ListingsProofs ----------------------------
(***************************************************************************)
(* Proofs about Listings and ShopPages, for every set of listings,         *)
(* variants, options, requests and readers.                                *)
(*                                                                         *)
(* A creation of a variant compares its options with what it has read in   *)
(* four statements.  The invariant says what of it still holds for one     *)
(* that nobody disturbs, and what a deletion has cleared of the variants   *)
(* it takes with it.  A page says of what nobody changed what is still so. *)
(***************************************************************************)
EXTENDS ShopPages, FiniteSetTheorems, TLAPS

AnyRow == ListingRow \cup VariantRow \cup OptionRow \cup KindRow \cup BookRow \cup ShopRow
            \cup ConfigRow

(* The endpoints whose handlers pass a statement.                          *)
OpsAt(label) ==
    CASE label = "insert" -> {"createListing", "newOption", "newKind"}
      [] label = "listing" -> {"updateListing", "deleteListing", "createVariant", "updateVariant",
                               "deleteVariant"}
      [] label \in {"reload", "update"} -> {"updateListing"}
      [] label \in {"variants", "removeAll", "unlist"} -> {"deleteListing"}
      [] label = "unconfigure" -> {"deleteListing", "deleteVariant"}
      [] label \in {"options", "siblings", "configs", "values", "kinds", "store", "configure"} ->
           {"createVariant"}
      [] label = "variant" -> {"updateVariant", "deleteVariant"}
      [] label \in {"reread", "stock"} -> {"updateVariant"}
      [] label = "remove" -> {"deleteVariant"}
      [] label = "addConfig" -> {"addConfig"}
      [] label \in {"config", "touch"} -> {"touchConfig"}
      [] label = "dropConfig" -> {"dropConfig"}
      [] label \in {"row", "edit"} -> {"editOption", "editKind"}
      [] label = "drop" -> {"drop"}
      [] label = "close" -> {"close"}
      [] label = "commit" -> {"createListing", "newOption", "newKind", "updateListing", "deleteListing",
                              "createVariant", "updateVariant", "deleteVariant", "addConfig",
                              "touchConfig", "dropConfig", "editOption", "editKind", "drop", "close"}
      [] OTHER -> {}

Deletions == {"deleteListing", "deleteVariant"}

HoldsNothing(r) == \A k \in Rows : ~Holds(r, k)

(* What a request may have written, table by table: x over the committed y. *)
ListingHeld(r, l, x, y) ==
    \/ job[r].op = "createListing" /\ y.state = "none" /\ Live(x)
    \/ job[r].op = "updateListing" /\ x.state = y.state
    \/ job[r].op = "deleteListing" /\ l = job[r].listing /\ pc[r] = "commit" /\ x.state = "deleted"

VariantHeld(r, v, x, y) ==
    \/ /\ job[r].op = "createVariant" /\ pc[r] \in {"configure", "commit"} /\ v = seen[r]
       /\ y.state = "none" /\ Live(x) /\ x.listing = job[r].listing
    \/ job[r].op = "updateVariant" /\ x.state = y.state /\ x.listing = y.listing
    \/ /\ job[r].op \in Deletions /\ pc[r] \in {"unconfigure", "unlist", "commit"} /\ v \in seen[r]
       /\ x.state = "deleted" /\ x.listing = y.listing /\ y.state # "none"

OptionHeld(r, x, y) ==
    /\ \/ job[r].op = "newOption" /\ y.state = "none" /\ Live(x)
       \/ job[r].op = "editOption" /\ x.state = y.state
       \/ job[r].op = "drop" /\ x.state = "deleted"
    /\ db[x.kind].state # "none"

KindHeld(r, x, y) ==
    \/ job[r].op = "newKind" /\ y.state = "none" /\ Live(x)
    \/ job[r].op = "editKind" /\ x.state = y.state
    \/ job[r].op = "drop" /\ x.state = "deleted"

ConfigHeld(r, v, o, x, y) ==
    \/ job[r].op = "createVariant" /\ pc[r] = "commit" /\ v = seen[r] /\ o \in OptionsOf(job[r]) /\ Live(x)
    \/ /\ job[r].op = "addConfig" /\ <<v, o>> = job[r].config /\ Live(x)
       /\ db[v].state # "none" /\ db[o].state # "none"
    \/ job[r].op = "touchConfig" /\ x.state = y.state /\ y.state # "none"
    \/ job[r].op = "dropConfig" /\ <<v, o>> = job[r].config /\ x.state = "deleted" /\ y.state # "none"
    \/ /\ job[r].op \in Deletions /\ pc[r] \in {"unlist", "commit"} /\ v \in seen[r]
       /\ x.state = "deleted" /\ y.state # "none"

WritesOK(r) ==
    /\ \A k \in Rows : Holds(r, k) => pend[r][k] \in RowType(k)
    /\ \A l \in Listing : Holds(r, l) => ListingHeld(r, l, pend[r][l], db[l])
    /\ \A v \in Variant : Holds(r, v) => VariantHeld(r, v, pend[r][v], db[v])
    /\ \A o \in Option : Holds(r, o) => OptionHeld(r, pend[r][o], db[o])
    /\ \A t \in Kind : Holds(r, t) => KindHeld(r, pend[r][t], db[t])
    /\ \A v \in Variant, o \in Option :
         Holds(r, <<v, o>>) => ConfigHeld(r, v, o, pend[r][<<v, o>>], db[<<v, o>>])

(* What an update found is at least not gone from the table.               *)
Found(r) ==
    CASE pc[r] = "update" -> db[job[r].listing].state # "none"
      [] pc[r] = "edit" -> db[job[r].row].state # "none"
      [] pc[r] = "touch" -> db[job[r].config].state # "none"
      [] OTHER -> TRUE

(* The variants of a listing, as committed.                                *)
Of(l) == {v \in Variant : Live(db[v]) /\ db[v].listing = l}

(* A deletion: which variants go, which of them it holds, and that nothing *)
(* of them stays.                                                          *)
Deleting(r) ==
    /\ job[r].op = "deleteListing" /\ pc[r] \in {"removeAll", "unconfigure", "unlist", "commit"} =>
         /\ seen[r] \subseteq Variant
         /\ \A v \in seen[r] : db[v].state # "none"
         /\ Of(job[r].listing) \subseteq seen[r] \cup odd.raced
    /\ job[r].op = "deleteVariant" /\ pc[r] \in {"unconfigure", "commit"} =>
         seen[r] \subseteq Variant /\ \A v \in seen[r] : db[v].state # "none"
    /\ job[r].op \in Deletions /\ pc[r] \in {"unconfigure", "unlist", "commit"} =>
         \A v \in seen[r] : Holds(r, v)
    /\ job[r].op \in Deletions /\ pc[r] \in {"unlist", "commit"} =>
         \A v \in seen[r], o \in Option :
             Live(db[<<v, o>>]) => Holds(r, <<v, o>>) \/ v \in odd.edited

(* A creation of a variant, whatever happens beside it.                    *)
Creating(r) ==
    /\ pc[r] \notin {"listing", "options"} =>
         OptionsOf(job[r]) # {} /\ \A o \in OptionsOf(job[r]) : db[o].state # "none"
    /\ pc[r] \in {"configure", "commit"} => seen[r] \in Variant /\ Holds(r, seen[r])
    /\ pc[r] = "commit" => \A o \in OptionsOf(job[r]) : Holds(r, <<seen[r], o>>)

(* No variant of the listing has the options that r gives, unless r gives  *)
(* one whose type is deleted.                                              *)
Distinct(r) ==
    \A v \in Of(job[r].listing) :
        OptionSet(v) # OptionsOf(job[r]) \/ \E o \in OptionsOf(job[r]) : ~Live(db[db[o].kind])

(* One that nobody disturbs: what it has read is still so.                 *)
Knowing(r) ==
    /\ pc[r] # "listing" => Live(db[job[r].listing])
    /\ pc[r] \notin {"listing", "options"} => \A o \in OptionsOf(job[r]) : Live(db[o])
    /\ pc[r] \in {"configs", "values", "kinds"} =>
         /\ DOMAIN seen[r] = {"ids", "configs", "values"}
         /\ Of(job[r].listing) \subseteq seen[r].ids /\ seen[r].ids \subseteq Variant
    /\ pc[r] \in {"values", "kinds"} => seen[r].configs \subseteq Config
    /\ pc[r] = "values" =>
         \A v \in Of(job[r].listing), o \in Option : <<v, o>> \in seen[r].configs <=> Live(db[<<v, o>>])
    /\ pc[r] = "kinds" =>
         /\ \A v \in Of(job[r].listing), o \in Option :
              <<v, o>> \in seen[r].configs <=> Live(db[<<v, o>>]) /\ Live(db[o])
         /\ \A p \in seen[r].configs : Live(db[p[2]]) /\ <<p[2], db[p[2]].kind>> \in seen[r].values
         /\ \A o \in Option, t \in Kind : <<o, t>> \in seen[r].values => Live(db[o]) /\ t = db[o].kind
    /\ pc[r] \in {"store", "configure", "commit"} => Distinct(r)

Mine(r) ==
    /\ IF Running(r) THEN job[r].op \in OpsAt(pc[r])
       ELSE HoldsNothing(r) /\ job[r] = NoJob
    /\ pc[r] \notin {"unconfigure", "unlist", "configure", "commit"} => HoldsNothing(r)
    /\ WritesOK(r) /\ Found(r) /\ Deleting(r)
    /\ job[r].op = "createVariant" => Creating(r) /\ (alone[r] => Knowing(r))

(* Foreign keys.                                                           *)
RowsOK ==
    /\ \A v \in Variant, o \in Option :
         db[<<v, o>>].state # "none" => db[v].state # "none" /\ db[o].state # "none"
    /\ \A o \in Option : db[o].state # "none" => db[db[o].kind].state # "none"

(* Who is called alone is.                                                 *)
Undisturbed ==
    \A r, s \in Request :
        r # s /\ Running(r) /\ Running(s) /\ alone[r] => ~Disturbs(job[s], job[r])

ListingsInv ==
    /\ db \in [Rows -> AnyRow] /\ \A k \in Rows : db[k] \in RowType(k)
    /\ pend \in [Request -> [Rows -> AnyRow \cup {None}]]
    /\ pc \in [Request -> Label] /\ job \in [Request -> Job \cup {NoJob}] /\ DOMAIN seen = Request
    /\ alone \in [Request -> BOOLEAN]
    /\ odd \in [raced : SUBSET Variant, untyped : SUBSET Variant, edited : SUBSET Variant]
    /\ RowLocksExclusive /\ RowsOK /\ Undisturbed
    /\ \A r \in Request : Mine(r)
    /\ OptionSetsDistinct /\ NothingLeftBehind

-----------------------------------------------------------------------------
(* Rows.                                                                   *)

LEMMA TablesDiffer ==
    /\ Listing \cap Variant = {} /\ Listing \cap Option = {} /\ Listing \cap Kind = {}
    /\ Listing \cap Book = {} /\ Listing \cap Shop = {} /\ Listing \cap Config = {}
    /\ Variant \cap Option = {} /\ Variant \cap Kind = {} /\ Variant \cap Book = {}
    /\ Variant \cap Shop = {} /\ Variant \cap Config = {}
    /\ Option \cap Kind = {} /\ Option \cap Book = {} /\ Option \cap Shop = {}
    /\ Option \cap Config = {}
    /\ Kind \cap Book = {} /\ Kind \cap Shop = {} /\ Kind \cap Config = {}
    /\ Book \cap Shop = {} /\ Book \cap Config = {} /\ Shop \cap Config = {}
<1>1. /\ Tables[1] = Listing /\ Tables[2] = Variant /\ Tables[3] = Option /\ Tables[4] = Kind
      /\ Tables[5] = Book /\ Tables[6] = Shop /\ Tables[7] = Config
  BY DEF Tables
<1>2. \A i, j \in 1..7 : i # j => Tables[i] \cap Tables[j] = {}
  BY ListingsAssumption
<1>3. /\ 1 \in 1..7 /\ 2 \in 1..7 /\ 3 \in 1..7 /\ 4 \in 1..7 /\ 5 \in 1..7 /\ 6 \in 1..7 /\ 7 \in 1..7
  OBVIOUS
<1>4. ASSUME NEW i \in 1..7, NEW j \in 1..7, i # j PROVE Tables[i] \cap Tables[j] = {}
  BY <1>2, <1>4
<1>5. /\ Tables[1] \cap Tables[2] = {} /\ Tables[1] \cap Tables[3] = {} /\ Tables[1] \cap Tables[4] = {}
      /\ Tables[1] \cap Tables[5] = {} /\ Tables[1] \cap Tables[6] = {} /\ Tables[1] \cap Tables[7] = {}
      /\ Tables[2] \cap Tables[3] = {} /\ Tables[2] \cap Tables[4] = {} /\ Tables[2] \cap Tables[5] = {}
      /\ Tables[2] \cap Tables[6] = {} /\ Tables[2] \cap Tables[7] = {}
  BY <1>3, <1>4
<1>6. /\ Tables[3] \cap Tables[4] = {} /\ Tables[3] \cap Tables[5] = {} /\ Tables[3] \cap Tables[6] = {}
      /\ Tables[3] \cap Tables[7] = {} /\ Tables[4] \cap Tables[5] = {} /\ Tables[4] \cap Tables[6] = {}
      /\ Tables[4] \cap Tables[7] = {} /\ Tables[5] \cap Tables[6] = {} /\ Tables[5] \cap Tables[7] = {}
      /\ Tables[6] \cap Tables[7] = {}
  BY <1>3, <1>4
<1> QED
  BY <1>1, <1>5, <1>6

LEMMA RowsAre ==
    Rows = Listing \cup Variant \cup Option \cup Kind \cup Book \cup Shop \cup Config
<1>1. /\ Tables[1] = Listing /\ Tables[2] = Variant /\ Tables[3] = Option /\ Tables[4] = Kind
      /\ Tables[5] = Book /\ Tables[6] = Shop /\ Tables[7] = Config
  BY DEF Tables
<1>2. ASSUME NEW i \in 1..7
      PROVE  Tables[i] \subseteq Listing \cup Variant \cup Option \cup Kind \cup Book \cup Shop \cup Config
  <2>1. i = 1 \/ i = 2 \/ i = 3 \/ i = 4 \/ i = 5 \/ i = 6 \/ i = 7
    OBVIOUS
  <2> QED
    BY <1>1, <2>1
<1>3. \A i \in 1..7 : Tables[i] \subseteq Rows
  BY DEF Rows
<1>4. /\ Tables[1] \subseteq Rows /\ Tables[2] \subseteq Rows /\ Tables[3] \subseteq Rows
      /\ Tables[4] \subseteq Rows /\ Tables[5] \subseteq Rows /\ Tables[6] \subseteq Rows
      /\ Tables[7] \subseteq Rows
  BY <1>3
<1>5. Rows \subseteq Listing \cup Variant \cup Option \cup Kind \cup Book \cup Shop \cup Config
  BY <1>2 DEF Rows
<1> QED
  BY <1>1, <1>4, <1>5

LEMMA RowFacts ==
    /\ \A l \in Listing : /\ l \in Rows /\ RowType(l) = ListingRow
                          /\ l \notin Variant /\ l \notin Option /\ l \notin Kind /\ l \notin Config
    /\ \A v \in Variant : /\ v \in Rows /\ RowType(v) = VariantRow
                          /\ v \notin Listing /\ v \notin Option /\ v \notin Kind /\ v \notin Config
    /\ \A o \in Option : /\ o \in Rows /\ RowType(o) = OptionRow
                         /\ o \notin Listing /\ o \notin Variant /\ o \notin Kind /\ o \notin Config
    /\ \A t \in Kind : /\ t \in Rows /\ RowType(t) = KindRow
                       /\ t \notin Listing /\ t \notin Variant /\ t \notin Option /\ t \notin Config
    /\ \A b \in Book \cup Shop : /\ b \in Rows /\ b \notin Listing /\ b \notin Variant
                                 /\ b \notin Option /\ b \notin Kind /\ b \notin Config
    /\ \A b \in Book : RowType(b) = BookRow
    /\ \A s \in Shop : RowType(s) = ShopRow
    /\ \A p \in Config : /\ p \in Rows /\ RowType(p) = ConfigRow
                         /\ p \notin Listing /\ p \notin Variant /\ p \notin Option /\ p \notin Kind
                         /\ p[1] \in Variant /\ p[2] \in Option /\ p = <<p[1], p[2]>>
    /\ \A v \in Variant, o \in Option : <<v, o>> \in Config
    /\ \A k : RowType(k) \subseteq AnyRow
    /\ None \notin AnyRow
<1>1. (\A k : RowType(k) \subseteq AnyRow) /\ None \notin AnyRow
  BY ListingsAssumption DEF RowType, AnyRow
<1>2. \A l \in Listing : /\ l \in Rows /\ RowType(l) = ListingRow
                         /\ l \notin Variant /\ l \notin Option /\ l \notin Kind /\ l \notin Config
  BY TablesDiffer, RowsAre DEF RowType
<1>3. \A v \in Variant : /\ v \in Rows /\ RowType(v) = VariantRow
                         /\ v \notin Listing /\ v \notin Option /\ v \notin Kind /\ v \notin Config
  BY TablesDiffer, RowsAre DEF RowType
<1>4. \A o \in Option : /\ o \in Rows /\ RowType(o) = OptionRow
                        /\ o \notin Listing /\ o \notin Variant /\ o \notin Kind /\ o \notin Config
  BY TablesDiffer, RowsAre DEF RowType
<1>5. \A t \in Kind : /\ t \in Rows /\ RowType(t) = KindRow
                      /\ t \notin Listing /\ t \notin Variant /\ t \notin Option /\ t \notin Config
  BY TablesDiffer, RowsAre DEF RowType
<1>6. \A b \in Book \cup Shop : /\ b \in Rows /\ b \notin Listing /\ b \notin Variant
                                /\ b \notin Option /\ b \notin Kind /\ b \notin Config
  BY TablesDiffer, RowsAre
<1>7. (\A b \in Book : RowType(b) = BookRow) /\ (\A s \in Shop : RowType(s) = ShopRow)
  BY TablesDiffer DEF RowType
<1>8. \A p \in Config : /\ p \in Rows /\ RowType(p) = ConfigRow
                        /\ p \notin Listing /\ p \notin Variant /\ p \notin Option /\ p \notin Kind
  BY TablesDiffer, RowsAre DEF RowType
<1>9. \A p \in Config : p[1] \in Variant /\ p[2] \in Option /\ p = <<p[1], p[2]>>
  BY DEF Config
<1>10. \A v \in Variant, o \in Option : <<v, o>> \in Config
  BY DEF Config
<1> QED
  BY <1>1, <1>2, <1>3, <1>4, <1>5, <1>6, <1>7, <1>8, <1>9, <1>10

LEMMA InvTypes ==
    ASSUME ListingsInv
    PROVE  /\ db \in [Rows -> AnyRow] /\ Row = Rows /\ \A k \in Rows : db[k] \in RowType(k)
           /\ pend \in [Request -> [Rows -> AnyRow \cup {None}]]
           /\ pc \in [Request -> Label] /\ job \in [Request -> Job \cup {NoJob}]
           /\ DOMAIN seen = Request /\ alone \in [Request -> BOOLEAN]
           /\ odd \in [raced : SUBSET Variant, untyped : SUBSET Variant, edited : SUBSET Variant]
           /\ \A r \in Request : Mine(r) /\ WritesOK(r) /\ Found(r) /\ Deleting(r)
           /\ \A r \in Request : Running(r) => job[r].op \in OpsAt(pc[r])
BY DEF ListingsInv, Row, Mine

LEMMA DbTypes ==
    ASSUME ListingsInv
    PROVE  /\ \A l \in Listing : db[l] \in ListingRow
           /\ \A v \in Variant : db[v] \in VariantRow
           /\ \A o \in Option : db[o] \in OptionRow
           /\ \A t \in Kind : db[t] \in KindRow
           /\ \A b \in Book : db[b] \in BookRow
           /\ \A s \in Shop : db[s] \in ShopRow
           /\ \A v \in Variant, o \in Option : db[<<v, o>>] \in ConfigRow
<1>1. \A k \in Rows : db[k] \in RowType(k)
  BY InvTypes
<1> QED
  BY <1>1, RowFacts

LEMMA HeldTypes ==
    ASSUME ListingsInv, NEW r \in Request, NEW k \in Rows
    PROVE  /\ Holds(r, k) => pend[r][k] \in RowType(k) /\ View(r, k) = pend[r][k]
           /\ ~Holds(r, k) => pend[r][k] = None /\ View(r, k) = db[k]
           /\ View(r, k) \in RowType(k)
BY InvTypes DEF WritesOK, Holds, View

LEMMA LocksHold ==
    ASSUME ListingsInv, NEW r \in Request, NEW s \in Request \ {r}, NEW k \in Rows, Holds(r, k)
    PROVE  ~Holds(s, k)
BY InvTypes DEF ListingsInv, RowLocksExclusive

LEMMA RunningOps ==
    ASSUME ListingsInv, NEW r \in Request, Running(r)
    PROVE  job[r] \in Job /\ job[r].op \in OpsAt(pc[r])
<1>1. Mine(r) /\ job[r] \in Job \cup {NoJob}
  BY InvTypes
<1>2. job[r].op \in OpsAt(pc[r])
  BY <1>1 DEF Mine
<1>3. "none" \notin OpsAt(pc[r])
  BY DEF OpsAt
<1> QED
  BY <1>1, <1>2, <1>3 DEF NoJob

LEMMA JobKinds ==
    ASSUME NEW j \in Job
    PROVE  /\ j.op = "createListing" => j \in CreateListing
           /\ j.op = "updateListing" => j \in UpdateListing
           /\ j.op = "deleteListing" => j \in DeleteListing
           /\ j.op = "createVariant" => j \in CreateVariant
           /\ j.op = "updateVariant" => j \in UpdateVariant
           /\ j.op = "deleteVariant" => j \in DeleteVariant
           /\ j.op \in {"addConfig", "touchConfig", "dropConfig"} => j \in ConfigJob
           /\ j.op \in {"newOption", "editOption"} => j \in OptionJob
           /\ j.op \in {"newKind", "editKind"} => j \in KindJob
           /\ j.op = "drop" => j \in DropJob
           /\ j.op = "close" => j \in CloseJob
           /\ j.op \in OpsAt("commit")
BY DEF Job, CreateListing, UpdateListing, DeleteListing, CreateVariant, UpdateVariant, DeleteVariant,
       ConfigJob, OptionJob, KindJob, DropJob, CloseJob, OpsAt

LEMMA JobFields ==
    ASSUME NEW j \in Job
    PROVE  /\ j.op \in {"updateListing", "deleteListing", "createVariant", "updateVariant",
                        "deleteVariant"} => j.listing \in Listing
           /\ j.op \in {"updateVariant", "deleteVariant"} => j.variant \in Variant
           /\ j.op \in {"addConfig", "touchConfig", "dropConfig"} => j.config \in Config
           /\ j.op = "createVariant" => j.options \in Seq(Option) /\ j.stock \in Int
           /\ j.op = "editOption" => j.row \in Option
           /\ j.op = "editKind" => j.row \in Kind
           /\ j.op = "drop" => j.row \in Option \cup Kind \cup Book \cup Shop
           /\ j.op = "close" => j.row \in Shop
BY JobKinds DEF UpdateListing, DeleteListing, CreateVariant, UpdateVariant, DeleteVariant,
       ConfigJob, OptionJob, KindJob, DropJob, CloseJob

LEMMA OptionsAre ==
    ASSUME NEW j \in Job, j.op = "createVariant"
    PROVE  OptionsOf(j) \subseteq Option
<1>1. j.options \in Seq(Option)
  BY JobFields
<1> QED
  BY <1>1 DEF OptionsOf

-----------------------------------------------------------------------------
(* Steps that commit nothing.                                              *)

LEMMA WritesStay ==
    ASSUME NEW s \in Request, db' = db, pend'[s] = pend[s], pc'[s] = pc[s], job'[s] = job[s],
           seen'[s] = seen[s], WritesOK(s)
    PROVE  WritesOK(s)'
<1>1. \A k : Holds(s, k)' <=> Holds(s, k)
  BY DEF Holds
<1>2. \A l \in Listing : Holds(s, l)' => ListingHeld(s, l, pend[s][l], db[l])'
  BY <1>1 DEF WritesOK, ListingHeld
<1>3. \A v \in Variant : Holds(s, v)' => VariantHeld(s, v, pend[s][v], db[v])'
  BY <1>1 DEF WritesOK, VariantHeld
<1>4. \A o \in Option : Holds(s, o)' => OptionHeld(s, pend[s][o], db[o])'
  BY <1>1 DEF WritesOK, OptionHeld
<1>5. \A t \in Kind : Holds(s, t)' => KindHeld(s, pend[s][t], db[t])'
  BY <1>1 DEF WritesOK, KindHeld
<1>6. \A v \in Variant, o \in Option :
        Holds(s, <<v, o>>)' => ConfigHeld(s, v, o, pend[s][<<v, o>>], db[<<v, o>>])'
  BY <1>1 DEF WritesOK, ConfigHeld
<1>7. \A k \in Rows : Holds(s, k)' => pend'[s][k] \in RowType(k)
  BY <1>1 DEF WritesOK
<1> QED
  BY <1>2, <1>3, <1>4, <1>5, <1>6, <1>7 DEF WritesOK

LEMMA OthersStay ==
    ASSUME NEW s \in Request, db' = db, pend'[s] = pend[s], pc'[s] = pc[s], job'[s] = job[s],
           seen'[s] = seen[s], odd' = odd, alone'[s] => alone[s], Mine(s)
    PROVE  Mine(s)'
<1>1. /\ \A k : Holds(s, k)' <=> Holds(s, k)
      /\ Running(s)' <=> Running(s)
      /\ HoldsNothing(s)' <=> HoldsNothing(s)
  BY DEF Holds, Running, HoldsNothing
<1>2. WritesOK(s)'
  BY WritesStay DEF Mine
<1>3. Found(s)'
  BY DEF Mine, Found
<1>4. \A l : Of(l)' = Of(l)
  BY DEF Of
<1>5. Deleting(s)'
  BY <1>1, <1>4 DEF Mine, Deleting
<1>6. job[s].op = "createVariant" => Creating(s)'
  BY <1>1 DEF Mine, Creating
<1>7. job[s].op = "createVariant" /\ alone'[s] => Knowing(s)'
  <2> SUFFICES ASSUME job[s].op = "createVariant", alone'[s] PROVE Knowing(s)'
    OBVIOUS
  <2>1. Knowing(s)
    BY DEF Mine
  <2>2. Distinct(s)' <=> Distinct(s)
    BY <1>4 DEF Distinct, OptionSet
  <2> QED
    BY <1>4, <2>1, <2>2 DEF Knowing
<1> QED
  BY <1>1, <1>2, <1>3, <1>5, <1>6, <1>7 DEF Mine

LEMMA OwnStep ==
    ASSUME ListingsInv, NEW r \in Request, Running(r),
           db' = db, odd' = odd, alone' = alone,
           \A s \in Request \ {r} : /\ pend'[s] = pend[s] /\ pc'[s] = pc[s] /\ job'[s] = job[s]
                                    /\ seen'[s] = seen[s],
           pend' \in [Request -> [Rows -> AnyRow \cup {None}]],
           pc' \in [Request -> Label], job' \in [Request -> Job \cup {NoJob}], DOMAIN seen' = Request,
           job'[r] = job[r] \/ ~Running(r)',
           \A k \in Rows : Holds(r, k)' => Holds(r, k) \/ ~HeldByOther(r, k),
           Mine(r)'
    PROVE  ListingsInv'
<1>1. /\ db \in [Rows -> AnyRow] /\ \A k \in Rows : db[k] \in RowType(k)
      /\ alone \in [Request -> BOOLEAN]
      /\ odd \in [raced : SUBSET Variant, untyped : SUBSET Variant, edited : SUBSET Variant]
      /\ Row = Rows /\ Row' = Rows
  BY InvTypes DEF Row
<1>2. ASSUME NEW s \in Request PROVE Mine(s)'
  <2>1. CASE s = r
    BY <2>1
  <2>2. CASE s # r
    <3>1. Mine(s)
      BY InvTypes
    <3> QED
      BY <2>2, <3>1, OthersStay
  <2> QED
    BY <2>1, <2>2
<1>3. RowLocksExclusive'
  <2> SUFFICES ASSUME NEW p \in Request, NEW q \in Request, NEW k \in Rows, Holds(p, k)', Holds(q, k)',
                      p # q
               PROVE  FALSE
    BY <1>1 DEF RowLocksExclusive
  <2>1. CASE p = r
    <3>1. Holds(q, k)
      BY <2>1 DEF Holds
    <3>2. HeldByOther(r, k)
      BY <2>1, <3>1 DEF HeldByOther
    <3>3. Holds(r, k)
      BY <2>1, <3>2
    <3> QED
      BY <2>1, <3>1, <3>3, LocksHold
  <2>2. CASE q = r
    <3>1. Holds(p, k)
      BY <2>2 DEF Holds
    <3>2. HeldByOther(r, k)
      BY <2>2, <3>1 DEF HeldByOther
    <3>3. Holds(r, k)
      BY <2>2, <3>2
    <3> QED
      BY <2>2, <3>1, <3>3, LocksHold
  <2>3. CASE p # r /\ q # r
    <3>1. Holds(p, k) /\ Holds(q, k)
      BY <2>3 DEF Holds
    <3> QED
      BY <3>1, LocksHold
  <2> QED
    BY <2>1, <2>2, <2>3
<1>4. RowsOK'
  BY DEF ListingsInv, RowsOK
<1>5. OptionSetsDistinct'
  <2>1. OptionSetsDistinct
    BY DEF ListingsInv
  <2> QED
    BY <2>1 DEF OptionSetsDistinct, OptionSet
<1>6. NothingLeftBehind'
  <2>1. NothingLeftBehind
    BY DEF ListingsInv
  <2> QED
    BY <2>1 DEF NothingLeftBehind, OptionSet
<1>7. Undisturbed'
  <2> SUFFICES ASSUME NEW p \in Request, NEW q \in Request, p # q, Running(p)', Running(q)', alone'[p]
               PROVE  ~Disturbs(job'[q], job'[p])
    BY DEF Undisturbed
  <2>1. \A s \in Request : Running(s)' => Running(s) /\ job'[s] = job[s]
    BY DEF Running
  <2>2. Undisturbed
    BY DEF ListingsInv
  <2> QED
    BY <2>1, <2>2 DEF Undisturbed
<1> QED
  BY <1>1, <1>2, <1>3, <1>4, <1>5, <1>6, <1>7 DEF ListingsInv

(* A request ends without a commit.                                        *)
LEMMA AbandonKeeps ==
    ASSUME ListingsInv, NEW r \in Request, Running(r), Abandon(r)
    PROVE  ListingsInv'
<1>1. /\ pend \in [Request -> [Rows -> AnyRow \cup {None}]] /\ Row = Rows
      /\ pc \in [Request -> Label] /\ job \in [Request -> Job \cup {NoJob}] /\ DOMAIN seen = Request
  BY InvTypes
<1>2. /\ db' = db /\ odd' = odd /\ alone' = alone
      /\ pend' = [pend EXCEPT ![r] = [k \in Rows |-> None]]
      /\ pc' = [pc EXCEPT ![r] = "failed"] /\ job' = [job EXCEPT ![r] = NoJob]
      /\ seen' = [seen EXCEPT ![r] = None]
  BY <1>1 DEF Abandon, Fail, DiscardWrites, NoWrites, End, Goto, Calm
<1>3. /\ pc' \in [Request -> Label] /\ job' \in [Request -> Job \cup {NoJob}] /\ DOMAIN seen' = Request
      /\ pend' \in [Request -> [Rows -> AnyRow \cup {None}]]
  BY <1>1, <1>2 DEF Label
<1>4. pc'[r] = "failed" /\ job'[r] = NoJob /\ pend'[r] = [k \in Rows |-> None]
  BY <1>1, <1>2
<1>5. /\ \A k \in Rows : ~Holds(r, k)'
      /\ ~Running(r)'
  BY <1>4 DEF Holds, Running
<1>6. Mine(r)'
  <2>1. job'[r].op = "none"
    BY <1>4 DEF NoJob
  <2>2. WritesOK(r)'
    BY <1>5, RowFacts DEF WritesOK
  <2>3. Found(r)' /\ Deleting(r)'
    BY <1>4, <2>1 DEF Found, Deleting, Deletions
  <2> QED
    BY <1>4, <1>5, <2>1, <2>2, <2>3 DEF Mine, HoldsNothing
<1>7. \A s \in Request \ {r} : /\ pend'[s] = pend[s] /\ pc'[s] = pc[s] /\ job'[s] = job[s]
                               /\ seen'[s] = seen[s]
  BY <1>1, <1>2
<1> QED
  BY <1>2, <1>3, <1>5, <1>6, <1>7, OwnStep

(* A read, or a statement that writes nothing.                             *)
LEMMA QuietStep ==
    ASSUME ListingsInv, NEW r \in Request, Running(r), HoldsNothing(r), NEW label \in Label,
           pc' = [pc EXCEPT ![r] = label], UNCHANGED <<db, pend, job>>, Calm,
           DOMAIN seen' = Request, \A s \in Request \ {r} : seen'[s] = seen[s],
           label \notin {"new", "done", "failed"}, job[r].op \in OpsAt(label),
           Found(r)', Deleting(r)',
           job[r].op = "createVariant" => Creating(r)' /\ (alone[r] => Knowing(r)')
    PROVE  ListingsInv'
<1>1. /\ pend \in [Request -> [Rows -> AnyRow \cup {None}]]
      /\ pc \in [Request -> Label] /\ job \in [Request -> Job \cup {NoJob}]
  BY InvTypes
<1>2. pc'[r] = label /\ pc' \in [Request -> Label] /\ \A s \in Request \ {r} : pc'[s] = pc[s]
  BY <1>1
<1>3. HoldsNothing(r)' /\ \A k \in Rows : ~Holds(r, k)'
  BY DEF HoldsNothing, Holds
<1>4. Mine(r)'
  <2>1. WritesOK(r)'
    BY <1>3, RowFacts DEF WritesOK
  <2>2. Running(r)'
    BY <1>2 DEF Running
  <2> QED
    BY <1>2, <1>3, <2>1, <2>2 DEF Mine, Calm
<1> QED
  BY <1>1, <1>2, <1>3, <1>4, OwnStep DEF Calm

(* Of most endpoints only where they are is to be said.                    *)
Simple == {"createListing", "newOption", "newKind", "updateListing", "updateVariant", "addConfig",
           "touchConfig", "dropConfig", "editOption", "editKind", "drop", "close"}

(* A write by an endpoint that writes one row.                             *)
LEMMA OneWritten ==
    ASSUME ListingsInv, NEW r \in Request, Running(r), HoldsNothing(r), job[r].op \in Simple,
           NEW k \in Rows, NEW x \in RowType(k), Write(r, k, x, "commit"), Calm,
           k \in Listing => ListingHeld(r, k, x, db[k]),
           k \in Variant => VariantHeld(r, k, x, db[k]),
           k \in Option => OptionHeld(r, x, db[k]),
           k \in Kind => KindHeld(r, x, db[k]),
           k \in Config => ConfigHeld(r, k[1], k[2], x, db[k])
    PROVE  ListingsInv'
<1>1. /\ pend \in [Request -> [Rows -> AnyRow \cup {None}]]
      /\ pc \in [Request -> Label] /\ job \in [Request -> Job \cup {NoJob}] /\ DOMAIN seen = Request
  BY InvTypes
<1>2. /\ db' = db /\ odd' = odd /\ alone' = alone /\ job' = job /\ seen' = seen
      /\ pend' = [pend EXCEPT ![r][k] = x] /\ pc' = [pc EXCEPT ![r] = "commit"] /\ ~HeldByOther(r, k)
  BY DEF Write, WriteRow, Goto, Calm
<1>3. x \in AnyRow
  BY RowFacts
<1>4. pend' \in [Request -> [Rows -> AnyRow \cup {None}]] /\ pc' \in [Request -> Label]
  BY <1>1, <1>2, <1>3 DEF Label
<1>5. pc'[r] = "commit" /\ pend'[r][k] = x /\ \A i \in Rows \ {k} : pend'[r][i] = pend[r][i]
  BY <1>1, <1>2
<1>6. \A i \in Rows : Holds(r, i)' => i = k
  BY <1>5 DEF HoldsNothing, Holds
<1>7. job[r].op \in OpsAt("commit") /\ job[r].op \notin Deletions /\ job[r].op # "createVariant"
  BY DEF Simple, OpsAt, Deletions
<1>8. WritesOK(r)'
  <2>1. ASSUME NEW l \in Listing, Holds(r, l)' PROVE ListingHeld(r, l, pend[r][l], db[l])'
    <3>1. l = k
      BY <1>6, <2>1, RowFacts
    <3> QED
      BY <1>2, <1>5, <1>7, <3>1 DEF ListingHeld, Deletions
  <2>2. ASSUME NEW v \in Variant, Holds(r, v)' PROVE VariantHeld(r, v, pend[r][v], db[v])'
    <3>1. v = k
      BY <1>6, <2>2, RowFacts
    <3> QED
      BY <1>2, <1>5, <1>7, <3>1 DEF VariantHeld, Deletions
  <2>3. ASSUME NEW o \in Option, Holds(r, o)' PROVE OptionHeld(r, pend[r][o], db[o])'
    <3>1. o = k
      BY <1>6, <2>3, RowFacts
    <3> QED
      BY <1>2, <1>5, <3>1 DEF OptionHeld
  <2>4. ASSUME NEW t \in Kind, Holds(r, t)' PROVE KindHeld(r, pend[r][t], db[t])'
    <3>1. t = k
      BY <1>6, <2>4, RowFacts
    <3> QED
      BY <1>2, <1>5, <3>1 DEF KindHeld
  <2>5. ASSUME NEW v \in Variant, NEW o \in Option, Holds(r, <<v, o>>)'
        PROVE  ConfigHeld(r, v, o, pend[r][<<v, o>>], db[<<v, o>>])'
    <3>1. <<v, o>> = k /\ k \in Config /\ k[1] = v /\ k[2] = o
      BY <1>6, <2>5, RowFacts
    <3> QED
      BY <1>2, <1>5, <1>7, <3>1 DEF ConfigHeld, Deletions
  <2>6. \A i \in Rows : Holds(r, i)' => pend'[r][i] \in RowType(i)
    BY <1>5, <1>6
  <2> QED
    BY <2>1, <2>2, <2>3, <2>4, <2>5, <2>6 DEF WritesOK
<1>9. Mine(r)'
  <2>1. Running(r)' /\ Found(r)'
    BY <1>5 DEF Running, Found
  <2>2. job'[r].op \notin Deletions /\ job'[r].op # "deleteListing" /\ job'[r].op # "deleteVariant"
    BY <1>2, <1>7 DEF Deletions
  <2>3. Deleting(r)'
    BY <2>2 DEF Deleting
  <2> QED
    BY <1>2, <1>5, <1>7, <1>8, <2>1, <2>3 DEF Mine
<1>10. \A s \in Request \ {r} : pend'[s] = pend[s] /\ pc'[s] = pc[s]
  BY <1>1, <1>2
<1>11. \A i \in Rows : Holds(r, i)' => Holds(r, i) \/ ~HeldByOther(r, i)
  BY <1>2, <1>6
<1> QED
  BY <1>1, <1>2, <1>4, <1>9, <1>10, <1>11, OwnStep

(* Until its first write a request holds nothing, and sees what is         *)
(* committed.                                                              *)
LEMMA Empty ==
    ASSUME ListingsInv, NEW r \in Request, pc[r] \notin {"unconfigure", "unlist", "configure", "commit"}
    PROVE  HoldsNothing(r) /\ \A k \in Rows : View(r, k) = db[k]
<1>1. HoldsNothing(r)
  BY InvTypes DEF Mine
<1> QED
  BY <1>1, HeldTypes DEF HoldsNothing

(* Reads of endpoints of which only where they are is to be said.          *)
LEMMA SimpleRead ==
    ASSUME ListingsInv, NEW r \in Request, Running(r), job[r].op \in Simple,
           pc[r] \notin {"unconfigure", "unlist", "configure", "commit"},
           NEW label \in Label \ {"new", "done", "failed"}, job[r].op \in OpsAt(label),
           pc' = [pc EXCEPT ![r] = label], UNCHANGED <<db, pend, job>>, Calm,
           DOMAIN seen' = Request, \A s \in Request \ {r} : seen'[s] = seen[s],
           label = "update" => db[job[r].listing].state # "none",
           label = "edit" => db[job[r].row].state # "none",
           label = "touch" => db[job[r].config].state # "none"
    PROVE  ListingsInv'
<1>1. pc \in [Request -> Label]
  BY InvTypes
<1>2. pc'[r] = label /\ job'[r] = job[r] /\ db' = db
  BY <1>1
<1>3. /\ job[r].op # "deleteListing" /\ job[r].op # "deleteVariant" /\ job[r].op \notin Deletions
      /\ job[r].op # "createVariant"
  BY DEF Simple, Deletions
<1>4. Found(r)'
  BY <1>2 DEF Found
<1>5. Deleting(r)'
  BY <1>2, <1>3 DEF Deleting
<1> QED
  BY <1>3, <1>4, <1>5, Empty, QuietStep

LEMMA StoreKeeps ==
    ASSUME ListingsInv, NEW r \in Request, Running(r), job[r].op \in Simple,
           pc[r] \notin {"unconfigure", "unlist", "configure", "commit"},
           NEW k \in Listing \cup Option \cup Kind, NEW x \in RowType(k), Store(r, k, x),
           k \in Listing => ListingHeld(r, k, x, db[k]),
           k \in Option => \/ job[r].op = "newOption" /\ db[k].state = "none" /\ Live(x)
                           \/ job[r].op = "editOption" /\ x.state = db[k].state,
           k \in Kind => KindHeld(r, x, db[k])
    PROVE  ListingsInv'
<1>1. CASE Abandon(r)
  BY <1>1, AbandonKeeps
<1>2. CASE Refers(r, k, x) /\ Write(r, k, x, "commit") /\ Calm
  <2>1. k \in Rows /\ k \notin Variant /\ k \notin Config
    BY TablesDiffer, RowsAre
  <2>2. ASSUME k \in Option PROVE OptionHeld(r, x, db[k])
    <3>1. x.kind \in Kind
      <4>1. RowType(k) = OptionRow
        BY <2>2, RowFacts
      <4> QED
        BY <4>1 DEF OptionRow
    <3>2. View(r, x.kind) = db[x.kind]
      BY <3>1, Empty, RowFacts
    <3>3. db[x.kind].state # "none"
      BY <1>2, <2>2, <3>2 DEF Refers, Exists
    <3> QED
      BY <2>2, <3>3 DEF OptionHeld
  <2> QED
    BY <1>2, <2>1, <2>2, Empty, OneWritten
<1> QED
  BY <1>1, <1>2 DEF Store

LEMMA InsertRowKeeps ==
    ASSUME ListingsInv, NEW r \in Request, InsertRow(r)
    PROVE  ListingsInv'
<1>1. Running(r) /\ job[r].op \in {"createListing", "newOption", "newKind"} /\ pc[r] = "insert"
  <2>1. pc[r] = "insert" /\ Running(r)
    BY DEF InsertRow, Running
  <2> QED
    BY <2>1, RunningOps DEF OpsAt
<1>2. job[r] \in Job /\ job[r].op \in Simple
  BY <1>1, RunningOps DEF Simple
<1> DEFINE x == NewRow(job[r])
<1>3. CASE job[r].op = "createListing"
  <2>1. PICK k \in Listing : Fresh(k) /\ Store(r, k, x)
    BY <1>3 DEF InsertRow
  <2>2. job[r] \in CreateListing
    BY <1>2, <1>3, JobKinds
  <2>3. x = [state |-> "live", status |-> "DRAFT", book |-> job[r].book, shop |-> job[r].shop]
    BY <1>3 DEF NewRow
  <2>4. x \in RowType(k) /\ k \notin Option /\ k \notin Kind /\ Live(x)
    <3>1. k \notin Option /\ k \notin Kind /\ RowType(k) = ListingRow
      BY RowFacts
    <3>2. job[r].book \in Book /\ job[r].shop \in Shop
      BY <2>2 DEF CreateListing
    <3>3. x \in ListingRow /\ Live(x)
      BY <2>3, <3>2 DEF ListingRow, State, Status, Live
    <3> QED
      BY <3>1, <3>3
  <2>5. ListingHeld(r, k, x, db[k])
    BY <1>3, <2>1, <2>4 DEF ListingHeld, Fresh
  <2> HIDE DEF x
  <2> QED
    BY <1>1, <1>2, <2>1, <2>4, <2>5, StoreKeeps
<1>4. CASE job[r].op = "newOption"
  <2>1. PICK k \in Option : Fresh(k) /\ Store(r, k, x)
    BY <1>4 DEF InsertRow
  <2>2. job[r] \in OptionJob
    BY <1>2, <1>4, JobKinds
  <2>3. x = [state |-> "live", kind |-> job[r].kind, value |-> job[r].value]
    BY <1>4 DEF NewRow
  <2>4. x \in RowType(k) /\ k \notin Listing /\ k \notin Kind /\ Live(x)
    <3>1. k \notin Listing /\ k \notin Kind /\ RowType(k) = OptionRow
      BY RowFacts
    <3>2. job[r].kind \in Kind /\ job[r].value \in Name
      BY <1>4, <2>2 DEF OptionJob
    <3>3. x \in OptionRow /\ Live(x)
      BY <2>3, <3>2 DEF OptionRow, State, Live
    <3> QED
      BY <3>1, <3>3
  <2>5. db[k].state = "none"
    BY <2>1 DEF Fresh
  <2> HIDE DEF x
  <2> QED
    BY <1>1, <1>2, <1>4, <2>1, <2>4, <2>5, StoreKeeps
<1>5. CASE job[r].op = "newKind"
  <2>1. PICK k \in Kind : Fresh(k) /\ Store(r, k, x)
    BY <1>5 DEF InsertRow
  <2>2. job[r] \in KindJob
    BY <1>2, <1>5, JobKinds
  <2>3. x = [state |-> "live", name |-> job[r].value]
    BY <1>5 DEF NewRow
  <2>4. x \in RowType(k) /\ k \notin Listing /\ k \notin Option /\ Live(x)
    <3>1. k \notin Listing /\ k \notin Option /\ RowType(k) = KindRow
      BY RowFacts
    <3>2. job[r].value \in Name
      BY <1>5, <2>2 DEF KindJob
    <3>3. x \in KindRow /\ Live(x)
      BY <2>3, <3>2 DEF KindRow, State, Live
    <3> QED
      BY <3>1, <3>3
  <2>5. KindHeld(r, x, db[k])
    BY <1>5, <2>1, <2>4 DEF KindHeld, Fresh
  <2> HIDE DEF x
  <2> QED
    BY <1>1, <1>2, <2>1, <2>4, <2>5, StoreKeeps
<1> QED
  BY <1>1, <1>3, <1>4, <1>5

LEMMA RowJobs ==
    ASSUME ListingsInv, NEW r \in Request, pc[r] \in {"row", "edit"}
    PROVE  /\ Running(r) /\ job[r].op \in {"editOption", "editKind"} /\ job[r].op \in Simple
           /\ job[r].row \in Option \cup Kind /\ job[r].row \in Rows
           /\ job[r].op = "editOption" <=> job[r].row \in Option
           /\ job[r].value \in Name /\ (job[r].row \in Option => job[r].kind \in Kind \cup {Same})
<1>1. Running(r)
  BY DEF Running
<1>2. job[r] \in Job /\ job[r].op \in {"editOption", "editKind"}
  BY <1>1, RunningOps DEF OpsAt
<1>3. CASE job[r].op = "editOption"
  <2>1. job[r] \in OptionJob
    BY <1>2, <1>3, JobKinds
  <2>2. job[r].row \in Option /\ job[r].value \in Name /\ job[r].kind \in Kind \cup {Same}
    BY <1>3, <2>1 DEF OptionJob
  <2> QED
    BY <1>1, <1>2, <1>3, <2>2, RowFacts DEF Simple
<1>4. CASE job[r].op = "editKind"
  <2>1. job[r] \in KindJob
    BY <1>2, <1>4, JobKinds
  <2>2. job[r].row \in Kind /\ job[r].value \in Name
    BY <1>4, <2>1 DEF KindJob
  <2> QED
    BY <1>1, <1>2, <1>4, <2>2, RowFacts DEF Simple
<1> QED
  BY <1>2, <1>3, <1>4

LEMMA ReadRowKeeps ==
    ASSUME ListingsInv, NEW r \in Request, ReadRow(r)
    PROVE  ListingsInv'
<1>1. pc[r] = "row" /\ Running(r) /\ job[r].op \in {"editOption", "editKind"} /\ job[r].op \in Simple
      /\ job[r].row \in Rows
  BY RowJobs DEF ReadRow
<1>2. View(r, job[r].row) = db[job[r].row]
  BY <1>1, Empty
<1>3. CASE Abandon(r)
  BY <1>1, <1>3, AbandonKeeps
<1>4. CASE Live(View(r, job[r].row)) /\ Read(r, View(r, job[r].row), "edit") /\ Calm
  <2>1. db[job[r].row].state # "none"
    BY <1>2, <1>4 DEF Live
  <2>2. /\ pc' = [pc EXCEPT ![r] = "edit"] /\ UNCHANGED <<db, pend, job>> /\ Calm
        /\ DOMAIN seen' = Request /\ \A s \in Request \ {r} : seen'[s] = seen[s]
    BY <1>4, InvTypes DEF Read, Keep, Goto
  <2>3. "edit" \in Label \ {"new", "done", "failed"} /\ job[r].op \in OpsAt("edit")
    BY <1>1 DEF Label, OpsAt
  <2> QED
    BY <1>1, <2>1, <2>2, <2>3, SimpleRead
<1> QED
  BY <1>3, <1>4 DEF ReadRow

LEMMA EditRowKeeps ==
    ASSUME ListingsInv, NEW r \in Request, EditRow(r)
    PROVE  ListingsInv'
<1>1. /\ pc[r] = "edit" /\ Running(r) /\ job[r].op \in {"editOption", "editKind"}
      /\ job[r].op \in Simple /\ job[r].row \in Option \cup Kind /\ job[r].row \in Rows
      /\ job[r].op = "editOption" <=> job[r].row \in Option
      /\ job[r].value \in Name /\ (job[r].row \in Option => job[r].kind \in Kind \cup {Same})
  BY RowJobs DEF EditRow
<1>2. PICK k : k = job[r].row
  OBVIOUS
<1>3. View(r, k) = db[k] /\ k \in Option \cup Kind /\ k \in Rows
  BY <1>1, <1>2, Empty
<1>4. CASE Continue(r, "commit") /\ Calm
  <2>1. /\ pc' = [pc EXCEPT ![r] = "commit"] /\ UNCHANGED <<db, pend, job>> /\ Calm
        /\ DOMAIN seen' = Request /\ \A s \in Request \ {r} : seen'[s] = seen[s]
    BY <1>4, InvTypes DEF Continue, Goto
  <2>2. "commit" \in Label \ {"new", "done", "failed"} /\ job[r].op \in OpsAt("commit")
    BY <1>1 DEF Label, OpsAt
  <2> QED
    BY <1>1, <2>1, <2>2, SimpleRead
<1>5. CASE ~(Continue(r, "commit") /\ Calm) /\ k \in Option
  <2>1. k \notin Kind /\ k \notin Listing /\ RowType(k) = OptionRow /\ db[k] \in OptionRow
    BY <1>5, RowFacts, DbTypes
  <2>2. PICK named : named = IF job[r].value # seen[r].value
                             THEN [db[k] EXCEPT !.value = job[r].value] ELSE db[k]
    OBVIOUS
  <2>3. PICK x : x = IF job[r].kind \notin {Same, seen[r].kind}
                     THEN [named EXCEPT !.kind = job[r].kind] ELSE named
    OBVIOUS
  <2>4. Store(r, k, x)
    BY <1>2, <1>3, <1>5, <2>1, <2>2, <2>3 DEF EditRow
  <2>5. named \in OptionRow /\ named.state = db[k].state
    BY <1>1, <1>2, <2>1, <2>2 DEF OptionRow
  <2>6. x \in OptionRow /\ x.state = db[k].state
    BY <1>1, <1>2, <1>5, <2>3, <2>5 DEF OptionRow
  <2> QED
    BY <1>1, <1>2, <1>3, <1>5, <2>1, <2>4, <2>6, StoreKeeps
<1>6. CASE ~(Continue(r, "commit") /\ Calm) /\ k \in Kind
  <2>1. k \notin Option /\ k \notin Listing /\ RowType(k) = KindRow /\ db[k] \in KindRow
    BY <1>6, RowFacts, DbTypes
  <2>2. PICK x : x = IF job[r].value # seen[r].name
                     THEN [db[k] EXCEPT !.name = job[r].value] ELSE db[k]
    OBVIOUS
  <2>3. Store(r, k, x)
    BY <1>2, <1>3, <1>6, <2>1, <2>2 DEF EditRow
  <2>4. x \in KindRow /\ x.state = db[k].state
    BY <1>1, <1>2, <2>1, <2>2 DEF KindRow
  <2>5. job[r].op = "editKind"
    BY <1>1, <1>2, <2>1
  <2>6. KindHeld(r, x, db[k])
    BY <2>4, <2>5 DEF KindHeld
  <2> QED
    BY <1>1, <1>3, <1>6, <2>1, <2>3, <2>4, <2>6, StoreKeeps
<1> QED
  BY <1>3, <1>4, <1>5, <1>6

LEMMA DropRowKeeps ==
    ASSUME ListingsInv, NEW r \in Request, DropRow(r)
    PROVE  ListingsInv'
<1>1. pc[r] = "drop" /\ Running(r)
  BY DEF DropRow, Running
<1>2. job[r] \in Job /\ job[r].op = "drop" /\ job[r].op \in Simple
  BY <1>1, RunningOps DEF OpsAt, Simple
<1>3. PICK k : k = job[r].row
  OBVIOUS
<1>4. k \in Option \cup Kind \cup Book \cup Shop
  BY <1>2, <1>3, JobFields
<1>5. k \in Rows /\ k \notin Listing /\ k \notin Variant /\ k \notin Config
  BY <1>4, RowFacts
<1>6. View(r, k) = db[k]
  BY <1>1, <1>5, Empty
<1>7. CASE Abandon(r)
  BY <1>1, <1>7, AbandonKeeps
<1>8. CASE Live(View(r, k)) /\ Write(r, k, [View(r, k) EXCEPT !.state = "deleted"], "commit") /\ Calm
  <2>1. PICK x : x = [db[k] EXCEPT !.state = "deleted"]
    OBVIOUS
  <2>2. x \in RowType(k)
    <3>1. db[k] \in RowType(k)
      BY <1>5, InvTypes
    <3>2. RowType(k) \in {OptionRow, KindRow, BookRow, ShopRow}
      BY <1>4, RowFacts
    <3>3. CASE RowType(k) = OptionRow
      BY <2>1, <3>1, <3>3 DEF OptionRow, State
    <3>4. CASE RowType(k) = KindRow
      BY <2>1, <3>1, <3>4 DEF KindRow, State
    <3>5. CASE RowType(k) = BookRow
      BY <2>1, <3>1, <3>5 DEF BookRow, State
    <3>6. CASE RowType(k) = ShopRow
      BY <2>1, <3>1, <3>6 DEF ShopRow, State
    <3> QED
      BY <3>2, <3>3, <3>4, <3>5, <3>6
  <2>3. ASSUME k \in Option PROVE OptionHeld(r, x, db[k])
    <3>1. db[k] \in OptionRow /\ db[k].state # "none"
      BY <1>6, <1>8, <2>3, DbTypes DEF Live
    <3>2. x.kind = db[k].kind /\ x.state = "deleted"
      BY <2>1, <3>1 DEF OptionRow
    <3>3. RowsOK
      BY DEF ListingsInv
    <3>4. db[db[k].kind].state # "none"
      BY <2>3, <3>1, <3>3 DEF RowsOK
    <3> QED
      BY <1>2, <3>2, <3>4 DEF OptionHeld
  <2>4. ASSUME k \in Kind PROVE KindHeld(r, x, db[k])
    <3>1. db[k] \in KindRow
      BY <2>4, DbTypes
    <3>2. x.state = "deleted"
      BY <2>1, <3>1 DEF KindRow
    <3> QED
      BY <1>2, <3>2 DEF KindHeld
  <2>5. Write(r, k, x, "commit") /\ Calm
    BY <1>6, <1>8, <2>1
  <2> QED
    BY <1>1, <1>2, <1>5, <2>2, <2>3, <2>4, <2>5, Empty, OneWritten
<1> QED
  BY <1>3, <1>7, <1>8 DEF DropRow

LEMMA CloseShopKeeps ==
    ASSUME ListingsInv, NEW r \in Request, CloseShop(r)
    PROVE  ListingsInv'
<1>1. pc[r] = "close" /\ Running(r)
  BY DEF CloseShop, Running
<1>2. job[r] \in Job /\ job[r].op = "close" /\ job[r].op \in Simple
  BY <1>1, RunningOps DEF OpsAt, Simple
<1>3. PICK k : k = job[r].row
  OBVIOUS
<1>4. k \in Shop
  BY <1>2, <1>3, JobFields
<1>5. /\ k \in Rows /\ k \notin Listing /\ k \notin Variant /\ k \notin Config /\ k \notin Option
      /\ k \notin Kind /\ RowType(k) = ShopRow
  BY <1>4, RowFacts
<1>6. View(r, k) = db[k] /\ db[k] \in ShopRow
  BY <1>1, <1>4, <1>5, Empty, DbTypes
<1>7. PICK x : x = [db[k] EXCEPT !.open = FALSE]
  OBVIOUS
<1>8. x \in RowType(k)
  BY <1>5, <1>6, <1>7 DEF ShopRow
<1>9. Write(r, k, x, "commit") /\ Calm
  BY <1>3, <1>6, <1>7 DEF CloseShop
<1> QED
  BY <1>1, <1>2, <1>5, <1>8, <1>9, Empty, OneWritten

-----------------------------------------------------------------------------
(* Listings.                                                               *)

LEMMA ListingJobs ==
    ASSUME ListingsInv, NEW r \in Request,
           pc[r] \in {"listing", "reload", "update", "variants", "removeAll", "unlist", "options",
                      "siblings", "configs", "values", "kinds", "store", "configure", "variant", "reread",
                      "stock", "remove"}
    PROVE  /\ Running(r) /\ job[r] \in Job /\ job[r].op \in OpsAt(pc[r])
           /\ job[r].listing \in Listing /\ job[r].listing \in Rows
           /\ job[r].op \in {"updateVariant", "deleteVariant"} =>
                job[r].variant \in Variant /\ job[r].variant \in Rows
<1>1. Running(r)
  BY DEF Running
<1>2. job[r] \in Job /\ job[r].op \in OpsAt(pc[r])
  BY <1>1, RunningOps
<1>3. job[r].op \in {"updateListing", "deleteListing", "createVariant", "updateVariant", "deleteVariant"}
  BY <1>2 DEF OpsAt
<1> QED
  BY <1>1, <1>2, <1>3, JobFields, RowFacts

LEMMA ReadListingKeeps ==
    ASSUME ListingsInv, NEW r \in Request, ReadListing(r)
    PROVE  ListingsInv'
<1>1. /\ pc[r] = "listing" /\ Running(r) /\ job[r] \in Job /\ job[r].listing \in Listing
      /\ job[r].listing \in Rows
      /\ job[r].op \in {"updateListing", "deleteListing", "createVariant", "updateVariant",
                        "deleteVariant"}
  BY ListingJobs DEF ReadListing, OpsAt
<1>2. View(r, job[r].listing) = db[job[r].listing] /\ HoldsNothing(r)
  BY <1>1, Empty
<1>3. CASE Abandon(r)
  BY <1>1, <1>3, AbandonKeeps
<1>4. CASE ~Abandon(r)
  <2>1. PICK next : next = CASE job[r].op = "updateListing" -> "reload"
                             [] job[r].op = "deleteListing" -> "variants"
                             [] job[r].op = "createVariant" -> "options"
                             [] OTHER -> "variant"
    OBVIOUS
  <2>2. Live(db[job[r].listing]) /\ Read(r, View(r, job[r].listing), next) /\ Calm
    BY <1>2, <1>4, <2>1 DEF ReadListing, OwnListing
  <2>3. /\ pc' = [pc EXCEPT ![r] = next] /\ UNCHANGED <<db, pend, job>> /\ Calm
        /\ DOMAIN seen' = Request /\ \A s \in Request \ {r} : seen'[s] = seen[s]
    BY <2>2, InvTypes DEF Read, Keep, Goto
  <2>4. next \in Label /\ next \notin {"new", "done", "failed"} /\ job[r].op \in OpsAt(next)
        /\ next \in {"reload", "variants", "options", "variant"}
    BY <1>1, <2>1 DEF Label, OpsAt
  <2>5. pc'[r] = next /\ job' = job /\ db' = db
    BY <2>3, InvTypes
  <2>6. Found(r)' /\ Deleting(r)'
    BY <2>4, <2>5 DEF Found, Deleting
  <2>7. ASSUME job[r].op = "createVariant" PROVE Creating(r)' /\ Knowing(r)'
    <3>1. next = "options"
      BY <2>1, <2>7
    <3> QED
      BY <2>2, <2>5, <3>1 DEF Creating, Knowing
  <2> QED
    BY <1>1, <1>2, <2>3, <2>4, <2>6, <2>7, QuietStep
<1> QED
  BY <1>3, <1>4

LEMMA ReloadListingKeeps ==
    ASSUME ListingsInv, NEW r \in Request, ReloadListing(r)
    PROVE  ListingsInv'
<1>1. /\ pc[r] = "reload" /\ Running(r) /\ job[r].op = "updateListing" /\ job[r].op \in Simple
      /\ job[r].listing \in Listing /\ job[r].listing \in Rows
  BY ListingJobs DEF ReloadListing, OpsAt, Simple
<1>2. View(r, job[r].listing) = db[job[r].listing]
  BY <1>1, Empty
<1>3. CASE Abandon(r)
  BY <1>1, <1>3, AbandonKeeps
<1>4. CASE Live(View(r, job[r].listing)) /\ Continue(r, "update") /\ Calm
  <2>1. db[job[r].listing].state # "none"
    BY <1>2, <1>4 DEF Live
  <2>2. /\ pc' = [pc EXCEPT ![r] = "update"] /\ UNCHANGED <<db, pend, job>> /\ Calm
        /\ DOMAIN seen' = Request /\ \A s \in Request \ {r} : seen'[s] = seen[s]
    BY <1>4, InvTypes DEF Continue, Goto
  <2>3. "update" \in Label \ {"new", "done", "failed"} /\ job[r].op \in OpsAt("update")
    BY <1>1 DEF Label, OpsAt
  <2> QED
    BY <1>1, <2>1, <2>2, <2>3, SimpleRead
<1> QED
  BY <1>3, <1>4 DEF ReloadListing

LEMMA WriteListingKeeps ==
    ASSUME ListingsInv, NEW r \in Request, WriteListing(r)
    PROVE  ListingsInv'
<1>1. /\ pc[r] = "update" /\ Running(r) /\ job[r].op = "updateListing" /\ job[r].op \in Simple
      /\ job[r] \in Job /\ job[r].listing \in Listing /\ job[r].listing \in Rows
  BY ListingJobs DEF WriteListing, OpsAt, Simple
<1>2. job[r].book \in Book \cup {Same} /\ job[r].status \in Status \cup {Same}
  <2>1. job[r] \in UpdateListing
    BY <1>1, JobKinds
  <2> QED
    BY <2>1 DEF UpdateListing
<1>3. PICK l : l = job[r].listing
  OBVIOUS
<1>4. View(r, l) = db[l] /\ l \in Listing /\ l \in Rows /\ l \notin Option /\ l \notin Kind
      /\ RowType(l) = ListingRow /\ db[l] \in ListingRow
  BY <1>1, <1>3, Empty, RowFacts, DbTypes
<1>5. CASE Continue(r, "commit") /\ Calm
  <2>1. /\ pc' = [pc EXCEPT ![r] = "commit"] /\ UNCHANGED <<db, pend, job>> /\ Calm
        /\ DOMAIN seen' = Request /\ \A s \in Request \ {r} : seen'[s] = seen[s]
    BY <1>5, InvTypes DEF Continue, Goto
  <2>2. "commit" \in Label \ {"new", "done", "failed"} /\ job[r].op \in OpsAt("commit")
    BY <1>1 DEF Label, OpsAt
  <2> QED
    BY <1>1, <2>1, <2>2, SimpleRead
<1>6. CASE ~(Continue(r, "commit") /\ Calm)
  <2>1. PICK st : st = IF job[r].status \notin {Same, seen[r].status} THEN job[r].status ELSE db[l].status
    OBVIOUS
  <2>2. PICK b : b = IF job[r].book \notin {Same, seen[r].book} THEN job[r].book ELSE db[l].book
    OBVIOUS
  <2>3. PICK x : x = [db[l] EXCEPT !.status = st, !.book = b]
    OBVIOUS
  <2>4. Store(r, l, x)
    BY <1>3, <1>4, <1>6, <2>1, <2>2, <2>3 DEF WriteListing
  <2>5. st \in Status /\ b \in Book
    BY <1>2, <1>4, <2>1, <2>2 DEF ListingRow
  <2>6. x \in ListingRow /\ x.state = db[l].state
    BY <1>4, <2>3, <2>5 DEF ListingRow
  <2>7. ListingHeld(r, l, x, db[l])
    BY <1>1, <2>6 DEF ListingHeld
  <2> QED
    BY <1>1, <1>4, <2>4, <2>6, <2>7, StoreKeeps
<1> QED
  BY <1>5, <1>6

LEMMA SeesVariants ==
    ASSUME ListingsInv, NEW r \in Request, pc[r] \notin {"unconfigure", "unlist", "configure", "commit"},
           NEW l
    PROVE  VariantsOf(ViewAll(r), l) = Of(l)
<1>1. \A v \in Variant : ViewAll(r)[v] = db[v]
  BY Empty, RowFacts DEF ViewAll
<1> QED
  BY <1>1 DEF VariantsOf, Of

LEMMA ListVariantsKeeps ==
    ASSUME ListingsInv, NEW r \in Request, ListVariants(r)
    PROVE  ListingsInv'
<1>1. /\ pc[r] = "variants" /\ Running(r) /\ job[r].op = "deleteListing"
  BY ListingJobs DEF ListVariants, OpsAt
<1>2. PICK ids : ids = Of(job[r].listing)
  OBVIOUS
<1>3. PICK label : label = IF ids = {} THEN "unlist" ELSE "removeAll"
  OBVIOUS
<1>4. Read(r, ids, label) /\ Calm
  BY <1>1, <1>2, <1>3, SeesVariants DEF ListVariants
<1>5. /\ pc' = [pc EXCEPT ![r] = label] /\ UNCHANGED <<db, pend, job>> /\ Calm
      /\ seen' = [seen EXCEPT ![r] = ids]
  BY <1>4 DEF Read, Keep, Goto
<1>6. /\ DOMAIN seen' = Request /\ \A s \in Request \ {r} : seen'[s] = seen[s]
      /\ seen'[r] = ids /\ pc'[r] = label /\ job' = job /\ db' = db /\ odd' = odd
  BY <1>5, InvTypes DEF Calm
<1>7. label \in Label /\ label \in {"unlist", "removeAll"} /\ job[r].op \in OpsAt(label)
  BY <1>1, <1>3 DEF Label, OpsAt
<1>8. Found(r)'
  BY <1>6, <1>7 DEF Found
<1>9. Deleting(r)'
  <2>1. Of(job[r].listing)' = ids
    BY <1>2, <1>6 DEF Of
  <2>2. ids \subseteq Variant /\ \A v \in ids : db[v].state # "none"
    BY <1>2 DEF Of, Live
  <2>3. label = "unlist" => ids = {}
    BY <1>3
  <2> QED
    BY <1>1, <1>6, <1>7, <2>1, <2>2, <2>3 DEF Deleting
<1> QED
  BY <1>1, <1>5, <1>6, <1>7, <1>8, <1>9, Empty, QuietStep

(* One UPDATE that deletes rows.                                           *)
LEMMA DeleteAllFacts ==
    ASSUME ListingsInv, NEW r \in Request, NEW K \in SUBSET Rows, NEW label \in Label,
           DeleteAll(r, K, label), \A k \in K : ~Holds(r, k)
    PROVE  /\ db' = db /\ odd' = odd /\ alone' = alone /\ job' = job /\ seen' = seen
           /\ pc'[r] = label /\ pc' \in [Request -> Label]
           /\ \A k \in K : /\ pend'[r][k] = [db[k] EXCEPT !.state = "deleted"]
                           /\ pend'[r][k] \in RowType(k) /\ ~HeldByOther(r, k)
           /\ \A k \in Rows \ K : pend'[r][k] = pend[r][k]
           /\ \A s \in Request \ {r} : pend'[s] = pend[s] /\ pc'[s] = pc[s]
           /\ pend' \in [Request -> [Rows -> AnyRow \cup {None}]]
<1>1. /\ pend \in [Request -> [Rows -> AnyRow \cup {None}]] /\ pc \in [Request -> Label]
      /\ \A k \in Rows : db[k] \in RowType(k)
  BY InvTypes
<1>2. PICK p : p = [k \in Rows |-> IF k \in K THEN Deleted(ViewAll(r), K)[k] ELSE pend[r][k]]
  OBVIOUS
<1>3. /\ pend' = [pend EXCEPT ![r] = p] /\ pc' = [pc EXCEPT ![r] = label]
      /\ UNCHANGED <<db, job, seen, odd, alone>> /\ \A k \in K : ~HeldByOther(r, k)
  BY <1>2 DEF DeleteAll, Goto, Calm
<1>4. ASSUME NEW k \in K
      PROVE  p[k] = [db[k] EXCEPT !.state = "deleted"] /\ p[k] \in RowType(k)
  <2>1. p[k] = [View(r, k) EXCEPT !.state = "deleted"]
    BY <1>2 DEF Deleted, ViewAll
  <2>2. View(r, k) = db[k]
    BY HeldTypes
  <2>3. PICK x : x = [db[k] EXCEPT !.state = "deleted"]
    OBVIOUS
  <2>4. db[k] \in RowType(k)
    BY <1>1
  <2>5. x \in RowType(k)
    BY <2>3, <2>4 DEF RowType, ListingRow, VariantRow, OptionRow, KindRow, BookRow, ShopRow, ConfigRow,
                      State
  <2> QED
    BY <2>1, <2>2, <2>3, <2>5
<1>5. \A k \in Rows \ K : p[k] = pend[r][k]
  BY <1>2
<1>6. p \in [Rows -> AnyRow \cup {None}]
  <2>1. ASSUME NEW k \in Rows PROVE p[k] \in AnyRow \cup {None}
    <3>1. CASE k \in K
      <4>1. p[k] \in RowType(k) /\ RowType(k) \subseteq AnyRow
        BY <1>4, <3>1, RowFacts
      <4> QED
        BY <4>1
    <3>2. CASE k \notin K
      <4>1. p[k] = pend[r][k] /\ pend[r][k] \in AnyRow \cup {None}
        BY <1>1, <1>5, <3>2
      <4> QED
        BY <4>1
    <3> QED
      BY <3>1, <3>2
  <2> QED
    BY <1>2, <2>1
<1>7. pend'[r] = p
  BY <1>1, <1>3
<1>8. \A k \in K : /\ pend'[r][k] = [db[k] EXCEPT !.state = "deleted"]
                   /\ pend'[r][k] \in RowType(k) /\ ~HeldByOther(r, k)
  BY <1>3, <1>4, <1>7
<1>9. /\ \A s \in Request \ {r} : pend'[s] = pend[s] /\ pc'[s] = pc[s]
      /\ pend' \in [Request -> [Rows -> AnyRow \cup {None}]] /\ pc'[r] = label
      /\ pc' \in [Request -> Label]
  BY <1>1, <1>3, <1>6
<1> QED
  BY <1>3, <1>5, <1>7, <1>8, <1>9

LEMMA RemoveVariantsKeeps ==
    ASSUME ListingsInv, NEW r \in Request, RemoveVariants(r)
    PROVE  ListingsInv'
<1>1. /\ pc[r] = "removeAll" /\ Running(r) /\ job[r].op = "deleteListing" /\ job[r].op \in Deletions
  BY ListingJobs DEF RemoveVariants, OpsAt, Deletions
<1>2. Deleting(r) /\ HoldsNothing(r)
  BY <1>1, InvTypes, Empty
<1>3. /\ seen[r] \subseteq Variant /\ \A v \in seen[r] : db[v].state # "none"
      /\ Of(job[r].listing) \subseteq seen[r] \cup odd.raced
  BY <1>1, <1>2 DEF Deleting
<1>4. seen[r] \subseteq Rows /\ "unconfigure" \in Label /\ \A k \in seen[r] : ~Holds(r, k)
  BY <1>2, <1>3, RowFacts DEF Label, HoldsNothing
<1>5. DeleteAll(r, seen[r], "unconfigure")
  BY DEF RemoveVariants
<1>6. /\ db' = db /\ odd' = odd /\ alone' = alone /\ job' = job /\ seen' = seen
      /\ pc'[r] = "unconfigure" /\ pc' \in [Request -> Label]
      /\ \A k \in seen[r] : /\ pend'[r][k] = [db[k] EXCEPT !.state = "deleted"]
                            /\ pend'[r][k] \in RowType(k) /\ ~HeldByOther(r, k)
      /\ \A k \in Rows \ seen[r] : pend'[r][k] = pend[r][k]
      /\ \A s \in Request \ {r} : pend'[s] = pend[s] /\ pc'[s] = pc[s]
      /\ pend' \in [Request -> [Rows -> AnyRow \cup {None}]]
  BY <1>4, <1>5, DeleteAllFacts
<1>7. \A k \in Rows : Holds(r, k)' => k \in seen[r]
  BY <1>2, <1>6 DEF HoldsNothing, Holds
<1>8. WritesOK(r)'
  <2>1. ASSUME NEW v \in Variant, Holds(r, v)' PROVE VariantHeld(r, v, pend[r][v], db[v])'
    <3>1. v \in seen[r] /\ db[v] \in VariantRow
      BY <1>7, <2>1, RowFacts, DbTypes
    <3>2. pend'[r][v].state = "deleted" /\ pend'[r][v].listing = db[v].listing
      BY <1>6, <3>1 DEF VariantRow
    <3> QED
      BY <1>1, <1>3, <1>6, <3>1, <3>2 DEF VariantHeld
  <2>2. (\A l \in Listing : ~Holds(r, l)') /\ (\A o \in Option : ~Holds(r, o)')
    BY <1>3, <1>7, RowFacts
  <2>3. (\A t \in Kind : ~Holds(r, t)') /\ (\A v \in Variant, o \in Option : ~Holds(r, <<v, o>>)')
    BY <1>3, <1>7, RowFacts
  <2>4. \A k \in Rows : Holds(r, k)' => pend'[r][k] \in RowType(k)
    BY <1>6, <1>7
  <2> QED
    BY <2>1, <2>2, <2>3, <2>4 DEF WritesOK
<1>9. Mine(r)'
  <2>1. Found(r)' /\ Running(r)'
    BY <1>6 DEF Found, Running
  <2>2. Deleting(r)'
    <3>1. Of(job[r].listing)' = Of(job[r].listing)
      BY <1>6 DEF Of
    <3>2. \A v \in seen[r] : Holds(r, v)'
      <4>1. ASSUME NEW v \in seen[r] PROVE Holds(r, v)'
        <5>1. pend'[r][v] \in RowType(v)
          BY <1>6
        <5> QED
          BY <5>1, RowFacts DEF Holds
      <4> QED
        BY <4>1
    <3> QED
      BY <1>1, <1>3, <1>6, <3>1, <3>2 DEF Deleting
  <2>3. job'[r].op \in OpsAt(pc'[r]) /\ job'[r].op # "createVariant"
    BY <1>1, <1>6 DEF OpsAt
  <2> QED
    BY <1>6, <1>8, <2>1, <2>2, <2>3 DEF Mine
<1>10. \A k \in Rows : Holds(r, k)' => Holds(r, k) \/ ~HeldByOther(r, k)
  BY <1>6, <1>7
<1>11. job' \in [Request -> Job \cup {NoJob}] /\ DOMAIN seen' = Request
  BY <1>6, InvTypes
<1> QED
  BY <1>1, <1>6, <1>9, <1>10, <1>11, OwnStep

LEMMA RemoveConfigsKeeps ==
    ASSUME ListingsInv, NEW r \in Request, RemoveConfigs(r)
    PROVE  ListingsInv'
<1>1. /\ pc[r] = "unconfigure" /\ Running(r) /\ job[r].op \in Deletions
      /\ job[r].op \in {"deleteListing", "deleteVariant"}
  <2>1. pc[r] = "unconfigure" /\ Running(r)
    BY DEF RemoveConfigs, Running
  <2> QED
    BY <2>1, RunningOps DEF OpsAt, Deletions
<1>2. Deleting(r) /\ WritesOK(r)
  BY InvTypes
<1>3. /\ seen[r] \subseteq Variant /\ \A v \in seen[r] : db[v].state # "none" /\ Holds(r, v)
      /\ job[r].op = "deleteListing" => Of(job[r].listing) \subseteq seen[r] \cup odd.raced
  BY <1>1, <1>2 DEF Deleting
<1>4. \A v \in Variant, o \in Option : ~Holds(r, <<v, o>>)
  BY <1>1, <1>2 DEF WritesOK, ConfigHeld
<1>5. \A v \in Variant, o \in Option : View(r, <<v, o>>) = db[<<v, o>>]
  BY <1>4, HeldTypes, RowFacts
<1>6. PICK K : K = {p \in seen[r] \X Option : Live(db[p])}
  OBVIOUS
<1>7. K = ConfigsOf(ViewAll(r), seen[r])
  <2>1. \A p \in seen[r] \X Option : ViewAll(r)[p] = db[p]
    BY <1>3, <1>5, RowFacts DEF ViewAll
  <2> QED
    BY <1>6, <2>1 DEF ConfigsOf
<1>8. PICK label : label = IF job[r].op = "deleteListing" THEN "unlist" ELSE "commit"
  OBVIOUS
<1>9. /\ label \in Label /\ label \in {"unlist", "commit"} /\ job[r].op \in OpsAt(label)
      /\ DeleteAll(r, K, label)
  BY <1>1, <1>7, <1>8 DEF RemoveConfigs, Label, OpsAt
<1>10. K \in SUBSET Rows /\ \A k \in K : ~Holds(r, k)
  BY <1>3, <1>4, <1>6, RowFacts
<1>11. \A k \in K : \E v \in seen[r], o \in Option : k = <<v, o>> /\ Live(db[k])
  BY <1>6
<1>12. /\ db' = db /\ odd' = odd /\ alone' = alone /\ job' = job /\ seen' = seen
       /\ pc'[r] = label /\ pc' \in [Request -> Label]
       /\ \A k \in K : /\ pend'[r][k] = [db[k] EXCEPT !.state = "deleted"]
                       /\ pend'[r][k] \in RowType(k) /\ ~HeldByOther(r, k)
       /\ \A k \in Rows \ K : pend'[r][k] = pend[r][k]
       /\ \A s \in Request \ {r} : pend'[s] = pend[s] /\ pc'[s] = pc[s]
       /\ pend' \in [Request -> [Rows -> AnyRow \cup {None}]]
  BY <1>9, <1>10, DeleteAllFacts
<1>13. \A k \in Rows : Holds(r, k)' => Holds(r, k) \/ k \in K
  BY <1>12 DEF Holds
<1>14. \A k \in Rows : Holds(r, k) => Holds(r, k)'
  BY <1>10, <1>12 DEF Holds
<1>15. \A k \in K : k \notin Listing /\ k \notin Variant /\ k \notin Option /\ k \notin Kind
  <2>1. K \subseteq Config
    BY <1>3, <1>6 DEF Config
  <2> QED
    BY <2>1, RowFacts
<1>16. \A k \in Rows : k \notin K => pend'[r][k] = pend[r][k]
  BY <1>12
<1>17. WritesOK(r)'
  <2>1. \A l \in Listing : ~Holds(r, l)'
    <3>1. \A l \in Listing : ~Holds(r, l)
      BY <1>1, <1>2 DEF WritesOK, ListingHeld
    <3> QED
      BY <1>13, <1>15, <3>1, RowFacts
  <2>2. ASSUME NEW v \in Variant, Holds(r, v)' PROVE VariantHeld(r, v, pend[r][v], db[v])'
    <3>1. Holds(r, v) /\ pend'[r][v] = pend[r][v]
      BY <1>13, <1>15, <1>16, <2>2, RowFacts
    <3>2. VariantHeld(r, v, pend[r][v], db[v])
      BY <1>2, <3>1 DEF WritesOK
    <3> QED
      BY <1>1, <1>9, <1>12, <3>1, <3>2 DEF VariantHeld
  <2>3. (\A o \in Option : ~Holds(r, o)') /\ (\A t \in Kind : ~Holds(r, t)')
    <3>1. (\A o \in Option : ~Holds(r, o)) /\ (\A t \in Kind : ~Holds(r, t))
      BY <1>1, <1>2 DEF WritesOK, OptionHeld, KindHeld
    <3> QED
      BY <1>13, <1>15, <3>1, RowFacts
  <2>4. ASSUME NEW v \in Variant, NEW o \in Option, Holds(r, <<v, o>>)'
        PROVE  ConfigHeld(r, v, o, pend[r][<<v, o>>], db[<<v, o>>])'
    <3>1. <<v, o>> \in K
      BY <1>4, <1>13, <2>4, RowFacts
    <3>2. v \in seen[r] /\ Live(db[<<v, o>>]) /\ db[<<v, o>>] \in ConfigRow
      BY <1>6, <3>1, DbTypes
    <3>3. pend'[r][<<v, o>>].state = "deleted" /\ db[<<v, o>>].state # "none"
      BY <1>12, <3>1, <3>2 DEF ConfigRow, Live
    <3> QED
      BY <1>1, <1>9, <1>12, <3>2, <3>3 DEF ConfigHeld
  <2>5. ASSUME NEW k \in Rows, Holds(r, k)' PROVE pend'[r][k] \in RowType(k)
    BY <1>2, <1>12, <1>13, <1>16, <2>5 DEF WritesOK
  <2> QED
    BY <2>1, <2>2, <2>3, <2>4, <2>5 DEF WritesOK
<1>18. Mine(r)'
  <2>1. Found(r)' /\ Running(r)'
    BY <1>9, <1>12 DEF Found, Running
  <2>2. Deleting(r)'
    <3>1. Of(job[r].listing)' = Of(job[r].listing)
      BY <1>12 DEF Of
    <3>2. \A v \in seen[r] : Holds(r, v)'
      BY <1>3, <1>14, RowFacts
    <3>3. ASSUME NEW v \in seen[r], NEW o \in Option, Live(db[<<v, o>>]) PROVE Holds(r, <<v, o>>)'
      <4>1. <<v, o>> \in K
        BY <1>6, <3>3
      <4>2. pend'[r][<<v, o>>] \in RowType(<<v, o>>)
        BY <1>12, <4>1
      <4> QED
        BY <4>2, RowFacts DEF Holds
    <3>4. job[r].op = "deleteVariant" => pc'[r] = "commit"
      BY <1>8, <1>12
    <3> QED
      BY <1>1, <1>3, <1>12, <3>1, <3>2, <3>3 DEF Deleting
  <2>3. job'[r].op \in OpsAt(pc'[r]) /\ job'[r].op # "createVariant"
    BY <1>1, <1>9, <1>12 DEF OpsAt
  <2> QED
    BY <1>9, <1>12, <1>17, <2>1, <2>2, <2>3 DEF Mine
<1>19. \A k \in Rows : Holds(r, k)' => Holds(r, k) \/ ~HeldByOther(r, k)
  BY <1>12, <1>13
<1>20. job' \in [Request -> Job \cup {NoJob}] /\ DOMAIN seen' = Request
  BY <1>12, InvTypes
<1> QED
  BY <1>1, <1>12, <1>18, <1>19, <1>20, OwnStep

LEMMA RemoveListingKeeps ==
    ASSUME ListingsInv, NEW r \in Request, RemoveListing(r)
    PROVE  ListingsInv'
<1>1. /\ pc[r] = "unlist" /\ Running(r) /\ job[r].op = "deleteListing" /\ job[r].op \in Deletions
      /\ job[r].listing \in Listing /\ job[r].listing \in Rows
  BY ListingJobs DEF RemoveListing, OpsAt, Deletions
<1>2. CASE Abandon(r)
  BY <1>1, <1>2, AbandonKeeps
<1>3. CASE ~Abandon(r)
  <2>1. PICK l : l = job[r].listing
    OBVIOUS
  <2>2. /\ l \in Listing /\ l \in Rows /\ l \notin Variant /\ l \notin Option /\ l \notin Kind
        /\ l \notin Config /\ RowType(l) = ListingRow
    BY <1>1, <2>1, RowFacts
  <2>3. PICK x : x = [View(r, l) EXCEPT !.state = "deleted", !.status = "DELETED"]
    OBVIOUS
  <2>4. Write(r, l, x, "commit") /\ Calm
    BY <1>3, <2>1, <2>3 DEF RemoveListing
  <2>5. x \in ListingRow /\ x.state = "deleted"
    <3>1. View(r, l) \in ListingRow
      BY <2>2, HeldTypes
    <3> QED
      BY <2>3, <3>1 DEF ListingRow, State, Status
  <2>6. /\ pend \in [Request -> [Rows -> AnyRow \cup {None}]]
        /\ pc \in [Request -> Label] /\ job \in [Request -> Job \cup {NoJob}] /\ DOMAIN seen = Request
    BY InvTypes
  <2>7. /\ db' = db /\ odd' = odd /\ alone' = alone /\ job' = job /\ seen' = seen
        /\ pend' = [pend EXCEPT ![r][l] = x] /\ pc' = [pc EXCEPT ![r] = "commit"]
        /\ ~HeldByOther(r, l)
    BY <2>4 DEF Write, WriteRow, Goto, Calm
  <2>8. pend' \in [Request -> [Rows -> AnyRow \cup {None}]] /\ pc' \in [Request -> Label]
    <3>1. x \in AnyRow
      BY <2>5 DEF AnyRow
    <3> QED
      BY <2>6, <2>7, <3>1 DEF Label
  <2>9. /\ pc'[r] = "commit" /\ pend'[r][l] = x
        /\ \A k \in Rows : k # l => pend'[r][k] = pend[r][k]
        /\ \A s \in Request \ {r} : pend'[s] = pend[s] /\ pc'[s] = pc[s]
    BY <2>2, <2>6, <2>7
  <2>10. x # None
    BY <2>5, RowFacts DEF AnyRow
  <2>11. \A k \in Rows : k # l => (Holds(r, k)' <=> Holds(r, k))
    BY <2>9 DEF Holds
  <2>12. WritesOK(r) /\ Deleting(r)
    BY InvTypes
  <2>13. WritesOK(r)'
    <3>1. ASSUME NEW k \in Listing, Holds(r, k)' PROVE ListingHeld(r, k, pend[r][k], db[k])'
      <4>1. k = l
        <5>1. ~Holds(r, k)
          BY <1>1, <2>12 DEF WritesOK, ListingHeld
        <5> QED
          BY <2>11, <3>1, <5>1, RowFacts
      <4> QED
        BY <1>1, <2>1, <2>5, <2>7, <2>9, <4>1 DEF ListingHeld
    <3>2. ASSUME NEW v \in Variant, Holds(r, v)' PROVE VariantHeld(r, v, pend[r][v], db[v])'
      <4>1. Holds(r, v) /\ pend'[r][v] = pend[r][v]
        BY <2>2, <2>9, <2>11, <3>2, RowFacts
      <4>2. VariantHeld(r, v, pend[r][v], db[v])
        BY <2>12, <4>1 DEF WritesOK
      <4> QED
        BY <1>1, <2>7, <2>9, <4>1, <4>2 DEF VariantHeld
    <3>3. (\A o \in Option : ~Holds(r, o)') /\ (\A t \in Kind : ~Holds(r, t)')
      <4>1. (\A o \in Option : ~Holds(r, o)) /\ (\A t \in Kind : ~Holds(r, t))
        BY <1>1, <2>12 DEF WritesOK, OptionHeld, KindHeld
      <4> QED
        BY <2>2, <2>11, <4>1, RowFacts
    <3>4. ASSUME NEW v \in Variant, NEW o \in Option, Holds(r, <<v, o>>)'
          PROVE  ConfigHeld(r, v, o, pend[r][<<v, o>>], db[<<v, o>>])'
      <4>1. Holds(r, <<v, o>>) /\ pend'[r][<<v, o>>] = pend[r][<<v, o>>]
        <5>1. <<v, o>> \in Rows /\ <<v, o>> # l
          BY <2>2, RowFacts
        <5> QED
          BY <2>9, <2>11, <3>4, <5>1
      <4>2. ConfigHeld(r, v, o, pend[r][<<v, o>>], db[<<v, o>>])
        BY <2>12, <4>1 DEF WritesOK
      <4> QED
        BY <1>1, <2>7, <2>9, <4>1, <4>2 DEF ConfigHeld
    <3>5. \A k \in Rows : Holds(r, k)' => pend'[r][k] \in RowType(k)
      BY <2>2, <2>5, <2>9, <2>11, <2>12 DEF WritesOK
    <3> QED
      BY <3>1, <3>2, <3>3, <3>4, <3>5 DEF WritesOK
  <2>14. Deleting(r)'
    <3>1. Of(job[r].listing)' = Of(job[r].listing)
      BY <2>7 DEF Of
    <3>2. seen[r] \subseteq Variant /\ Of(job[r].listing) \subseteq seen[r] \cup odd.raced
          /\ \A v \in seen[r] : db[v].state # "none" /\ Holds(r, v)
      BY <1>1, <2>12 DEF Deleting
    <3>3. \A v \in seen[r] : Holds(r, v)'
      BY <2>2, <2>11, <3>2, RowFacts
    <3>4. ASSUME NEW v \in seen[r], NEW o \in Option, Live(db[<<v, o>>])
          PROVE  Holds(r, <<v, o>>)' \/ v \in odd.edited
      <4>1. Holds(r, <<v, o>>) \/ v \in odd.edited
        BY <1>1, <2>12, <3>4 DEF Deleting
      <4>2. <<v, o>> \in Rows /\ <<v, o>> # l
        BY <2>2, <3>2, RowFacts
      <4> QED
        BY <2>11, <4>1, <4>2
    <3> QED
      BY <1>1, <2>7, <2>9, <3>1, <3>2, <3>3, <3>4 DEF Deleting
  <2>15. Mine(r)'
    <3>1. Found(r)' /\ Running(r)'
      BY <2>9 DEF Found, Running
    <3>2. job'[r].op \in OpsAt(pc'[r]) /\ job'[r].op # "createVariant"
      BY <1>1, <2>7, <2>9 DEF OpsAt
    <3> QED
      BY <2>9, <2>13, <2>14, <3>1, <3>2 DEF Mine
  <2>16. \A k \in Rows : Holds(r, k)' => Holds(r, k) \/ ~HeldByOther(r, k)
    BY <2>7, <2>11
  <2>17. job' \in [Request -> Job \cup {NoJob}] /\ DOMAIN seen' = Request
    BY <2>6, <2>7
  <2> QED
    BY <1>1, <2>7, <2>8, <2>9, <2>15, <2>16, <2>17, OwnStep
<1> QED
  BY <1>2, <1>3

-----------------------------------------------------------------------------
(* The creation of a variant.                                              *)

LEMMA ValidateOptionsKeeps ==
    ASSUME ListingsInv, NEW r \in Request, ValidateOptions(r)
    PROVE  ListingsInv'
<1>1. /\ pc[r] = "options" /\ Running(r) /\ job[r].op = "createVariant" /\ job[r] \in Job
  BY ListingJobs DEF ValidateOptions, OpsAt
<1>2. CASE Abandon(r)
  BY <1>1, <1>2, AbandonKeeps
<1>3. CASE ValidOptions(ViewAll(r), job[r].options) /\ Continue(r, "siblings") /\ Calm
  <2>1. OptionsOf(job[r]) # {} /\ \A o \in OptionsOf(job[r]) : Live(ViewAll(r)[o])
    BY <1>3 DEF ValidOptions, OptionsOf
  <2>2. \A o \in OptionsOf(job[r]) : Live(db[o])
    <3>1. ASSUME NEW o \in OptionsOf(job[r]) PROVE Live(db[o])
      <4>1. o \in Rows
        BY <1>1, OptionsAre, RowFacts
      <4>2. ViewAll(r)[o] = db[o]
        BY <1>1, <4>1, Empty DEF ViewAll
      <4> QED
        BY <2>1, <4>2
    <3> QED
      BY <3>1
  <2>3. /\ pc' = [pc EXCEPT ![r] = "siblings"] /\ UNCHANGED <<db, pend, job, seen, odd, alone>>
    BY <1>3 DEF Continue, Goto, Calm
  <2>4. pc'[r] = "siblings" /\ job'[r] = job[r] /\ DOMAIN seen' = Request
    BY <2>3, InvTypes
  <2>5. Found(r)' /\ Deleting(r)'
    BY <1>1, <2>4 DEF Found, Deleting
  <2>6. Creating(r)'
    <3>1. OptionsOf(job[r])' = OptionsOf(job[r])
      BY <2>4 DEF OptionsOf
    <3>2. \A o \in OptionsOf(job[r]) : db[o].state # "none"
      BY <2>2 DEF Live
    <3> QED
      BY <2>1, <2>3, <2>4, <3>1, <3>2 DEF Creating
  <2>7. ASSUME alone[r] PROVE Knowing(r)'
    <3>1. Knowing(r)
      BY <1>1, <2>7, InvTypes DEF Mine
    <3>2. Live(db[job[r].listing])
      BY <1>1, <3>1 DEF Knowing
    <3>3. OptionsOf(job[r])' = OptionsOf(job[r])
      BY <2>4 DEF OptionsOf
    <3> QED
      BY <2>2, <2>3, <2>4, <3>2, <3>3 DEF Knowing
  <2>8. "siblings" \in Label /\ job[r].op \in OpsAt("siblings")
    BY <1>1 DEF Label, OpsAt
  <2> QED
    BY <1>1, <2>3, <2>4, <2>5, <2>6, <2>7, <2>8, Empty, QuietStep DEF Calm
<1> QED
  BY <1>2, <1>3 DEF ValidateOptions

(* What it knows once it has read x and goes on to a label.               *)
Learned(r, label, x) ==
    /\ label \in {"configs", "values", "kinds"} =>
         /\ DOMAIN x = {"ids", "configs", "values"}
         /\ Of(job[r].listing) \subseteq x.ids /\ x.ids \subseteq Variant
    /\ label \in {"values", "kinds"} => x.configs \subseteq Config
    /\ label = "values" =>
         \A v \in Of(job[r].listing), o \in Option : <<v, o>> \in x.configs <=> Live(db[<<v, o>>])
    /\ label = "kinds" =>
         /\ \A v \in Of(job[r].listing), o \in Option :
              <<v, o>> \in x.configs <=> Live(db[<<v, o>>]) /\ Live(db[o])
         /\ \A p \in x.configs : Live(db[p[2]]) /\ <<p[2], db[p[2]].kind>> \in x.values
         /\ \A o \in Option, t \in Kind : <<o, t>> \in x.values => Live(db[o]) /\ t = db[o].kind
    /\ label = "store" => Distinct(r)

(* A step of a creation that writes nothing, after the options are found   *)
(* valid: what it knows of the listing and the options remains.            *)
LEMMA CreationReads ==
    ASSUME ListingsInv, NEW r \in Request, pc[r] \in {"siblings", "configs", "values", "kinds"},
           NEW label \in {"configs", "values", "kinds", "store"}, NEW x,
           pc' = [pc EXCEPT ![r] = label],
           DOMAIN seen' = Request, seen'[r] = x, \A s \in Request \ {r} : seen'[s] = seen[s],
           UNCHANGED <<db, pend, job>>, Calm,
           alone[r] /\ Knowing(r) => Learned(r, label, x)
    PROVE  ListingsInv'
<1>1. Running(r) /\ job[r].op = "createVariant" /\ HoldsNothing(r)
  BY ListingJobs, Empty DEF OpsAt
<1>2. pc'[r] = label /\ job' = job /\ db' = db /\ odd' = odd
  BY InvTypes DEF Calm
<1>3. Found(r)' /\ Deleting(r)'
  BY <1>1, <1>2 DEF Found, Deleting, Deletions
<1>4. OptionsOf(job[r])' = OptionsOf(job[r]) /\ Of(job[r].listing)' = Of(job[r].listing)
  BY <1>2 DEF OptionsOf, Of
<1>5. Creating(r)'
  <2>1. Creating(r)
    BY <1>1, InvTypes DEF Mine
  <2>2. OptionsOf(job[r]) # {} /\ \A o \in OptionsOf(job[r]) : db[o].state # "none"
    BY <2>1 DEF Creating
  <2> QED
    BY <1>2, <1>4, <2>2 DEF Creating
<1>6. ASSUME alone[r] PROVE Knowing(r)'
  <2>1. Knowing(r)
    BY <1>1, <1>6, InvTypes DEF Mine
  <2>2. Learned(r, label, x)
    BY <1>6, <2>1
  <2>3. Live(db[job[r].listing]) /\ \A o \in OptionsOf(job[r]) : Live(db[o])
    BY <2>1 DEF Knowing
  <2>4. Distinct(r)' <=> Distinct(r)
    BY <1>2, <1>4 DEF Distinct, OptionSet
  <2>5. (pc[r] # "listing" => Live(db[job[r].listing]))'
    BY <1>2, <2>3
  <2>6. (pc[r] \notin {"listing", "options"} => \A o \in OptionsOf(job[r]) : Live(db[o]))'
    BY <1>2, <1>4, <2>3
  <2>7. (pc[r] \in {"configs", "values", "kinds"} =>
           /\ DOMAIN seen[r] = {"ids", "configs", "values"}
           /\ Of(job[r].listing) \subseteq seen[r].ids /\ seen[r].ids \subseteq Variant)'
    BY <1>2, <1>4, <2>2 DEF Learned
  <2>8. (pc[r] \in {"values", "kinds"} => seen[r].configs \subseteq Config)'
    BY <1>2, <2>2 DEF Learned
  <2>9. (pc[r] = "values" =>
           \A v \in Of(job[r].listing), o \in Option : <<v, o>> \in seen[r].configs <=> Live(db[<<v, o>>]))'
    <3>1. ASSUME label = "values"
          PROVE  \A v \in Of(job[r].listing), o \in Option : <<v, o>> \in x.configs <=> Live(db[<<v, o>>])
      BY <2>2, <3>1 DEF Learned
    <3> QED
      BY <1>2, <1>4, <3>1
  <2>10. (pc[r] = "kinds" =>
           /\ \A v \in Of(job[r].listing), o \in Option :
                <<v, o>> \in seen[r].configs <=> Live(db[<<v, o>>]) /\ Live(db[o])
           /\ \A p \in seen[r].configs : Live(db[p[2]]) /\ <<p[2], db[p[2]].kind>> \in seen[r].values
           /\ \A o \in Option, t \in Kind : <<o, t>> \in seen[r].values => Live(db[o]) /\ t = db[o].kind)'
    BY <1>2, <1>4, <2>2 DEF Learned
  <2>11. (pc[r] \in {"store", "configure", "commit"} => Distinct(r))'
    BY <1>2, <2>4, <2>2 DEF Learned
  <2> QED
    BY <2>5, <2>6, <2>7, <2>8, <2>9, <2>10, <2>11 DEF Knowing
<1>7. label \in Label /\ label \notin {"new", "done", "failed"} /\ job[r].op \in OpsAt(label)
  BY <1>1 DEF Label, OpsAt
<1> QED
  BY <1>1, <1>2, <1>3, <1>5, <1>6, <1>7, QuietStep

LEMMA ReadSiblingsKeeps ==
    ASSUME ListingsInv, NEW r \in Request, ReadSiblings(r)
    PROVE  ListingsInv'
<1>1. pc[r] = "siblings"
  BY DEF ReadSiblings
<1>2. PICK ids : ids = Of(job[r].listing)
  OBVIOUS
<1>3. PICK label : label = IF ids = {} THEN "store" ELSE "configs"
  OBVIOUS
<1>4. PICK x : x = [ids |-> ids, configs |-> {}, values |-> {}]
  OBVIOUS
<1>5. Read(r, x, label) /\ Calm
  <2>1. VariantsOf(ViewAll(r), job[r].listing) = ids
    BY <1>1, <1>2, SeesVariants
  <2> QED
    BY <1>3, <1>4, <2>1 DEF ReadSiblings
<1>6. /\ pc' = [pc EXCEPT ![r] = label] /\ UNCHANGED <<db, pend, job>> /\ Calm
      /\ DOMAIN seen' = Request /\ seen'[r] = x /\ \A s \in Request \ {r} : seen'[s] = seen[s]
  BY <1>5, InvTypes DEF Read, Keep, Goto
<1>7. DOMAIN x = {"ids", "configs", "values"} /\ x.ids = ids /\ ids \subseteq Variant
  BY <1>2, <1>4 DEF Of
<1>8. label = "store" => Distinct(r)
  BY <1>2, <1>3 DEF Distinct
<1>9. label = "store" \/ label = "configs"
  BY <1>3
<1>10. /\ DOMAIN x = {"ids", "configs", "values"}
       /\ Of(job[r].listing) \subseteq x.ids /\ x.ids \subseteq Variant
  BY <1>2, <1>7
<1>11. label \in {"configs", "values", "kinds", "store"} /\ label # "values" /\ label # "kinds"
       /\ label \notin {"values", "kinds"}
  BY <1>9
<1>12. Learned(r, label, x)
  BY <1>8, <1>10, <1>11 DEF Learned
<1> QED
  BY <1>1, <1>6, <1>11, <1>12, CreationReads

LEMMA SeesConfigs ==
    ASSUME ListingsInv, NEW r \in Request, pc[r] \notin {"unconfigure", "unlist", "configure", "commit"}
    PROVE  /\ \A v \in Variant, o \in Option : View(r, <<v, o>>) = db[<<v, o>>]
           /\ \A o \in Option : View(r, o) = db[o] /\ ViewAll(r)[o] = db[o]
           /\ \A t \in Kind : ViewAll(r)[t] = db[t]
           /\ \A v \in Variant, o \in Option : ViewAll(r)[<<v, o>>] = db[<<v, o>>]
BY Empty, RowFacts DEF ViewAll

LEMMA ReadConfigsKeeps ==
    ASSUME ListingsInv, NEW r \in Request, ReadConfigs(r)
    PROVE  ListingsInv'
<1>1. pc[r] = "configs" /\ job[r].op = "createVariant"
  BY ListingJobs DEF ReadConfigs, OpsAt
<1>2. PICK configs : configs = ConfigsOf(ViewAll(r), seen[r].ids)
  OBVIOUS
<1>3. PICK label : label = IF configs = {} THEN "store" ELSE "values"
  OBVIOUS
<1>4. PICK x : x = [seen[r] EXCEPT !.configs = configs]
  OBVIOUS
<1>5. Read(r, x, label) /\ Calm
  BY <1>2, <1>3, <1>4 DEF ReadConfigs
<1>6. /\ pc' = [pc EXCEPT ![r] = label] /\ UNCHANGED <<db, pend, job>> /\ Calm
      /\ DOMAIN seen' = Request /\ seen'[r] = x /\ \A s \in Request \ {r} : seen'[s] = seen[s]
  BY <1>5, InvTypes DEF Read, Keep, Goto
<1>7. label = "store" \/ label = "values"
  BY <1>3
<1>8. ASSUME alone[r], Knowing(r)
      PROVE  /\ DOMAIN x = {"ids", "configs", "values"}
             /\ Of(job[r].listing) \subseteq x.ids /\ x.ids \subseteq Variant
             /\ \A v \in Of(job[r].listing), o \in Option : <<v, o>> \in x.configs <=> Live(db[<<v, o>>])
             /\ label = "values" => x.configs \subseteq Config
             /\ label = "store" => Distinct(r)
  <2>1. /\ DOMAIN seen[r] = {"ids", "configs", "values"}
        /\ Of(job[r].listing) \subseteq seen[r].ids /\ seen[r].ids \subseteq Variant
    BY <1>1, <1>8 DEF Knowing
  <2>2. DOMAIN x = {"ids", "configs", "values"} /\ x.ids = seen[r].ids /\ x.configs = configs
    BY <1>4, <2>1
  <2>3. ASSUME NEW v \in Of(job[r].listing), NEW o \in Option
        PROVE  <<v, o>> \in configs <=> Live(db[<<v, o>>])
    <3>1. v \in Variant /\ <<v, o>> \in seen[r].ids \X Option
      BY <2>1 DEF Of
    <3>2. ViewAll(r)[<<v, o>>] = db[<<v, o>>]
      BY <1>1, <3>1, SeesConfigs
    <3> QED
      BY <1>2, <3>1, <3>2 DEF ConfigsOf
  <2>4. ASSUME label = "store" PROVE Distinct(r)
    <3>1. configs = {}
      BY <1>3, <2>4
    <3>2. Creating(r)
      BY <1>1, InvTypes DEF Mine
    <3>3. OptionsOf(job[r]) # {}
      BY <1>1, <3>2 DEF Creating
    <3>4. \A v \in Of(job[r].listing) : OptionSet(v) = {}
      BY <2>3, <3>1 DEF OptionSet
    <3> QED
      BY <3>3, <3>4 DEF Distinct
  <2>5. configs \subseteq Config
    <3>1. configs \subseteq seen[r].ids \X Option
      BY <1>2 DEF ConfigsOf
    <3> QED
      BY <2>1, <3>1 DEF Config
  <2> QED
    BY <2>1, <2>2, <2>3, <2>4, <2>5
<1>9. alone[r] /\ Knowing(r) => Learned(r, label, x)
  BY <1>7, <1>8 DEF Learned
<1>10. label \in {"configs", "values", "kinds", "store"}
  BY <1>7
<1> QED
  BY <1>1, <1>6, <1>9, <1>10, CreationReads

LEMMA ReadValuesKeeps ==
    ASSUME ListingsInv, NEW r \in Request, ReadValues(r)
    PROVE  ListingsInv'
<1>1. pc[r] = "values" /\ job[r].op = "createVariant"
  BY ListingJobs DEF ReadValues, OpsAt
<1>2. PICK live : live = {p \in seen[r].configs : Live(View(r, p[2]))}
  OBVIOUS
<1>3. PICK values : values = {<<p[2], View(r, p[2]).kind>> : p \in live}
  OBVIOUS
<1>4. PICK x : x = [seen[r] EXCEPT !.configs = live, !.values = values]
  OBVIOUS
<1>5. /\ pc' = [pc EXCEPT ![r] = "kinds"] /\ UNCHANGED <<db, pend, job>> /\ Calm
      /\ DOMAIN seen' = Request /\ seen'[r] = x /\ \A s \in Request \ {r} : seen'[s] = seen[s]
  BY <1>2, <1>3, <1>4, InvTypes DEF ReadValues, Read, Keep, Goto
<1>6. ASSUME alone[r], Knowing(r)
      PROVE  /\ DOMAIN x = {"ids", "configs", "values"}
             /\ Of(job[r].listing) \subseteq x.ids /\ x.ids \subseteq Variant
             /\ x.configs \subseteq Config
             /\ \A v \in Of(job[r].listing), o \in Option :
                  <<v, o>> \in x.configs <=> Live(db[<<v, o>>]) /\ Live(db[o])
             /\ \A p \in x.configs : Live(db[p[2]]) /\ <<p[2], db[p[2]].kind>> \in x.values
             /\ \A o \in Option, t \in Kind : <<o, t>> \in x.values => Live(db[o]) /\ t = db[o].kind
  <2>1. /\ DOMAIN seen[r] = {"ids", "configs", "values"}
        /\ Of(job[r].listing) \subseteq seen[r].ids /\ seen[r].ids \subseteq Variant
        /\ seen[r].configs \subseteq Config
        /\ \A v \in Of(job[r].listing), o \in Option :
             <<v, o>> \in seen[r].configs <=> Live(db[<<v, o>>])
    BY <1>1, <1>6 DEF Knowing
  <2>2. DOMAIN x = {"ids", "configs", "values"} /\ x.ids = seen[r].ids /\ x.configs = live /\ x.values = values
    BY <1>4, <2>1
  <2>3. ASSUME NEW p \in seen[r].configs
        PROVE  p[2] \in Option /\ View(r, p[2]) = db[p[2]]
    <3>1. p[2] \in Option
      BY <2>1, RowFacts
    <3> QED
      BY <1>1, <3>1, SeesConfigs
  <2>4. \A p \in seen[r].configs : p \in live <=> Live(db[p[2]])
    BY <1>2, <2>3
  <2>5. ASSUME NEW p \in live PROVE Live(db[p[2]]) /\ <<p[2], db[p[2]].kind>> \in values
    <3>1. p \in seen[r].configs
      BY <1>2
    <3>2. View(r, p[2]) = db[p[2]]
      BY <2>3, <3>1
    <3> QED
      BY <1>2, <1>3, <3>2
  <2>6. ASSUME NEW o \in Option, NEW t \in Kind, <<o, t>> \in values
        PROVE  Live(db[o]) /\ t = db[o].kind
    <3>1. PICK p \in live : <<o, t>> = <<p[2], View(r, p[2]).kind>>
      BY <1>3, <2>6
    <3>2. o = p[2] /\ t = View(r, p[2]).kind
      BY <3>1
    <3>3. p \in seen[r].configs
      BY <1>2
    <3>4. View(r, p[2]) = db[p[2]] /\ Live(db[p[2]])
      BY <2>3, <2>5, <3>3
    <3> QED
      BY <3>2, <3>4
  <2>7. ASSUME NEW v \in Of(job[r].listing), NEW o \in Option
        PROVE  <<v, o>> \in live <=> Live(db[<<v, o>>]) /\ Live(db[o])
    <3>1. <<v, o>> \in seen[r].configs <=> Live(db[<<v, o>>])
      BY <2>1
    <3>2. <<v, o>>[2] = o
      OBVIOUS
    <3>3. <<v, o>> \in live => <<v, o>> \in seen[r].configs
      BY <1>2
    <3> QED
      BY <2>4, <3>1, <3>2, <3>3
  <2>8. live \subseteq Config
    BY <1>2, <2>1
  <2> QED
    BY <2>1, <2>2, <2>5, <2>6, <2>7, <2>8
<1>7. PICK label : label = "kinds"
  OBVIOUS
<1>8. label \in {"configs", "values", "kinds", "store"} /\ label # "store" /\ label # "values"
      /\ pc' = [pc EXCEPT ![r] = label]
  BY <1>5, <1>7
<1>9. alone[r] /\ Knowing(r) => Learned(r, label, x)
  BY <1>6, <1>8 DEF Learned
<1> QED
  BY <1>1, <1>5, <1>8, <1>9, CreationReads

LEMMA ReadKindsKeeps ==
    ASSUME ListingsInv, NEW r \in Request, ReadKinds(r)
    PROVE  ListingsInv'
<1>1. pc[r] = "kinds" /\ job[r].op = "createVariant" /\ job[r] \in Job /\ Running(r)
  BY ListingJobs DEF ReadKinds, OpsAt
<1>2. CASE Abandon(r)
  BY <1>1, <1>2, AbandonKeeps
<1>3. CASE ~DuplicateSet(r) /\ Continue(r, "store") /\ Calm
  <2>1. PICK x : x = seen[r]
    OBVIOUS
  <2>2. /\ pc' = [pc EXCEPT ![r] = "store"] /\ UNCHANGED <<db, pend, job>> /\ Calm
        /\ DOMAIN seen' = Request /\ seen'[r] = x /\ \A s \in Request \ {r} : seen'[s] = seen[s]
    BY <1>3, <2>1, InvTypes DEF Continue, Goto
  <2>3. ASSUME alone[r], Knowing(r) PROVE Distinct(r)
    <3> SUFFICES ASSUME NEW v \in Of(job[r].listing), OptionSet(v) = OptionsOf(job[r]),
                        \A o \in OptionsOf(job[r]) : Live(db[db[o].kind])
                 PROVE  FALSE
      BY DEF Distinct
    <3>1. /\ v \in seen[r].ids
          /\ \A o \in Option : <<v, o>> \in seen[r].configs <=> Live(db[<<v, o>>]) /\ Live(db[o])
          /\ \A p \in seen[r].configs : Live(db[p[2]]) /\ <<p[2], db[p[2]].kind>> \in seen[r].values
          /\ \A o \in OptionsOf(job[r]) : Live(db[o])
      BY <1>1, <2>3 DEF Knowing
    <3>2. OptionsOf(job[r]) \subseteq Option
      BY <1>1, OptionsAre
    <3> DEFINE WithKind(o) == \E t \in Kind : <<o, t>> \in seen[r].values /\ Live(ViewAll(r)[t])
    <3>3. ASSUME NEW o \in OptionsOf(job[r]) PROVE <<v, o>> \in seen[r].configs /\ WithKind(o)
      <4>1. o \in Option /\ Live(db[<<v, o>>]) /\ Live(db[o])
        BY <3>1, <3>2 DEF OptionSet
      <4>2. <<v, o>> \in seen[r].configs /\ <<v, o>>[2] = o
        BY <3>1, <4>1
      <4>3. <<o, db[o].kind>> \in seen[r].values
        BY <3>1, <4>2
      <4>4. db[o].kind \in Kind
        BY <4>1, DbTypes DEF OptionRow
      <4>5. Live(ViewAll(r)[db[o].kind])
        BY <1>1, <4>4, SeesConfigs
      <4> QED
        BY <4>2, <4>3, <4>4, <4>5
    <3>4. ASSUME NEW o \in Option, <<v, o>> \in seen[r].configs PROVE o \in OptionsOf(job[r])
      BY <3>1, <3>4 DEF OptionSet
    <3>5. Resolved(seen[r].configs, seen[r].values, ViewAll(r), v)
            = {o \in Option : <<v, o>> \in seen[r].configs /\ WithKind(o)}
      BY DEF Resolved
    <3> HIDE DEF WithKind
    <3>6. Resolved(seen[r].configs, seen[r].values, ViewAll(r), v) = OptionsOf(job[r])
      BY <3>2, <3>3, <3>4, <3>5
    <3> QED
      BY <1>3, <3>1, <3>6 DEF DuplicateSet
  <2>4. PICK label : label = "store"
    OBVIOUS
  <2>5. alone[r] /\ Knowing(r) => Learned(r, label, x)
    BY <2>3, <2>4 DEF Learned
  <2> QED
    BY <1>1, <2>2, <2>4, <2>5, CreationReads
<1> QED
  BY <1>2, <1>3 DEF ReadKinds

LEMMA InsertVariantKeeps ==
    ASSUME ListingsInv, NEW r \in Request, InsertVariant(r)
    PROVE  ListingsInv'
<1>1. /\ pc[r] = "store" /\ job[r].op = "createVariant" /\ job[r] \in Job /\ Running(r)
      /\ job[r].listing \in Listing /\ job[r].stock \in Int
  BY ListingJobs, JobFields DEF InsertVariant, OpsAt
<1>2. CASE Abandon(r)
  BY <1>1, <1>2, AbandonKeeps
<1>3. CASE ~Abandon(r)
  <2>1. PICK x : x = [state |-> "live", listing |-> job[r].listing, stock |-> job[r].stock]
    OBVIOUS
  <2>2. PICK v \in Variant :
          /\ Fresh(v) /\ job[r].stock >= 0 /\ WriteRow(r, v, x) /\ Keep(r, v)
          /\ Goto(r, "configure") /\ UNCHANGED job /\ Calm
    BY <1>3, <2>1 DEF InsertVariant
  <2>3. x \in VariantRow /\ x.listing = job[r].listing /\ Live(x)
    BY <1>1, <2>1, <2>2 DEF VariantRow, State, Live
  <2>4. /\ v \in Rows /\ v \notin Listing /\ v \notin Option /\ v \notin Kind /\ v \notin Config
        /\ RowType(v) = VariantRow /\ x # None /\ x \in AnyRow
    BY <2>3, RowFacts
  <2>5. /\ pend \in [Request -> [Rows -> AnyRow \cup {None}]]
        /\ pc \in [Request -> Label] /\ job \in [Request -> Job \cup {NoJob}] /\ DOMAIN seen = Request
    BY InvTypes
  <2>6. /\ db' = db /\ odd' = odd /\ alone' = alone /\ job' = job /\ seen' = [seen EXCEPT ![r] = v]
        /\ pend' = [pend EXCEPT ![r][v] = x] /\ pc' = [pc EXCEPT ![r] = "configure"]
        /\ ~HeldByOther(r, v)
    BY <2>2 DEF WriteRow, Keep, Goto, Calm
  <2>7. pend' \in [Request -> [Rows -> AnyRow \cup {None}]] /\ pc' \in [Request -> Label]
    BY <2>4, <2>5, <2>6 DEF Label
  <2>8. /\ pc'[r] = "configure" /\ pend'[r][v] = x /\ seen'[r] = v /\ DOMAIN seen' = Request
        /\ \A k \in Rows : k # v => pend'[r][k] = pend[r][k]
        /\ \A s \in Request \ {r} : pend'[s] = pend[s] /\ pc'[s] = pc[s] /\ seen'[s] = seen[s]
    BY <2>4, <2>5, <2>6
  <2>9. HoldsNothing(r)
    BY <1>1, Empty
  <2>10. Holds(r, v)' /\ \A k \in Rows : Holds(r, k)' => k = v
    BY <2>4, <2>8, <2>9 DEF Holds, HoldsNothing
  <2>11. WritesOK(r)'
    <3>1. VariantHeld(r, v, x, db[v])'
      BY <1>1, <2>2, <2>3, <2>6, <2>8 DEF VariantHeld, Fresh
    <3>2. (\A l \in Listing : ~Holds(r, l)') /\ (\A o \in Option : ~Holds(r, o)')
      BY <2>4, <2>10, RowFacts
    <3>3. (\A t \in Kind : ~Holds(r, t)') /\ (\A w \in Variant, o \in Option : ~Holds(r, <<w, o>>)')
      BY <2>4, <2>10, RowFacts
    <3>4. \A w \in Variant : Holds(r, w)' => VariantHeld(r, w, pend[r][w], db[w])'
      BY <2>8, <2>10, <3>1, RowFacts
    <3>5. \A k \in Rows : Holds(r, k)' => pend'[r][k] \in RowType(k)
      BY <2>3, <2>4, <2>8, <2>10
    <3> QED
      BY <3>2, <3>3, <3>4, <3>5 DEF WritesOK
  <2>12. Creating(r)'
    <3>1. Creating(r)
      BY <1>1, InvTypes DEF Mine
    <3>2. OptionsOf(job[r]) # {} /\ \A o \in OptionsOf(job[r]) : db[o].state # "none"
      BY <1>1, <3>1 DEF Creating
    <3>3. OptionsOf(job[r])' = OptionsOf(job[r])
      BY <2>6 DEF OptionsOf
    <3> QED
      BY <2>6, <2>8, <2>10, <3>2, <3>3 DEF Creating
  <2>13. ASSUME alone[r] PROVE Knowing(r)'
    <3>1. Knowing(r)
      BY <1>1, <2>13, InvTypes DEF Mine
    <3>2. Live(db[job[r].listing]) /\ (\A o \in OptionsOf(job[r]) : Live(db[o])) /\ Distinct(r)
      BY <1>1, <3>1 DEF Knowing
    <3>3. OptionsOf(job[r])' = OptionsOf(job[r]) /\ (Distinct(r)' <=> Distinct(r))
      BY <2>6 DEF OptionsOf, Distinct, Of, OptionSet
    <3> QED
      BY <2>6, <2>8, <3>2, <3>3 DEF Knowing
  <2>14. Mine(r)'
    <3>1. Found(r)' /\ Deleting(r)' /\ Running(r)'
      BY <1>1, <2>6, <2>8 DEF Found, Deleting, Deletions, Running
    <3>2. job'[r].op \in OpsAt(pc'[r])
      BY <1>1, <2>6, <2>8 DEF OpsAt
    <3> QED
      BY <2>6, <2>8, <2>11, <2>12, <2>13, <3>1, <3>2 DEF Mine
  <2>15. \A k \in Rows : Holds(r, k)' => Holds(r, k) \/ ~HeldByOther(r, k)
    BY <2>6, <2>10
  <2>16. job' \in [Request -> Job \cup {NoJob}]
    BY <2>5, <2>6
  <2> QED
    BY <1>1, <2>6, <2>7, <2>8, <2>14, <2>15, <2>16, OwnStep
<1> QED
  BY <1>2, <1>3

(* Nobody else configures the variant that a creation has inserted.        *)
LEMMA NewVariantIsMine ==
    ASSUME ListingsInv, NEW r \in Request, pc[r] \in {"configure", "commit"}, job[r].op = "createVariant",
           NEW o \in Option
    PROVE  /\ seen[r] \in Variant /\ db[seen[r]].state = "none" /\ Holds(r, seen[r])
           /\ ~HeldByOther(r, <<seen[r], o>>)
<1>1. Creating(r) /\ WritesOK(r)
  BY InvTypes DEF Mine
<1>2. seen[r] \in Variant /\ Holds(r, seen[r]) /\ seen[r] \in Rows
  BY <1>1, RowFacts DEF Creating
<1>3. VariantHeld(r, seen[r], pend[r][seen[r]], db[seen[r]])
  BY <1>1, <1>2 DEF WritesOK
<1>4. db[seen[r]].state = "none"
  BY <1>3 DEF VariantHeld, Deletions
<1>5. db[<<seen[r], o>>].state = "none"
  <2>1. RowsOK
    BY DEF ListingsInv
  <2> QED
    BY <1>2, <1>4, <2>1 DEF RowsOK
<1>6. ASSUME NEW s \in Request \ {r}, Holds(s, <<seen[r], o>>) PROVE FALSE
  <2>1. WritesOK(s)
    BY InvTypes
  <2>2. ConfigHeld(s, seen[r], o, pend[s][<<seen[r], o>>], db[<<seen[r], o>>])
    BY <1>2, <1>6, <2>1 DEF WritesOK
  <2>3. job[s].op = "createVariant" /\ pc[s] = "commit" /\ seen[s] = seen[r]
    BY <1>4, <1>5, <2>2 DEF ConfigHeld
  <2>4. Creating(s)
    BY <2>3, InvTypes DEF Mine
  <2>5. Holds(s, seen[r])
    BY <2>3, <2>4 DEF Creating
  <2> QED
    BY <1>2, <2>5, LocksHold
<1> QED
  BY <1>2, <1>4, <1>6 DEF HeldByOther

LEMMA InsertConfigsKeeps ==
    ASSUME ListingsInv, NEW r \in Request, InsertConfigs(r)
    PROVE  ListingsInv'
<1>1. /\ pc[r] = "configure" /\ job[r].op = "createVariant" /\ job[r] \in Job /\ Running(r)
  BY ListingJobs DEF InsertConfigs, OpsAt
<1>2. Creating(r) /\ WritesOK(r) /\ OptionsOf(job[r]) \subseteq Option
  BY <1>1, InvTypes, OptionsAre DEF Mine
<1>3. PICK v : v = seen[r]
  OBVIOUS
<1>4. v \in Variant /\ Holds(r, v)
  BY <1>1, <1>2, <1>3 DEF Creating
<1>5. PICK new : new = {<<v, o>> : o \in OptionsOf(job[r])}
  OBVIOUS
<1>6. PICK x : x = [state |-> "live", by |-> r]
  OBVIOUS
<1>7. x \in ConfigRow /\ Live(x) /\ x # None /\ x \in AnyRow
  <2>1. x \in ConfigRow /\ Live(x)
    BY <1>6 DEF ConfigRow, State, Live
  <2> QED
    BY <2>1, RowFacts DEF AnyRow
<1>8. PICK p : p = [k \in Rows |-> IF k \in new THEN x ELSE pend[r][k]]
  OBVIOUS
<1>9. /\ pend \in [Request -> [Rows -> AnyRow \cup {None}]]
      /\ pc \in [Request -> Label] /\ job \in [Request -> Job \cup {NoJob}] /\ DOMAIN seen = Request
  BY InvTypes
<1>10. /\ db' = db /\ odd' = odd /\ alone' = alone /\ job' = job /\ seen' = seen
       /\ pend' = [pend EXCEPT ![r] = p] /\ pc' = [pc EXCEPT ![r] = "commit"]
  BY <1>3, <1>5, <1>6, <1>8 DEF InsertConfigs, Goto, Calm
<1>11. p \in [Rows -> AnyRow \cup {None}]
  BY <1>7, <1>8, <1>9
<1>12. pend' \in [Request -> [Rows -> AnyRow \cup {None}]] /\ pc' \in [Request -> Label]
  BY <1>9, <1>10, <1>11 DEF Label
<1>13. /\ pc'[r] = "commit" /\ pend'[r] = p
       /\ \A s \in Request \ {r} : pend'[s] = pend[s] /\ pc'[s] = pc[s]
  BY <1>9, <1>10
<1>14. \A k \in Rows : /\ k \in new => pend'[r][k] = x
                       /\ k \notin new => pend'[r][k] = pend[r][k]
  BY <1>8, <1>13
<1>15. \A k \in new : k \in Config /\ \E o \in OptionsOf(job[r]) : k = <<v, o>>
  BY <1>2, <1>4, <1>5, RowFacts
<1>16. \A k \in Rows : /\ k \in new => Holds(r, k)'
                       /\ k \notin new => (Holds(r, k)' <=> Holds(r, k))
  BY <1>7, <1>14 DEF Holds
<1>17. \A k \in Rows : k \notin Config => pend'[r][k] = pend[r][k] /\ (Holds(r, k)' <=> Holds(r, k))
  BY <1>14, <1>15, <1>16
<1>18. \A w \in Variant, o \in Option : ~Holds(r, <<w, o>>)
  BY <1>1, <1>2 DEF WritesOK, ConfigHeld, Deletions
<1>19. WritesOK(r)'
  <2>1. \A l \in Listing : ~Holds(r, l)'
    <3>1. \A l \in Listing : ~Holds(r, l)
      BY <1>1, <1>2 DEF WritesOK, ListingHeld
    <3> QED
      BY <1>17, <3>1, RowFacts
  <2>2. (\A o \in Option : ~Holds(r, o)') /\ (\A t \in Kind : ~Holds(r, t)')
    <3>1. (\A o \in Option : ~Holds(r, o)) /\ (\A t \in Kind : ~Holds(r, t))
      BY <1>1, <1>2 DEF WritesOK, OptionHeld, KindHeld
    <3> QED
      BY <1>17, <3>1, RowFacts
  <2>3. ASSUME NEW w \in Variant, Holds(r, w)' PROVE VariantHeld(r, w, pend[r][w], db[w])'
    <3>1. Holds(r, w) /\ pend'[r][w] = pend[r][w]
      BY <1>17, <2>3, RowFacts
    <3>2. VariantHeld(r, w, pend[r][w], db[w])
      BY <1>2, <3>1 DEF WritesOK
    <3> QED
      BY <1>1, <1>10, <1>13, <3>1, <3>2 DEF VariantHeld, Deletions
  <2>4. ASSUME NEW w \in Variant, NEW o \in Option, Holds(r, <<w, o>>)'
        PROVE  ConfigHeld(r, w, o, pend[r][<<w, o>>], db[<<w, o>>])'
    <3>1. <<w, o>> \in Rows
      BY RowFacts
    <3>2. <<w, o>> \in new
      BY <1>16, <1>18, <2>4, <3>1
    <3>3. PICK q \in OptionsOf(job[r]) : <<w, o>> = <<v, q>>
      BY <1>15, <3>2
    <3>4. w = v /\ o = q
      BY <3>3
    <3>5. pend'[r][<<w, o>>] = x
      BY <1>14, <3>1, <3>2
    <3>6. OptionsOf(job[r])' = OptionsOf(job[r])
      BY <1>10 DEF OptionsOf
    <3>7. o \in OptionsOf(job[r])'
      BY <3>4, <3>6
    <3> QED
      BY <1>1, <1>3, <1>7, <1>10, <1>13, <3>4, <3>5, <3>7 DEF ConfigHeld
  <2>5. ASSUME NEW k \in Rows, Holds(r, k)' PROVE pend'[r][k] \in RowType(k)
    <3>1. CASE k \in new
      <4>1. RowType(k) = ConfigRow
        BY <1>15, <3>1, RowFacts
      <4> QED
        BY <1>7, <1>14, <3>1, <4>1
    <3>2. CASE k \notin new
      BY <1>2, <1>14, <1>16, <2>5, <3>2 DEF WritesOK
    <3> QED
      BY <3>1, <3>2
  <2> QED
    BY <2>1, <2>2, <2>3, <2>4, <2>5 DEF WritesOK
<1>20. OptionsOf(job[r])' = OptionsOf(job[r])
  BY <1>10 DEF OptionsOf
<1>21. Creating(r)'
  <2>1. OptionsOf(job[r]) # {} /\ \A o \in OptionsOf(job[r]) : db[o].state # "none"
    BY <1>1, <1>2 DEF Creating
  <2>2. Holds(r, v)'
    BY <1>4, <1>17, RowFacts
  <2>3. \A o \in OptionsOf(job[r]) : Holds(r, <<v, o>>)'
    <3>1. ASSUME NEW o \in OptionsOf(job[r]) PROVE Holds(r, <<v, o>>)'
      <4>1. <<v, o>> \in Rows /\ <<v, o>> \in new
        BY <1>2, <1>4, <1>5, RowFacts
      <4> QED
        BY <1>16, <4>1
    <3> QED
      BY <3>1
  <2> QED
    BY <1>3, <1>4, <1>10, <1>13, <1>20, <2>1, <2>2, <2>3 DEF Creating
<1>22. ASSUME alone[r] PROVE Knowing(r)'
  <2>1. Knowing(r)
    BY <1>1, <1>22, InvTypes DEF Mine
  <2>2. Live(db[job[r].listing]) /\ (\A o \in OptionsOf(job[r]) : Live(db[o])) /\ Distinct(r)
    BY <1>1, <2>1 DEF Knowing
  <2>3. Distinct(r)' <=> Distinct(r)
    BY <1>10, <1>20 DEF Distinct, Of, OptionSet
  <2> QED
    BY <1>10, <1>13, <1>20, <2>2, <2>3 DEF Knowing
<1>23. Mine(r)'
  <2>1. Found(r)' /\ Deleting(r)' /\ Running(r)'
    BY <1>1, <1>10, <1>13 DEF Found, Deleting, Deletions, Running
  <2>2. job'[r].op \in OpsAt(pc'[r])
    BY <1>1, <1>10, <1>13 DEF OpsAt
  <2> QED
    BY <1>10, <1>13, <1>19, <1>21, <1>22, <2>1, <2>2 DEF Mine
<1>24. ASSUME NEW k \in Rows, Holds(r, k)' PROVE Holds(r, k) \/ ~HeldByOther(r, k)
  <2>1. CASE k \in new
    <3>1. PICK o \in OptionsOf(job[r]) : k = <<v, o>>
      BY <1>15, <2>1
    <3> QED
      BY <1>1, <1>2, <1>3, <3>1, NewVariantIsMine
  <2>2. CASE k \notin new
    BY <1>16, <1>24, <2>2
  <2> QED
    BY <2>1, <2>2
<1>25. job' \in [Request -> Job \cup {NoJob}] /\ DOMAIN seen' = Request
  BY <1>9, <1>10
<1> QED
  BY <1>1, <1>10, <1>12, <1>13, <1>23, <1>24, <1>25, OwnStep

-----------------------------------------------------------------------------
(* Variants and their configurations.                                      *)

LEMMA ReadVariantKeeps ==
    ASSUME ListingsInv, NEW r \in Request, ReadVariant(r)
    PROVE  ListingsInv'
<1>1. /\ pc[r] = "variant" /\ Running(r) /\ job[r].op \in {"updateVariant", "deleteVariant"}
  BY ListingJobs DEF ReadVariant, OpsAt
<1>2. CASE Abandon(r)
  BY <1>1, <1>2, AbandonKeeps
<1>3. CASE ~Abandon(r)
  <2>1. PICK label : label = IF job[r].op = "updateVariant" THEN "reread" ELSE "remove"
    OBVIOUS
  <2>2. Read(r, View(r, job[r].variant), label) /\ Calm
    BY <1>3, <2>1 DEF ReadVariant
  <2>3. /\ pc' = [pc EXCEPT ![r] = label] /\ UNCHANGED <<db, pend, job>> /\ Calm
        /\ DOMAIN seen' = Request /\ \A s \in Request \ {r} : seen'[s] = seen[s]
        /\ pc'[r] = label /\ job' = job
    BY <2>2, InvTypes DEF Read, Keep, Goto
  <2>4. /\ label \in Label /\ label \notin {"new", "done", "failed"} /\ job[r].op \in OpsAt(label)
        /\ label \in {"reread", "remove"}
    BY <1>1, <2>1 DEF Label, OpsAt
  <2>5. Found(r)' /\ Deleting(r)'
    BY <2>3, <2>4 DEF Found, Deleting
  <2> QED
    BY <1>1, <2>3, <2>4, <2>5, Empty, QuietStep
<1> QED
  BY <1>2, <1>3

LEMMA RereadVariantKeeps ==
    ASSUME ListingsInv, NEW r \in Request, RereadVariant(r)
    PROVE  ListingsInv'
<1>1. pc[r] = "reread" /\ Running(r) /\ job[r].op = "updateVariant" /\ job[r].op \in Simple
  BY ListingJobs DEF RereadVariant, OpsAt, Simple
<1>2. CASE Abandon(r)
  BY <1>1, <1>2, AbandonKeeps
<1>3. CASE ~Abandon(r)
  <2>1. PICK label : label = IF job[r].stock = seen[r].stock THEN "commit" ELSE "stock"
    OBVIOUS
  <2>2. Continue(r, label) /\ Calm
    BY <1>3, <2>1 DEF RereadVariant
  <2>3. /\ pc' = [pc EXCEPT ![r] = label] /\ UNCHANGED <<db, pend, job>> /\ Calm
        /\ DOMAIN seen' = Request /\ \A s \in Request \ {r} : seen'[s] = seen[s]
    BY <2>2, InvTypes DEF Continue, Goto
  <2>4. /\ label \in Label \ {"new", "done", "failed"} /\ job[r].op \in OpsAt(label)
        /\ label \in {"commit", "stock"}
    BY <1>1, <2>1 DEF Label, OpsAt
  <2> QED
    BY <1>1, <2>3, <2>4, SimpleRead
<1> QED
  BY <1>2, <1>3

LEMMA WriteVariantKeeps ==
    ASSUME ListingsInv, NEW r \in Request, WriteVariant(r)
    PROVE  ListingsInv'
<1>1. /\ pc[r] = "stock" /\ Running(r) /\ job[r].op = "updateVariant" /\ job[r].op \in Simple
      /\ job[r] \in Job /\ job[r].variant \in Variant
  BY ListingJobs DEF WriteVariant, OpsAt, Simple
<1>2. CASE Abandon(r)
  BY <1>1, <1>2, AbandonKeeps
<1>3. CASE ~Abandon(r)
  <2>1. PICK v : v = job[r].variant
    OBVIOUS
  <2>2. /\ v \in Variant /\ v \in Rows /\ v \notin Listing /\ v \notin Option /\ v \notin Kind
        /\ v \notin Config /\ RowType(v) = VariantRow
    BY <1>1, <2>1, RowFacts
  <2>3. View(r, v) = db[v] /\ db[v] \in VariantRow
    BY <1>1, <2>2, Empty, DbTypes
  <2>4. job[r].stock \in Int
    <3>1. job[r] \in UpdateVariant
      BY <1>1, JobKinds
    <3> QED
      BY <3>1 DEF UpdateVariant
  <2>5. PICK x : x = [db[v] EXCEPT !.stock = job[r].stock]
    OBVIOUS
  <2>6. job[r].stock >= 0 /\ Write(r, v, x, "commit") /\ Calm
    BY <1>3, <2>1, <2>3, <2>5 DEF WriteVariant
  <2>7. x \in VariantRow /\ x.state = db[v].state /\ x.listing = db[v].listing
    BY <2>3, <2>4, <2>5, <2>6 DEF VariantRow
  <2>8. VariantHeld(r, v, x, db[v])
    BY <1>1, <2>7 DEF VariantHeld
  <2> QED
    BY <1>1, <2>2, <2>6, <2>7, <2>8, Empty, OneWritten
<1> QED
  BY <1>2, <1>3

LEMMA RemoveVariantKeeps ==
    ASSUME ListingsInv, NEW r \in Request, RemoveVariant(r)
    PROVE  ListingsInv'
<1>1. /\ pc[r] = "remove" /\ Running(r) /\ job[r].op = "deleteVariant" /\ job[r].op \in Deletions
      /\ job[r].variant \in Variant
  BY ListingJobs DEF RemoveVariant, OpsAt, Deletions
<1>2. CASE Abandon(r)
  BY <1>1, <1>2, AbandonKeeps
<1>3. CASE ~Abandon(r)
  <2>1. PICK v : v = job[r].variant
    OBVIOUS
  <2>2. /\ v \in Variant /\ v \in Rows /\ v \notin Listing /\ v \notin Option /\ v \notin Kind
        /\ v \notin Config /\ RowType(v) = VariantRow
    BY <1>1, <2>1, RowFacts
  <2>3. View(r, v) = db[v] /\ db[v] \in VariantRow
    BY <1>1, <2>2, Empty, DbTypes
  <2>4. PICK x : x = [db[v] EXCEPT !.state = "deleted"]
    OBVIOUS
  <2>5. /\ Live(db[v]) /\ WriteRow(r, v, x) /\ Keep(r, {v}) /\ Goto(r, "unconfigure")
        /\ UNCHANGED job /\ Calm
    BY <1>3, <2>1, <2>3, <2>4 DEF RemoveVariant
  <2>6. /\ x \in VariantRow /\ x.state = "deleted" /\ x.listing = db[v].listing /\ db[v].state # "none"
    BY <2>3, <2>4, <2>5 DEF VariantRow, State, Live
  <2>7. x # None /\ x \in AnyRow
    BY <2>6, RowFacts DEF AnyRow
  <2>8. /\ pend \in [Request -> [Rows -> AnyRow \cup {None}]]
        /\ pc \in [Request -> Label] /\ job \in [Request -> Job \cup {NoJob}] /\ DOMAIN seen = Request
    BY InvTypes
  <2>9. /\ db' = db /\ odd' = odd /\ alone' = alone /\ job' = job /\ seen' = [seen EXCEPT ![r] = {v}]
        /\ pend' = [pend EXCEPT ![r][v] = x] /\ pc' = [pc EXCEPT ![r] = "unconfigure"]
        /\ ~HeldByOther(r, v)
    BY <2>5 DEF WriteRow, Keep, Goto, Calm
  <2>10. pend' \in [Request -> [Rows -> AnyRow \cup {None}]] /\ pc' \in [Request -> Label]
    BY <2>7, <2>8, <2>9 DEF Label
  <2>11. /\ pc'[r] = "unconfigure" /\ pend'[r][v] = x /\ seen'[r] = {v} /\ DOMAIN seen' = Request
         /\ \A k \in Rows : k # v => pend'[r][k] = pend[r][k]
         /\ \A s \in Request \ {r} : pend'[s] = pend[s] /\ pc'[s] = pc[s] /\ seen'[s] = seen[s]
    BY <2>2, <2>8, <2>9
  <2>12. HoldsNothing(r)
    BY <1>1, Empty
  <2>13. Holds(r, v)' /\ \A k \in Rows : Holds(r, k)' => k = v
    BY <2>7, <2>11, <2>12 DEF Holds, HoldsNothing
  <2>14. WritesOK(r)'
    <3>1. VariantHeld(r, v, x, db[v])'
      BY <1>1, <2>6, <2>9, <2>11 DEF VariantHeld, Deletions
    <3>2. (\A l \in Listing : ~Holds(r, l)') /\ (\A o \in Option : ~Holds(r, o)')
      BY <2>2, <2>13, RowFacts
    <3>3. (\A t \in Kind : ~Holds(r, t)') /\ (\A w \in Variant, o \in Option : ~Holds(r, <<w, o>>)')
      BY <2>2, <2>13, RowFacts
    <3>4. \A w \in Variant : Holds(r, w)' => VariantHeld(r, w, pend[r][w], db[w])'
      BY <2>11, <2>13, <3>1, RowFacts
    <3>5. \A k \in Rows : Holds(r, k)' => pend'[r][k] \in RowType(k)
      BY <2>2, <2>6, <2>11, <2>13
    <3> QED
      BY <3>2, <3>3, <3>4, <3>5 DEF WritesOK
  <2>15. Deleting(r)'
    BY <1>1, <2>2, <2>6, <2>9, <2>11, <2>13 DEF Deleting
  <2>16. Mine(r)'
    <3>1. Found(r)' /\ Running(r)'
      BY <2>11 DEF Found, Running
    <3>2. job'[r].op \in OpsAt(pc'[r]) /\ job'[r].op # "createVariant"
      BY <1>1, <2>9, <2>11 DEF OpsAt
    <3> QED
      BY <2>11, <2>14, <2>15, <3>1, <3>2 DEF Mine
  <2>17. \A k \in Rows : Holds(r, k)' => Holds(r, k) \/ ~HeldByOther(r, k)
    BY <2>9, <2>13
  <2>18. job' \in [Request -> Job \cup {NoJob}]
    BY <2>8, <2>9
  <2> QED
    BY <1>1, <2>9, <2>10, <2>11, <2>16, <2>17, <2>18, OwnStep
<1> QED
  BY <1>2, <1>3

LEMMA ConfigJobs ==
    ASSUME ListingsInv, NEW r \in Request, pc[r] \in {"addConfig", "config", "touch", "dropConfig"}
    PROVE  /\ Running(r) /\ job[r].op \in OpsAt(pc[r]) /\ job[r].op \in Simple
           /\ job[r].op \in {"addConfig", "touchConfig", "dropConfig"} /\ HoldsNothing(r)
           /\ \E v \in Variant, o \in Option : job[r].config = <<v, o>>
<1>1. Running(r) /\ HoldsNothing(r)
  BY Empty DEF Running
<1>2. job[r] \in Job /\ job[r].op \in OpsAt(pc[r])
  BY <1>1, RunningOps
<1>3. job[r].op \in {"addConfig", "touchConfig", "dropConfig"}
  BY <1>2 DEF OpsAt
<1>4. job[r].config \in Config
  BY <1>2, <1>3, JobFields
<1> QED
  BY <1>1, <1>2, <1>3, <1>4 DEF Simple, Config

LEMMA ConfigWritten ==
    ASSUME ListingsInv, NEW r \in Request, pc[r] \in {"addConfig", "config", "touch", "dropConfig"},
           NEW v \in Variant, NEW o \in Option, job[r].config = <<v, o>>,
           NEW x \in ConfigRow, Write(r, <<v, o>>, x, "commit"), Calm,
           ConfigHeld(r, v, o, x, db[<<v, o>>])
    PROVE  ListingsInv'
<1>1. PICK k : k = <<v, o>>
  OBVIOUS
<1>2. /\ k \in Rows /\ k \notin Listing /\ k \notin Variant /\ k \notin Option /\ k \notin Kind
      /\ RowType(k) = ConfigRow
  BY <1>1, RowFacts
<1>3. k[1] = v /\ k[2] = o
  BY <1>1
<1>4. Write(r, k, x, "commit") /\ ConfigHeld(r, k[1], k[2], x, db[k]) /\ x \in RowType(k)
  BY <1>1, <1>2, <1>3
<1> QED
  BY <1>2, <1>4, ConfigJobs, OneWritten

LEMMA AddConfigKeeps ==
    ASSUME ListingsInv, NEW r \in Request, AddConfig(r)
    PROVE  ListingsInv'
<1>1. pc[r] = "addConfig" /\ Running(r) /\ job[r].op = "addConfig"
  BY ConfigJobs DEF AddConfig, OpsAt
<1>2. PICK v \in Variant, o \in Option : job[r].config = <<v, o>>
  BY <1>1, ConfigJobs
<1>3. CASE Abandon(r)
  BY <1>1, <1>3, AbandonKeeps
<1>4. CASE ~Abandon(r)
  <2>1. PICK x : x = [state |-> "live", by |-> r]
    OBVIOUS
  <2>2. <<v, o>>[1] = v /\ <<v, o>>[2] = o
    OBVIOUS
  <2>3. Write(r, <<v, o>>, x, "commit") /\ Calm /\ Exists(r, v) /\ Exists(r, o)
    BY <1>2, <1>4, <2>1, <2>2 DEF AddConfig
  <2>4. x \in ConfigRow /\ Live(x)
    BY <2>1 DEF ConfigRow, State, Live
  <2>5. View(r, v) = db[v] /\ View(r, o) = db[o]
    BY <1>1, Empty, RowFacts
  <2>6. ConfigHeld(r, v, o, x, db[<<v, o>>])
    BY <1>1, <1>2, <2>3, <2>4, <2>5 DEF ConfigHeld, Exists
  <2> QED
    BY <1>1, <1>2, <2>3, <2>4, <2>6, ConfigWritten
<1> QED
  BY <1>3, <1>4

LEMMA ReadConfigKeeps ==
    ASSUME ListingsInv, NEW r \in Request, ReadConfig(r)
    PROVE  ListingsInv'
<1>1. pc[r] = "config" /\ Running(r) /\ job[r].op = "touchConfig" /\ job[r].op \in Simple
  BY ConfigJobs DEF ReadConfig, OpsAt
<1>2. PICK v \in Variant, o \in Option : job[r].config = <<v, o>>
  BY <1>1, ConfigJobs
<1>3. CASE Abandon(r)
  BY <1>1, <1>3, AbandonKeeps
<1>4. CASE ~Abandon(r)
  <2>1. Live(View(r, job[r].config)) /\ Read(r, View(r, job[r].config), "touch") /\ Calm
    BY <1>4 DEF ReadConfig
  <2>2. /\ pc' = [pc EXCEPT ![r] = "touch"] /\ UNCHANGED <<db, pend, job>> /\ Calm
        /\ DOMAIN seen' = Request /\ \A s \in Request \ {r} : seen'[s] = seen[s]
    BY <2>1, InvTypes DEF Read, Keep, Goto
  <2>3. View(r, job[r].config) = db[job[r].config]
    BY <1>1, <1>2, SeesConfigs
  <2>4. db[job[r].config].state # "none"
    BY <2>1, <2>3 DEF Live
  <2>5. "touch" \in Label \ {"new", "done", "failed"} /\ job[r].op \in OpsAt("touch")
    BY <1>1 DEF Label, OpsAt
  <2> QED
    BY <1>1, <2>2, <2>4, <2>5, SimpleRead
<1> QED
  BY <1>3, <1>4

LEMMA TouchConfigKeeps ==
    ASSUME ListingsInv, NEW r \in Request, TouchConfig(r)
    PROVE  ListingsInv'
<1>1. pc[r] = "touch" /\ Running(r) /\ job[r].op = "touchConfig" /\ job[r].op \in Simple
  BY ConfigJobs DEF TouchConfig, OpsAt
<1>2. PICK v \in Variant, o \in Option : job[r].config = <<v, o>>
  BY <1>1, ConfigJobs
<1>3. CASE Continue(r, "commit")
  <2>1. /\ pc' = [pc EXCEPT ![r] = "commit"] /\ UNCHANGED <<db, pend, job>> /\ Calm
        /\ DOMAIN seen' = Request /\ \A s \in Request \ {r} : seen'[s] = seen[s]
    BY <1>3, InvTypes DEF TouchConfig, Continue, Goto
  <2>2. "commit" \in Label \ {"new", "done", "failed"} /\ job[r].op \in OpsAt("commit")
    BY <1>1 DEF Label, OpsAt
  <2> QED
    BY <1>1, <2>1, <2>2, SimpleRead
<1>4. CASE ~Continue(r, "commit")
  <2>1. View(r, <<v, o>>) = db[<<v, o>>] /\ db[<<v, o>>] \in ConfigRow
    BY <1>1, SeesConfigs, DbTypes
  <2>2. Write(r, <<v, o>>, db[<<v, o>>], "commit") /\ Calm
    BY <1>2, <1>4, <2>1 DEF TouchConfig
  <2>3. Found(r)
    BY InvTypes
  <2>4. db[<<v, o>>].state # "none"
    BY <1>1, <1>2, <2>3 DEF Found
  <2>5. ConfigHeld(r, v, o, db[<<v, o>>], db[<<v, o>>])
    BY <1>1, <2>4 DEF ConfigHeld
  <2> QED
    BY <1>1, <1>2, <2>1, <2>2, <2>5, ConfigWritten
<1> QED
  BY <1>3, <1>4

LEMMA DropConfigKeeps ==
    ASSUME ListingsInv, NEW r \in Request, DropConfig(r)
    PROVE  ListingsInv'
<1>1. pc[r] = "dropConfig" /\ Running(r) /\ job[r].op = "dropConfig"
  BY ConfigJobs DEF DropConfig, OpsAt
<1>2. PICK v \in Variant, o \in Option : job[r].config = <<v, o>>
  BY <1>1, ConfigJobs
<1>3. CASE Abandon(r)
  BY <1>1, <1>3, AbandonKeeps
<1>4. CASE ~Abandon(r)
  <2>1. View(r, <<v, o>>) = db[<<v, o>>] /\ db[<<v, o>>] \in ConfigRow
    BY <1>1, SeesConfigs, DbTypes
  <2>2. PICK x : x = [db[<<v, o>>] EXCEPT !.state = "deleted"]
    OBVIOUS
  <2>3. Live(db[<<v, o>>]) /\ Write(r, <<v, o>>, x, "commit") /\ Calm
    BY <1>2, <1>4, <2>1, <2>2 DEF DropConfig
  <2>4. x \in ConfigRow /\ x.state = "deleted" /\ db[<<v, o>>].state # "none"
    BY <2>1, <2>2, <2>3 DEF ConfigRow, State, Live
  <2>5. ConfigHeld(r, v, o, x, db[<<v, o>>])
    BY <1>1, <1>2, <2>4 DEF ConfigHeld
  <2> QED
    BY <1>1, <1>2, <2>3, <2>4, <2>5, ConfigWritten
<1> QED
  BY <1>3, <1>4

-----------------------------------------------------------------------------
(* What a commit changes.                                                  *)

LEMMA CommitStep ==
    ASSUME ListingsInv, NEW r \in Request, Commit(r)
    PROVE  /\ pc[r] = "commit" /\ Running(r) /\ job[r] \in Job /\ WritesOK(r) /\ Deleting(r)
           /\ DOMAIN db' = Rows
           /\ \A k \in Rows : /\ Holds(r, k) => db'[k] = pend[r][k]
                              /\ ~Holds(r, k) => db'[k] = db[k]
                              /\ db'[k] \in RowType(k)
           /\ pend' = [pend EXCEPT ![r] = [k \in Rows |-> None]] /\ pc' = [pc EXCEPT ![r] = "done"]
           /\ job' = [job EXCEPT ![r] = NoJob] /\ seen' = [seen EXCEPT ![r] = None]
           /\ alone' = alone
<1>1. /\ pc[r] = "commit" /\ Running(r) /\ db' = [k \in Rows |-> View(r, k)]
      /\ pend' = [pend EXCEPT ![r] = [k \in Rows |-> None]] /\ pc' = [pc EXCEPT ![r] = "done"]
      /\ job' = [job EXCEPT ![r] = NoJob] /\ seen' = [seen EXCEPT ![r] = None] /\ alone' = alone
  BY InvTypes DEF Commit, Finish, CommitWrites, NoWrites, End, Goto, Running
<1>2. job[r] \in Job /\ WritesOK(r) /\ Deleting(r)
  BY <1>1, RunningOps, InvTypes
<1>3. \A k \in Rows : db'[k] = View(r, k)
  BY <1>1
<1>4. \A k \in Rows : /\ Holds(r, k) => db'[k] = pend[r][k]
                      /\ ~Holds(r, k) => db'[k] = db[k]
                      /\ db'[k] \in RowType(k)
  BY <1>3, HeldTypes
<1>5. DOMAIN db' = Rows
  BY <1>1
<1> QED
  BY <1>1, <1>2, <1>4, <1>5

LEMMA CommitOdd ==
    ASSUME ListingsInv, NEW r \in Request, Commit(r)
    PROVE  /\ odd' \in [raced : SUBSET Variant, untyped : SUBSET Variant, edited : SUBSET Variant]
           /\ odd.raced \subseteq odd'.raced /\ odd.untyped \subseteq odd'.untyped
           /\ odd.edited \subseteq odd'.edited
           /\ job[r].op = "createVariant" /\ ~alone[r] => seen[r] \in odd'.raced
           /\ job[r].op = "createVariant" /\ (\E o \in OptionsOf(job[r]) : ~Live(db[db[o].kind])) =>
                seen[r] \in odd'.untyped
           /\ \A v \in Variant, o \in Option :
                job[r].op \in {"addConfig", "dropConfig"} /\ job[r].config = <<v, o>> => v \in odd'.edited
<1>1. pc[r] = "commit" /\ job[r] \in Job /\ WritesOK(r)
  BY CommitStep
<1>2. odd \in [raced : SUBSET Variant, untyped : SUBSET Variant, edited : SUBSET Variant]
  BY InvTypes
<1> DEFINE creating == job[r].op = "createVariant"
           untyped == creating /\ \E o \in OptionsOf(job[r]) : ~Live(View(r, View(r, o).kind))
           edited == job[r].op \in {"addConfig", "dropConfig"}
<1>3. odd' = [raced   |-> IF creating /\ ~alone[r] THEN odd.raced \cup {seen[r]} ELSE odd.raced,
              untyped |-> IF untyped THEN odd.untyped \cup {seen[r]} ELSE odd.untyped,
              edited  |-> IF edited THEN odd.edited \cup {job[r].config[1]} ELSE odd.edited]
  BY DEF Commit
<1>4. creating => seen[r] \in Variant
  BY <1>1, InvTypes DEF Mine, Creating
<1>5. edited => job[r].config[1] \in Variant
  BY <1>1, JobFields, RowFacts
<1>6. ASSUME creating, NEW o \in OptionsOf(job[r]), ~Live(db[db[o].kind]) PROVE untyped
  <2>1. o \in Option
    BY <1>1, <1>6, OptionsAre
  <2>2. \A p \in Option : ~Holds(r, p)
    BY <1>1, <1>6 DEF WritesOK, OptionHeld
  <2>3. \A t \in Kind : ~Holds(r, t)
    BY <1>1, <1>6 DEF WritesOK, KindHeld
  <2>4. View(r, o) = db[o] /\ db[o].kind \in Kind
    BY <2>1, <2>2, HeldTypes, DbTypes, RowFacts DEF OptionRow
  <2>5. View(r, db[o].kind) = db[db[o].kind]
    BY <2>3, <2>4, HeldTypes, RowFacts
  <2> QED
    BY <1>6, <2>4, <2>5
<1>7. /\ odd'.raced = IF creating /\ ~alone[r] THEN odd.raced \cup {seen[r]} ELSE odd.raced
      /\ odd'.untyped = IF untyped THEN odd.untyped \cup {seen[r]} ELSE odd.untyped
      /\ odd'.edited = IF edited THEN odd.edited \cup {job[r].config[1]} ELSE odd.edited
  BY <1>3
<1>8. odd' \in [raced : SUBSET Variant, untyped : SUBSET Variant, edited : SUBSET Variant]
  <2>1. untyped => seen[r] \in Variant
    BY <1>4
  <2> HIDE DEF untyped, creating, edited
  <2> QED
    BY <1>2, <1>3, <1>4, <1>5, <2>1
<1>9. creating /\ (\E o \in OptionsOf(job[r]) : ~Live(db[db[o].kind])) => seen[r] \in odd'.untyped
  <2>1. creating /\ (\E o \in OptionsOf(job[r]) : ~Live(db[db[o].kind])) => untyped
    BY <1>6
  <2> HIDE DEF untyped
  <2> QED
    BY <1>7, <2>1
<1>10. \A v \in Variant, o \in Option : edited /\ job[r].config = <<v, o>> => v \in odd'.edited
  <2>1. \A v \in Variant, o \in Option : <<v, o>>[1] = v
    OBVIOUS
  <2> QED
    BY <1>7, <2>1
<1>11. /\ odd.raced \subseteq odd'.raced /\ odd.untyped \subseteq odd'.untyped
       /\ odd.edited \subseteq odd'.edited
       /\ creating /\ ~alone[r] => seen[r] \in odd'.raced
  <2> HIDE DEF untyped, creating, edited
  <2> QED
    BY <1>7
<1> QED
  BY <1>8, <1>9, <1>10, <1>11

LEMMA CommitListings ==
    ASSUME ListingsInv, NEW r \in Request, Commit(r), NEW l \in Listing
    PROVE  /\ db[l].state # "none" => db'[l].state # "none"
           /\ Live(db[l]) => Live(db'[l]) \/ (job[r].op = "deleteListing" /\ l = job[r].listing)
<1>1. /\ WritesOK(r) /\ l \in Rows /\ (Holds(r, l) => db'[l] = pend[r][l])
      /\ (~Holds(r, l) => db'[l] = db[l])
  BY CommitStep, RowFacts
<1>2. Holds(r, l) => ListingHeld(r, l, db'[l], db[l])
  BY <1>1 DEF WritesOK
<1> QED
  BY <1>1, <1>2 DEF ListingHeld, Live

LEMMA CommitVariants ==
    ASSUME ListingsInv, NEW r \in Request, Commit(r), NEW v \in Variant
    PROVE  /\ db[v].state # "none" => db'[v].state # "none" /\ db'[v].listing = db[v].listing
           /\ Live(db'[v]) /\ ~Live(db[v]) =>
                /\ job[r].op = "createVariant" /\ v = seen[r] /\ db[v].state = "none"
                /\ db'[v].listing = job[r].listing
           /\ db'[v].state = "deleted" /\ db[v].state # "deleted" =>
                job[r].op \in Deletions /\ v \in seen[r]
           /\ job[r].op \in Deletions /\ v \in seen[r] => db'[v].state = "deleted"
           /\ job[r].op = "createVariant" /\ v = seen[r] =>
                db[v].state = "none" /\ Live(db'[v]) /\ Holds(r, v)
<1>1. /\ WritesOK(r) /\ v \in Rows /\ (Holds(r, v) => db'[v] = pend[r][v])
      /\ (~Holds(r, v) => db'[v] = db[v]) /\ pc[r] = "commit" /\ Deleting(r)
  BY CommitStep, RowFacts
<1>2. Holds(r, v) => VariantHeld(r, v, db'[v], db[v])
  BY <1>1 DEF WritesOK
<1>3. job[r].op = "createVariant" /\ v = seen[r] => Holds(r, v)
  BY <1>1, InvTypes DEF Mine, Creating
<1>4. job[r].op \in Deletions /\ v \in seen[r] => Holds(r, v)
  BY <1>1 DEF Deleting
<1> QED
  BY <1>1, <1>2, <1>3, <1>4 DEF VariantHeld, Deletions, Live

LEMMA CommitOptions ==
    ASSUME ListingsInv, NEW r \in Request, Commit(r), NEW o \in Option
    PROVE  /\ db[o].state # "none" => db'[o].state # "none"
           /\ db[o].state # "none" /\ Live(db'[o]) => Live(db[o])
           /\ job[r].op \notin {"editOption", "drop"} /\ Live(db[o]) => db'[o] = db[o]
           /\ db'[o].state # "none" => db[db'[o].kind].state # "none" /\ db'[o].kind \in Kind
<1>1. /\ WritesOK(r) /\ o \in Rows /\ (Holds(r, o) => db'[o] = pend[r][o])
      /\ (~Holds(r, o) => db'[o] = db[o]) /\ db'[o] \in OptionRow
  BY CommitStep, RowFacts
<1>2. Holds(r, o) => OptionHeld(r, db'[o], db[o])
  BY <1>1 DEF WritesOK
<1>3. db[o].state # "none" => db[db[o].kind].state # "none"
  BY DEF ListingsInv, RowsOK
<1>4. db'[o].kind \in Kind
  BY <1>1 DEF OptionRow
<1> QED
  BY <1>1, <1>2, <1>3, <1>4 DEF OptionHeld, Live

LEMMA CommitKinds ==
    ASSUME ListingsInv, NEW r \in Request, Commit(r), NEW t \in Kind
    PROVE  /\ db[t].state # "none" => db'[t].state # "none"
           /\ job[r].op # "drop" /\ db[t].state # "none" => db'[t].state = db[t].state
<1>1. /\ WritesOK(r) /\ t \in Rows /\ (Holds(r, t) => db'[t] = pend[r][t])
      /\ (~Holds(r, t) => db'[t] = db[t])
  BY CommitStep, RowFacts
<1>2. Holds(r, t) => KindHeld(r, db'[t], db[t])
  BY <1>1 DEF WritesOK
<1> QED
  BY <1>1, <1>2 DEF KindHeld, Live

LEMMA CommitConfigs ==
    ASSUME ListingsInv, NEW r \in Request, Commit(r), NEW v \in Variant, NEW o \in Option
    PROVE  /\ db[<<v, o>>].state # "none" => db'[<<v, o>>].state # "none"
           /\ db'[<<v, o>>].state # "none" => db'[v].state # "none" /\ db'[o].state # "none"
           /\ Live(db'[<<v, o>>]) /\ ~Live(db[<<v, o>>]) =>
                \/ job[r].op = "createVariant" /\ v = seen[r] /\ o \in OptionsOf(job[r])
                \/ job[r].op = "addConfig" /\ job[r].config = <<v, o>>
           /\ Live(db[<<v, o>>]) /\ ~Live(db'[<<v, o>>]) =>
                \/ job[r].op = "dropConfig" /\ job[r].config = <<v, o>>
                \/ job[r].op \in Deletions /\ v \in seen[r]
           /\ job[r].op = "createVariant" /\ v = seen[r] /\ o \in OptionsOf(job[r]) => Live(db'[<<v, o>>])
           /\ job[r].op \in Deletions /\ v \in seen[r] => ~Live(db'[<<v, o>>]) \/ v \in odd.edited
<1>1. PICK k : k = <<v, o>>
  OBVIOUS
<1>2. /\ WritesOK(r) /\ k \in Rows /\ (Holds(r, k) => db'[k] = pend[r][k])
      /\ (~Holds(r, k) => db'[k] = db[k]) /\ pc[r] = "commit" /\ Deleting(r)
  BY <1>1, CommitStep, RowFacts
<1>3. Holds(r, k) => ConfigHeld(r, v, o, db'[k], db[k])
  BY <1>1, <1>2 DEF WritesOK
<1>4. job[r].op = "createVariant" /\ v = seen[r] /\ o \in OptionsOf(job[r]) => Holds(r, k)
  BY <1>1, <1>2, InvTypes DEF Mine, Creating
<1>5. job[r].op \in Deletions /\ v \in seen[r] /\ Live(db[k]) => Holds(r, k) \/ v \in odd.edited
  BY <1>1, <1>2 DEF Deleting
<1>6. db[k].state # "none" => db[v].state # "none" /\ db[o].state # "none"
  BY <1>1 DEF ListingsInv, RowsOK
<1>7. db[k].state # "none" => db'[k].state # "none"
  BY <1>2, <1>3 DEF ConfigHeld, Live
<1>8. /\ db[v].state # "none" => db'[v].state # "none"
      /\ db[o].state # "none" => db'[o].state # "none"
  BY CommitVariants, CommitOptions
<1>9. db'[k].state # "none" => db'[v].state # "none" /\ db'[o].state # "none"
  <2>1. CASE db[k].state # "none"
    BY <1>6, <1>8, <2>1
  <2>2. CASE ~Holds(r, k)
    BY <1>2, <1>6, <1>8, <2>2
  <2>3. CASE Holds(r, k) /\ db[k].state = "none"
    <3>1. CASE job[r].op = "addConfig" /\ db[v].state # "none" /\ db[o].state # "none"
      BY <1>8, <3>1
    <3>2. CASE job[r].op = "createVariant" /\ v = seen[r] /\ o \in OptionsOf(job[r])
      <4>1. Live(db'[v])
        BY <3>2, CommitVariants
      <4>2. Creating(r)
        BY <3>2, InvTypes DEF Mine
      <4>3. db[o].state # "none"
        BY <1>2, <3>2, <4>2 DEF Creating
      <4> QED
        BY <1>8, <4>1, <4>3 DEF Live
    <3>3. CASE db'[k].state = "none"
      BY <3>3
    <3> QED
      BY <1>3, <2>3, <3>1, <3>2, <3>3 DEF ConfigHeld
  <2> QED
    BY <2>1, <2>2, <2>3
<1>10. Live(db'[k]) /\ ~Live(db[k]) =>
         \/ job[r].op = "createVariant" /\ v = seen[r] /\ o \in OptionsOf(job[r])
         \/ job[r].op = "addConfig" /\ job[r].config = <<v, o>>
  BY <1>2, <1>3 DEF ConfigHeld, Live
<1>11. Live(db[k]) /\ ~Live(db'[k]) =>
         \/ job[r].op = "dropConfig" /\ job[r].config = <<v, o>>
         \/ job[r].op \in Deletions /\ v \in seen[r]
  BY <1>2, <1>3 DEF ConfigHeld, Live
<1>12. job[r].op = "createVariant" /\ v = seen[r] /\ o \in OptionsOf(job[r]) => Live(db'[k])
  BY <1>2, <1>3, <1>4 DEF ConfigHeld, Deletions
<1>13. job[r].op \in Deletions /\ v \in seen[r] => ~Live(db'[k]) \/ v \in odd.edited
  BY <1>2, <1>3, <1>5 DEF ConfigHeld, Deletions, Live
<1> QED
  BY <1>1, <1>7, <1>9, <1>10, <1>11, <1>12, <1>13

-----------------------------------------------------------------------------
(* The others, when one commits.                                           *)

LEMMA CommitOthers ==
    ASSUME ListingsInv, NEW r \in Request, Commit(r), NEW s \in Request \ {r}
    PROVE  /\ pend'[s] = pend[s] /\ pc'[s] = pc[s] /\ job'[s] = job[s] /\ seen'[s] = seen[s]
           /\ \A k : Holds(s, k)' <=> Holds(s, k)
           /\ \A k \in Rows : Holds(s, k) => db'[k] = db[k]
<1>1. /\ pend' = [pend EXCEPT ![r] = [k \in Rows |-> None]] /\ pc' = [pc EXCEPT ![r] = "done"]
      /\ job' = [job EXCEPT ![r] = NoJob] /\ seen' = [seen EXCEPT ![r] = None]
  BY CommitStep
<1>2. pend'[s] = pend[s] /\ pc'[s] = pc[s] /\ job'[s] = job[s] /\ seen'[s] = seen[s]
  BY <1>1, InvTypes
<1>3. \A k : Holds(s, k)' <=> Holds(s, k)
  BY <1>2 DEF Holds
<1>4. \A k \in Rows : Holds(s, k) => db'[k] = db[k]
  BY CommitStep, LocksHold
<1> QED
  BY <1>2, <1>3, <1>4

LEMMA CommitWritesOK ==
    ASSUME ListingsInv, NEW r \in Request, Commit(r), NEW s \in Request \ {r}
    PROVE  WritesOK(s)'
<1>1. /\ pend'[s] = pend[s] /\ pc'[s] = pc[s] /\ job'[s] = job[s] /\ seen'[s] = seen[s]
      /\ \A k : Holds(s, k)' <=> Holds(s, k)
      /\ \A k \in Rows : Holds(s, k) => db'[k] = db[k]
  BY CommitOthers
<1>2. WritesOK(s)
  BY InvTypes
<1>3. ASSUME NEW l \in Listing, Holds(s, l)' PROVE ListingHeld(s, l, pend[s][l], db[l])'
  <2>1. ListingHeld(s, l, pend[s][l], db[l]) /\ db'[l] = db[l]
    BY <1>1, <1>2, <1>3, RowFacts DEF WritesOK
  <2> QED
    BY <1>1, <2>1 DEF ListingHeld
<1>4. ASSUME NEW v \in Variant, Holds(s, v)' PROVE VariantHeld(s, v, pend[s][v], db[v])'
  <2>1. VariantHeld(s, v, pend[s][v], db[v]) /\ db'[v] = db[v]
    BY <1>1, <1>2, <1>4, RowFacts DEF WritesOK
  <2> QED
    BY <1>1, <2>1 DEF VariantHeld
<1>5. ASSUME NEW o \in Option, Holds(s, o)' PROVE OptionHeld(s, pend[s][o], db[o])'
  <2>1. OptionHeld(s, pend[s][o], db[o]) /\ db'[o] = db[o] /\ pend[s][o] \in OptionRow
    BY <1>1, <1>2, <1>5, RowFacts DEF WritesOK
  <2>2. PICK t : t = pend[s][o].kind
    OBVIOUS
  <2>3. t \in Kind /\ db[t].state # "none"
    BY <2>1, <2>2 DEF OptionRow, OptionHeld
  <2>4. db'[t].state # "none"
    BY <2>3, CommitKinds
  <2>5. \/ job[s].op = "newOption" /\ db[o].state = "none" /\ Live(pend[s][o])
        \/ job[s].op = "editOption" /\ pend[s][o].state = db[o].state
        \/ job[s].op = "drop" /\ pend[s][o].state = "deleted"
    BY <2>1 DEF OptionHeld
  <2> QED
    BY <1>1, <2>1, <2>2, <2>4, <2>5 DEF OptionHeld
<1>6. ASSUME NEW t \in Kind, Holds(s, t)' PROVE KindHeld(s, pend[s][t], db[t])'
  <2>1. KindHeld(s, pend[s][t], db[t]) /\ db'[t] = db[t]
    BY <1>1, <1>2, <1>6, RowFacts DEF WritesOK
  <2> QED
    BY <1>1, <2>1 DEF KindHeld
<1>7. ASSUME NEW v \in Variant, NEW o \in Option, Holds(s, <<v, o>>)'
      PROVE  ConfigHeld(s, v, o, pend[s][<<v, o>>], db[<<v, o>>])'
  <2>1. ConfigHeld(s, v, o, pend[s][<<v, o>>], db[<<v, o>>]) /\ db'[<<v, o>>] = db[<<v, o>>]
    BY <1>1, <1>2, <1>7, RowFacts DEF WritesOK
  <2>2. (db[v].state # "none" => db'[v].state # "none") /\ (db[o].state # "none" => db'[o].state # "none")
    BY CommitVariants, CommitOptions
  <2>3. OptionsOf(job[s])' = OptionsOf(job[s])
    BY <1>1 DEF OptionsOf
  <2> QED
    BY <1>1, <2>1, <2>2, <2>3 DEF ConfigHeld
<1>8. \A k \in Rows : Holds(s, k)' => pend'[s][k] \in RowType(k)
  BY <1>1, <1>2 DEF WritesOK
<1> QED
  BY <1>3, <1>4, <1>5, <1>6, <1>7, <1>8 DEF WritesOK

LEMMA CommitFound ==
    ASSUME ListingsInv, NEW r \in Request, Commit(r), NEW s \in Request \ {r}
    PROVE  Found(s)'
<1>1. pc'[s] = pc[s] /\ job'[s] = job[s]
  BY CommitOthers
<1>2. Found(s)
  BY InvTypes
<1>3. CASE pc[s] = "update"
  <2>1. PICK l : l = job[s].listing
    OBVIOUS
  <2>2. l \in Listing /\ db[l].state # "none"
    BY <1>2, <1>3, <2>1, ListingJobs DEF Found
  <2>3. db'[l].state # "none"
    BY <2>2, CommitListings
  <2> QED
    BY <1>1, <1>3, <2>1, <2>3 DEF Found
<1>4. CASE pc[s] = "edit"
  <2>1. PICK k : k = job[s].row
    OBVIOUS
  <2>2. k \in Option \cup Kind /\ db[k].state # "none"
    BY <1>2, <1>4, <2>1, RowJobs DEF Found
  <2>3. db'[k].state # "none"
    BY <2>2, CommitOptions, CommitKinds
  <2> QED
    BY <1>1, <1>4, <2>1, <2>3 DEF Found
<1>5. CASE pc[s] = "touch"
  <2>1. PICK v \in Variant, o \in Option : job[s].config = <<v, o>>
    BY <1>5, ConfigJobs
  <2>2. db[<<v, o>>].state # "none"
    BY <1>2, <1>5, <2>1 DEF Found
  <2>3. db'[<<v, o>>].state # "none"
    BY <2>2, CommitConfigs
  <2> QED
    BY <1>1, <1>5, <2>1, <2>3 DEF Found
<1>6. CASE pc[s] \notin {"update", "edit", "touch"}
  BY <1>1, <1>6 DEF Found
<1> QED
  BY <1>3, <1>4, <1>5, <1>6

LEMMA CommitDeleting ==
    ASSUME ListingsInv, NEW r \in Request, Commit(r), NEW s \in Request \ {r}
    PROVE  Deleting(s)'
<1>1. /\ pc'[s] = pc[s] /\ job'[s] = job[s] /\ seen'[s] = seen[s]
      /\ \A k : Holds(s, k)' <=> Holds(s, k)
  BY CommitOthers
<1>2. Deleting(s) /\ odd.raced \subseteq odd'.raced /\ odd.edited \subseteq odd'.edited
  BY InvTypes, CommitOdd
<1>3. \A v \in Variant : db[v].state # "none" => db'[v].state # "none"
  BY CommitVariants
<1>4. ASSUME job[s].op = "deleteListing", pc[s] \in {"removeAll", "unconfigure", "unlist", "commit"}
      PROVE  Of(job[s].listing)' \subseteq seen[s] \cup odd'.raced
  <2> SUFFICES ASSUME NEW v \in Of(job[s].listing)' PROVE v \in seen[s] \cup odd'.raced
    OBVIOUS
  <2>1. v \in Variant /\ Live(db'[v]) /\ db'[v].listing = job[s].listing
    BY <1>1 DEF Of, Live
  <2>2. CASE Live(db[v])
    <3>1. db[v].listing = job[s].listing
      BY <2>1, <2>2, CommitVariants DEF Live
    <3>2. v \in Of(job[s].listing)
      BY <2>1, <2>2, <3>1 DEF Of
    <3>3. Of(job[s].listing) \subseteq seen[s] \cup odd.raced
      BY <1>2, <1>4 DEF Deleting
    <3> QED
      BY <1>2, <3>2, <3>3
  <2>3. CASE ~Live(db[v])
    <3>1. job[r].op = "createVariant" /\ v = seen[r] /\ job[r].listing = job[s].listing
      BY <2>1, <2>3, CommitVariants
    <3>2. Disturbs(job[s], job[r])
      BY <1>4, <3>1 DEF Disturbs
    <3>3. Running(r) /\ Running(s) /\ Undisturbed
      BY <1>4, CommitStep DEF Running, ListingsInv
    <3>4. ~alone[r]
      BY <3>2, <3>3 DEF Undisturbed
    <3> QED
      BY <3>1, <3>4, CommitOdd
  <2> QED
    BY <2>2, <2>3
<1>5. ASSUME job[s].op \in Deletions, pc[s] \in {"unlist", "commit"}, NEW v \in seen[s], NEW o \in Option,
             Live(db'[<<v, o>>])
      PROVE  Holds(s, <<v, o>>)' \/ v \in odd'.edited
  <2>1. job[s].op \in {"deleteListing", "deleteVariant"}
    BY <1>5 DEF Deletions
  <2>2. v \in Variant /\ Holds(s, v)
    <3>1. job[s].op = "deleteVariant" => pc[s] = "commit"
      <4>1. Running(s)
        BY <1>5 DEF Running
      <4>2. job[s].op \in OpsAt(pc[s])
        BY <4>1, RunningOps
      <4> QED
        BY <1>5, <4>2 DEF OpsAt
    <3> QED
      BY <1>2, <1>5, <2>1, <3>1 DEF Deleting
  <2>3. CASE Live(db[<<v, o>>])
    BY <1>1, <1>2, <1>5, <2>3 DEF Deleting
  <2>4. CASE ~Live(db[<<v, o>>])
    <3>1. \/ job[r].op = "createVariant" /\ v = seen[r]
          \/ job[r].op = "addConfig" /\ job[r].config = <<v, o>>
      BY <1>5, <2>2, <2>4, CommitConfigs
    <3>2. CASE job[r].op = "createVariant" /\ v = seen[r]
      <4>1. Holds(r, v)
        BY <2>2, <3>2, CommitVariants
      <4> QED
        BY <2>2, <4>1, LocksHold, RowFacts
    <3>3. CASE job[r].op = "addConfig" /\ job[r].config = <<v, o>>
      BY <2>2, <3>3, CommitOdd
    <3> QED
      BY <3>1, <3>2, <3>3
  <2> QED
    BY <2>3, <2>4
<1>6. (job[s].op = "deleteListing" /\ pc[s] \in {"removeAll", "unconfigure", "unlist", "commit"} =>
         /\ seen[s] \subseteq Variant
         /\ \A v \in seen[s] : db[v].state # "none"
         /\ Of(job[s].listing) \subseteq seen[s] \cup odd.raced)'
  <2> SUFFICES ASSUME job[s].op = "deleteListing",
                      pc[s] \in {"removeAll", "unconfigure", "unlist", "commit"}
               PROVE  /\ seen[s] \subseteq Variant /\ \A v \in seen[s] : db'[v].state # "none"
                      /\ Of(job[s].listing)' \subseteq seen[s] \cup odd'.raced
    BY <1>1
  <2>1. seen[s] \subseteq Variant /\ \A v \in seen[s] : db[v].state # "none"
    BY <1>2 DEF Deleting
  <2> QED
    BY <1>3, <1>4, <2>1
<1>7. (job[s].op = "deleteVariant" /\ pc[s] \in {"unconfigure", "commit"} =>
         seen[s] \subseteq Variant /\ \A v \in seen[s] : db[v].state # "none")'
  BY <1>1, <1>2, <1>3 DEF Deleting
<1>8. (job[s].op \in Deletions /\ pc[s] \in {"unconfigure", "unlist", "commit"} =>
         \A v \in seen[s] : Holds(s, v))'
  BY <1>1, <1>2 DEF Deleting
<1>9. (job[s].op \in Deletions /\ pc[s] \in {"unlist", "commit"} =>
         \A v \in seen[s], o \in Option :
             Live(db[<<v, o>>]) => Holds(s, <<v, o>>) \/ v \in odd.edited)'
  BY <1>1, <1>5
<1> QED
  BY <1>6, <1>7, <1>8, <1>9 DEF Deleting

LEMMA CommitCreating ==
    ASSUME ListingsInv, NEW r \in Request, Commit(r), NEW s \in Request \ {r}, job[s].op = "createVariant"
    PROVE  Creating(s)'
<1>1. /\ pc'[s] = pc[s] /\ job'[s] = job[s] /\ seen'[s] = seen[s]
      /\ \A k : Holds(s, k)' <=> Holds(s, k)
  BY CommitOthers
<1>2. Creating(s)
  BY InvTypes DEF Mine
<1>3. OptionsOf(job[s])' = OptionsOf(job[s])
  BY <1>1 DEF OptionsOf
<1>4. OptionsOf(job[s]) \subseteq Option
  <2>1. job[s] \in Job
    BY InvTypes DEF NoJob
  <2> QED
    BY <2>1, OptionsAre
<1>5. \A o \in OptionsOf(job[s]) : db[o].state # "none" => db'[o].state # "none"
  BY <1>4, CommitOptions
<1> QED
  BY <1>1, <1>2, <1>3, <1>5 DEF Creating

(* What a creation has read is not changed by what does not disturb it.    *)
LEMMA CalmCommit ==
    ASSUME ListingsInv, NEW r \in Request, Commit(r), NEW s \in Request \ {r},
           job[s].op = "createVariant", Running(s), alone[s]
    PROVE  /\ job[r].op \notin {"addConfig", "dropConfig", "editOption", "drop"}
           /\ Live(db[job[s].listing]) => Live(db'[job[s].listing])
           /\ \A o \in Option : Live(db[o]) => db'[o] = db[o]
           /\ \A v \in Of(job[s].listing)' : v \in Of(job[s].listing) /\ v \in Variant
           /\ \A v \in Of(job[s].listing)', o \in Option :
                (Live(db'[<<v, o>>]) <=> Live(db[<<v, o>>]))
           /\ \A v \in Of(job[s].listing)' : OptionSet(v)' = OptionSet(v)
<1>1. ~Disturbs(job[r], job[s])
  <2>1. Undisturbed /\ Running(r)
    BY CommitStep DEF ListingsInv
  <2> QED
    BY <2>1 DEF Undisturbed
<1>2. /\ job[r].op \notin {"addConfig", "dropConfig", "editOption", "drop"}
      /\ job[r].op \in {"createVariant", "deleteListing"} => job[r].listing # job[s].listing
  BY <1>1 DEF Disturbs
<1>3. PICK l : l = job[s].listing
  OBVIOUS
<1>4. l \in Listing /\ job'[s] = job[s]
  <2>1. job[s] \in Job
    BY RunningOps
  <2> QED
    BY <1>3, <2>1, JobFields, CommitOthers
<1>5. Live(db[l]) => Live(db'[l])
  BY <1>2, <1>3, <1>4, CommitListings
<1>6. \A o \in Option : Live(db[o]) => db'[o] = db[o]
  BY <1>2, CommitOptions
<1>7. ASSUME NEW v \in Of(job[s].listing)'
      PROVE  v \in Variant /\ Live(db'[v]) /\ Live(db[v]) /\ v \in Of(l)
  <2>1. v \in Variant /\ Live(db'[v]) /\ db'[v].listing = l
    BY <1>3, <1>4 DEF Of, Live
  <2>2. Live(db[v])
    BY <1>2, <1>3, <2>1, CommitVariants
  <2>3. db[v].listing = l
    BY <2>1, <2>2, CommitVariants DEF Live
  <2> QED
    BY <2>1, <2>2, <2>3 DEF Of
<1>8. ASSUME NEW v \in Of(job[s].listing)', NEW o \in Option
      PROVE  Live(db'[<<v, o>>]) <=> Live(db[<<v, o>>])
  <2>1. v \in Variant /\ Live(db'[v]) /\ Live(db[v])
    BY <1>7
  <2>2. ~(job[r].op = "createVariant" /\ v = seen[r])
    BY <2>1, CommitVariants DEF Live
  <2>3. ~(job[r].op \in Deletions /\ v \in seen[r])
    BY <2>1, CommitVariants DEF Live
  <2> QED
    BY <1>2, <2>1, <2>2, <2>3, CommitConfigs
<1>9. ASSUME NEW v \in Of(job[s].listing)' PROVE OptionSet(v)' = OptionSet(v)
  BY <1>8 DEF OptionSet, Live
<1> QED
  BY <1>2, <1>3, <1>5, <1>6, <1>7, <1>8, <1>9

LEMMA CommitKnowing ==
    ASSUME ListingsInv, NEW r \in Request, Commit(r), NEW s \in Request \ {r},
           job[s].op = "createVariant", Running(s), alone[s]
    PROVE  Knowing(s)'
<1>1. pc'[s] = pc[s] /\ job'[s] = job[s] /\ seen'[s] = seen[s]
  BY CommitOthers
<1>2. Knowing(s) /\ Creating(s)
  BY InvTypes DEF Mine
<1>3. OptionsOf(job[s])' = OptionsOf(job[s]) /\ OptionsOf(job[s]) \subseteq Option
  <2>1. job[s] \in Job
    BY RunningOps
  <2> QED
    BY <1>1, <2>1, OptionsAre DEF OptionsOf
<1>4. /\ job[r].op \notin {"addConfig", "dropConfig", "editOption", "drop"}
      /\ Live(db[job[s].listing]) => Live(db'[job[s].listing])
      /\ \A o \in Option : Live(db[o]) => db'[o] = db[o]
      /\ \A v \in Of(job[s].listing)' : v \in Of(job[s].listing) /\ v \in Variant
      /\ \A v \in Of(job[s].listing)', o \in Option :
           (Live(db'[<<v, o>>]) <=> Live(db[<<v, o>>]))
      /\ \A v \in Of(job[s].listing)' : OptionSet(v)' = OptionSet(v)
  BY CalmCommit
<1>5. (pc[s] # "listing" => Live(db[job[s].listing]))'
  BY <1>1, <1>2, <1>4 DEF Knowing
<1>6. (pc[s] \notin {"listing", "options"} => \A o \in OptionsOf(job[s]) : Live(db[o]))'
  BY <1>1, <1>2, <1>3, <1>4 DEF Knowing
<1>7. (pc[s] \in {"configs", "values", "kinds"} =>
         /\ DOMAIN seen[s] = {"ids", "configs", "values"}
         /\ Of(job[s].listing) \subseteq seen[s].ids /\ seen[s].ids \subseteq Variant)'
  <2> SUFFICES ASSUME pc[s] \in {"configs", "values", "kinds"}
               PROVE  /\ DOMAIN seen[s] = {"ids", "configs", "values"}
                      /\ Of(job[s].listing)' \subseteq seen[s].ids /\ seen[s].ids \subseteq Variant
    BY <1>1
  <2>1. /\ DOMAIN seen[s] = {"ids", "configs", "values"}
        /\ Of(job[s].listing) \subseteq seen[s].ids /\ seen[s].ids \subseteq Variant
    BY <1>2 DEF Knowing
  <2> QED
    BY <1>4, <2>1
<1>8. (pc[s] \in {"values", "kinds"} => seen[s].configs \subseteq Config)'
  BY <1>1, <1>2 DEF Knowing
<1>9. (pc[s] = "values" =>
         \A v \in Of(job[s].listing), o \in Option : <<v, o>> \in seen[s].configs <=> Live(db[<<v, o>>]))'
  <2> SUFFICES ASSUME pc[s] = "values", NEW v \in Of(job[s].listing)', NEW o \in Option
               PROVE  <<v, o>> \in seen[s].configs <=> Live(db'[<<v, o>>])
    BY <1>1
  <2>1. <<v, o>> \in seen[s].configs <=> Live(db[<<v, o>>])
    BY <1>2, <1>4 DEF Knowing
  <2> QED
    BY <1>4, <2>1
<1>10. (pc[s] = "kinds" =>
          /\ \A v \in Of(job[s].listing), o \in Option :
               <<v, o>> \in seen[s].configs <=> Live(db[<<v, o>>]) /\ Live(db[o])
          /\ \A p \in seen[s].configs : Live(db[p[2]]) /\ <<p[2], db[p[2]].kind>> \in seen[s].values
          /\ \A o \in Option, t \in Kind : <<o, t>> \in seen[s].values => Live(db[o]) /\ t = db[o].kind)'
  <2> SUFFICES ASSUME pc[s] = "kinds"
               PROVE  /\ \A v \in Of(job[s].listing)', o \in Option :
                           <<v, o>> \in seen[s].configs <=> Live(db'[<<v, o>>]) /\ Live(db'[o])
                      /\ \A p \in seen[s].configs :
                           Live(db'[p[2]]) /\ <<p[2], db'[p[2]].kind>> \in seen[s].values
                      /\ \A o \in Option, t \in Kind :
                           <<o, t>> \in seen[s].values => Live(db'[o]) /\ t = db'[o].kind
    BY <1>1
  <2>1. /\ seen[s].configs \subseteq Config
        /\ \A v \in Of(job[s].listing), o \in Option :
             <<v, o>> \in seen[s].configs <=> Live(db[<<v, o>>]) /\ Live(db[o])
        /\ \A p \in seen[s].configs : Live(db[p[2]]) /\ <<p[2], db[p[2]].kind>> \in seen[s].values
        /\ \A o \in Option, t \in Kind : <<o, t>> \in seen[s].values => Live(db[o]) /\ t = db[o].kind
    BY <1>2 DEF Knowing
  <2>2. ASSUME NEW v \in Of(job[s].listing)', NEW o \in Option
        PROVE  <<v, o>> \in seen[s].configs <=> Live(db'[<<v, o>>]) /\ Live(db'[o])
    <3>1. <<v, o>> \in seen[s].configs <=> Live(db[<<v, o>>]) /\ Live(db[o])
      BY <1>4, <2>1
    <3>2. v \in Variant /\ (Live(db'[<<v, o>>]) <=> Live(db[<<v, o>>]))
      BY <1>4
    <3>3. Live(db[<<v, o>>]) => db[o].state # "none"
      BY <3>2 DEF ListingsInv, RowsOK, Live
    <3>4. db[o].state # "none" => (Live(db'[o]) <=> Live(db[o]))
      BY <1>4, CommitOptions
    <3> QED
      BY <3>1, <3>2, <3>3, <3>4
  <2>3. ASSUME NEW p \in seen[s].configs
        PROVE  Live(db'[p[2]]) /\ <<p[2], db'[p[2]].kind>> \in seen[s].values
    <3>1. p[2] \in Option
      BY <2>1, RowFacts
    <3>2. Live(db[p[2]]) /\ <<p[2], db[p[2]].kind>> \in seen[s].values
      BY <2>1
    <3>3. db'[p[2]] = db[p[2]]
      BY <1>4, <3>1, <3>2
    <3> QED
      BY <3>2, <3>3
  <2>4. ASSUME NEW o \in Option, NEW t \in Kind, <<o, t>> \in seen[s].values
        PROVE  Live(db'[o]) /\ t = db'[o].kind
    <3>1. Live(db[o]) /\ t = db[o].kind
      BY <2>1, <2>4
    <3> QED
      BY <1>4, <3>1
  <2> QED
    BY <2>2, <2>3, <2>4
<1>11. (pc[s] \in {"store", "configure", "commit"} => Distinct(s))'
  <2> SUFFICES ASSUME pc[s] \in {"store", "configure", "commit"}, NEW v \in Of(job[s].listing)'
               PROVE  \/ OptionSet(v)' # OptionsOf(job[s])
                      \/ \E o \in OptionsOf(job[s]) : ~Live(db'[db'[o].kind])
    BY <1>1, <1>3 DEF Distinct, Live
  <2>1. Distinct(s) /\ \A o \in OptionsOf(job[s]) : Live(db[o])
    BY <1>2 DEF Knowing
  <2>2. CASE OptionSet(v) # OptionsOf(job[s])
    BY <1>4, <2>2
  <2>3. ASSUME NEW o \in OptionsOf(job[s]), ~Live(db[db[o].kind]) PROVE ~Live(db'[db'[o].kind])
    <3>1. o \in Option /\ db'[o] = db[o] /\ db[o].state # "none"
      BY <1>3, <1>4, <2>1 DEF Live
    <3>2. PICK t : t = db[o].kind
      OBVIOUS
    <3>3. t \in Kind /\ db[t].state # "none"
      BY <3>1, <3>2, DbTypes DEF OptionRow, ListingsInv, RowsOK
    <3>4. db'[t].state = db[t].state
      BY <1>4, <3>3, CommitKinds
    <3> QED
      BY <2>3, <3>1, <3>2, <3>4 DEF Live
  <2>4. v \in Of(job[s].listing)
    BY <1>4
  <2> QED
    BY <2>1, <2>2, <2>3, <2>4 DEF Distinct
<1> QED
  BY <1>5, <1>6, <1>7, <1>8, <1>9, <1>10, <1>11 DEF Knowing

LEMMA CommitMine ==
    ASSUME ListingsInv, NEW r \in Request, Commit(r), NEW s \in Request
    PROVE  Mine(s)'
<1>1. CASE s = r
  <2>1. /\ pend' = [pend EXCEPT ![r] = [k \in Rows |-> None]] /\ pc' = [pc EXCEPT ![r] = "done"]
        /\ job' = [job EXCEPT ![r] = NoJob]
    BY CommitStep
  <2>2. pend'[r] = [k \in Rows |-> None] /\ pc'[r] = "done" /\ job'[r] = NoJob
    BY <2>1, InvTypes
  <2>3. (\A k \in Rows : ~Holds(r, k)') /\ ~Running(r)' /\ job'[r].op = "none"
    BY <2>2 DEF Holds, Running, NoJob
  <2>4. WritesOK(r)'
    BY <2>3, RowFacts DEF WritesOK
  <2>5. Found(r)' /\ Deleting(r)'
    BY <2>2, <2>3 DEF Found, Deleting, Deletions
  <2> QED
    BY <1>1, <2>2, <2>3, <2>4, <2>5 DEF Mine, HoldsNothing
<1>2. CASE s # r
  <2>1. s \in Request \ {r}
    BY <1>2
  <2>2. /\ pend'[s] = pend[s] /\ pc'[s] = pc[s] /\ job'[s] = job[s] /\ seen'[s] = seen[s]
        /\ \A k : Holds(s, k)' <=> Holds(s, k)
    BY <2>1, CommitOthers
  <2>3. (HoldsNothing(s)' <=> HoldsNothing(s)) /\ (Running(s)' <=> Running(s))
    BY <2>2 DEF HoldsNothing, Running
  <2>4. Mine(s)
    BY InvTypes
  <2>5. job[s].op = "createVariant" => Running(s)
    BY <2>4 DEF Mine, NoJob
  <2>6. alone' = alone
    BY CommitStep
  <2>7. job[s].op = "createVariant" => Creating(s)' /\ (alone[s] => Knowing(s)')
    BY <2>1, <2>5, CommitCreating, CommitKnowing
  <2>8. WritesOK(s)' /\ Found(s)' /\ Deleting(s)'
    BY <2>1, CommitWritesOK, CommitFound, CommitDeleting
  <2> QED
    BY <2>2, <2>3, <2>4, <2>6, <2>7, <2>8 DEF Mine
<1> QED
  BY <1>1, <1>2

LEMMA CommitRowsOK ==
    ASSUME ListingsInv, NEW r \in Request, Commit(r)
    PROVE  RowsOK'
<1>1. \A v \in Variant, o \in Option :
        db'[<<v, o>>].state # "none" => db'[v].state # "none" /\ db'[o].state # "none"
  BY CommitConfigs
<1>2. ASSUME NEW o \in Option, db'[o].state # "none" PROVE db'[db'[o].kind].state # "none"
  <2>1. db'[o].kind \in Kind /\ db[db'[o].kind].state # "none"
    BY <1>2, CommitOptions
  <2>2. PICK t : t = db'[o].kind
    OBVIOUS
  <2> QED
    BY <2>1, <2>2, CommitKinds
<1> QED
  BY <1>1, <1>2 DEF RowsOK

(* The options of a variant that stays change only at an administrator's   *)
(* hand.                                                                   *)
LEMMA CommitOptionSet ==
    ASSUME ListingsInv, NEW r \in Request, Commit(r), NEW v \in Variant, Live(db[v]), Live(db'[v])
    PROVE  OptionSet(v)' = OptionSet(v) \/ v \in odd'.edited
<1> SUFFICES ASSUME v \notin odd'.edited PROVE OptionSet(v)' = OptionSet(v)
  OBVIOUS
<1>1. ASSUME NEW o \in Option PROVE Live(db'[<<v, o>>]) <=> Live(db[<<v, o>>])
  <2>1. ~(job[r].op = "createVariant" /\ v = seen[r])
    BY CommitVariants DEF Live
  <2>2. ~(job[r].op \in Deletions /\ v \in seen[r])
    BY CommitVariants DEF Live
  <2>3. ~(job[r].op \in {"addConfig", "dropConfig"} /\ job[r].config = <<v, o>>)
    BY CommitOdd
  <2> QED
    BY <2>1, <2>2, <2>3, CommitConfigs
<1> QED
  BY <1>1 DEF OptionSet, Live

LEMMA NewVariantDistinct ==
    ASSUME ListingsInv, NEW r \in Request, Commit(r), NEW v \in Variant, NEW w \in Variant, v # w,
           Live(db'[v]), Live(db'[w]), db'[v].listing = db'[w].listing, OptionSet(v)' = OptionSet(w)',
           ~Live(db[v])
    PROVE  {v, w} \cap (odd'.raced \cup odd'.untyped \cup odd'.edited) # {}
<1>1. /\ job[r].op = "createVariant" /\ v = seen[r] /\ db[v].state = "none"
      /\ db'[v].listing = job[r].listing
  BY CommitVariants
<1>2. Live(db[w]) /\ db[w].listing = job[r].listing
  <2>1. Live(db[w])
    BY <1>1, CommitVariants
  <2> QED
    BY <1>1, <2>1, CommitVariants DEF Live
<1>3. CASE ~alone[r] \/ \E o \in OptionsOf(job[r]) : ~Live(db[db[o].kind])
  BY <1>1, <1>3, CommitOdd
<1>4. CASE alone[r] /\ \A o \in OptionsOf(job[r]) : Live(db[db[o].kind])
  <2>1. pc[r] = "commit" /\ job[r] \in Job
    BY CommitStep
  <2>2. Knowing(r)
    BY <1>1, <1>4, InvTypes DEF Mine
  <2>3. OptionSet(w) # OptionsOf(job[r])
    BY <1>2, <1>4, <2>1, <2>2 DEF Knowing, Distinct, Of
  <2>4. OptionSet(v)' = OptionsOf(job[r])
    <3>1. OptionsOf(job[r]) \subseteq Option
      BY <1>1, <2>1, OptionsAre
    <3>2. ASSUME NEW o \in Option PROVE Live(db'[<<v, o>>]) <=> o \in OptionsOf(job[r])
      <4>1. db[<<v, o>>].state = "none"
        BY <1>1 DEF ListingsInv, RowsOK
      <4> QED
        BY <1>1, <4>1, CommitConfigs DEF Live
    <3> QED
      BY <3>1, <3>2 DEF OptionSet, Live
  <2>5. OptionSet(w)' = OptionSet(w) \/ w \in odd'.edited
    BY <1>2, CommitOptionSet
  <2> QED
    BY <2>3, <2>4, <2>5
<1> QED
  BY <1>3, <1>4

LEMMA CommitDistinct ==
    ASSUME ListingsInv, NEW r \in Request, Commit(r)
    PROVE  OptionSetsDistinct'
<1> SUFFICES ASSUME NEW v \in Variant, NEW w \in Variant, v # w, Live(db'[v]), Live(db'[w]),
                    db'[v].listing = db'[w].listing, OptionSet(v)' = OptionSet(w)'
             PROVE  {v, w} \cap (odd'.raced \cup odd'.untyped \cup odd'.edited) # {}
  BY DEF OptionSetsDistinct, Live
<1>1. CASE ~Live(db[v])
  BY <1>1, NewVariantDistinct
<1>2. CASE ~Live(db[w])
  <2>1. {w, v} \cap (odd'.raced \cup odd'.untyped \cup odd'.edited) # {}
    BY <1>2, NewVariantDistinct
  <2> QED
    BY <2>1
<1>3. CASE Live(db[v]) /\ Live(db[w])
  <2>1. db[v].listing = db[w].listing
    BY <1>3, CommitVariants DEF Live
  <2>2. OptionSet(v)' = OptionSet(v) \/ v \in odd'.edited
    BY <1>3, CommitOptionSet
  <2>3. OptionSet(w)' = OptionSet(w) \/ w \in odd'.edited
    BY <1>3, CommitOptionSet
  <2>4. OptionSet(v) = OptionSet(w) => {v, w} \cap (odd.raced \cup odd.untyped \cup odd.edited) # {}
    BY <1>3, <2>1 DEF ListingsInv, OptionSetsDistinct
  <2>5. /\ odd.raced \subseteq odd'.raced /\ odd.untyped \subseteq odd'.untyped
        /\ odd.edited \subseteq odd'.edited
    BY CommitOdd
  <2> QED
    BY <2>2, <2>3, <2>4, <2>5
<1> QED
  BY <1>1, <1>2, <1>3

LEMMA CommitCleared ==
    ASSUME ListingsInv, NEW r \in Request, Commit(r)
    PROVE  NothingLeftBehind'
<1>1. NothingLeftBehind /\ odd.raced \subseteq odd'.raced /\ odd.edited \subseteq odd'.edited
  BY CommitOdd DEF ListingsInv
<1>2. ASSUME NEW v \in Variant, db'[v].state = "deleted", v \notin odd'.edited
      PROVE  OptionSet(v)' = {}
  <2> SUFFICES ASSUME NEW o \in Option, Live(db'[<<v, o>>]) PROVE FALSE
    BY DEF OptionSet, Live
  <2>1. CASE db[v].state = "deleted"
    <3>1. ~Live(db[<<v, o>>])
      BY <1>1, <1>2, <2>1 DEF NothingLeftBehind, OptionSet
    <3>2. ~(job[r].op = "createVariant" /\ v = seen[r])
      BY <2>1, CommitVariants
    <3>3. job[r].op = "addConfig" /\ job[r].config = <<v, o>>
      BY <3>1, <3>2, CommitConfigs
    <3> QED
      BY <1>2, <3>3, CommitOdd
  <2>2. CASE db[v].state # "deleted"
    <3>1. job[r].op \in Deletions /\ v \in seen[r]
      BY <1>2, <2>2, CommitVariants
    <3> QED
      BY <1>1, <1>2, <3>1, CommitConfigs
  <2> QED
    BY <2>1, <2>2
<1>3. ASSUME NEW v \in Variant, Live(db'[v]), v \notin odd'.raced
      PROVE  Live(db'[db'[v].listing])
  <2>1. PICK l : l = db'[v].listing
    OBVIOUS
  <2>2. l \in Listing
    <3>1. db'[v] \in VariantRow
      BY CommitStep, RowFacts
    <3> QED
      BY <2>1, <3>1 DEF VariantRow
  <2>3. CASE Live(db[v])
    <3>1. db[v].listing = l
      BY <2>1, <2>3, CommitVariants DEF Live
    <3>2. Live(db[l])
      BY <1>1, <1>3, <2>3, <3>1 DEF NothingLeftBehind
    <3>3. ASSUME job[r].op = "deleteListing", l = job[r].listing PROVE FALSE
      <4>1. Of(l) \subseteq seen[r] \cup odd.raced
        BY <3>3, CommitStep DEF Deleting
      <4>2. v \in Of(l)
        BY <2>3, <3>1 DEF Of
      <4>3. v \in seen[r]
        BY <1>1, <1>3, <4>1, <4>2
      <4>4. job[r].op \in Deletions
        BY <3>3 DEF Deletions
      <4> QED
        BY <1>3, <4>3, <4>4, CommitVariants DEF Live
    <3> QED
      BY <2>1, <2>2, <3>2, <3>3, CommitListings
  <2>4. CASE ~Live(db[v])
    <3>1. job[r].op = "createVariant" /\ v = seen[r] /\ l = job[r].listing
      BY <1>3, <2>1, <2>4, CommitVariants
    <3>2. alone[r]
      BY <1>3, <3>1, CommitOdd
    <3>3. Knowing(r)
      BY <3>1, <3>2, InvTypes DEF Mine
    <3>4. Live(db[l])
      BY <3>1, <3>3, CommitStep DEF Knowing
    <3> QED
      BY <2>1, <2>2, <3>1, <3>4, CommitListings
  <2> QED
    BY <2>3, <2>4
<1> QED
  BY <1>2, <1>3 DEF NothingLeftBehind, Live

LEMMA CommitKeeps ==
    ASSUME ListingsInv, NEW r \in Request, Commit(r)
    PROVE  ListingsInv'
<1>1. /\ DOMAIN db' = Rows /\ \A k \in Rows : db'[k] \in RowType(k)
  BY CommitStep
<1>2. db' \in [Rows -> AnyRow]
  <2>1. db' = [k \in Rows |-> View(r, k)]
    BY InvTypes DEF Commit, Finish, CommitWrites
  <2>2. \A k \in Rows : View(r, k) \in AnyRow
    <3>1. ASSUME NEW k \in Rows PROVE View(r, k) \in AnyRow
      <4>1. View(r, k) \in RowType(k) /\ RowType(k) \subseteq AnyRow
        BY HeldTypes, RowFacts
      <4> QED
        BY <4>1
    <3> QED
      BY <3>1
  <2> QED
    BY <2>1, <2>2
<1>3. /\ pend' = [pend EXCEPT ![r] = [k \in Rows |-> None]] /\ pc' = [pc EXCEPT ![r] = "done"]
      /\ job' = [job EXCEPT ![r] = NoJob] /\ seen' = [seen EXCEPT ![r] = None]
      /\ alone' = alone
  BY CommitStep
<1>4. /\ pend' \in [Request -> [Rows -> AnyRow \cup {None}]] /\ pc' \in [Request -> Label]
      /\ job' \in [Request -> Job \cup {NoJob}] /\ DOMAIN seen' = Request
      /\ alone' \in [Request -> BOOLEAN]
  BY <1>3, InvTypes DEF Label
<1>5. odd' \in [raced : SUBSET Variant, untyped : SUBSET Variant, edited : SUBSET Variant]
  BY CommitOdd
<1>6. pend'[r] = [k \in Rows |-> None] /\ pc'[r] = "done"
  BY <1>3, InvTypes
<1>7. RowLocksExclusive'
  <2> SUFFICES ASSUME NEW p \in Request, NEW q \in Request, NEW k \in Rows, Holds(p, k)', Holds(q, k)'
               PROVE  p = q
    BY <1>1 DEF RowLocksExclusive, Row
  <2>1. p # r /\ q # r
    BY <1>6 DEF Holds
  <2>2. Holds(p, k) /\ Holds(q, k)
    BY <2>1, CommitOthers
  <2> QED
    BY <2>2, LocksHold
<1>8. Undisturbed'
  <2> SUFFICES ASSUME NEW p \in Request, NEW q \in Request, p # q, Running(p)', Running(q)', alone'[p]
               PROVE  ~Disturbs(job'[q], job'[p])
    BY DEF Undisturbed
  <2>1. p # r /\ q # r
    BY <1>6 DEF Running
  <2>2. pc'[p] = pc[p] /\ pc'[q] = pc[q] /\ job'[p] = job[p] /\ job'[q] = job[q]
    BY <2>1, CommitOthers
  <2> QED
    BY <1>3, <2>2 DEF ListingsInv, Undisturbed, Running
<1>9. RowsOK' /\ OptionSetsDistinct' /\ NothingLeftBehind'
  BY CommitRowsOK, CommitDistinct, CommitCleared
<1>10. \A s \in Request : Mine(s)'
  BY CommitMine
<1> QED
  BY <1>1, <1>2, <1>4, <1>5, <1>7, <1>8, <1>9, <1>10 DEF ListingsInv

-----------------------------------------------------------------------------
(* Arrivals, the initial state, and every step.                            *)

LEMMA ArriveAtKeeps ==
    ASSUME ListingsInv, NEW r \in Request, NEW ops, NEW label \in Label,
           label \notin {"new", "done", "failed", "unconfigure", "unlist", "configure", "commit", "update",
                         "edit", "touch"},
           ops \subseteq OpsAt(label), "createVariant" \in ops => label = "listing",
           label \notin {"removeAll"},
           ArriveAt(r, ops, label)
    PROVE  ListingsInv'
<1>1. PICK j : j \in Asked[r] /\ j.op \in ops /\ job' = [job EXCEPT ![r] = j]
  BY DEF ArriveAt, Begin
<1>2. /\ pc[r] = "new" /\ pc' = [pc EXCEPT ![r] = label] /\ UNCHANGED <<db, pend, seen, odd>>
      /\ alone' = [s \in Request |->
           LET others == {t \in Request \ {s} : Running(t) \/ t = r} IN
           /\ alone[s]
           /\ (Running(s) \/ s = r) => \A t \in others : ~Disturbs(job'[t], job'[s])]
  BY DEF ArriveAt, Begin, Goto
<1>3. /\ pend \in [Request -> [Rows -> AnyRow \cup {None}]]
      /\ pc \in [Request -> Label] /\ job \in [Request -> Job \cup {NoJob}] /\ DOMAIN seen = Request
      /\ alone \in [Request -> BOOLEAN] /\ Mine(r)
  BY InvTypes
<1>4. j \in Job
  BY <1>1, ListingsAssumption
<1>5. /\ pc'[r] = label /\ job'[r] = j /\ \A s \in Request \ {r} : pc'[s] = pc[s] /\ job'[s] = job[s]
      /\ pc' \in [Request -> Label] /\ job' \in [Request -> Job \cup {NoJob}]
  BY <1>1, <1>2, <1>3, <1>4
<1>6. \A s \in Request : /\ alone'[s] \in BOOLEAN /\ (alone'[s] => alone[s])
                         /\ alone'[s] /\ (Running(s) \/ s = r) =>
                              \A t \in Request \ {s} : Running(t) \/ t = r => ~Disturbs(job'[t], job'[s])
  <2>1. ASSUME NEW s \in Request
        PROVE  alone'[s] = (/\ alone[s]
                            /\ (Running(s) \/ s = r) =>
                                 \A t \in {t \in Request \ {s} : Running(t) \/ t = r} :
                                    ~Disturbs(job'[t], job'[s]))
    BY <1>2
  <2>2. alone \in [Request -> BOOLEAN]
    BY <1>3
  <2> QED
    BY <2>1, <2>2
<1>7. alone' \in [Request -> BOOLEAN]
  <2>1. DOMAIN alone' = Request
    BY <1>2
  <2>2. alone' = [s \in Request |-> alone'[s]]
    BY <1>2
  <2> QED
    BY <1>6, <2>2
<1>8. Running(r)' /\ ~Running(r)
  BY <1>2, <1>5 DEF Running
<1>9. HoldsNothing(r)'
  <2>1. HoldsNothing(r)
    BY <1>3, <1>8 DEF Mine
  <2> QED
    BY <1>2, <2>1 DEF HoldsNothing, Holds
<1>10. Mine(r)'
  <2>1. WritesOK(r)'
    BY <1>9, RowFacts DEF WritesOK, HoldsNothing
  <2>2. Found(r)' /\ Deleting(r)'
    BY <1>5 DEF Found, Deleting
  <2>3. job'[r].op \in OpsAt(pc'[r])
    BY <1>1, <1>5
  <2>4. ASSUME job'[r].op = "createVariant" PROVE Creating(r)' /\ Knowing(r)'
    <3>1. pc'[r] = "listing"
      BY <1>1, <1>5, <2>4
    <3> QED
      BY <3>1 DEF Creating, Knowing
  <2> QED
    BY <1>5, <1>8, <1>9, <2>1, <2>2, <2>3, <2>4 DEF Mine
<1>11. ASSUME NEW s \in Request PROVE Mine(s)'
  <2>1. CASE s = r
    BY <1>10, <2>1
  <2>2. CASE s # r
    <3>1. Mine(s)
      BY InvTypes
    <3> QED
      BY <1>2, <1>5, <1>6, <2>2, <3>1, OthersStay
  <2> QED
    BY <2>1, <2>2
<1>12. RowLocksExclusive' /\ RowsOK'
  BY <1>2 DEF ListingsInv, RowLocksExclusive, RowsOK, Holds, Row
<1>13. OptionSetsDistinct' /\ NothingLeftBehind'
  <2>1. \A v : OptionSet(v)' = OptionSet(v)
    BY <1>2 DEF OptionSet, Live
  <2>2. OptionSetsDistinct'
    BY <1>2, <2>1 DEF ListingsInv, OptionSetsDistinct
  <2>3. NothingLeftBehind'
    BY <1>2, <2>1 DEF ListingsInv, NothingLeftBehind
  <2> QED
    BY <2>2, <2>3
<1>14. Undisturbed'
  <2> SUFFICES ASSUME NEW p \in Request, NEW q \in Request, p # q, Running(p)', Running(q)', alone'[p]
               PROVE  ~Disturbs(job'[q], job'[p])
    BY DEF Undisturbed
  <2>1. (Running(p) \/ p = r) /\ (Running(q) \/ q = r)
    BY <1>5 DEF Running
  <2> QED
    BY <1>6, <2>1
<1>15. /\ db \in [Rows -> AnyRow] /\ \A k \in Rows : db[k] \in RowType(k)
       /\ odd \in [raced : SUBSET Variant, untyped : SUBSET Variant, edited : SUBSET Variant]
  BY InvTypes
<1> QED
  BY <1>2, <1>3, <1>5, <1>7, <1>11, <1>12, <1>13, <1>14, <1>15 DEF ListingsInv

LEMMA ArriveKeeps ==
    ASSUME ListingsInv, NEW r \in Request, Arrive(r)
    PROVE  ListingsInv'
<1>1. CASE ArriveAt(r, {"createListing", "newOption", "newKind"}, "insert")
  BY <1>1, ArriveAtKeeps DEF OpsAt, Label
<1>2. CASE ArriveAt(r, {"updateListing", "deleteListing", "createVariant", "updateVariant",
                        "deleteVariant"}, "listing")
  BY <1>2, ArriveAtKeeps DEF OpsAt, Label
<1>3. CASE ArriveAt(r, {"addConfig"}, "addConfig")
  BY <1>3, ArriveAtKeeps DEF OpsAt, Label
<1>4. CASE ArriveAt(r, {"touchConfig"}, "config")
  BY <1>4, ArriveAtKeeps DEF OpsAt, Label
<1>5. CASE ArriveAt(r, {"dropConfig"}, "dropConfig")
  BY <1>5, ArriveAtKeeps DEF OpsAt, Label
<1>6. CASE ArriveAt(r, {"editOption", "editKind"}, "row")
  BY <1>6, ArriveAtKeeps DEF OpsAt, Label
<1>7. CASE ArriveAt(r, {"drop"}, "drop")
  BY <1>7, ArriveAtKeeps DEF OpsAt, Label
<1>8. CASE ArriveAt(r, {"close"}, "close")
  BY <1>8, ArriveAtKeeps DEF OpsAt, Label
<1> QED
  BY <1>1, <1>2, <1>3, <1>4, <1>5, <1>6, <1>7, <1>8 DEF Arrive

LEMMA NextKeeps ==
    ASSUME ListingsInv, [Next]_vars
    PROVE  ListingsInv'
<1>1. ASSUME NEW r \in Request, Arrive(r) PROVE ListingsInv'
  BY <1>1, ArriveKeeps
<1>2. ASSUME NEW r \in Request, InsertRow(r) \/ ReadRow(r) \/ EditRow(r) \/ DropRow(r) \/ CloseShop(r)
      PROVE  ListingsInv'
  BY <1>2, InsertRowKeeps, ReadRowKeeps, EditRowKeeps, DropRowKeeps, CloseShopKeeps
<1>3. ASSUME NEW r \in Request, ReadListing(r) \/ ReloadListing(r) \/ WriteListing(r)
      PROVE  ListingsInv'
  BY <1>3, ReadListingKeeps, ReloadListingKeeps, WriteListingKeeps
<1>4. ASSUME NEW r \in Request,
             ListVariants(r) \/ RemoveVariants(r) \/ RemoveConfigs(r) \/ RemoveListing(r)
      PROVE  ListingsInv'
  BY <1>4, ListVariantsKeeps, RemoveVariantsKeeps, RemoveConfigsKeeps, RemoveListingKeeps
<1>5. ASSUME NEW r \in Request,
             ValidateOptions(r) \/ ReadSiblings(r) \/ ReadConfigs(r) \/ ReadValues(r) \/ ReadKinds(r)
      PROVE  ListingsInv'
  BY <1>5, ValidateOptionsKeeps, ReadSiblingsKeeps, ReadConfigsKeeps, ReadValuesKeeps, ReadKindsKeeps
<1>6. ASSUME NEW r \in Request, InsertVariant(r) \/ InsertConfigs(r) PROVE ListingsInv'
  BY <1>6, InsertVariantKeeps, InsertConfigsKeeps
<1>7. ASSUME NEW r \in Request,
             ReadVariant(r) \/ RereadVariant(r) \/ WriteVariant(r) \/ RemoveVariant(r)
      PROVE  ListingsInv'
  BY <1>7, ReadVariantKeeps, RereadVariantKeeps, WriteVariantKeeps, RemoveVariantKeeps
<1>8. ASSUME NEW r \in Request, AddConfig(r) \/ ReadConfig(r) \/ TouchConfig(r) \/ DropConfig(r)
      PROVE  ListingsInv'
  BY <1>8, AddConfigKeeps, ReadConfigKeeps, TouchConfigKeeps, DropConfigKeeps
<1>9. ASSUME NEW r \in Request, Commit(r) \/ ConnectionLost(r) PROVE ListingsInv'
  BY <1>9, CommitKeeps, AbandonKeeps DEF ConnectionLost
<1>10. ASSUME UNCHANGED vars PROVE ListingsInv'
  <2>1. /\ db' = db /\ pend' = pend /\ pc' = pc /\ job' = job /\ seen' = seen /\ alone' = alone
        /\ odd' = odd
    BY <1>10 DEF vars
  <2>2. \A s \in Request : Mine(s)'
    BY <2>1, InvTypes, OthersStay
  <2>3. RowLocksExclusive' /\ RowsOK'
    BY <2>1 DEF ListingsInv, RowLocksExclusive, RowsOK, Holds, Row
  <2>4. \A v : OptionSet(v)' = OptionSet(v)
    BY <2>1 DEF OptionSet, Live
  <2>5. OptionSetsDistinct'
    BY <2>1, <2>4 DEF ListingsInv, OptionSetsDistinct
  <2>6. NothingLeftBehind'
    BY <2>1, <2>4 DEF ListingsInv, NothingLeftBehind
  <2>7. Undisturbed'
    BY <2>1 DEF ListingsInv, Undisturbed, Running
  <2> QED
    BY <2>1, <2>2, <2>3, <2>5, <2>6, <2>7 DEF ListingsInv
<1> QED
  BY <1>1, <1>2, <1>3, <1>4, <1>5, <1>6, <1>7, <1>8, <1>9, <1>10 DEF Next

LEMMA BlankRows ==
    ASSUME NEW k \in Rows
    PROVE  /\ k \in Listing \cup Variant \cup Option \cup Kind \cup Config => Blank(k) \in RowType(k)
           /\ k \in Listing \cup Variant \cup Option \cup Kind \cup Config => Blank(k).state = "none"
<1>1. /\ {} \notin {Listing, Kind, Book, Shop, Name}
      /\ Listing # {} /\ Kind # {} /\ Book # {} /\ Shop # {} /\ Name # {}
  BY ListingsAssumption
<1>2. PICK l : l = CHOOSE x \in Listing : TRUE
  OBVIOUS
<1>3. PICK t : t = CHOOSE x \in Kind : TRUE
  OBVIOUS
<1>4. PICK b : b = CHOOSE x \in Book : TRUE
  OBVIOUS
<1>5. PICK s : s = CHOOSE x \in Shop : TRUE
  OBVIOUS
<1>6. PICK n : n = CHOOSE x \in Name : TRUE
  OBVIOUS
<1>7. l \in Listing /\ t \in Kind /\ b \in Book /\ s \in Shop /\ n \in Name
  BY <1>1, <1>2, <1>3, <1>4, <1>5, <1>6
<1>8. CASE k \in Listing
  <2>1. Blank(k) = [state |-> "none", status |-> "DRAFT", book |-> b, shop |-> s]
    BY <1>4, <1>5, <1>8 DEF Blank
  <2>2. RowType(k) = ListingRow
    BY <1>8, RowFacts
  <2>3. Blank(k) \in ListingRow /\ Blank(k).state = "none"
    BY <1>7, <2>1 DEF ListingRow, State, Status
  <2> QED
    BY <2>2, <2>3
<1>9. CASE k \in Variant
  <2>1. Blank(k) = [state |-> "none", listing |-> l, stock |-> 0]
    BY <1>2, <1>9, RowFacts DEF Blank
  <2>2. RowType(k) = VariantRow
    BY <1>9, RowFacts
  <2>3. Blank(k) \in VariantRow /\ Blank(k).state = "none"
    BY <1>7, <2>1 DEF VariantRow, State
  <2> QED
    BY <2>2, <2>3
<1>10. CASE k \in Option
  <2>1. Blank(k) = [state |-> "none", kind |-> t, value |-> n]
    BY <1>3, <1>6, <1>10, RowFacts DEF Blank
  <2>2. RowType(k) = OptionRow
    BY <1>10, RowFacts
  <2>3. Blank(k) \in OptionRow /\ Blank(k).state = "none"
    BY <1>7, <2>1 DEF OptionRow, State
  <2> QED
    BY <2>2, <2>3
<1>11. CASE k \in Kind
  <2>1. Blank(k) = [state |-> "none", name |-> n]
    BY <1>6, <1>11, RowFacts DEF Blank
  <2>2. RowType(k) = KindRow
    BY <1>11, RowFacts
  <2>3. Blank(k) \in KindRow /\ Blank(k).state = "none"
    BY <1>7, <2>1 DEF KindRow, State
  <2> QED
    BY <2>2, <2>3
<1>12. CASE k \in Config
  <2>1. Blank(k) = [state |-> "none", by |-> None]
    BY <1>12, RowFacts DEF Blank
  <2>2. RowType(k) = ConfigRow
    BY <1>12, RowFacts
  <2>3. Blank(k) \in ConfigRow /\ Blank(k).state = "none"
    BY <2>1 DEF ConfigRow, State
  <2> QED
    BY <2>2, <2>3
<1> QED
  BY <1>8, <1>9, <1>10, <1>11, <1>12

LEMMA InitialRows ==
    /\ \A l \in Listing : InitialRow(l) = IF l \in DOMAIN Listed THEN Listed[l] ELSE Blank(l)
    /\ \A v \in Variant : InitialRow(v) = IF v \in DOMAIN Stocked THEN Stocked[v] ELSE Blank(v)
    /\ \A o \in Option : InitialRow(o) = IF o \in DOMAIN Optioned THEN Optioned[o] ELSE Blank(o)
    /\ \A t \in Kind : InitialRow(t) = IF t \in DOMAIN Named THEN Named[t] ELSE Blank(t)
    /\ \A p \in Config : InitialRow(p) = IF p \in Configured THEN [state |-> "live", by |-> None] ELSE Blank(p)
    /\ \A k \in Rows : InitialRow(k) \in RowType(k)
<1>1. /\ DOMAIN Listed \subseteq Listing /\ DOMAIN Stocked \subseteq Variant
      /\ DOMAIN Optioned \subseteq Option /\ DOMAIN Named \subseteq Kind
  BY ListingsAssumption
<1>2. Configured \subseteq Config
  BY <1>1, ListingsAssumption DEF Config
<1>3. \A l \in Listing : InitialRow(l) = IF l \in DOMAIN Listed THEN Listed[l] ELSE Blank(l)
  BY <1>1, <1>2, TablesDiffer DEF InitialRow
<1>4. \A v \in Variant : InitialRow(v) = IF v \in DOMAIN Stocked THEN Stocked[v] ELSE Blank(v)
  BY <1>1, <1>2, TablesDiffer DEF InitialRow
<1>5. \A o \in Option : InitialRow(o) = IF o \in DOMAIN Optioned THEN Optioned[o] ELSE Blank(o)
  BY <1>1, <1>2, TablesDiffer DEF InitialRow
<1>6. \A t \in Kind : InitialRow(t) = IF t \in DOMAIN Named THEN Named[t] ELSE Blank(t)
  BY <1>1, <1>2, TablesDiffer DEF InitialRow
<1>7. \A p \in Config : InitialRow(p) = IF p \in Configured THEN [state |-> "live", by |-> None] ELSE Blank(p)
  BY <1>1, <1>2, TablesDiffer DEF InitialRow
<1>8. \A b \in Book : InitialRow(b) = [state |-> "live"]
  BY <1>1, <1>2, TablesDiffer DEF InitialRow
<1>9. \A s \in Shop : InitialRow(s) = [state |-> "live", open |-> TRUE]
  BY <1>1, <1>2, TablesDiffer DEF InitialRow
<1>10. ASSUME NEW k \in Rows PROVE InitialRow(k) \in RowType(k)
  <2>1. CASE k \in Listing
    <3>1. RowType(k) = ListingRow /\ Blank(k) \in RowType(k)
      BY <2>1, RowFacts, BlankRows
    <3> QED
      BY <1>3, <2>1, <3>1, ListingsAssumption
  <2>2. CASE k \in Variant
    <3>1. RowType(k) = VariantRow /\ Blank(k) \in RowType(k)
      BY <2>2, RowFacts, BlankRows
    <3> QED
      BY <1>4, <2>2, <3>1, ListingsAssumption
  <2>3. CASE k \in Option
    <3>1. RowType(k) = OptionRow /\ Blank(k) \in RowType(k)
      BY <2>3, RowFacts, BlankRows
    <3> QED
      BY <1>5, <2>3, <3>1, ListingsAssumption
  <2>4. CASE k \in Kind
    <3>1. RowType(k) = KindRow /\ Blank(k) \in RowType(k)
      BY <2>4, RowFacts, BlankRows
    <3> QED
      BY <1>6, <2>4, <3>1, ListingsAssumption
  <2>5. CASE k \in Config
    <3>1. RowType(k) = ConfigRow /\ Blank(k) \in RowType(k)
      BY <2>5, RowFacts, BlankRows
    <3>2. [state |-> "live", by |-> None] \in ConfigRow
      BY DEF ConfigRow, State
    <3> QED
      BY <1>7, <2>5, <3>1, <3>2
  <2>6. CASE k \in Book
    <3>1. RowType(k) = BookRow
      BY <2>6, RowFacts
    <3> QED
      BY <1>8, <2>6, <3>1 DEF BookRow, State
  <2>7. CASE k \in Shop
    <3>1. RowType(k) = ShopRow
      BY <2>7, RowFacts
    <3> QED
      BY <1>9, <2>7, <3>1 DEF ShopRow, State
  <2> QED
    BY <2>1, <2>2, <2>3, <2>4, <2>5, <2>6, <2>7, RowsAre
<1> QED
  BY <1>3, <1>4, <1>5, <1>6, <1>7, <1>10

LEMMA InitHolds ==
    ASSUME Init
    PROVE  ListingsInv
<1>1. /\ db = [k \in Rows |-> InitialRow(k)] /\ Row = Rows
      /\ pend = [r \in Request |-> [k \in Rows |-> None]] /\ pc = [r \in Request |-> "new"]
      /\ job = [r \in Request |-> NoJob] /\ seen = [r \in Request |-> None]
      /\ alone = [r \in Request |-> TRUE] /\ odd = [why \in {"raced", "untyped", "edited"} |-> {}]
  BY DEF Init, HandlersInit, NoWrites, Row
<1>2. \A k \in Rows : db[k] = InitialRow(k) /\ db[k] \in RowType(k)
  BY <1>1, InitialRows
<1>3. db \in [Rows -> AnyRow]
  <2>1. \A k \in Rows : InitialRow(k) \in AnyRow
    <3>1. ASSUME NEW k \in Rows PROVE InitialRow(k) \in AnyRow
      <4>1. InitialRow(k) \in RowType(k) /\ RowType(k) \subseteq AnyRow
        BY InitialRows, RowFacts
      <4> QED
        BY <4>1
    <3> QED
      BY <3>1
  <2> QED
    BY <1>1, <2>1
<1>4. /\ pend \in [Request -> [Rows -> AnyRow \cup {None}]]
      /\ pc \in [Request -> Label] /\ job \in [Request -> Job \cup {NoJob}] /\ DOMAIN seen = Request
      /\ alone \in [Request -> BOOLEAN]
  BY <1>1 DEF Label
<1>5. odd \in [raced : SUBSET Variant, untyped : SUBSET Variant, edited : SUBSET Variant]
  BY <1>1
<1>6. \A r \in Request : /\ pc[r] = "new" /\ job[r] = NoJob /\ ~Running(r)
                         /\ \A k \in Rows : ~Holds(r, k)
  BY <1>1 DEF Running, Holds
<1>7. RowLocksExclusive /\ Undisturbed
  BY <1>1, <1>6 DEF RowLocksExclusive, Undisturbed
<1>8. ASSUME NEW r \in Request PROVE Mine(r)
  <2>1. job[r].op = "none"
    BY <1>6 DEF NoJob
  <2>2. WritesOK(r)
    BY <1>6, RowFacts DEF WritesOK
  <2>3. Found(r) /\ Deleting(r)
    BY <1>6, <2>1 DEF Found, Deleting, Deletions
  <2> QED
    BY <1>6, <2>1, <2>2, <2>3 DEF Mine, HoldsNothing
<1>9. \A v \in Variant, o \in Option :
        /\ <<v, o>> \in Configured => db[<<v, o>>].state = "live" /\ v \in DOMAIN Stocked /\ o \in DOMAIN Optioned
        /\ <<v, o>> \notin Configured => db[<<v, o>>].state = "none"
  <2>1. ASSUME NEW v \in Variant, NEW o \in Option
        PROVE  /\ <<v, o>> \in Configured => db[<<v, o>>].state = "live"
               /\ <<v, o>> \notin Configured => db[<<v, o>>].state = "none"
    <3>1. <<v, o>> \in Rows /\ <<v, o>> \in Config
      BY RowFacts
    <3> QED
      BY <1>2, <3>1, InitialRows, BlankRows
  <2>2. \A v \in Variant, o \in Option : <<v, o>> \in Configured => v \in DOMAIN Stocked /\ o \in DOMAIN Optioned
    BY ListingsAssumption
  <2> QED
    BY <2>1, <2>2
<1>10. \A v \in Variant : db[v] = IF v \in DOMAIN Stocked THEN Stocked[v] ELSE Blank(v)
  BY <1>2, InitialRows, RowFacts
<1>11. \A v \in Variant : v \notin DOMAIN Stocked => db[v].state = "none"
  BY <1>10, BlankRows, RowFacts
<1>12. \A v \in Variant : OptionSet(v) = {o \in Option : <<v, o>> \in Configured}
  BY <1>9 DEF OptionSet, Live
<1>13. RowsOK
  <2>1. ASSUME NEW v \in Variant, NEW o \in Option, db[<<v, o>>].state # "none"
        PROVE  db[v].state # "none" /\ db[o].state # "none"
    <3>1. v \in DOMAIN Stocked /\ o \in DOMAIN Optioned
      BY <1>9, <2>1
    <3>2. db[v] = Stocked[v] /\ db[o] = Optioned[o]
      BY <1>2, <3>1, InitialRows, RowFacts
    <3> QED
      BY <3>1, <3>2, StartAssumption
  <2>2. ASSUME NEW o \in Option, db[o].state # "none" PROVE db[db[o].kind].state # "none"
    <3>1. o \in DOMAIN Optioned
      BY <1>2, <2>2, InitialRows, BlankRows, RowFacts
    <3>2. db[o] = Optioned[o]
      BY <1>2, <3>1, InitialRows, RowFacts
    <3>3. PICK t : t = Optioned[o].kind
      OBVIOUS
    <3>4. t \in DOMAIN Named /\ Named[t].state # "none" /\ t \in Kind
      BY <3>1, <3>3, StartAssumption, ListingsAssumption
    <3>5. db[t] = Named[t]
      BY <1>2, <3>4, InitialRows, RowFacts
    <3> QED
      BY <3>2, <3>3, <3>4, <3>5
  <2> QED
    BY <2>1, <2>2 DEF RowsOK
<1>14. OptionSetsDistinct
  <2> SUFFICES ASSUME NEW v \in Variant, NEW w \in Variant, v # w, Live(db[v]), Live(db[w]),
                      db[v].listing = db[w].listing, OptionSet(v) = OptionSet(w)
               PROVE  FALSE
    BY DEF OptionSetsDistinct
  <2>1. v \in DOMAIN Stocked /\ w \in DOMAIN Stocked
    BY <1>11 DEF Live
  <2>2. db[v] = Stocked[v] /\ db[w] = Stocked[w]
    BY <1>10, <2>1
  <2>3. Stocked[v].state = "live" /\ Stocked[w].state = "live" /\ Stocked[v].listing = Stocked[w].listing
    BY <2>2 DEF Live
  <2>4. {o \in Option : <<v, o>> \in Configured} # {o \in Option : <<w, o>> \in Configured}
    BY <2>1, <2>3, StartAssumption
  <2> QED
    BY <1>12, <2>4
<1>15. NothingLeftBehind
  <2>1. ASSUME NEW v \in Variant, db[v].state = "deleted" PROVE OptionSet(v) = {}
    <3>1. v \in DOMAIN Stocked
      BY <1>11, <2>1
    <3>2. db[v] = Stocked[v]
      BY <1>10, <3>1
    <3>3. \A o \in Option : <<v, o>> \notin Configured
      BY <2>1, <3>1, <3>2, StartAssumption
    <3> QED
      BY <1>12, <3>3
  <2>2. ASSUME NEW v \in Variant, Live(db[v]) PROVE Live(db[db[v].listing])
    <3>1. v \in DOMAIN Stocked
      BY <1>11, <2>2 DEF Live
    <3>2. db[v] = Stocked[v]
      BY <1>10, <3>1
    <3>3. PICK l : l = Stocked[v].listing
      OBVIOUS
    <3>4. l \in DOMAIN Listed /\ Listed[l].state = "live" /\ l \in Listing
      BY <2>2, <3>1, <3>2, <3>3, StartAssumption, ListingsAssumption DEF Live
    <3>5. db[l] = Listed[l]
      BY <1>2, <3>4, InitialRows, RowFacts
    <3> QED
      BY <3>2, <3>3, <3>4, <3>5 DEF Live
  <2> QED
    BY <2>1, <2>2 DEF NothingLeftBehind
<1> QED
  BY <1>2, <1>3, <1>4, <1>5, <1>7, <1>8, <1>13, <1>14, <1>15 DEF ListingsInv

LEMMA Invariant == Spec => []ListingsInv
<1>1. Init => ListingsInv
  BY InitHolds
<1>2. ListingsInv /\ [Next]_vars => ListingsInv'
  BY NextKeeps
<1> QED
  BY <1>1, <1>2, PTL DEF Spec

(* Every row is of its table's type and every stock is a natural number,   *)
(* and of what is written but not committed, too.                          *)
THEOREM ListingTypes == Spec => []TypeOK
<1>1. ASSUME ListingsInv PROVE TypeOK
  <2>1. \A k \in Rows : /\ db[k] \in RowType(k)
                        /\ \A r \in Request : pend[r][k] \in RowType(k) \cup {None}
    BY <1>1, InvTypes, HeldTypes
  <2> QED
    BY <1>1, <2>1, InvTypes DEF TypeOK
<1> QED
  BY <1>1, Invariant, PTL

(* Whatever creations, deletions and updates run beside each other, two    *)
(* live variants of a listing have the same options only if one of them    *)
(* was created in a race, with an option without a type, or if its options *)
(* were edited.                                                            *)
THEOREM SetsDistinct == Spec => []OptionSetsDistinct
<1>1. ListingsInv => OptionSetsDistinct
  BY DEF ListingsInv
<1> QED
  BY <1>1, Invariant, PTL

(* However a deletion is interleaved, its three statements leave no option *)
(* of a deleted variant and no variant of a deleted listing.               *)
THEOREM NothingLeft == Spec => []NothingLeftBehind
<1>1. ListingsInv => NothingLeftBehind
  BY DEF ListingsInv
<1> QED
  BY <1>1, Invariant, PTL

-----------------------------------------------------------------------------
(* Pages.  A row that is steady has not changed since the page was asked   *)
(* for, and neither has any row that its place on the page depends on.     *)

Untouched(rows, M, x) == Around(rows, x) \cap M = {}

(* T is what matches, as far as nothing changed.                           *)
Agrees(rows, M, g, T) ==
    \A x \in TableOf(g) : Untouched(rows, M, x) => (x \in T <=> x \in Matching(rows, g))

Counted == {"offers", "store", "inventory", "scoped", "variants"}

AfterList == {"configs", "values", "kinds", "sums", "listings", "books", "shops", "shown"}

(* The pages that pass a statement.                                        *)
Fits(p) ==
    /\ p.get \in VariantPage \cup ListingPage
    /\ p.at = "head" => p.get.op \in {"offer", "own", "scoped"}
    /\ p.at = "book" => p.get.op \in {"offer", "own"}
    /\ p.at = "shop" => p.get.op = "offer"
    /\ p.at \in {"store", "total", "listings", "books", "shops"} => p.get.op \in Counted
    /\ p.at \in {"configs", "values", "kinds"} => p.get.op \in {"offer", "own", "scoped", "variants"}
    /\ p.at = "sums" => p.get.op \in Counted \cup {"offer"}
    /\ p.at \notin AfterList => p.found = {}

CountOK(p, rows, M) ==
    \/ p.get.op \in Counted /\ p.at \in AfterList \cup {"list"}
    \/ p.get.op = "offer" /\ p.at = "shown"
    => \E T \in SUBSET TableOf(p.get) : Announced(p) = Cardinality(T) /\ Agrees(rows, M, p.get, T)

ListOK(p, rows, M) ==
    p.at \in AfterList =>
        /\ p.found \subseteq TableOf(p.get)
        /\ \A x \in p.found : Untouched(rows, M, x) => x \in Matching(rows, p.get)
        /\ Cardinality(p.found) < Limit => Agrees(rows, M, p.get, p.found)

PageOK(p, rows, M) ==
    /\ DOMAIN p = DOMAIN NoPage
    /\ p.at \notin {"idle", "answered"} => Fits(p) /\ CountOK(p, rows, M) /\ ListOK(p, rows, M)

PageInv ==
    /\ DOMAIN page = Reader /\ DOMAIN moved = Reader
    /\ \A c \in Reader : PageOK(page[c], db, moved[c])

Sound(rows) == \A l \in Listing : rows[l] \in ListingRow

(* What a commit may do to the variants that there are.                    *)
Follows(new, rows) ==
    \A v \in Variant : rows[v].state # "none" => new[v].state # "none" /\ new[v].listing = rows[v].listing

LEMMA PageOps ==
    ASSUME NEW g \in VariantPage \cup ListingPage
    PROVE  /\ g.op \in Counted \cup {"offer", "own"}
           /\ g.op \in {"offer", "own", "scoped"} => g.listing \in Listing
           /\ TableOf(g) \in {Listing, Variant} /\ IsFiniteSet(TableOf(g))
<1>1. g.op \in Counted \cup {"offer", "own"} /\ (g.op \in {"offer", "own", "scoped"} => g.listing \in Listing)
  BY DEF VariantPage, ListingPage, Counted
<1>2. IsFiniteSet(Listing) /\ IsFiniteSet(Variant)
  BY ListingsAssumption, PagesAssumption
<1> QED
  BY <1>1, <1>2 DEF TableOf

LEMMA MatchesInTable ==
    ASSUME NEW g \in VariantPage \cup ListingPage, NEW rows
    PROVE  Matching(rows, g) \subseteq TableOf(g)
<1>1. g.op \in Counted \cup {"offer", "own"}
  BY PageOps
<1> QED
  BY <1>1 DEF Matching, TableOf, Counted, VariantsOf, VariantsListed

(* Nothing is around a row that was changed but what is around it now.     *)
LEMMA AroundStays ==
    ASSUME NEW rows, NEW new, Sound(rows), Follows(new, rows), NEW M,
           NEW x \in Listing \cup Variant,
           Untouched(new, M \cup {k \in Rows : new[k] # rows[k]}, x),
           x \in Variant => rows[x].listing \in Listing
    PROVE  Untouched(rows, M, x) /\ new[x] = rows[x]
<1> DEFINE C == {k \in Rows : new[k] # rows[k]}
<1>1. Around(new, x) \cap (M \cup C) = {}
  BY DEF Untouched
<1>2. \A k \in Rows : k \notin C => new[k] = rows[k]
  OBVIOUS
<1>3. x \in Around(new, x)
  BY DEF Around
<1>4. x \in Rows
  BY RowFacts
<1>5. new[x] = rows[x]
  BY <1>1, <1>2, <1>3, <1>4
<1> HIDE DEF C
<1>6. CASE x \in Listing
  <2>1. \A k : k \in Around(rows, x) <=>
           \/ k \in {x, rows[x].book, rows[x].shop}
           \/ k \in Variant /\ rows[k].state # "none" /\ rows[k].listing = x
    BY <1>6 DEF Around
  <2>2. \A k : k \in Around(new, x) <=>
           \/ k \in {x, new[x].book, new[x].shop}
           \/ k \in Variant /\ new[k].state # "none" /\ new[k].listing = x
    BY <1>6 DEF Around
  <2>3. \A k \in Around(rows, x) : k \in Around(new, x)
    BY <2>1, <2>2, <1>5 DEF Follows
  <2> QED
    BY <1>1, <1>5, <2>3 DEF Untouched
<1>7. CASE x \in Variant
  <2> DEFINE l == rows[x].listing
  <2>1. x \notin Listing /\ l \in Listing /\ l \in Rows
    BY <1>7, RowFacts
  <2>2. \A k : k \in Around(rows, x) <=>
           \/ k \in {x, l, rows[l].book, rows[l].shop}
           \/ \E o \in Option : k = <<x, o>>
           \/ \E o \in Option : Live(rows[<<x, o>>]) /\ k \in {o, rows[o].kind}
    BY <1>7, <2>1 DEF Around
  <2>3. \A k : k \in Around(new, x) <=>
           \/ k \in {x, l, new[l].book, new[l].shop}
           \/ \E o \in Option : k = <<x, o>>
           \/ \E o \in Option : Live(new[<<x, o>>]) /\ k \in {o, new[o].kind}
    BY <1>5, <1>7, <2>1 DEF Around
  <2> HIDE DEF l
  <2>4. new[l] = rows[l]
    BY <2>1, <2>3, <1>1, <1>2
  <2>5. ASSUME NEW o \in Option PROVE new[<<x, o>>] = rows[<<x, o>>]
    <3>1. <<x, o>> \in Rows
      BY <1>7, RowFacts
    <3>2. <<x, o>> \in Around(new, x)
      BY <2>3
    <3> QED
      BY <3>1, <3>2, <1>1, <1>2
  <2>6. ASSUME NEW o \in Option, Live(rows[<<x, o>>]) PROVE new[o] = rows[o]
    <3>1. o \in Rows
      BY RowFacts
    <3>2. o \in Around(new, x)
      BY <2>3, <2>5, <2>6
    <3> QED
      BY <3>1, <3>2, <1>1, <1>2
  <2>7. \A k \in Around(rows, x) : k \in Around(new, x)
    <3> SUFFICES ASSUME NEW k \in Around(rows, x) PROVE k \in Around(new, x)
      OBVIOUS
    <3>1. CASE k \in {x, l, rows[l].book, rows[l].shop}
      BY <3>1, <2>3, <2>4
    <3>2. CASE \E o \in Option : k = <<x, o>>
      BY <3>2, <2>3
    <3>3. CASE \E o \in Option : Live(rows[<<x, o>>]) /\ k \in {o, rows[o].kind}
      BY <3>3, <2>3, <2>5, <2>6
    <3> QED
      BY <2>2, <3>1, <3>2, <3>3
  <2> QED
    BY <1>1, <1>5, <2>7 DEF Untouched
<1> QED
  BY <1>6, <1>7

(* What is steady matches now if it matched before.                        *)
LEMMA MatchStays ==
    ASSUME NEW rows, NEW new, Sound(rows), Follows(new, rows), NEW M,
           \A v \in Variant : rows[v].listing \in Listing,
           NEW g \in VariantPage \cup ListingPage, NEW x \in TableOf(g),
           Untouched(new, M \cup {k \in Rows : new[k] # rows[k]}, x)
    PROVE  /\ Untouched(rows, M, x)
           /\ x \in Matching(rows, g) <=> x \in Matching(new, g)
<1>1. x \in Listing \cup Variant
  BY DEF TableOf
<1>2. Untouched(rows, M, x) /\ new[x] = rows[x]
  BY <1>1, AroundStays
<1>3. \A k \in Around(new, x) : k \in Rows => new[k] = rows[k]
  BY DEF Untouched
<1>4. g.op \in Counted \cup {"offer", "own"}
  BY PageOps
<1>5. CASE x \in Variant
  <2>1. g.op \in {"offer", "own", "scoped", "variants"}
    BY <1>4, <1>5, RowFacts DEF TableOf, Counted
  <2>2. x \notin Listing /\ rows[x].listing \in Listing /\ rows[x].listing \in Rows
    BY <1>5, RowFacts
  <2>3. new[rows[x].listing] = rows[rows[x].listing]
    BY <1>2, <1>3, <2>2 DEF Around
  <2> QED
    BY <1>2, <1>5, <2>1, <2>3 DEF Matching, VariantsOf, VariantsListed, ForSale, Live
<1>6. CASE x \in Listing
  <2>1. g.op \in {"offers", "store", "inventory"}
    BY <1>4, <1>6, RowFacts DEF TableOf, Counted
  <2>2. ASSUME NEW v \in Variant, rows[v].listing = x, ForSale(rows, v)
        PROVE  new[v].listing = x /\ ForSale(new, v)
    <3>1. new[v].state # "none" /\ new[v].listing = x
      BY <2>2 DEF ForSale, Live, Follows
    <3>2. v \in Around(new, x) /\ v \in Rows
      BY <1>6, <3>1, RowFacts DEF Around
    <3> QED
      BY <1>3, <2>2, <3>2 DEF ForSale
  <2>3. ASSUME NEW v \in Variant, new[v].listing = x, ForSale(new, v)
        PROVE  rows[v].listing = x /\ ForSale(rows, v)
    <3>1. v \in Around(new, x) /\ v \in Rows
      BY <1>6, <2>3, RowFacts DEF Around, ForSale, Live
    <3> QED
      BY <1>3, <2>3, <3>1 DEF ForSale
  <2>4. InCatalog(rows, x) <=> InCatalog(new, x)
    BY <1>2, <2>2, <2>3 DEF InCatalog
  <2> QED
    BY <1>2, <1>6, <2>1, <2>4 DEF Matching
<1> QED
  BY <1>1, <1>5, <1>6

LEMMA PageStays ==
    ASSUME NEW rows, NEW new, Sound(rows), Follows(new, rows), NEW M,
           \A v \in Variant : rows[v].listing \in Listing,
           NEW p, PageOK(p, rows, M)
    PROVE  PageOK(p, new, M \cup {k \in Rows : new[k] # rows[k]})
<1> DEFINE N == M \cup {k \in Rows : new[k] # rows[k]}
<1> HIDE DEF N
<1> SUFFICES ASSUME p.at \notin {"idle", "answered"}
             PROVE  CountOK(p, new, N) /\ ListOK(p, new, N)
  BY DEF PageOK, N
<1>1. Fits(p) /\ CountOK(p, rows, M) /\ ListOK(p, rows, M) /\ p.get \in VariantPage \cup ListingPage
  BY DEF PageOK, Fits
<1>2. \A x \in TableOf(p.get) : Untouched(new, N, x) =>
        /\ Untouched(rows, M, x)
        /\ x \in Matching(rows, p.get) <=> x \in Matching(new, p.get)
  BY <1>1, MatchStays DEF N
<1>3. \A T : Agrees(rows, M, p.get, T) => Agrees(new, N, p.get, T)
  BY <1>2 DEF Agrees
<1>4. CountOK(p, new, N)
  BY <1>1, <1>3 DEF CountOK
<1>5. ListOK(p, new, N)
  BY <1>1, <1>2, <1>3 DEF ListOK
<1> QED
  BY <1>4, <1>5

LEMMA InvSound ==
    ASSUME ListingsInv
    PROVE  Sound(db) /\ \A v \in Variant : db[v].listing \in Listing
BY DbTypes DEF Sound, VariantRow

(* Only commits change committed rows.                                     *)
LEMMA NextFollows ==
    ASSUME ListingsInv, Next
    PROVE  Follows(db', db)
<1>1. PICK r \in Request :
        \/ Arrive(r)
        \/ InsertRow(r) \/ ReadRow(r) \/ EditRow(r) \/ DropRow(r) \/ CloseShop(r)
        \/ ReadListing(r) \/ ReloadListing(r) \/ WriteListing(r)
        \/ ListVariants(r) \/ RemoveVariants(r) \/ RemoveConfigs(r) \/ RemoveListing(r)
        \/ ValidateOptions(r) \/ ReadSiblings(r) \/ ReadConfigs(r) \/ ReadValues(r) \/ ReadKinds(r)
        \/ InsertVariant(r) \/ InsertConfigs(r)
        \/ ReadVariant(r) \/ RereadVariant(r) \/ WriteVariant(r) \/ RemoveVariant(r)
        \/ AddConfig(r) \/ ReadConfig(r) \/ TouchConfig(r) \/ DropConfig(r)
        \/ Commit(r) \/ ConnectionLost(r)
  BY Zenon DEF Next
<1>2. CASE Commit(r)
  BY <1>2, CommitVariants DEF Follows
<1>3. CASE ~Commit(r)
  <2>1. db' = db
    <3>1. Abandon(r) \/ ConnectionLost(r) => db' = db
      BY DEF ConnectionLost, Abandon, Fail, DiscardWrites
    <3>2. \A k, x, y : Store(r, k, x) \/ Write(r, k, x, y) \/ WriteRow(r, k, x) => db' = db
      BY <3>1 DEF Store, Write, WriteRow
    <3>3. \A x, y : Read(r, x, y) \/ Continue(r, y) => db' = db
      BY DEF Read, Continue
    <3>4. CASE Arrive(r) \/ InsertRow(r) \/ ReadRow(r) \/ EditRow(r) \/ DropRow(r) \/ CloseShop(r)
      BY <3>4, <3>1, <3>2, <3>3
         DEF Arrive, ArriveAt, Begin, InsertRow, ReadRow, EditRow, DropRow, CloseShop
    <3>5. CASE \/ ReadListing(r) \/ ReloadListing(r) \/ WriteListing(r) \/ ListVariants(r)
               \/ RemoveVariants(r) \/ RemoveConfigs(r) \/ RemoveListing(r)
      BY <3>5, <3>1, <3>2, <3>3 DEF ReadListing, ReloadListing, WriteListing, ListVariants,
           RemoveVariants, RemoveConfigs, RemoveListing, DeleteAll
    <3>6. CASE \/ ValidateOptions(r) \/ ReadSiblings(r) \/ ReadConfigs(r) \/ ReadValues(r) \/ ReadKinds(r)
               \/ InsertVariant(r) \/ InsertConfigs(r)
      BY <3>6, <3>1, <3>2, <3>3 DEF ValidateOptions, ReadSiblings, ReadConfigs, ReadValues, ReadKinds,
           InsertVariant, InsertConfigs
    <3>7. CASE \/ ReadVariant(r) \/ RereadVariant(r) \/ WriteVariant(r) \/ RemoveVariant(r)
               \/ AddConfig(r) \/ ReadConfig(r) \/ TouchConfig(r) \/ DropConfig(r)
      BY <3>7, <3>1, <3>2, <3>3 DEF ReadVariant, RereadVariant, WriteVariant, RemoveVariant,
           AddConfig, ReadConfig, TouchConfig, DropConfig
    <3> QED
      BY <1>1, <1>3, <3>1, <3>4, <3>5, <3>6, <3>7
  <2> QED
    BY <2>1 DEF Follows
<1> QED
  BY <1>2, <1>3

LEMMA OtherRequestKeeps ==
    ASSUME ListingsInv, PageInv, OtherRequest
    PROVE  PageInv'
<1>1. Next /\ DOMAIN page' = Reader /\ DOMAIN moved' = Reader
  BY DEF OtherRequest
<1>2. Follows(db', db) /\ Sound(db) /\ \A v \in Variant : db[v].listing \in Listing
  BY <1>1, NextFollows, InvSound
<1>3. ASSUME NEW c \in Reader PROVE PageOK(page'[c], db', moved'[c])
  <2>1. PageOK(page[c], db, moved[c])
    BY DEF PageInv
  <2>2. /\ page'[c] = IF page[c].at = "shown" THEN Answered ELSE page[c]
        /\ page[c].at \notin {"idle", "shown", "answered"} =>
             moved'[c] = moved[c] \cup {k \in Rows : db'[k] # db[k]}
    BY DEF OtherRequest
  <2>3. CASE page[c].at = "shown"
    BY <2>2, <2>3 DEF PageOK, Answered, NoPage
  <2>4. CASE page[c].at \in {"idle", "answered"}
    BY <2>1, <2>2, <2>4 DEF PageOK
  <2>5. CASE page[c].at \notin {"idle", "shown", "answered"}
    BY <1>2, <2>1, <2>2, <2>5, PageStays
  <2> QED
    BY <2>3, <2>4, <2>5
<1> QED
  BY <1>1, <1>3 DEF PageInv

LEMMA Turned ==
    ASSUME NEW c \in Reader, DOMAIN page = Reader, NEW p, DOMAIN p = DOMAIN NoPage, NEW label,
           Turn(c, p, label)
    PROVE  /\ DOMAIN page' = Reader /\ \A d \in Reader \ {c} : page'[d] = page[d]
           /\ DOMAIN page'[c] = DOMAIN NoPage /\ page'[c].at = label
           /\ page'[c].get = p.get /\ page'[c].found = p.found
           /\ page'[c].total = p.total /\ page'[c].sums = p.sums
BY DEF Turn, NoPage

(* A statement that neither counts nor lists.                              *)
LEMMA Carried ==
    ASSUME NEW p, NEW q, NEW rows, NEW M, Fits(q), ListOK(p, rows, M), CountOK(p, rows, M),
           q.get = p.get, q.found = p.found, q.total = p.total,
           q.at \in AfterList => p.at \in AfterList,
           q.at \in AfterList \cup {"list"} /\ p.get.op \in Counted => p.at \in AfterList \cup {"list"},
           p.get.op = "offer" => q.at # "shown"
    PROVE  CountOK(q, rows, M) /\ ListOK(q, rows, M)
<1>1. ListOK(q, rows, M)
  BY DEF ListOK
<1>2. p.get.op \in Counted => p.get.op # "offer"
  BY DEF Counted
<1>3. CountOK(q, rows, M)
  BY <1>2 DEF CountOK, Announced
<1> QED
  BY <1>1, <1>3

LEMMA HeadSteps ==
    ASSUME PageInv, NEW c \in Reader, ReadHead(c) \/ ReadBook(c) \/ ReadShop(c) \/ ReadStore(c)
    PROVE  DOMAIN page' = Reader /\ (\A d \in Reader \ {c} : page'[d] = page[d])
             /\ PageOK(page'[c], db, moved[c])
<1> DEFINE p == page[c]
<1>1. DOMAIN page = Reader /\ DOMAIN p = DOMAIN NoPage
      /\ (p.at \notin {"idle", "answered"} =>
            Fits(p) /\ CountOK(p, db, moved[c]) /\ ListOK(p, db, moved[c]))
  BY DEF PageInv, PageOK
<1>2. CASE Refuse(c)
  BY <1>1, <1>2 DEF Refuse, PageOK, Answered, NoPage
<1>3. ASSUME NEW q, NEW label, Turn(c, q, label), DOMAIN q = DOMAIN NoPage, q.get = p.get,
             q.found = p.found, p.at \in {"head", "book", "shop", "store"},
             label \in {"total", "book", "list", "shop"},
             label = "list" => p.get.op \in {"own", "offer"},
             label = "total" => p.get.op \in Counted, label = "shop" => p.get.op = "offer",
             label = "book" => p.get.op \in {"offer", "own"}
      PROVE  DOMAIN page' = Reader /\ (\A d \in Reader \ {c} : page'[d] = page[d])
               /\ PageOK(page'[c], db, moved[c])
  <2>1. /\ DOMAIN page' = Reader /\ \A d \in Reader \ {c} : page'[d] = page[d]
        /\ DOMAIN page'[c] = DOMAIN NoPage /\ page'[c].at = label /\ page'[c].get = p.get
        /\ page'[c].found = p.found
    BY <1>1, <1>3, Turned
  <2>2. Fits(p)
    BY <1>1, <1>3
  <2>3. Fits(page'[c])
    BY <1>3, <2>1, <2>2 DEF Fits, AfterList
  <2>4. CountOK(page'[c], db, moved[c]) /\ ListOK(page'[c], db, moved[c])
    BY <1>3, <2>1 DEF CountOK, ListOK, Counted, AfterList
  <2> QED
    BY <2>1, <2>3, <2>4 DEF PageOK
<1>4. CASE ReadHead(c) /\ ~Refuse(c)
  <2>1. p.at = "head" /\ p.get.op \in {"offer", "own", "scoped"}
    BY <1>1, <1>4 DEF ReadHead, Fits
  <2>2. PICK f : Turn(c, [p EXCEPT !.rows = f], IF p.get.op = "scoped" THEN "total" ELSE "book")
    BY <1>4 DEF ReadHead
  <2>3. DOMAIN [p EXCEPT !.rows = f] = DOMAIN NoPage /\ [p EXCEPT !.rows = f].get = p.get
        /\ [p EXCEPT !.rows = f].found = p.found
    BY <1>1 DEF NoPage
  <2> QED
    BY <1>3, <2>1, <2>2, <2>3 DEF Counted
<1>5. CASE ReadBook(c) /\ ~Refuse(c)
  <2>1. p.at = "book" /\ p.get.op \in {"offer", "own"}
    BY <1>1, <1>5 DEF ReadBook, Fits
  <2>2. Turn(c, p, IF p.get.op = "own" THEN "list" ELSE "shop")
    BY <1>5 DEF ReadBook
  <2> QED
    BY <1>1, <1>3, <2>1, <2>2
<1>6. CASE ReadShop(c) /\ ~Refuse(c)
  <2>1. p.at = "shop" /\ p.get.op = "offer" /\ Turn(c, p, "list")
    BY <1>1, <1>6 DEF ReadShop, Fits
  <2> QED
    BY <1>1, <1>3, <2>1
<1>7. CASE ReadStore(c) /\ ~Refuse(c)
  <2>1. p.at = "store" /\ p.get.op \in Counted /\ Turn(c, p, "total")
    BY <1>1, <1>7 DEF ReadStore, Fits
  <2> QED
    BY <1>1, <1>3, <2>1
<1> QED
  BY <1>2, <1>4, <1>5, <1>6, <1>7

LEMMA AskKeeps ==
    ASSUME PageInv, NEW c \in Reader, Ask(c)
    PROVE  DOMAIN page' = Reader /\ (\A d \in Reader \ {c} : page'[d] = page[d])
             /\ PageOK(page'[c], db, moved[c])
<1>1. PICK g \in Wanted :
        Turn(c, [NoPage EXCEPT !.get = g],
             CASE g.op \in {"offer", "own", "scoped"} -> "head"
               [] g.op = "store" -> "store"
               [] OTHER -> "total")
  BY DEF Ask
<1>2. DOMAIN [NoPage EXCEPT !.get = g] = DOMAIN NoPage /\ [NoPage EXCEPT !.get = g].get = g
  BY DEF NoPage
<1>3. g \in VariantPage \cup ListingPage
  BY PagesAssumption
<1>4. g.op \in Counted \cup {"offer", "own"}
  BY <1>3, PageOps
<1>5. PICK label : label = CASE g.op \in {"offer", "own", "scoped"} -> "head"
                             [] g.op = "store" -> "store"
                             [] OTHER -> "total"
  OBVIOUS
<1>6. \/ label = "head" /\ g.op \in {"offer", "own", "scoped"}
      \/ label \in {"store", "total"} /\ g.op \in Counted
  BY <1>4, <1>5 DEF Counted
<1>7. /\ DOMAIN page' = Reader /\ \A d \in Reader \ {c} : page'[d] = page[d]
      /\ DOMAIN page'[c] = DOMAIN NoPage /\ page'[c].at = label /\ page'[c].get = g
      /\ page'[c].found = {}
  <2> DEFINE q == [NoPage EXCEPT !.get = g]
  <2>1. Turn(c, q, label)
    BY <1>1, <1>5
  <2>2. DOMAIN page = Reader /\ DOMAIN q = DOMAIN NoPage /\ q.get = g /\ q.found = {}
    BY <1>2 DEF PageInv, NoPage
  <2> HIDE DEF q
  <2> QED
    BY <2>1, <2>2, Turned
<1>8. Fits(page'[c])
  BY <1>3, <1>6, <1>7 DEF Fits
<1>9. CountOK(page'[c], db, moved[c]) /\ ListOK(page'[c], db, moved[c])
  BY <1>6, <1>7 DEF CountOK, ListOK, Counted, AfterList
<1> QED
  BY <1>7, <1>8, <1>9 DEF PageOK

LEMMA CountKeeps ==
    ASSUME PageInv, NEW c \in Reader, Count(c)
    PROVE  DOMAIN page' = Reader /\ (\A d \in Reader \ {c} : page'[d] = page[d])
             /\ PageOK(page'[c], db, moved[c])
<1> DEFINE p == page[c]
           T == Matching(db, p.get)
           q == [p EXCEPT !.total = Cardinality(T)]
<1>1. DOMAIN page = Reader /\ DOMAIN p = DOMAIN NoPage /\ p.at = "total" /\ Fits(p)
  BY DEF PageInv, PageOK, Count
<1>2. p.get.op \in Counted /\ p.get \in VariantPage \cup ListingPage
  BY <1>1 DEF Fits
<1>3. Turn(c, q, "list")
  BY DEF Count
<1>4. DOMAIN q = DOMAIN NoPage /\ q.get = p.get /\ q.total = Cardinality(T)
      /\ q.found = p.found /\ p.found = {}
  BY <1>1 DEF NoPage, Fits, AfterList
<1>5. T \subseteq TableOf(p.get)
  BY <1>2, MatchesInTable
<1> HIDE DEF T, q
<1>6. /\ DOMAIN page' = Reader /\ \A d \in Reader \ {c} : page'[d] = page[d]
      /\ DOMAIN page'[c] = DOMAIN NoPage /\ page'[c].at = "list" /\ page'[c].get = p.get
      /\ page'[c].total = Cardinality(T) /\ page'[c].found = {}
  BY <1>1, <1>3, <1>4, Turned
<1>7. Fits(page'[c])
  BY <1>2, <1>6 DEF Fits
<1>8. Announced(page'[c]) = Cardinality(T) /\ Agrees(db, moved[c], p.get, T)
  BY <1>2, <1>6 DEF Announced, Agrees, Counted, T
<1>9. CountOK(page'[c], db, moved[c])
  BY <1>5, <1>6, <1>8 DEF CountOK
<1>10. ListOK(page'[c], db, moved[c])
  BY <1>6 DEF ListOK, AfterList
<1> QED
  BY <1>6, <1>7, <1>9, <1>10 DEF PageOK

LEMMA NewestAre ==
    ASSUME NEW T, NEW S \in Newest(T)
    PROVE  S \subseteq T /\ (S # T => Cardinality(S) = Limit)
BY DEF Newest, kSubset

LEMMA ListKeeps ==
    ASSUME PageInv, NEW c \in Reader, List(c)
    PROVE  DOMAIN page' = Reader /\ (\A d \in Reader \ {c} : page'[d] = page[d])
             /\ PageOK(page'[c], db, moved[c])
<1> DEFINE p == page[c]
           T == Matching(db, p.get)
<1>1. /\ DOMAIN page = Reader /\ DOMAIN p = DOMAIN NoPage /\ p.at = "list" /\ Fits(p)
      /\ CountOK(p, db, moved[c]) /\ p.found = {}
  BY DEF PageInv, PageOK, List, Fits, AfterList
<1>2. p.get \in VariantPage \cup ListingPage /\ p.get.op \in Counted \cup {"offer", "own"}
  BY <1>1, PageOps DEF Fits
<1>3. PICK S \in Newest(T) :
        \/ S = {} /\ p.get.op = "offer" /\ Refuse(c)
        \/ S = {} /\ p.get.op # "offer" /\ Turn(c, p, "shown")
        \/ S # {} /\ Turn(c, [p EXCEPT !.found = S, !.rows = [x \in S |-> db[x]]],
                          CASE p.get.op \in {"offer", "own", "scoped"} -> "configs"
                            [] p.get.op = "variants" -> "listings"
                            [] OTHER -> "sums")
  BY DEF List
<1>4. S \subseteq T /\ (S # T => Cardinality(S) = Limit) /\ T \subseteq TableOf(p.get)
  BY <1>2, <1>3, NewestAre, MatchesInTable
<1>5. PICK after : after = CASE p.get.op \in {"offer", "own", "scoped"} -> "configs"
                             [] p.get.op = "variants" -> "listings"
                             [] OTHER -> "sums"
  OBVIOUS
<1>6. /\ after = "configs" => p.get.op \in {"offer", "own", "scoped"}
      /\ after = "listings" => p.get.op = "variants"
      /\ after = "sums" => p.get.op \in Counted
      /\ after \in {"configs", "listings", "sums"}
  BY <1>2, <1>5 DEF Counted
<1> HIDE DEF T
<1>7. ASSUME NEW q, NEW label, Turn(c, q, label), DOMAIN q = DOMAIN NoPage, q.get = p.get,
             q.total = p.total, q.found = S,
             label = after \/ (label = "shown" /\ p.get.op # "offer")
      PROVE  DOMAIN page' = Reader /\ (\A d \in Reader \ {c} : page'[d] = page[d])
               /\ PageOK(page'[c], db, moved[c])
  <2>1. /\ DOMAIN page' = Reader /\ \A d \in Reader \ {c} : page'[d] = page[d]
        /\ DOMAIN page'[c] = DOMAIN NoPage /\ page'[c].at = label /\ page'[c].get = p.get
        /\ page'[c].total = p.total /\ page'[c].found = S
    BY <1>1, <1>7, Turned
  <2>2. Fits(page'[c])
    BY <1>2, <1>6, <1>7, <2>1 DEF Fits, Counted, AfterList
  <2>3. CountOK(page'[c], db, moved[c])
    BY <1>1, <1>6, <1>7, <2>1 DEF CountOK, Announced, Counted
  <2>4. S = T => Agrees(db, moved[c], p.get, S)
    BY DEF Agrees, T
  <2>5. Cardinality(S) < Limit => S = T
    BY <1>4, PagesAssumption
  <2>6. ListOK(page'[c], db, moved[c])
    BY <1>4, <2>1, <2>4, <2>5 DEF ListOK, T
  <2> QED
    BY <2>1, <2>2, <2>3, <2>6 DEF PageOK
<1>8. CASE S = {} /\ p.get.op = "offer" /\ Refuse(c)
  BY <1>1, <1>8 DEF Refuse, PageOK, Answered, NoPage
<1>9. CASE S = {} /\ p.get.op # "offer" /\ Turn(c, p, "shown")
  BY <1>1, <1>7, <1>9
<1>10. CASE S # {} /\ Turn(c, [p EXCEPT !.found = S, !.rows = [x \in S |-> db[x]]], after)
  <2> DEFINE q == [p EXCEPT !.found = S, !.rows = [x \in S |-> db[x]]]
  <2>1. Turn(c, q, after)
    BY <1>10
  <2>2. DOMAIN q = DOMAIN NoPage /\ q.get = p.get /\ q.total = p.total /\ q.found = S
    BY <1>1 DEF NoPage
  <2> HIDE DEF q
  <2> QED
    BY <1>7, <2>1, <2>2
<1> QED
  BY <1>3, <1>5, <1>8, <1>9, <1>10

LEMMA LaterStep ==
    ASSUME PageInv, NEW c \in Reader, NEW q, NEW label, Turn(c, q, label), DOMAIN q = DOMAIN NoPage,
           q.get = page[c].get, q.found = page[c].found, q.total = page[c].total,
           page[c].at \in AfterList, label \in AfterList,
           label \in {"listings", "books", "shops"} => q.get.op \in Counted,
           label \in {"configs", "values", "kinds"} => q.get.op \in {"offer", "own", "scoped", "variants"},
           label = "sums" => q.get.op \in Counted \cup {"offer"},
           q.get.op = "offer" => label # "shown"
    PROVE  DOMAIN page' = Reader /\ (\A d \in Reader \ {c} : page'[d] = page[d])
             /\ PageOK(page'[c], db, moved[c])
<1> DEFINE p == page[c]
<1>1. /\ DOMAIN page = Reader /\ DOMAIN p = DOMAIN NoPage /\ Fits(p)
      /\ CountOK(p, db, moved[c]) /\ ListOK(p, db, moved[c])
  BY DEF PageInv, PageOK, AfterList
<1>2. /\ DOMAIN page' = Reader /\ \A d \in Reader \ {c} : page'[d] = page[d]
      /\ DOMAIN page'[c] = DOMAIN NoPage /\ page'[c].at = label /\ page'[c].get = p.get
      /\ page'[c].total = p.total /\ page'[c].found = p.found
  BY <1>1, Turned
<1>3. Fits(page'[c])
  BY <1>1, <1>2 DEF Fits, AfterList
<1>4. CountOK(page'[c], db, moved[c]) /\ ListOK(page'[c], db, moved[c])
  BY <1>1, <1>2, <1>3, Carried
<1> QED
  BY <1>2, <1>3, <1>4 DEF PageOK

LEMMA SumKeeps ==
    ASSUME PageInv, NEW c \in Reader, Sum(c)
    PROVE  DOMAIN page' = Reader /\ (\A d \in Reader \ {c} : page'[d] = page[d])
             /\ PageOK(page'[c], db, moved[c])
<1> DEFINE p == page[c]
           listings == IF p.get.op = "offer" THEN {p.get.listing} ELSE p.found
           sums == [l \in listings |-> Summary(db, l, p.get.op # "inventory")]
           q == [p EXCEPT !.sums = sums]
<1>1. /\ DOMAIN page = Reader /\ DOMAIN p = DOMAIN NoPage /\ p.at = "sums" /\ Fits(p)
      /\ ListOK(p, db, moved[c])
  BY DEF PageInv, PageOK, Sum
<1>2. p.get \in VariantPage \cup ListingPage /\ p.get.op \in Counted \cup {"offer"}
  BY <1>1 DEF Fits
<1>3. Turn(c, q, IF p.get.op = "offer" THEN "shown" ELSE "books")
  BY DEF Sum
<1>4. /\ DOMAIN q = DOMAIN NoPage /\ q.get = p.get /\ q.total = p.total /\ q.found = p.found
      /\ q.sums = sums
  BY <1>1 DEF NoPage
<1> HIDE DEF q
<1>5. CASE p.get.op # "offer"
  BY <1>1, <1>2, <1>3, <1>4, <1>5, LaterStep DEF AfterList
<1>6. CASE p.get.op = "offer"
  <2> DEFINE T == Matching(db, p.get)
  <2>1. sums[p.get.listing] = Summary(db, p.get.listing, TRUE)
    BY <1>6
  <2>2. sums[p.get.listing].count = Cardinality(T)
    BY <1>6, <2>1 DEF Summary, Matching
  <2>3. T \subseteq TableOf(p.get) /\ Agrees(db, moved[c], p.get, T)
    BY <1>2, MatchesInTable DEF Agrees
  <2> HIDE DEF T, sums
  <2>4. /\ DOMAIN page' = Reader /\ \A d \in Reader \ {c} : page'[d] = page[d]
        /\ DOMAIN page'[c] = DOMAIN NoPage /\ page'[c].at = "shown" /\ page'[c].get = p.get
        /\ page'[c].sums = sums /\ page'[c].found = p.found
    BY <1>1, <1>3, <1>4, <1>6, Turned
  <2>5. Fits(page'[c])
    BY <1>1, <2>4 DEF Fits, AfterList
  <2>6. CountOK(page'[c], db, moved[c])
    BY <1>6, <2>2, <2>3, <2>4 DEF CountOK, Announced
  <2>7. ListOK(page'[c], db, moved[c])
    BY <1>1, <2>4 DEF ListOK, AfterList
  <2> QED
    BY <2>4, <2>5, <2>6, <2>7 DEF PageOK
<1> QED
  BY <1>5, <1>6

LEMMA LaterStepsKeep ==
    ASSUME PageInv, NEW c \in Reader,
           \/ ReadListings(c) \/ ReadBooks(c) \/ ReadShops(c)
           \/ PageConfigs(c) \/ PageValues(c) \/ PageKinds(c)
    PROVE  DOMAIN page' = Reader /\ (\A d \in Reader \ {c} : page'[d] = page[d])
             /\ PageOK(page'[c], db, moved[c])
<1> DEFINE p == page[c]
           Conclusion == DOMAIN page' = Reader /\ (\A d \in Reader \ {c} : page'[d] = page[d])
                           /\ PageOK(page'[c], db, moved[c])
<1>1. DOMAIN p = DOMAIN NoPage /\ (p.at \in AfterList => Fits(p))
  BY DEF PageInv, PageOK, AfterList
<1>2. Counted \cap {"offer", "own"} = {}
  BY DEF Counted
<1>3. CASE ReadListings(c)
  <2>1. PICK f : Turn(c, [p EXCEPT !.rows = f], "books") /\ p.at = "listings"
    BY <1>3 DEF ReadListings
  <2>2. /\ DOMAIN [p EXCEPT !.rows = f] = DOMAIN NoPage /\ [p EXCEPT !.rows = f].get = p.get
        /\ [p EXCEPT !.rows = f].found = p.found /\ [p EXCEPT !.rows = f].total = p.total
    BY <1>1 DEF NoPage
  <2>3. p.get.op \in Counted
    BY <1>1, <2>1 DEF Fits, AfterList
  <2> QED
    BY <1>2, <2>1, <2>2, <2>3, LaterStep DEF AfterList
<1>4. CASE ReadBooks(c)
  <2> DEFINE label == CASE p.get.op = "inventory" -> "shown"
                       [] p.get.op = "variants" -> "configs"
                       [] OTHER -> "shops"
             books == {b \in {p.rows[l].book : l \in DOMAIN p.rows \cap Listing} : Live(db[b])}
             todo == IF p.get.op = "inventory" THEN {} ELSE {x \in p.found : MayShow(p, x, books)}
  <2>0. Turn(c, [p EXCEPT !.books = books, !.todo = todo], label) /\ p.at = "books"
    BY <1>4, Zenon DEF ReadBooks
  <2>00. label \in {"shown", "configs", "shops"} /\ (label = "configs" => p.get.op = "variants")
    OBVIOUS
  <2> HIDE DEF label, books, todo, p
  <2>1. PICK B, D, lab :
          /\ Turn(c, [p EXCEPT !.books = B, !.todo = D], lab) /\ p.at = "books"
          /\ lab \in {"shown", "configs", "shops"} /\ (lab = "configs" => p.get.op = "variants")
    BY <2>0, <2>00
  <2> USE DEF p
  <2>2. LET q == [p EXCEPT !.books = B, !.todo = D] IN
          DOMAIN q = DOMAIN NoPage /\ q.get = p.get /\ q.found = p.found /\ q.total = p.total
    BY <1>1 DEF NoPage
  <2>3. p.get.op \in Counted
    BY <1>1, <2>1 DEF Fits, AfterList
  <2> QED
    BY <1>2, <2>1, <2>2, <2>3, LaterStep DEF AfterList
<1>5. CASE ReadShops(c)
  <2>1. p.at = "shops" /\ p.get.op \in Counted
    BY <1>1, <1>5 DEF ReadShops, Fits, AfterList
  <2>2. CASE p.todo = {} /\ Turn(c, p, "shown")
    BY <1>1, <1>2, <2>1, <2>2, LaterStep DEF AfterList
  <2>3. CASE ~(p.todo = {} /\ Turn(c, p, "shown"))
    <3>1. PICK D, C : Turn(c, [p EXCEPT !.todo = D, !.cards = C], "shops")
      BY <1>5, <2>3 DEF ReadShops
    <3>2. LET q == [p EXCEPT !.todo = D, !.cards = C] IN
            DOMAIN q = DOMAIN NoPage /\ q.get = p.get /\ q.found = p.found /\ q.total = p.total
      BY <1>1 DEF NoPage
    <3> QED
      BY <1>2, <2>1, <3>1, <3>2, LaterStep DEF AfterList
  <2> QED
    BY <2>2, <2>3
<1>6. ASSUME p.at \in {"configs", "values", "kinds"}
      PROVE  /\ p.get.op \in {"offer", "own", "scoped", "variants"}
             /\ AfterOptions(p) \in {"sums", "shown", "shops"}
             /\ p.get.op = "offer" => AfterOptions(p) = "sums"
             /\ p.get.op = "variants" => AfterOptions(p) = "shops"
             /\ p.get.op \in {"own", "scoped"} => AfterOptions(p) = "shown"
             /\ p.get.op = "variants" => p.get.op \in Counted
  BY <1>1, <1>6 DEF Fits, AfterOptions, AfterList, Counted
<1>7. CASE PageConfigs(c)
  <2>1. p.at = "configs"
    BY <1>7 DEF PageConfigs
  <2>2. CASE \E K : Turn(c, [p EXCEPT !.configs = K], "values")
    <3>1. PICK K : Turn(c, [p EXCEPT !.configs = K], "values")
      BY <2>2
    <3>2. LET q == [p EXCEPT !.configs = K] IN
            DOMAIN q = DOMAIN NoPage /\ q.get = p.get /\ q.found = p.found /\ q.total = p.total
      BY <1>1 DEF NoPage
    <3> QED
      BY <1>6, <2>1, <3>1, <3>2, LaterStep DEF AfterList
  <2>3. CASE ~\E K : Turn(c, [p EXCEPT !.configs = K], "values")
    <3>1. PICK f : Turn(c, [p EXCEPT !.options = f], AfterOptions(p))
      BY <1>7, <2>3 DEF PageConfigs
    <3>2. LET q == [p EXCEPT !.options = f] IN
            DOMAIN q = DOMAIN NoPage /\ q.get = p.get /\ q.found = p.found /\ q.total = p.total
      BY <1>1 DEF NoPage
    <3> QED
      BY <1>6, <2>1, <3>1, <3>2, LaterStep DEF AfterList
  <2> QED
    BY <2>2, <2>3
<1>8. CASE PageValues(c)
  <2>1. PICK K, V : Turn(c, [p EXCEPT !.configs = K, !.values = V], "kinds") /\ p.at = "values"
    BY <1>8 DEF PageValues
  <2>2. LET q == [p EXCEPT !.configs = K, !.values = V] IN
          DOMAIN q = DOMAIN NoPage /\ q.get = p.get /\ q.found = p.found /\ q.total = p.total
    BY <1>1 DEF NoPage
  <2> QED
    BY <1>6, <2>1, <2>2, LaterStep DEF AfterList
<1>9. CASE PageKinds(c)
  <2>1. PICK f : Turn(c, [p EXCEPT !.options = f], AfterOptions(p)) /\ p.at = "kinds"
    BY <1>9 DEF PageKinds
  <2>2. LET q == [p EXCEPT !.options = f] IN
          DOMAIN q = DOMAIN NoPage /\ q.get = p.get /\ q.found = p.found /\ q.total = p.total
    BY <1>1 DEF NoPage
  <2> QED
    BY <1>6, <2>1, <2>2, LaterStep DEF AfterList
<1> QED
  BY <1>3, <1>4, <1>5, <1>7, <1>8, <1>9

LEMMA PagesNextKeeps ==
    ASSUME ListingsInv, PageInv, [PagesNext]_pageVars
    PROVE  PageInv'
<1>1. CASE UNCHANGED pageVars
  BY <1>1 DEF pageVars, vars, PageInv
<1>2. CASE OtherRequest
  BY <1>2, OtherRequestKeeps
<1>3. ASSUME NEW c \in Reader, ReadPage(c), UNCHANGED <<vars, moved>> PROVE PageInv'
  <2>1. DOMAIN page' = Reader /\ (\A d \in Reader \ {c} : page'[d] = page[d])
          /\ PageOK(page'[c], db, moved[c])
    <3>1. CASE Ask(c)
      BY <3>1, AskKeeps
    <3>2. CASE ReadHead(c) \/ ReadBook(c) \/ ReadShop(c) \/ ReadStore(c)
      BY <3>2, HeadSteps
    <3>3. CASE Count(c)
      BY <3>3, CountKeeps
    <3>4. CASE List(c)
      BY <3>4, ListKeeps
    <3>5. CASE Sum(c)
      BY <3>5, SumKeeps
    <3>6. CASE \/ ReadListings(c) \/ ReadBooks(c) \/ ReadShops(c)
               \/ PageConfigs(c) \/ PageValues(c) \/ PageKinds(c)
      BY <3>6, LaterStepsKeep
    <3> QED
      BY <1>3, <3>1, <3>2, <3>3, <3>4, <3>5, <3>6 DEF ReadPage
  <2>2. db' = db /\ moved' = moved
    BY <1>3 DEF vars
  <2> QED
    BY <2>1, <2>2 DEF PageInv
<1> QED
  BY <1>1, <1>2, <1>3 DEF PagesNext

LEMMA PagesAreListings == PagesSpec => Spec
<1>1. PagesInit => Init
  BY DEF PagesInit
<1>2. [PagesNext]_pageVars => [Next]_vars
  BY DEF PagesNext, OtherRequest, pageVars
<1> QED
  BY <1>1, <1>2, PTL DEF PagesSpec, Spec

LEMMA PageInvariant == PagesSpec => []PageInv
<1>1. PagesInit => PageInv
  BY DEF PagesInit, PageInv, PageOK, NoPage
<1>2. ListingsInv /\ PageInv /\ [PagesNext]_pageVars => PageInv'
  BY PagesNextKeeps
<1> QED
  BY <1>1, <1>2, Invariant, PagesAreListings, PTL DEF PagesSpec

(* The number that a page announces and the rows that it lists differ by   *)
(* no more than what was committed while it was read, unless the page is   *)
(* full.                                                                   *)
THEOREM CountsMatch == PagesSpec => []CountsMatchLists
<1>1. ASSUME PageInv PROVE CountsMatchLists
  <2> SUFFICES ASSUME NEW c \in Reader, page[c].at = "shown", page[c].get.op # "own"
               PROVE  /\ Cardinality({x \in page[c].found : Steady(c, x)}) <= Announced(page[c])
                      /\ Cardinality(page[c].found) < Limit =>
                           Announced(page[c])
                             <= Cardinality(page[c].found \cup {x \in TableOf(page[c].get) : ~Steady(c, x)})
    BY DEF CountsMatchLists
  <2> DEFINE p == page[c]
             steady == {x \in p.found : Steady(c, x)}
             loose == p.found \cup {x \in TableOf(p.get) : ~Steady(c, x)}
  <2>1. Fits(p) /\ CountOK(p, db, moved[c]) /\ ListOK(p, db, moved[c])
    BY <1>1 DEF PageInv, PageOK
  <2>2. p.get \in VariantPage \cup ListingPage /\ p.get.op \in Counted \cup {"offer"}
    BY <2>1, PageOps DEF Fits
  <2>3. PICK T \in SUBSET TableOf(p.get) :
          Announced(p) = Cardinality(T) /\ Agrees(db, moved[c], p.get, T)
    BY <2>1, <2>2 DEF CountOK, AfterList
  <2>4. IsFiniteSet(TableOf(p.get)) /\ IsFiniteSet(T)
    BY <2>2, <2>3, PageOps, FS_Subset
  <2>5. p.found \subseteq TableOf(p.get)
    BY <2>1 DEF ListOK, AfterList
  <2>6. \A x : Steady(c, x) <=> Untouched(db, moved[c], x)
    BY DEF Steady, Untouched
  <2>7. steady \subseteq T
    BY <2>1, <2>3, <2>5, <2>6 DEF ListOK, Agrees, AfterList
  <2>8. Cardinality(p.found) < Limit => T \subseteq loose
    BY <2>1, <2>3, <2>6 DEF ListOK, Agrees, AfterList
  <2>9. IsFiniteSet(loose)
    BY <2>4, <2>5, FS_Subset
  <2> HIDE DEF steady, loose
  <2>10. Cardinality(steady) <= Cardinality(T) /\ (T \subseteq loose => Cardinality(T) <= Cardinality(loose))
    BY <2>4, <2>7, <2>9, FS_Subset
  <2> QED
    BY <2>3, <2>8, <2>10 DEF steady, loose
<1> QED
  BY <1>1, PageInvariant, PTL
=============================================================================
