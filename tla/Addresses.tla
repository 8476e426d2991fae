------------------------------ MODULE Addresses ------------------------------
(***************************************************************************)
(* The address book of one owner: app/user_address (kind = "user", at most *)
(* one default address) and app/business_address (kind = "business", at    *)
(* most one primary location, and one that offers pickup).  Both services  *)
(* run the same statements; a default and a primary row are called chosen. *)
(***************************************************************************)
EXTENDS Handlers

CONSTANTS
    Kind,           \* the address books of this instance: "user", "business"
    Address,        \* rows of the owner, existing or to come
    Saved,          \* the rows that exist at the start
    First,          \* the one of them that is chosen
    MaxAddresses,   \* MAX_USER_ADDRESSES, MAX_BUSINESS_ADDRESSES
    Op              \* the endpoints clients of this instance call

AddressRow == [state : {"none", "live", "deleted"}, chosen : BOOLEAN, pickup : BOOLEAN]

(* The rows there are at the start were added one at a time, so they are   *)
(* no more than the limit.                                                 *)
ASSUME AddressAssumption ==
    /\ Kind \subseteq {"user", "business"}
    /\ First \in Saved /\ Saved \subseteq Address
    /\ IsFiniteSet(Address)
    /\ MaxAddresses \in Nat /\ Cardinality(Saved) <= MaxAddresses
    /\ None \notin AddressRow \cup Address \cup BOOLEAN

VARIABLES
    kind,       \* which of the two books this is; never changes
    overlapped  \* history: two requests of the owner were running at once

book == <<kind, overlapped>>
vars == <<db, pend, pc, job, seen, book>>

(* Only store locations have a pickup flag.                                *)
CreateJob == [op : {"create"}, chosen : BOOLEAN, pickup : BOOLEAN]
(* A field the client leaves out is None.                                  *)
UpdateJob == [op : {"update"}, address : Address, chosen : BOOLEAN \cup {None},
              pickup : BOOLEAN \cup {None}]
DeleteJob == [op : {"delete"}, address : Address]
ChooseJob == [op : {"choose"}, address : Address]

Init ==
    /\ db = [a \in Address |-> [state |-> IF a \in Saved THEN "live" ELSE "none",
                                chosen |-> a = First, pickup |-> FALSE]]
    /\ HandlersInit
    /\ kind \in Kind /\ overlapped = FALSE

Live(row) == row.state = "live"
Book(r) == {a \in Address : Live(View(r, a))}

Called(Jobs) == {j \in Jobs : j.op \in Op}
NewPickup == IF kind = "business" THEN BOOLEAN ELSE {FALSE}
GivenPickup == IF kind = "business" THEN BOOLEAN \cup {None} ELSE {None}

Arrive(r) ==
    /\ \/ Begin(r, {j \in Called(CreateJob) : j.pickup \in NewPickup}, "count")
       \/ Begin(r, {j \in Called(UpdateJob) : j.pickup \in GivenPickup}, "read")
       \/ Begin(r, Called(DeleteJob) \cup Called(ChooseJob), "read")
    /\ overlapped' = (overlapped \/ \E s \in Request : Running(s))
    /\ UNCHANGED kind

-----------------------------------------------------------------------------
(* What a request works on: the row as its session loaded it, what it will *)
(* write, and the rows an UPDATE in progress has still to visit.           *)
Plan == [address : Address \cup {None}, loaded : [chosen : BOOLEAN, pickup : BOOLEAN],
         chosen : BOOLEAN \cup {None}, pickup : BOOLEAN \cup {None}, todo : SUBSET Address]

Loaded(row) == [chosen |-> row.chosen, pickup |-> row.pickup]
NewRow == [chosen |-> FALSE, pickup |-> FALSE]

PlanFor(a, loaded, chosen, pickup) ==
    [address |-> a, loaded |-> loaded, chosen |-> chosen, pickup |-> pickup, todo |-> {}]

(* create: the first row is chosen in any case.                            *)
Count(r) ==
    LET n == Cardinality(Book(r))
        chosen == job[r].chosen \/ n = 0
        clear == IF kind = "user" THEN chosen /\ n > 0 ELSE chosen
    IN  /\ At(r, "create", "count")
        /\ \/ /\ n < MaxAddresses
              /\ Read(r, PlanFor(None, NewRow, chosen, job[r].pickup),
                      IF clear THEN "clearChosen" ELSE "clearPickup")
           \/ n >= MaxAddresses /\ Fail(r)

(* update, delete and set_default / set_primary begin with read_by_id.     *)
ReadAddress(r) ==
    LET row == View(r, job[r].address)
        to(field) == IF job[r].op = "update" THEN job[r][field] ELSE None
    IN  /\ pc[r] = "read"
        /\ \/ /\ Live(row)
              /\ Read(r, PlanFor(job[r].address, Loaded(row),
                                 IF job[r].op = "choose" THEN TRUE ELSE to("chosen"),
                                 to("pickup")),
                      CASE job[r].op = "delete" -> "countRest"
                        [] job[r].op = "choose" -> "clearChosen"
                        [] job[r].op = "update" /\ job[r].chosen = TRUE -> "clearChosen"
                        [] OTHER -> "clearPickup")
           \/ ~Live(row) /\ Fail(r)

-----------------------------------------------------------------------------
(* clear_default_for_user / clear_primary_for_business and then            *)
(* clear_pickup_enabled_for_business: an UPDATE of all other rows with the *)
(* flag, which waits for those that another transaction holds and looks at *)
(* them again.                                                             *)

Flagged(r, flag) == {a \in Book(r) \ {seen[r].address} : View(r, a)[flag]}

AfterClear(r, flag) ==
    IF flag = "chosen" THEN "clearPickup"
    ELSE IF job[r].op = "update" THEN "reload" ELSE "write"

ClearAll(r, flag, label) ==
    LET todo == Flagged(r, flag) IN
    Read(r, [seen[r] EXCEPT !.todo = todo], IF todo = {} THEN AfterClear(r, flag) ELSE label)

ClearOne(r, flag, label) ==
    /\ pc[r] = label
    /\ \E a \in seen[r].todo :
        /\ ~HeldByOther(r, a)
        /\ \/ a \in Flagged(r, flag) /\ WriteRow(r, a, [View(r, a) EXCEPT ![flag] = FALSE])
           \/ a \notin Flagged(r, flag) /\ UNCHANGED <<db, pend>>
        /\ Keep(r, [seen[r] EXCEPT !.todo = @ \ {a}])
        /\ Goto(r, IF seen[r].todo = {a} THEN AfterClear(r, flag) ELSE label)
        /\ UNCHANGED job

ClearChosen(r) == \/ pc[r] = "clearChosen" /\ ClearAll(r, "chosen", "clearingChosen")
                  \/ ClearOne(r, "chosen", "clearingChosen")

(* Mutant: the pickup flag of the other rows is left alone.                *)
ClearPickupOfNone(r) ==
    pc[r] = "clearPickup" /\ Continue(r, AfterClear(r, "pickup"))

ClearPickup(r) ==
    \/ /\ pc[r] = "clearPickup"
       /\ \/ seen[r].pickup = TRUE /\ ClearAll(r, "pickup", "clearingPickup")
          \/ seen[r].pickup # TRUE /\ Continue(r, AfterClear(r, "pickup"))
    \/ ClearOne(r, "pickup", "clearingPickup")

-----------------------------------------------------------------------------
(* uq_.._active: a statement that makes row a chosen waits for others that *)
(* are changing a chosen row of the owner, and fails when one remains.     *)
MayChoose(r, a) ==
    \A b \in Address \ {a} :
        ~(HeldByOther(r, b) /\ ((Live(db[b]) /\ db[b].chosen) \/
            \E s \in Request \ {r} : Holds(s, b) /\ Live(pend[s][b]) /\ pend[s][b].chosen))

Taken(r, a) == \E b \in Book(r) \ {a} : View(r, b).chosen

(* Mutant: no unique index.                                                *)
StoreUnchecked(r, a, row) == Write(r, a, row, "commit")

Store(r, a, row) ==
    IF row.chosen /\ Live(row)
    THEN /\ MayChoose(r, a) /\ ~HeldByOther(r, a)
         /\ IF Taken(r, a) THEN Fail(r) ELSE Write(r, a, row, "commit")
    ELSE Write(r, a, row, "commit")

Insert(r) ==
    /\ At(r, "create", "write")
    /\ \E a \in Address :
         /\ db[a].state = "none" /\ ~HeldByOther(r, a)
         /\ Store(r, a, [state |-> "live", chosen |-> seen[r].chosen, pickup |-> seen[r].pickup])

(* update reads the row again; what its session loaded stays as it was.    *)
Reload(r) ==
    /\ pc[r] = "reload"
    /\ \/ Live(View(r, seen[r].address)) /\ Continue(r, "write")
       \/ ~Live(View(r, seen[r].address)) /\ Fail(r)

(* Only attributes that differ from the loaded ones reach the UPDATE.      *)
Flushed(r, field) ==
    IF seen[r][field] \notin {None, seen[r].loaded[field]} THEN seen[r][field]
    ELSE View(r, seen[r].address)[field]

NothingToFlush(r) ==
    \A field \in {"chosen", "pickup"} : seen[r][field] \in {None, seen[r].loaded[field]}

FlushAddress(r) ==
    LET a == seen[r].address IN
    /\ pc[r] = "write" /\ job[r].op # "create"
    /\ \/ NothingToFlush(r) /\ Continue(r, "commit")
       \/ /\ ~NothingToFlush(r)
          /\ Store(r, a, [View(r, a) EXCEPT !.chosen = Flushed(r, "chosen"),
                                            !.pickup = Flushed(r, "pickup")])

-----------------------------------------------------------------------------
(* delete.                                                                 *)

EnoughRest(r) == Cardinality(Book(r)) > 1

CountRest(r) ==
    /\ pc[r] = "countRest"
    /\ \/ EnoughRest(r) /\ Continue(r, "remove")
       \/ ~EnoughRest(r) /\ Fail(r)

Remove(r) ==
    LET a == seen[r].address IN
    /\ pc[r] = "remove" /\ ~HeldByOther(r, a)
    /\ \/ /\ Live(View(r, a))
          /\ Write(r, a, [View(r, a) EXCEPT !.state = "deleted"],
                   IF seen[r].loaded.chosen THEN "replace" ELSE "commit")
       \/ ~Live(View(r, a)) /\ Fail(r)

(* Mutant: a deleted default is not replaced.                              *)
ReplaceNothing(r) == pc[r] = "replace" /\ Continue(r, "commit")

(* find_first_active_..: the oldest row left, which may be any.            *)
Replace(r) ==
    /\ pc[r] = "replace"
    /\ \/ \E a \in Book(r) : Read(r, PlanFor(a, Loaded(View(r, a)), TRUE, None), "readReplacement")
       \/ Book(r) = {} /\ Continue(r, "commit")

(* set_default reads the replacement again; when it is gone the deletion   *)
(* goes on without one.                                                    *)
ReadReplacement(r) ==
    /\ pc[r] = "readReplacement"
    /\ Continue(r, IF Live(View(r, seen[r].address)) THEN "clearChosen" ELSE "commit")

Commit(r) == pc[r] = "commit" /\ Finish(r)
ConnectionLost(r) == Running(r) /\ Fail(r)

Statement(r) ==
    \/ Count(r) \/ ReadAddress(r) \/ ClearChosen(r) \/ ClearPickup(r)
    \/ Insert(r) \/ Reload(r) \/ FlushAddress(r)
    \/ CountRest(r) \/ Remove(r) \/ Replace(r) \/ ReadReplacement(r)
    \/ Commit(r) \/ ConnectionLost(r)

Next == \E r \in Request : Arrive(r) \/ (Statement(r) /\ UNCHANGED book)

Spec == Init /\ [][Next]_vars
-----------------------------------------------------------------------------
(* Properties.                                                             *)

Label == {"new", "done", "failed", "count", "read", "clearChosen", "clearingChosen",
          "clearPickup", "clearingPickup", "write", "reload", "countRest", "remove",
          "replace", "readReplacement", "commit"}

TypeOK ==
    /\ db \in [Address -> AddressRow]
    /\ pend \in [Request -> [Address -> AddressRow \cup {None}]]
    /\ pc \in [Request -> Label]
    /\ job \in [Request -> {NoJob} \cup CreateJob \cup UpdateJob \cup DeleteJob \cup ChooseJob]
    /\ seen \in [Request -> Plan \cup {None}]
    /\ kind \in Kind /\ overlapped \in BOOLEAN

Addresses == {a \in Address : Live(db[a])}
Chosen == {a \in Addresses : db[a].chosen}

(* "at_most_one_active_default_per_user", "at_most_one_active_primary_per_ *)
(* business": whatever the interleaving, never two chosen rows.            *)
AtMostOneChosen == Cardinality(Chosen) <= 1

(* As long as nobody clears the flag by an update, an owner with addresses *)
(* keeps a chosen one: the first row, the move of the flag and the         *)
(* replacement of a deleted row see to it, in every sequence of requests   *)
(* that do not overlap.                                                    *)
ChosenIsKept ==
    [][Chosen # {} /\ ~overlapped' =>
         \/ Chosen' # {} \/ Addresses' = {}
         \/ \E r \in Request : At(r, "update", "commit") /\ seen[r].chosen = FALSE]_vars

Pickups == {a \in Addresses : db[a].pickup}

(* The limit holds, the last address stays, and the pickup flag moves to   *)
(* the location that asks for it: through any sequence of requests that do *)
(* not overlap, whichever of them fail halfway.                            *)
BookInOrder ==
    ~overlapped => /\ Cardinality(Addresses) \in 1..MaxAddresses
                   /\ Cardinality(Pickups) <= 1
=============================================================================
