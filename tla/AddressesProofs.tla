--------------------------- MODULE AddressesProofs ---------------------------
(***************************************************************************)
(* Proofs about Addresses, for every owner, limit and set of requests: the *)
(* three properties its run checks.                                        *)
(*                                                                         *)
(* That two rows are never chosen rests on the unique index and on row     *)
(* locks alone, whatever runs at the same time: a transaction that has     *)
(* made a row chosen sees no other, and no second transaction has.  The    *)
(* order of the book rests on what the one running request still has to    *)
(* do, as long as requests do not overlap.                                 *)
(***************************************************************************)
EXTENDS Addresses, FiniteSetTheorems, TLAPS

ChosenRow(row) == Live(row) /\ row.chosen

(* A row that r has made, or left, chosen and not yet committed.           *)
Chooses(r, a) == Holds(r, a) /\ ChosenRow(pend[r][a])

Types ==
    /\ TypeOK
    /\ pend \in [Request -> [Address -> AddressRow \cup {None}]]

(* The endpoints whose handlers pass a statement.                          *)
OpsAt(label) ==
    CASE label = "count" -> {"create"}
      [] label = "read" -> {"update", "delete", "choose"}
      [] label = "reload" -> {"update"}
      [] label \in {"countRest", "remove", "replace", "readReplacement"} -> {"delete"}
      [] OTHER -> {"create", "update", "delete", "choose"}

Clearing == {"clearChosen", "clearingChosen", "clearPickup", "clearingPickup"}

(* The statements for which a row has been read and a plan made, ...       *)
Planned == Clearing \cup {"countRest", "remove", "replace", "readReplacement", "reload", "write",
                          "commit"}

(* ... and those at which the row is still to be written.                  *)
Ahead == Planned \ {"replace", "commit"}

Working(r) ==
    /\ Running(r) => job[r].op \in OpsAt(pc[r])
    /\ pc[r] \notin Planned => \A a \in Address : ~Holds(r, a)
    /\ pc[r] \in Planned =>
         /\ seen[r] \in Plan
         /\ job[r].op # "create" => seen[r].address \in Address
         /\ job[r].op = "create" =>
              seen[r].address = None /\ seen[r].chosen \in BOOLEAN /\ seen[r].pickup \in BOOLEAN
    /\ \/ pc[r] \in {"readReplacement", "clearChosen", "clearingChosen"}
       \/ pc[r] \in {"clearPickup", "clearingPickup", "write"} /\ job[r].op \in {"delete", "choose"}
       => seen[r].chosen = TRUE

(* Who has made a row chosen sees no other chosen row.                     *)
SeesOne(r) == \A a, b \in Address : Chooses(r, a) /\ a # b => ~ChosenRow(View(r, b))

OneTransactionChooses ==
    \A r, s \in Request, a, b \in Address : Chooses(r, a) /\ Chooses(s, b) => r = s

OneChosen == \A a, b \in Address : ChosenRow(db[a]) /\ ChosenRow(db[b]) => a = b

-----------------------------------------------------------------------------
(* While requests do not overlap.                                          *)

Marked(r) == {a \in Book(r) : View(r, a).pickup}

Kept(r) ==
    \/ \E a \in Address : ChosenRow(View(r, a))
    \/ job[r].op = "update" /\ seen[r].chosen = FALSE

Alone(r) ==
    /\ Cardinality(Book(r)) \in 1..MaxAddresses
    /\ job[r].op = "create" /\ pc[r] \in Ahead => Cardinality(Book(r)) < MaxAddresses
    /\ pc[r] = "remove" => Cardinality(Book(r)) > 1
    /\ job[r].op # "create" /\ pc[r] \in Ahead =>
         /\ Live(View(r, seen[r].address))
         /\ Loaded(View(r, seen[r].address)) = seen[r].loaded
    /\ pc[r] # "commit" => \A a \in Address : Holds(r, a) => db[a].state # "none"
    /\ \A a, b \in Marked(r) : a = b
    /\ pc[r] = "clearingPickup" => seen[r].pickup = TRUE /\ Flagged(r, "pickup") \subseteq seen[r].todo
    /\ pc[r] \in {"reload", "write"} /\ seen[r].pickup = TRUE => Flagged(r, "pickup") = {}
    /\ Chosen # {} =>
         /\ pc[r] \in {"count", "read", "countRest", "remove", "commit"} => Kept(r)
         /\ pc[r] \in Clearing \cup {"reload", "write"} => seen[r].chosen = TRUE \/ Kept(r)

Sequence ==
    /\ \A r, s \in Request : Running(r) /\ Running(s) => r = s
    /\ Cardinality(Addresses) \in 1..MaxAddresses
    /\ \A a, b \in Pickups : a = b
    /\ \A r \in Request : Running(r) => Alone(r)

AddressInv ==
    /\ Types
    /\ RowLocksExclusive
    /\ OneTransactionChooses
    /\ OneChosen
    /\ \A r \in Request : Working(r) /\ SeesOne(r)
    /\ ~overlapped => Sequence

Job == {NoJob} \cup CreateJob \cup UpdateJob \cup DeleteJob \cup ChooseJob
Seen == Plan \cup {None}

(* All that the invariant says of one request, whatever else is running.   *)
Mine(r) ==
    /\ pc[r] \in Label /\ job[r] \in Job /\ seen[r] \in Seen
    /\ pend[r] \in [Address -> AddressRow \cup {None}]
    /\ Working(r) /\ SeesOne(r)

(* Only r has moved.                                                       *)
OnlyMoves(r) ==
    /\ pc' = [pc EXCEPT ![r] = pc'[r]]
    /\ job' = [job EXCEPT ![r] = job'[r]]
    /\ seen' = [seen EXCEPT ![r] = seen'[r]]
    /\ kind' = kind /\ overlapped' \in BOOLEAN

-----------------------------------------------------------------------------
(* Rows.                                                                   *)

LEMMA RowIs == AddressInv => Row = Address
BY DEF AddressInv, Types, TypeOK, Row

LEMMA ViewTypes ==
    ASSUME AddressInv, NEW r \in Request, NEW a \in Address
    PROVE  View(r, a) \in AddressRow /\ db[a] \in AddressRow
BY DEF AddressInv, Types, TypeOK, View

LEMMA NotHeldByOther ==
    ASSUME AddressInv, NEW r \in Request, NEW s \in Request \ {r}, NEW a \in Address, Holds(r, a)
    PROVE  ~Holds(s, a)
BY RowIs DEF AddressInv, RowLocksExclusive

(* Of two rows that a transaction sees, at most one is chosen.             *)
LEMMA ViewHasOne ==
    ASSUME AddressInv, NEW r \in Request, NEW a \in Address, NEW b \in Address,
           ChosenRow(View(r, a)), ChosenRow(View(r, b))
    PROVE  a = b
<1>1. SeesOne(r)
  BY DEF AddressInv
<1>2. CASE Holds(r, a)
  BY <1>1, <1>2 DEF SeesOne, Chooses, View, Holds
<1>3. CASE Holds(r, b)
  BY <1>1, <1>3 DEF SeesOne, Chooses, View, Holds
<1>4. CASE ~Holds(r, a) /\ ~Holds(r, b)
  BY <1>4 DEF View, Holds, AddressInv, OneChosen
<1> QED
  BY <1>2, <1>3, <1>4

(* A transaction that finds a row chosen which nobody else holds is alone  *)
(* in that.                                                                *)
LEMMA ChosenAlone ==
    ASSUME AddressInv, NEW r \in Request, NEW a \in Address, ChosenRow(View(r, a)),
           ~HeldByOther(r, a), NEW s \in Request \ {r}, NEW b \in Address
    PROVE  ~Chooses(s, b)
<1> SUFFICES ASSUME Chooses(s, b) PROVE FALSE
  OBVIOUS
<1>1. ~Holds(s, a) /\ SeesOne(s)
  BY DEF HeldByOther, AddressInv
<1>2. a # b
  BY <1>1 DEF Chooses
<1>3. ~ChosenRow(db[a])
  BY <1>1, <1>2 DEF SeesOne, View, Holds
<1>4. Holds(r, a) /\ ChosenRow(pend[r][a])
  BY <1>3 DEF View, Holds
<1> QED
  BY <1>4 DEF Chooses, AddressInv, OneTransactionChooses

-----------------------------------------------------------------------------
(* The steps of others.                                                    *)

LEMMA OthersKeep ==
    ASSUME AddressInv, NEW r \in Request, OnlyMoves(r), NEW s \in Request \ {r},
           pend'[s] = pend[s],
           \A a, b \in Address : Chooses(s, b) /\ ~Holds(s, a) /\ ChosenRow(db'[a]) => ChosenRow(db[a])
    PROVE  Mine(s)'
<1>1. Mine(s)
  BY DEF AddressInv, Types, TypeOK, Mine, Job, Seen
<1>2. pc'[s] = pc[s] /\ job'[s] = job[s] /\ seen'[s] = seen[s]
  BY DEF OnlyMoves, AddressInv, Types, TypeOK
<1>3. \A a : (Holds(s, a)' <=> Holds(s, a)) /\ (Chooses(s, a)' <=> Chooses(s, a))
  BY DEF Holds, Chooses, ChosenRow, Live
<1>4. Working(s)'
  BY <1>1, <1>2, <1>3 DEF Mine, Working, Running
<1>5. SeesOne(s)'
  <2> SUFFICES ASSUME NEW a \in Address, NEW b \in Address, Chooses(s, a), a # b
               PROVE  ~ChosenRow(View(s, b))'
    BY <1>3 DEF SeesOne
  <2>1. ~ChosenRow(View(s, b))
    BY <1>1 DEF Mine, SeesOne
  <2>2. CASE Holds(s, b)
    BY <2>1, <2>2 DEF View, Holds, ChosenRow, Live
  <2>3. CASE ~Holds(s, b)
    <3>1. ~ChosenRow(db[b]) /\ ~ChosenRow(db'[b])
      BY <2>1, <2>3 DEF View, Holds
    <3> QED
      BY <2>3, <3>1 DEF View, Holds, ChosenRow, Live
  <2> QED
    BY <2>2, <2>3
<1> QED
  BY <1>1, <1>2, <1>4, <1>5 DEF Mine

-----------------------------------------------------------------------------
(* The steps of r.                                                         *)

LEMMA Together ==
    ASSUME AddressInv, NEW r \in Request, OnlyMoves(r),
           db' \in [Address -> AddressRow], pend' = [pend EXCEPT ![r] = pend'[r]],
           RowLocksExclusive', OneTransactionChooses', OneChosen',
           \A s \in Request : Mine(s)',
           ~overlapped' => Sequence'
    PROVE  AddressInv'
<1>1. pend' \in [Request -> [Address -> AddressRow \cup {None}]]
  BY DEF Mine, AddressInv, Types
<1>2. pc' \in [Request -> Label] /\ job' \in [Request -> Job] /\ seen' \in [Request -> Seen]
  BY DEF Mine, OnlyMoves, AddressInv, Types, TypeOK, Job, Seen
<1>3. Types'
  BY <1>1, <1>2 DEF Types, TypeOK, OnlyMoves, Job, Seen, AddressInv
<1> QED
  BY <1>3 DEF AddressInv, Mine

(* Between commits the book stays as it is.                                *)
LEMMA SequenceStays ==
    ASSUME AddressInv, NEW r \in Request, Running(r), OnlyMoves(r), db' = db,
           ~overlapped, Running(r)' => Alone(r)'
    PROVE  Sequence'
<1>1. Sequence
  BY DEF AddressInv
<1>2. \A s \in Request \ {r} : pc'[s] = pc[s]
  BY DEF OnlyMoves, AddressInv, Types, TypeOK
<1>3. \A s \in Request : Running(s)' => s = r
  BY <1>1, <1>2 DEF Sequence, Running
<1>4. Addresses' = Addresses /\ Pickups' = Pickups
  BY DEF Addresses, Pickups
<1> QED
  BY <1>1, <1>3, <1>4 DEF Sequence

LEMMA ReadStep ==
    ASSUME AddressInv, NEW r \in Request, Running(r), OnlyMoves(r),
           UNCHANGED <<db, pend, overlapped>>, Mine(r)', ~overlapped => Alone(r)'
    PROVE  AddressInv'
<1>1. \A s \in Request \ {r} : Mine(s)'
  BY OthersKeep
<1>2. RowLocksExclusive' /\ OneTransactionChooses' /\ OneChosen'
  BY DEF AddressInv, RowLocksExclusive, OneTransactionChooses, OneChosen, Chooses, Holds, Row
<1>3. pend' = [pend EXCEPT ![r] = pend'[r]] /\ db' \in [Address -> AddressRow]
  BY DEF AddressInv, Types, TypeOK
<1>4. ~overlapped' => Sequence'
  BY SequenceStays
<1> QED
  BY <1>1, <1>2, <1>3, <1>4, Together

LEMMA WriteStep ==
    ASSUME AddressInv, NEW r \in Request, Running(r), OnlyMoves(r),
           NEW a \in Address, NEW x \in AddressRow, WriteRow(r, a, x), overlapped' = overlapped,
           ChosenRow(x) => \A s \in Request \ {r}, b \in Address : ~Chooses(s, b),
           Mine(r)', ~overlapped => Alone(r)'
    PROVE  AddressInv'
<1>1. db' = db /\ pend' = [pend EXCEPT ![r][a] = x]
  BY DEF WriteRow
<1>2. \A s \in Request \ {r} : pend'[s] = pend[s]
  BY <1>1 DEF AddressInv, Types
<1>3. \A s \in Request \ {r} : Mine(s)'
  BY <1>1, <1>2, OthersKeep
<1>4. \A s \in Request, b \in Address : s # r \/ b # a => pend'[s][b] = pend[s][b]
  BY <1>1 DEF AddressInv, Types
<1>5. \A s \in Request \ {r} : ~Holds(s, a)
  BY DEF WriteRow, HeldByOther
<1>6. RowLocksExclusive'
  BY <1>1, <1>4, <1>5, RowIs DEF RowLocksExclusive, AddressInv, Row, Holds
<1>7. OneTransactionChooses'
  <2> SUFFICES ASSUME NEW p \in Request, NEW q \in Request, NEW b \in Address, NEW c \in Address,
                      Chooses(p, b)', Chooses(q, c)', p # q
               PROVE  FALSE
    BY DEF OneTransactionChooses
  <2>1. ASSUME NEW s \in Request, NEW d \in Address, s # r \/ d # a, Chooses(s, d)'
        PROVE  Chooses(s, d)
    BY <1>4, <2>1 DEF Chooses, Holds, ChosenRow, Live
  <2>2. Chooses(r, a)' => ChosenRow(x)
    BY <1>1 DEF Chooses, ChosenRow, Live, AddressInv, Types
  <2> QED
    BY <2>1, <2>2 DEF AddressInv, OneTransactionChooses
<1>8. OneChosen' /\ db' \in [Address -> AddressRow]
  BY <1>1 DEF OneChosen, AddressInv, Types, TypeOK
<1>9. pend' = [pend EXCEPT ![r] = pend'[r]]
  BY <1>1 DEF AddressInv, Types
<1>10. ~overlapped' => Sequence'
  BY <1>1, SequenceStays
<1> QED
  BY <1>3, <1>6, <1>7, <1>8, <1>9, <1>10, Together

-----------------------------------------------------------------------------
(* The end of a request.                                                   *)

LEMMA EndedIsMine ==
    ASSUME AddressInv, NEW r \in Request, NEW outcome \in {"done", "failed"}, End(r, outcome),
           pend' = [pend EXCEPT ![r] = NoWrites]
    PROVE  Mine(r)' /\ ~Running(r)' /\ \A a \in Address : ~Holds(r, a)'
<1>1. /\ pc'[r] = outcome /\ job'[r] = NoJob /\ seen'[r] = None
      /\ pend'[r] = [a \in Address |-> None]
  BY RowIs DEF AddressInv, Types, TypeOK, End, Goto, NoWrites
<1>2. \A a \in Address : ~Holds(r, a)'
  BY <1>1 DEF Holds
<1>3. Working(r)' /\ ~Running(r)'
  BY <1>1, <1>2 DEF Working, Running, Planned, Clearing
<1>4. SeesOne(r)'
  BY <1>2 DEF SeesOne, Chooses
<1> QED
  BY <1>1, <1>2, <1>3, <1>4 DEF Mine, Label, Job, Seen

LEMMA RejectStep ==
    ASSUME AddressInv, NEW r \in Request, Running(r), Fail(r), UNCHANGED book
    PROVE  AddressInv'
<1>1. /\ db' = db /\ pend' = [pend EXCEPT ![r] = NoWrites] /\ End(r, "failed")
      /\ kind' = kind /\ overlapped' = overlapped
  BY DEF Fail, DiscardWrites, book
<1>2. OnlyMoves(r)
  BY <1>1 DEF OnlyMoves, End, Goto, AddressInv, Types, TypeOK
<1>3. \A s \in Request \ {r} : pend'[s] = pend[s]
  BY <1>1 DEF AddressInv, Types
<1>4. \A s \in Request \ {r} : Mine(s)'
  BY <1>1, <1>2, <1>3, OthersKeep
<1>5. Mine(r)' /\ ~Running(r)' /\ \A a \in Address : ~Holds(r, a)'
  BY <1>1, EndedIsMine
<1>6. RowLocksExclusive' /\ OneTransactionChooses' /\ OneChosen'
  BY <1>1, <1>3, <1>5, RowIs
     DEF AddressInv, RowLocksExclusive, OneTransactionChooses, OneChosen, Chooses, Holds, Row
<1>7. pend' = [pend EXCEPT ![r] = pend'[r]] /\ db' \in [Address -> AddressRow]
  BY <1>1 DEF AddressInv, Types, TypeOK
<1>8. ~overlapped' => Sequence'
  BY <1>1, <1>2, <1>5, SequenceStays
<1> QED
  BY <1>2, <1>4, <1>5, <1>6, <1>7, <1>8, Together

LEMMA CommitStep ==
    ASSUME AddressInv, NEW r \in Request, Commit(r), UNCHANGED book
    PROVE  AddressInv'
<1>1. /\ db' = [a \in Row |-> View(r, a)] /\ pend' = [pend EXCEPT ![r] = NoWrites]
      /\ End(r, "done") /\ kind' = kind /\ overlapped' = overlapped /\ Running(r)
  BY DEF Commit, Finish, CommitWrites, book, Running
<1>2. \A a \in Address : db'[a] = View(r, a)
  BY <1>1, RowIs
<1>3. OnlyMoves(r)
  BY <1>1 DEF OnlyMoves, End, Goto, AddressInv, Types, TypeOK
<1>4. \A s \in Request \ {r} : pend'[s] = pend[s]
  BY <1>1 DEF AddressInv, Types
<1>5. \A s \in Request \ {r} : Mine(s)'
  <2> TAKE s \in Request \ {r}
  <2>1. ASSUME NEW a \in Address, NEW b \in Address, Chooses(s, b), ~Holds(s, a), ChosenRow(db'[a])
        PROVE  ChosenRow(db[a])
    <3>1. ~Chooses(r, a)
      BY <2>1 DEF AddressInv, OneTransactionChooses
    <3> QED
      BY <1>2, <2>1, <3>1 DEF View, Holds, Chooses
  <2> QED
    BY <1>3, <1>4, <2>1, OthersKeep
<1>6. Mine(r)' /\ ~Running(r)' /\ \A a \in Address : ~Holds(r, a)'
  BY <1>1, EndedIsMine
<1>7. Row' = Address
  BY <1>1, RowIs DEF Row
<1>8. RowLocksExclusive' /\ OneTransactionChooses'
  BY <1>4, <1>6, <1>7, RowIs DEF AddressInv, RowLocksExclusive, OneTransactionChooses, Chooses, Holds
<1>9. OneChosen'
  BY <1>2, ViewHasOne DEF OneChosen, ChosenRow, Live
<1>10. db' \in [Address -> AddressRow] /\ pend' = [pend EXCEPT ![r] = pend'[r]]
  BY <1>1, RowIs, ViewTypes DEF AddressInv, Types
<1>11. ~overlapped' => Sequence'
  <2> SUFFICES ASSUME ~overlapped PROVE Sequence'
    BY <1>1
  <2>1. Sequence /\ Alone(r)
    BY <1>1 DEF AddressInv, Sequence
  <2>2. \A s \in Request : ~Running(s)'
    BY <1>1, <1>3, <1>6, <2>1 DEF Sequence, OnlyMoves, Running, AddressInv, Types, TypeOK
  <2>3. Addresses' = Book(r) /\ Pickups' = Marked(r)
    BY <1>2 DEF Addresses, Pickups, Book, Marked, Live
  <2> QED
    BY <2>1, <2>2, <2>3 DEF Sequence, Alone
<1> QED
  BY <1>3, <1>5, <1>6, <1>8, <1>9, <1>10, <1>11, Together

-----------------------------------------------------------------------------
(* Statements that only read.                                              *)

LEMMA GotoMoves ==
    ASSUME AddressInv, NEW r \in Request, NEW label, Goto(r, label), job' = job,
           seen' = seen \/ seen' = [seen EXCEPT ![r] = seen'[r]], UNCHANGED book
    PROVE  OnlyMoves(r) /\ pc'[r] = label /\ job'[r] = job[r]
BY DEF OnlyMoves, Goto, AddressInv, Types, TypeOK, book

LEMMA RequestTypes ==
    ASSUME AddressInv, NEW r \in Request
    PROVE  /\ pc[r] \in Label /\ job[r] \in Job /\ seen[r] \in Seen
           /\ pend[r] \in [Address -> AddressRow \cup {None}] /\ Working(r)
BY DEF AddressInv, Types, TypeOK, Job, Seen

LEMMA SameView ==
    ASSUME AddressInv, NEW r \in Request, UNCHANGED <<db, pend>>
    PROVE  /\ \A a : View(r, a)' = View(r, a) /\ (Holds(r, a)' <=> Holds(r, a))
           /\ Book(r)' = Book(r) /\ Marked(r)' = Marked(r) /\ Chosen' = Chosen
BY DEF View, Holds, Book, Marked, Chosen, Addresses, Live

LEMMA ReadMine ==
    ASSUME AddressInv, NEW r \in Request, UNCHANGED <<db, pend>>,
           pc'[r] \in Label, job'[r] \in Job, seen'[r] \in Seen, Working(r)'
    PROVE  Mine(r)'
BY SameView, RequestTypes DEF Mine, AddressInv, SeesOne, Chooses, ChosenRow, Live

LEMMA AloneNow ==
    ASSUME AddressInv, NEW r \in Request, Running(r), ~overlapped
    PROVE  Alone(r)
BY DEF AddressInv, Sequence

LEMMA BookIsFinite ==
    ASSUME AddressInv, NEW r \in Request
    PROVE  IsFiniteSet(Book(r)) /\ Cardinality(Book(r)) \in Nat
<1>1. IsFiniteSet(Book(r))
  BY AddressAssumption, FS_Subset DEF Book
<1> QED
  BY <1>1, FS_CardinalityType

LEMMA PlanFields ==
    ASSUME NEW a \in Address \cup {None}, NEW l \in [chosen : BOOLEAN, pickup : BOOLEAN],
           NEW c \in BOOLEAN \cup {None}, NEW p \in BOOLEAN \cup {None}
    PROVE  LET x == PlanFor(a, l, c, p) IN
           /\ x \in Plan
           /\ x.address = a /\ x.loaded = l /\ x.chosen = c /\ x.pickup = p /\ x.todo = {}
BY DEF PlanFor, Plan

LEMMA JobFields ==
    ASSUME NEW j \in Job
    PROVE  /\ j.op = "create" => j.chosen \in BOOLEAN /\ j.pickup \in BOOLEAN
           /\ j.op = "update" => /\ j.chosen \in BOOLEAN \cup {None}
                                 /\ j.pickup \in BOOLEAN \cup {None}
           /\ j.op \in {"update", "delete", "choose"} => j.address \in Address
BY DEF Job, NoJob, CreateJob, UpdateJob, DeleteJob, ChooseJob

LEMMA LoadedType ==
    ASSUME NEW row \in AddressRow
    PROVE  /\ Loaded(row) \in [chosen : BOOLEAN, pickup : BOOLEAN]
           /\ Loaded(row).chosen = row.chosen /\ Loaded(row).pickup = row.pickup
BY DEF Loaded, AddressRow

LEMMA ArriveStep ==
    ASSUME AddressInv, NEW r \in Request, Arrive(r)
    PROVE  AddressInv'
<1>1. PICK j \in Job, l \in {"count", "read"} :
        /\ job' = [job EXCEPT ![r] = j] /\ Goto(r, l) /\ j.op \in OpsAt(l)
  <2>1. ASSUME NEW l, NEW Jobs, Begin(r, Jobs, l)
        PROVE  \E j \in Jobs : job' = [job EXCEPT ![r] = j] /\ Goto(r, l)
    BY <2>1 DEF Begin
  <2>2. \A j \in CreateJob : j \in Job /\ j.op = "create"
    BY DEF CreateJob, Job
  <2>3. \A j \in UpdateJob : j \in Job /\ j.op = "update"
    BY DEF UpdateJob, Job
  <2>4. \A j \in DeleteJob \cup ChooseJob : j \in Job /\ j.op \in {"delete", "choose"}
    BY DEF DeleteJob, ChooseJob, Job
  <2>5. CASE Begin(r, {j \in Called(CreateJob) : j.pickup \in NewPickup}, "count")
    BY <2>1, <2>2, <2>5 DEF Called, OpsAt
  <2>6. CASE Begin(r, {j \in Called(UpdateJob) : j.pickup \in GivenPickup}, "read")
    BY <2>1, <2>3, <2>6 DEF Called, OpsAt
  <2>7. CASE Begin(r, Called(DeleteJob) \cup Called(ChooseJob), "read")
    BY <2>1, <2>4, <2>7 DEF Called, OpsAt
  <2> QED
    BY <2>5, <2>6, <2>7 DEF Arrive
<1>2. /\ pc[r] = "new" /\ UNCHANGED <<db, pend, seen>> /\ kind' = kind
      /\ overlapped' = (overlapped \/ \E s \in Request : Running(s))
  BY DEF Arrive, Begin
<1>3. pc'[r] = l /\ job'[r] = j /\ seen'[r] = seen[r]
  BY <1>1, <1>2 DEF Goto, AddressInv, Types, TypeOK
<1>4. OnlyMoves(r)
  BY <1>1, <1>2 DEF OnlyMoves, Goto, AddressInv, Types, TypeOK
<1>5. \A a \in Address : ~Holds(r, a) /\ ~Holds(r, a)'
  BY <1>2, RequestTypes, SameView DEF Working, Planned, Clearing
<1>6. Working(r)'
  BY <1>1, <1>3, <1>5 DEF Working, Running, Planned, Clearing
<1>7. Mine(r)'
  BY <1>2, <1>3, <1>6, ReadMine, RequestTypes DEF Label
<1>8. \A s \in Request \ {r} : Mine(s)'
  BY <1>2, <1>4, OthersKeep
<1>9. RowLocksExclusive' /\ OneTransactionChooses' /\ OneChosen'
  BY <1>2 DEF AddressInv, RowLocksExclusive, OneTransactionChooses, OneChosen, Chooses, Holds, Row
<1>10. pend' = [pend EXCEPT ![r] = pend'[r]] /\ db' \in [Address -> AddressRow]
  BY <1>2 DEF AddressInv, Types, TypeOK
<1>11. ~overlapped' => Sequence'
  <2> SUFFICES ASSUME ~overlapped' PROVE Sequence'
    OBVIOUS
  <2>1. Sequence /\ \A s \in Request : ~Running(s)
    BY <1>2 DEF AddressInv
  <2>2. \A s \in Request : Running(s)' => s = r
    BY <1>4, <2>1 DEF OnlyMoves, Running, AddressInv, Types, TypeOK
  <2>3. Addresses' = Addresses /\ Pickups' = Pickups
    BY <1>2 DEF Addresses, Pickups
  <2>4. Book(r)' = Addresses /\ Marked(r)' = Pickups /\ \A a \in Address : View(r, a)' = db[a]
    BY <1>2, <1>5 DEF Book, Marked, View, Addresses, Pickups, Holds, Live
  <2>5. Chosen' # {} => Kept(r)'
    BY <1>2, <2>4 DEF Chosen, Addresses, Kept, ChosenRow, Live
  <2>6. Alone(r)'
    BY <1>3, <1>5, <2>1, <2>4, <2>5 DEF Alone, Sequence, Ahead, Planned, Clearing
  <2> QED
    BY <2>1, <2>2, <2>3, <2>6 DEF Sequence
<1> QED
  BY <1>4, <1>7, <1>8, <1>9, <1>10, <1>11, Together

LEMMA CountStep ==
    ASSUME AddressInv, NEW r \in Request, Count(r), UNCHANGED book
    PROVE  AddressInv'
<1>1. pc[r] = "count" /\ job[r].op = "create" /\ Running(r)
  BY DEF Count, At, Running
<1>2. CASE Fail(r)
  BY <1>1, <1>2, RejectStep
<1>3. CASE ~Fail(r)
  <2> DEFINE n == Cardinality(Book(r))
             chosen == job[r].chosen \/ n = 0
  <2>1. PICK l \in {"clearChosen", "clearPickup"} :
          /\ n < MaxAddresses /\ Read(r, PlanFor(None, NewRow, chosen, job[r].pickup), l)
          /\ l = "clearChosen" => chosen
    BY <1>3 DEF Count
  <2>2. job[r].pickup \in BOOLEAN /\ chosen \in BOOLEAN
    BY <1>1, RequestTypes, JobFields
  <2> HIDE DEF chosen
  <2>3. UNCHANGED <<db, pend>> /\ OnlyMoves(r) /\ pc'[r] = l /\ job'[r] = job[r]
    BY <2>1, GotoMoves DEF Read, Keep, AddressInv, Types, TypeOK
  <2>4. /\ seen'[r] \in Plan /\ seen'[r].address = None /\ seen'[r].chosen = chosen
        /\ seen'[r].pickup = job[r].pickup
    <3>1. seen'[r] = PlanFor(None, NewRow, chosen, job[r].pickup)
      BY <2>1 DEF Read, Keep, AddressInv, Types, TypeOK
    <3>2. NewRow \in [chosen : BOOLEAN, pickup : BOOLEAN]
      BY DEF NewRow
    <3> QED
      BY <2>2, <3>1, <3>2, PlanFields
  <2>5. Working(r)'
    BY <1>1, <2>1, <2>2, <2>3, <2>4, RequestTypes DEF Working, Running, Planned, Clearing, OpsAt
  <2>6. Mine(r)'
    BY <2>3, <2>4, <2>5, ReadMine, RequestTypes DEF Label, Seen
  <2>7. ~overlapped => Alone(r)'
    <3> SUFFICES ASSUME ~overlapped PROVE Alone(r)'
      OBVIOUS
    <3>1. Alone(r)
      BY <1>1, AloneNow
    <3>2. Chosen # {} => Kept(r)'
      BY <1>1, <2>3, <3>1, SameView DEF Alone, Kept, ChosenRow, Live
    <3> QED
      BY <1>1, <2>1, <2>3, <3>1, <3>2, SameView DEF Alone, Ahead, Planned, Clearing
  <2> QED
    BY <1>1, <2>3, <2>6, <2>7, ReadStep DEF book
<1> QED
  BY <1>2, <1>3

LEMMA ReadAddressStep ==
    ASSUME AddressInv, NEW r \in Request, ReadAddress(r), UNCHANGED book
    PROVE  AddressInv'
<1>1. pc[r] = "read" /\ Running(r) /\ job[r].op \in {"update", "delete", "choose"}
  BY RequestTypes DEF ReadAddress, Running, Working, OpsAt
<1>2. CASE Fail(r)
  BY <1>1, <1>2, RejectStep
<1>3. CASE ~Fail(r)
  <2> DEFINE a == job[r].address
             row == View(r, a)
             c == IF job[r].op = "choose" THEN TRUE
                  ELSE IF job[r].op = "update" THEN job[r]["chosen"] ELSE None
             p == IF job[r].op = "update" THEN job[r]["pickup"] ELSE None
  <2>1. PICK l \in {"countRest", "clearChosen", "clearPickup"} :
          /\ Live(row) /\ Read(r, PlanFor(a, Loaded(row), c, p), l)
          /\ l = "countRest" <=> job[r].op = "delete"
          /\ l = "clearChosen" => c = TRUE
          /\ l = "clearPickup" => job[r].op = "update"
    <3>1. /\ Live(row)
          /\ Read(r, PlanFor(a, Loaded(row), c, p),
                  CASE job[r].op = "delete" -> "countRest"
                    [] job[r].op = "choose" -> "clearChosen"
                    [] job[r].op = "update" /\ job[r].chosen = TRUE -> "clearChosen"
                    [] OTHER -> "clearPickup")
      BY <1>3 DEF ReadAddress
    <3>2. /\ job[r].op = "choose" => c = TRUE
          /\ job[r].op = "update" => c = job[r].chosen
      OBVIOUS
    <3> HIDE DEF c, p, row
    <3> QED
      BY <1>1, <3>1, <3>2
  <2>2. a \in Address /\ c \in BOOLEAN \cup {None} /\ p \in BOOLEAN \cup {None}
    BY <1>1, RequestTypes, JobFields
  <2>3. /\ row \in AddressRow /\ Loaded(row) \in [chosen : BOOLEAN, pickup : BOOLEAN]
        /\ row = View(r, job[r].address)
    BY <2>2, ViewTypes, LoadedType
  <2> HIDE DEF c, p, row
  <2>4. UNCHANGED <<db, pend>> /\ OnlyMoves(r) /\ pc'[r] = l /\ job'[r] = job[r]
    BY <2>1, GotoMoves DEF Read, Keep, AddressInv, Types, TypeOK
  <2>5. seen'[r] = PlanFor(a, Loaded(row), c, p)
    BY <2>1 DEF Read, Keep, AddressInv, Types, TypeOK
  <2>6. /\ seen'[r] \in Plan /\ seen'[r].address = a /\ seen'[r].chosen = c
        /\ seen'[r].loaded = Loaded(row)
    BY <2>2, <2>3, <2>5, PlanFields
  <2>7. Working(r)'
    BY <1>1, <2>1, <2>2, <2>4, <2>6, RequestTypes DEF Working, Running, Planned, Clearing, OpsAt
  <2>8. Mine(r)'
    BY <2>4, <2>6, <2>7, ReadMine, RequestTypes DEF Label, Seen
  <2>9. ~overlapped => Alone(r)'
    <3> SUFFICES ASSUME ~overlapped PROVE Alone(r)'
      OBVIOUS
    <3>1. Alone(r)
      BY <1>1, AloneNow
    <3>2. Chosen # {} => \E b \in Address : ChosenRow(View(r, b))
      <4>1. \A b \in Address : View(r, b) = db[b]
        BY <1>1, RequestTypes DEF Working, Planned, Clearing, View, Holds
      <4> QED
        BY <4>1 DEF Chosen, Addresses, ChosenRow
    <3>3. Chosen # {} => Kept(r)'
      BY <2>4, <3>2, SameView DEF Kept, ChosenRow, Live
    <3>4. Live(View(r, a))' /\ Loaded(View(r, a))' = Loaded(row)
      BY <2>1, <2>3, <2>4, SameView DEF Live, Loaded
    <3> QED
      BY <1>1, <2>1, <2>4, <2>6, <3>1, <3>3, <3>4, SameView DEF Alone, Ahead, Planned, Clearing, Live, Loaded
  <2> QED
    BY <1>1, <2>4, <2>8, <2>9, ReadStep DEF book
<1> QED
  BY <1>2, <1>3

(* A statement that finds nothing to write.                                *)
LEMMA ContinueStep ==
    ASSUME AddressInv, NEW r \in Request, Running(r), NEW l \in Label, Continue(r, l),
           UNCHANGED book,
           pc'[r] = l /\ job'[r] = job[r] /\ seen'[r] = seen[r] /\ UNCHANGED <<db, pend>> =>
             Working(r)' /\ (~overlapped => Alone(r)')
    PROVE  AddressInv'
<1>1. UNCHANGED <<db, pend, job, seen>>
  BY DEF Continue
<1>2. OnlyMoves(r) /\ pc'[r] = l /\ job'[r] = job[r] /\ seen'[r] = seen[r]
  BY GotoMoves DEF Continue
<1>3. Mine(r)'
  BY <1>1, <1>2, ReadMine, RequestTypes
<1> QED
  BY <1>1, <1>2, <1>3, ReadStep DEF book

LEMMA ReloadStep ==
    ASSUME AddressInv, NEW r \in Request, Reload(r), UNCHANGED book
    PROVE  AddressInv'
<1>1. pc[r] = "reload" /\ Running(r)
  BY DEF Reload, Running
<1>2. CASE Fail(r)
  BY <1>1, <1>2, RejectStep
<1>3. CASE ~Fail(r)
  <2>1. Continue(r, "write") /\ Live(View(r, seen[r].address))
    BY <1>3 DEF Reload
  <2> SUFFICES ASSUME pc'[r] = "write" /\ job'[r] = job[r] /\ seen'[r] = seen[r] /\ UNCHANGED <<db, pend>>
               PROVE  Working(r)' /\ (~overlapped => Alone(r)')
    BY <1>1, <2>1, ContinueStep DEF Label
  <2>2. Working(r)'
    BY <1>1, RequestTypes, SameView DEF Working, Running, Planned, Clearing, OpsAt
  <2>3. ASSUME ~overlapped PROVE Alone(r)'
    <3>1. Alone(r)
      BY <1>1, <2>3, AloneNow
    <3>2. Kept(r)' = Kept(r) /\ Flagged(r, "pickup")' = Flagged(r, "pickup")
      BY SameView DEF Kept, Flagged, ChosenRow, Live
    <3> QED
      BY <1>1, <3>1, <3>2, SameView DEF Alone, Ahead, Planned, Clearing, Live, Loaded
  <2> QED
    BY <2>2, <2>3
<1> QED
  BY <1>2, <1>3

LEMMA CountRestStep ==
    ASSUME AddressInv, NEW r \in Request, CountRest(r), UNCHANGED book
    PROVE  AddressInv'
<1>1. pc[r] = "countRest" /\ Running(r)
  BY DEF CountRest, Running
<1>2. CASE Fail(r)
  BY <1>1, <1>2, RejectStep
<1>3. CASE ~Fail(r)
  <2>1. Continue(r, "remove") /\ Cardinality(Book(r)) > 1
    BY <1>3 DEF CountRest, EnoughRest
  <2> SUFFICES ASSUME pc'[r] = "remove" /\ job'[r] = job[r] /\ seen'[r] = seen[r] /\ UNCHANGED <<db, pend>>
               PROVE  Working(r)' /\ (~overlapped => Alone(r)')
    BY <1>1, <2>1, ContinueStep DEF Label
  <2>2. Working(r)'
    BY <1>1, RequestTypes, SameView DEF Working, Running, Planned, Clearing, OpsAt
  <2>3. ASSUME ~overlapped PROVE Alone(r)'
    <3>1. Alone(r)
      BY <1>1, <2>3, AloneNow
    <3>2. Kept(r)' = Kept(r)
      BY SameView DEF Kept, ChosenRow, Live
    <3> QED
      BY <1>1, <2>1, <3>1, <3>2, SameView DEF Alone, Ahead, Planned, Clearing, Live, Loaded
  <2> QED
    BY <2>2, <2>3
<1> QED
  BY <1>2, <1>3

LEMMA ReadReplacementStep ==
    ASSUME AddressInv, NEW r \in Request, ReadReplacement(r), UNCHANGED book
    PROVE  AddressInv'
<1> DEFINE l == IF Live(View(r, seen[r].address)) THEN "clearChosen" ELSE "commit"
<1>1. pc[r] = "readReplacement" /\ Running(r) /\ Continue(r, l) /\ l \in Label
  BY DEF ReadReplacement, Running, Label
<1>2. l = "commit" => ~Live(View(r, seen[r].address))
  OBVIOUS
<1>3. l \in {"clearChosen", "commit"}
  OBVIOUS
<1> HIDE DEF l
<1> SUFFICES ASSUME pc'[r] = l /\ job'[r] = job[r] /\ seen'[r] = seen[r] /\ UNCHANGED <<db, pend>>
             PROVE  Working(r)' /\ (~overlapped => Alone(r)')
  BY <1>1, ContinueStep
<1>4. Working(r)'
  BY <1>1, <1>3, RequestTypes, SameView DEF Working, Running, Planned, Clearing, OpsAt
<1>5. ASSUME ~overlapped PROVE Alone(r)'
  <2>1. Alone(r) /\ Working(r)
    BY <1>1, <1>5, AloneNow, RequestTypes
  <2>2. l = "clearChosen" /\ job[r].op = "delete"
    BY <1>1, <1>2, <1>3, <2>1 DEF Alone, Working, OpsAt, Ahead, Planned, Clearing
  <2> QED
    BY <1>1, <2>1, <2>2, SameView DEF Alone, Working, Ahead, Planned, Clearing, Live, Loaded
<1> QED
  BY <1>4, <1>5

LEMMA ReplaceStep ==
    ASSUME AddressInv, NEW r \in Request, Replace(r), UNCHANGED book
    PROVE  AddressInv'
<1>1. pc[r] = "replace" /\ Running(r) /\ Working(r) /\ job[r].op = "delete"
  BY RequestTypes DEF Replace, Running, Working, OpsAt
<1>2. CASE Book(r) = {} /\ Continue(r, "commit")
  <2> SUFFICES ASSUME pc'[r] = "commit" /\ job'[r] = job[r] /\ seen'[r] = seen[r] /\ UNCHANGED <<db, pend>>
               PROVE  Working(r)' /\ (~overlapped => Alone(r)')
    BY <1>1, <1>2, ContinueStep DEF Label
  <2>1. Working(r)'
    BY <1>1, RequestTypes, SameView DEF Working, Running, Planned, Clearing, OpsAt
  <2>2. overlapped
    <3>1. Cardinality(Book(r)) = 0
      BY <1>2, FS_EmptySet
    <3>2. ~overlapped => Cardinality(Book(r)) \in 1..MaxAddresses
      BY <1>1, AloneNow DEF Alone
    <3> QED
      BY <3>1, <3>2, AddressAssumption
  <2> QED
    BY <2>1, <2>2
<1>3. ASSUME NEW a \in Book(r), Read(r, PlanFor(a, Loaded(View(r, a)), TRUE, None), "readReplacement")
      PROVE  AddressInv'
  <2>1. a \in Address /\ Live(View(r, a)) /\ View(r, a) \in AddressRow
    BY ViewTypes DEF Book
  <2>2. UNCHANGED <<db, pend>> /\ OnlyMoves(r) /\ pc'[r] = "readReplacement" /\ job'[r] = job[r]
    BY <1>3, GotoMoves DEF Read, Keep, AddressInv, Types, TypeOK
  <2>3. seen'[r] = PlanFor(a, Loaded(View(r, a)), TRUE, None)
    BY <1>3 DEF Read, Keep, AddressInv, Types, TypeOK
  <2>4. /\ seen'[r] \in Plan /\ seen'[r].address = a /\ seen'[r].chosen = TRUE
        /\ seen'[r].loaded = Loaded(View(r, a))
    <3>1. Loaded(View(r, a)) \in [chosen : BOOLEAN, pickup : BOOLEAN]
      BY <2>1, LoadedType
    <3>2. PICK yes \in BOOLEAN : yes = TRUE
      OBVIOUS
    <3>3. seen'[r] = PlanFor(a, Loaded(View(r, a)), yes, None)
      BY <2>3, <3>2
    <3>4. /\ seen'[r] \in Plan /\ seen'[r].address = a /\ seen'[r].chosen = yes
          /\ seen'[r].loaded = Loaded(View(r, a))
      BY <2>1, <3>1, <3>3, PlanFields
    <3> QED
      BY <3>2, <3>4
  <2>5. Working(r)'
    BY <1>1, <2>1, <2>2, <2>4, SameView DEF Working, Running, Planned, Clearing, OpsAt
  <2>6. Mine(r)'
    BY <2>2, <2>4, <2>5, ReadMine, RequestTypes DEF Label, Seen
  <2>7. ASSUME ~overlapped PROVE Alone(r)'
    <3>1. Alone(r)
      BY <1>1, <2>7, AloneNow
    <3>2. Live(View(r, a))' /\ Loaded(View(r, a))' = Loaded(View(r, a))
      BY <2>1, <2>2, SameView DEF Live, Loaded
    <3> QED
      BY <1>1, <2>2, <2>4, <3>1, <3>2, SameView DEF Alone, Ahead, Planned, Clearing, Live, Loaded
  <2> QED
    BY <1>1, <2>2, <2>6, <2>7, ReadStep DEF book
<1> QED
  BY <1>2, <1>3 DEF Replace

-----------------------------------------------------------------------------
(* Statements that write.                                                  *)

LEMMA AfterWrite ==
    ASSUME AddressInv, NEW r \in Request, NEW a \in Address, NEW x \in AddressRow, WriteRow(r, a, x)
    PROVE  /\ db' = db /\ View(r, a)' = x /\ pend'[r] = [pend[r] EXCEPT ![a] = x] /\ Holds(r, a)'
           /\ pend'[r] \in [Address -> AddressRow \cup {None}]
           /\ \A b \in Address : b # a =>
                View(r, b)' = View(r, b) /\ (Holds(r, b)' <=> Holds(r, b)) /\ pend'[r][b] = pend[r][b]
           /\ Chosen' = Chosen
<1>1. db' = db /\ pend' = [pend EXCEPT ![r][a] = x]
  BY DEF WriteRow
<1>2. pend'[r] = [pend[r] EXCEPT ![a] = x]
  BY <1>1 DEF AddressInv, Types
<1>3. pend'[r] \in [Address -> AddressRow \cup {None}] /\ x # None
  BY <1>2, RequestTypes, AddressAssumption
<1> QED
  BY <1>1, <1>2, <1>3, RequestTypes DEF View, Holds, Chosen, Addresses

LEMMA WriteSeesOne ==
    ASSUME AddressInv, NEW r \in Request, NEW a \in Address, NEW x \in AddressRow, WriteRow(r, a, x),
           ChosenRow(x) => \A b \in Address \ {a} : ~ChosenRow(View(r, b))
    PROVE  SeesOne(r)'
<1> SUFFICES ASSUME NEW p \in Address, NEW q \in Address, Chooses(r, p)', p # q
             PROVE  ~ChosenRow(View(r, q))'
  BY DEF SeesOne
<1>0. /\ View(r, a)' = x /\ pend'[r][a] = x
      /\ \A b \in Address : b # a =>
           View(r, b)' = View(r, b) /\ (Holds(r, b)' <=> Holds(r, b)) /\ pend'[r][b] = pend[r][b]
  <2>1. pend'[r] = [pend[r] EXCEPT ![a] = x]
    BY AfterWrite
  <2> QED
    BY <2>1, AfterWrite, RequestTypes
<1>1. SeesOne(r)
  BY DEF AddressInv
<1>2. \A b \in Address : b # a => (Chooses(r, b)' <=> Chooses(r, b))
  BY <1>0 DEF Chooses, ChosenRow, Live
<1>3. \A b \in Address : b # a => (ChosenRow(View(r, b))' <=> ChosenRow(View(r, b)))
  BY <1>0 DEF ChosenRow, Live
<1>4. ChosenRow(View(r, a))' <=> ChosenRow(x)
  BY <1>0 DEF ChosenRow, Live
<1>5. CASE p = a
  <2>1. ChosenRow(x)
    BY <1>0, <1>5 DEF Chooses, ChosenRow, Live
  <2> QED
    BY <1>3, <1>5, <2>1
<1>6. CASE p # a /\ q # a
  BY <1>1, <1>2, <1>3, <1>6 DEF SeesOne
<1>7. CASE p # a /\ q = a
  <2>1. ChosenRow(View(r, p))
    BY <1>2, <1>7 DEF Chooses, View, Holds
  <2> QED
    BY <1>4, <1>7, <2>1
<1> QED
  BY <1>5, <1>6, <1>7

(* Clearing a flag of another row.                                         *)
LEMMA ClearedRow ==
    ASSUME NEW row \in AddressRow
    PROVE  /\ [row EXCEPT !["chosen"] = FALSE] \in AddressRow
           /\ ~ChosenRow([row EXCEPT !["chosen"] = FALSE])
           /\ [row EXCEPT !["chosen"] = FALSE].state = row.state
           /\ [row EXCEPT !["chosen"] = FALSE].pickup = row.pickup
           /\ [row EXCEPT !["pickup"] = FALSE] \in AddressRow
           /\ ChosenRow([row EXCEPT !["pickup"] = FALSE]) <=> ChosenRow(row)
           /\ [row EXCEPT !["pickup"] = FALSE].state = row.state
           /\ ~[row EXCEPT !["pickup"] = FALSE].pickup
BY DEF AddressRow, ChosenRow, Live

LEMMA FlaggedIs ==
    ASSUME NEW r
    PROVE  /\ Flagged(r, "chosen") = {a \in Book(r) \ {seen[r].address} : View(r, a).chosen}
           /\ Flagged(r, "pickup") = {a \in Book(r) \ {seen[r].address} : View(r, a).pickup}
BY DEF Flagged

LEMMA TodoFields ==
    ASSUME NEW x \in Plan, NEW todo \in SUBSET Address
    PROVE  /\ [x EXCEPT !.todo = todo] \in Plan
           /\ [x EXCEPT !.todo = todo].address = x.address
           /\ [x EXCEPT !.todo = todo].loaded = x.loaded
           /\ [x EXCEPT !.todo = todo].chosen = x.chosen
           /\ [x EXCEPT !.todo = todo].pickup = x.pickup
           /\ [x EXCEPT !.todo = todo].todo = todo
BY DEF Plan

(* What the plan says of the UPDATE does not change while it clears flags. *)
LEMMA ClearingKeepsWorking ==
    ASSUME AddressInv, NEW r \in Request, pc[r] \in Clearing,
           pc'[r] \in Clearing \cup {"reload", "write"}, job'[r] = job[r],
           pc'[r] = "reload" => job[r].op = "update",
           pc'[r] \in {"clearChosen", "clearingChosen"} => pc[r] \in {"clearChosen", "clearingChosen"},
           seen'[r] \in Plan, seen'[r].address = seen[r].address, seen'[r].chosen = seen[r].chosen,
           seen'[r].pickup = seen[r].pickup
    PROVE  Working(r)'
<1>1. Working(r) /\ Running(r)
  BY RequestTypes DEF Running, Clearing
<1>2. pc'[r] \in Planned /\ pc'[r] \notin {"count", "read", "countRest", "remove", "replace", "readReplacement"}
  BY DEF Planned, Clearing
<1>3. job[r].op \in {"create", "update", "delete", "choose"} /\ pc[r] \in Planned
  BY <1>1 DEF Working, OpsAt, Clearing, Planned
<1>4. job'[r].op \in OpsAt(pc'[r])
  BY <1>2, <1>3 DEF OpsAt
<1>5. seen[r].chosen = TRUE \/ pc'[r] \notin {"readReplacement", "clearChosen", "clearingChosen"}
  BY <1>1, <1>2 DEF Working
<1>6. job[r].op \in {"delete", "choose"} => seen[r].chosen = TRUE
  BY <1>1 DEF Working, Clearing
<1> QED
  BY <1>1, <1>2, <1>3, <1>4, <1>5, <1>6 DEF Working

LEMMA ClearAllStep ==
    ASSUME AddressInv, NEW r \in Request, UNCHANGED book,
           \/ pc[r] = "clearChosen" /\ ClearAll(r, "chosen", "clearingChosen")
           \/ /\ pc[r] = "clearPickup" /\ seen[r].pickup = TRUE
              /\ ClearAll(r, "pickup", "clearingPickup")
    PROVE  AddressInv'
<1> DEFINE flag == IF pc[r] = "clearChosen" THEN "chosen" ELSE "pickup"
           todo == Flagged(r, flag)
<1>1. PICK l \in {"clearingChosen", "clearPickup", "clearingPickup", "reload", "write"} :
        /\ Read(r, [seen[r] EXCEPT !.todo = todo], l)
        /\ pc[r] = "clearChosen" => l \in {"clearingChosen", "clearPickup"}
        /\ pc[r] = "clearPickup" => l \in {"clearingPickup", "reload", "write"} /\ seen[r].pickup = TRUE
        /\ l \in {"reload", "write"} => todo = {}
        /\ l = "reload" => job[r].op = "update"
  <2> HIDE DEF todo
  <2>1. pc[r] = "clearChosen" => /\ ClearAll(r, "chosen", "clearingChosen") /\ todo = Flagged(r, "chosen")
    BY DEF todo
  <2>2. pc[r] = "clearPickup" => /\ ClearAll(r, "pickup", "clearingPickup") /\ seen[r].pickup = TRUE
                                 /\ todo = Flagged(r, "pickup")
    BY DEF todo
  <2> QED
    BY <2>1, <2>2 DEF ClearAll, AfterClear
<1>2. pc[r] \in {"clearChosen", "clearPickup"} /\ pc[r] \in Clearing /\ Running(r) /\ Working(r)
  BY RequestTypes DEF Running, Clearing
<1>3. seen[r] \in Plan /\ todo \in SUBSET Address
  BY <1>2 DEF Working, Planned, Flagged, Book
<1>4. pc[r] = "clearPickup" => todo = Flagged(r, "pickup")
  OBVIOUS
<1> HIDE DEF todo
<1>5. UNCHANGED <<db, pend>> /\ OnlyMoves(r) /\ pc'[r] = l /\ job'[r] = job[r]
  BY <1>1, GotoMoves DEF Read, Keep, AddressInv, Types, TypeOK
<1>6. /\ seen'[r] \in Plan /\ seen'[r].address = seen[r].address /\ seen'[r].loaded = seen[r].loaded
      /\ seen'[r].chosen = seen[r].chosen /\ seen'[r].pickup = seen[r].pickup /\ seen'[r].todo = todo
  <2>1. seen'[r] = [seen[r] EXCEPT !.todo = todo]
    BY <1>1 DEF Read, Keep, AddressInv, Types, TypeOK
  <2> QED
    BY <1>3, <2>1, TodoFields
<1>7. l \in Clearing \cup {"reload", "write"}
  BY DEF Clearing
<1>8. Working(r)'
  BY <1>1, <1>2, <1>5, <1>6, <1>7, ClearingKeepsWorking
<1>9. Mine(r)'
  BY <1>5, <1>6, <1>8, ReadMine, RequestTypes DEF Label, Seen
<1>10. ~overlapped => Alone(r)'
  <2> SUFFICES ASSUME ~overlapped PROVE Alone(r)'
    OBVIOUS
  <2>1. Alone(r)
    BY <1>2, AloneNow
  <2>2. Kept(r)' <=> Kept(r)
    BY <1>5, <1>6, SameView DEF Kept, ChosenRow, Live
  <2>3. Flagged(r, "pickup")' = Flagged(r, "pickup")
    BY <1>5, <1>6, SameView DEF Flagged
  <2>4. /\ l = "clearingPickup" => seen'[r].pickup = TRUE /\ Flagged(r, "pickup")' \subseteq todo
        /\ l \in {"reload", "write"} => Flagged(r, "pickup")' = {}
    BY <1>1, <1>2, <1>4, <1>6, <2>3
  <2>5. /\ Live(View(r, seen[r].address))' <=> Live(View(r, seen[r].address))
        /\ Loaded(View(r, seen[r].address))' = Loaded(View(r, seen[r].address))
    BY <1>5, <1>6, SameView DEF Live, Loaded
  <2>6. pc[r] \in Ahead /\ pc[r] # "commit"
    BY <1>2 DEF Ahead, Planned, Clearing
  <2> QED
    BY <1>2, <1>5, <1>6, <1>7, <2>1, <2>2, <2>4, <2>5, <2>6, SameView DEF Alone
<1> QED
  BY <1>2, <1>5, <1>9, <1>10, ReadStep DEF book

LEMMA WriteMine ==
    ASSUME AddressInv, NEW r \in Request, NEW a \in Address, NEW x \in AddressRow, WriteRow(r, a, x),
           ChosenRow(x) => \A b \in Address \ {a} : ~ChosenRow(View(r, b)),
           pc'[r] \in Label, job'[r] \in Job, seen'[r] \in Seen, Working(r)'
    PROVE  Mine(r)'
<1>1. pend'[r] \in [Address -> AddressRow \cup {None}]
  BY AfterWrite
<1>2. SeesOne(r)'
  BY WriteSeesOne
<1> QED
  BY <1>1, <1>2 DEF Mine

LEMMA ClearOneStep ==
    ASSUME AddressInv, NEW r \in Request, UNCHANGED book,
           \/ pc[r] = "clearingChosen" /\ ClearOne(r, "chosen", "clearingChosen")
           \/ pc[r] = "clearingPickup" /\ ClearOne(r, "pickup", "clearingPickup")
    PROVE  AddressInv'
<1>1. PICK a \in seen[r].todo, l \in {"clearingChosen", "clearPickup", "clearingPickup", "reload", "write"} :
        /\ ~HeldByOther(r, a)
        /\ \/ /\ pc[r] = "clearingChosen" /\ a \in Flagged(r, "chosen")
              /\ WriteRow(r, a, [View(r, a) EXCEPT !["chosen"] = FALSE])
           \/ /\ pc[r] = "clearingPickup" /\ a \in Flagged(r, "pickup")
              /\ WriteRow(r, a, [View(r, a) EXCEPT !["pickup"] = FALSE])
           \/ /\ pc[r] = "clearingPickup" => a \notin Flagged(r, "pickup")
              /\ UNCHANGED <<db, pend>>
        /\ Keep(r, [seen[r] EXCEPT !.todo = seen[r].todo \ {a}]) /\ Goto(r, l) /\ job' = job
        /\ pc[r] = "clearingChosen" => l \in {"clearingChosen", "clearPickup"}
        /\ pc[r] = "clearingPickup" => l \in {"clearingPickup", "reload", "write"}
        /\ l \in {"reload", "write"} => seen[r].todo = {a}
        /\ l = "reload" => job[r].op = "update"
  BY DEF ClearOne, AfterClear
<1>2. pc[r] \in {"clearingChosen", "clearingPickup"} /\ pc[r] \in Clearing /\ Running(r) /\ Working(r)
  BY RequestTypes DEF Running, Clearing
<1>3. seen[r] \in Plan /\ a \in Address /\ View(r, a) \in AddressRow /\ seen[r].todo \ {a} \in SUBSET Address
  <2>1. seen[r] \in Plan
    BY <1>2 DEF Working, Planned
  <2>2. seen[r].todo \in SUBSET Address
    BY <2>1 DEF Plan
  <2> QED
    BY <2>1, <2>2, ViewTypes
<1>4. OnlyMoves(r) /\ pc'[r] = l /\ job'[r] = job[r]
  BY <1>1, GotoMoves DEF Keep, AddressInv, Types, TypeOK
<1>5. /\ seen'[r] \in Plan /\ seen'[r].address = seen[r].address /\ seen'[r].loaded = seen[r].loaded
      /\ seen'[r].chosen = seen[r].chosen /\ seen'[r].pickup = seen[r].pickup
      /\ seen'[r].todo = seen[r].todo \ {a}
  <2>1. seen'[r] = [seen[r] EXCEPT !.todo = seen[r].todo \ {a}]
    BY <1>1 DEF Keep, AddressInv, Types, TypeOK
  <2> HIDE DEF Keep
  <2> QED
    BY <1>3, <2>1, TodoFields
<1>6. l \in Clearing \cup {"reload", "write"} /\ l \in Label
  BY DEF Clearing, Label
<1>7. Working(r)'
  BY <1>1, <1>2, <1>4, <1>5, <1>6, ClearingKeepsWorking
<1>8. pc[r] \in Ahead /\ pc[r] # "commit" /\ pc[r] # "remove"
  BY <1>2 DEF Ahead, Planned, Clearing
(* What becomes of the row, if it is written.                              *)
<1> DEFINE x == View(r, a)'
<1>9. CASE UNCHANGED <<db, pend>>
  <2>1. Mine(r)'
    BY <1>4, <1>5, <1>6, <1>7, <1>9, ReadMine, RequestTypes DEF Seen
  <2>2. ASSUME ~overlapped PROVE Alone(r)'
    <3>1. Alone(r)
      BY <1>2, <2>2, AloneNow
    <3>2. Kept(r)' <=> Kept(r)
      BY <1>4, <1>5, <1>9, SameView DEF Kept, ChosenRow, Live
    <3>3. Flagged(r, "pickup")' = Flagged(r, "pickup")
      BY <1>5, <1>9, SameView DEF Flagged
    <3>4. pc[r] = "clearingPickup" => a \notin Flagged(r, "pickup")
      <4>1. CASE a \in Flagged(r, "pickup") /\ WriteRow(r, a, [View(r, a) EXCEPT !["pickup"] = FALSE])
        <5>1. [View(r, a) EXCEPT !["pickup"] = FALSE].pickup = FALSE
              /\ [View(r, a) EXCEPT !["pickup"] = FALSE] \in AddressRow
          BY <1>3 DEF AddressRow
        <5>2. View(r, a)' = [View(r, a) EXCEPT !["pickup"] = FALSE]
          <6> DEFINE y == [View(r, a) EXCEPT !["pickup"] = FALSE]
          <6>1. y \in AddressRow /\ WriteRow(r, a, y)
            BY <4>1, <5>1
          <6> HIDE DEF y
          <6>2. View(r, a)' = y
            BY <1>3, <6>1, AfterWrite
          <6> QED
            BY <6>2 DEF y
        <5>3. View(r, a).pickup
          BY <4>1, FlaggedIs
        <5>4. View(r, a)' = View(r, a)
          BY <1>9, SameView
        <5> QED
          BY <5>1, <5>2, <5>3, <5>4
      <4> QED
        BY <1>1, <4>1
    <3>5. /\ l = "clearingPickup" => seen'[r].pickup = TRUE /\ Flagged(r, "pickup")' \subseteq seen'[r].todo
          /\ l \in {"reload", "write"} => Flagged(r, "pickup")' = {}
      BY <1>1, <1>2, <1>5, <3>1, <3>3, <3>4 DEF Alone
    <3>6. /\ Live(View(r, seen[r].address))' <=> Live(View(r, seen[r].address))
          /\ Loaded(View(r, seen[r].address))' = Loaded(View(r, seen[r].address))
      BY <1>5, <1>9, SameView DEF Live, Loaded
    <3> QED
      BY <1>2, <1>4, <1>5, <1>6, <1>8, <1>9, <3>1, <3>2, <3>5, <3>6, SameView DEF Alone
  <2> QED
    BY <1>2, <1>4, <1>9, <2>1, <2>2, ReadStep DEF book
<1>10. ASSUME NEW y \in AddressRow, WriteRow(r, a, y), Live(View(r, a)), y.state = View(r, a).state,
              a # seen[r].address,
              \/ pc[r] = "clearingChosen" /\ ~ChosenRow(y) /\ y.pickup = View(r, a).pickup
              \/ pc[r] = "clearingPickup" /\ (ChosenRow(y) <=> ChosenRow(View(r, a))) /\ ~y.pickup
       PROVE  AddressInv'
  <2>1. ChosenRow(y) => ChosenRow(View(r, a))
    BY <1>10
  <2>2. ChosenRow(y) => \A b \in Address \ {a} : ~ChosenRow(View(r, b))
    BY <1>3, <2>1, ViewHasOne
  <2>3. ChosenRow(y) => \A s \in Request \ {r}, b \in Address : ~Chooses(s, b)
    BY <1>1, <1>3, <2>1, ChosenAlone
  <2>4. Mine(r)'
    BY <1>3, <1>4, <1>5, <1>6, <1>7, <1>10, <2>2, WriteMine, RequestTypes DEF Seen
  <2>5. ASSUME ~overlapped PROVE Alone(r)'
    <3>1. Alone(r)
      BY <1>2, <2>5, AloneNow
    <3>2. /\ db' = db /\ View(r, a)' = y
          /\ \A b \in Address : b # a => View(r, b)' = View(r, b) /\ (Holds(r, b)' <=> Holds(r, b))
          /\ Chosen' = Chosen
      BY <1>3, <1>10, AfterWrite
    <3>3. Live(y)
      BY <1>10 DEF Live
    <3>4. Book(r)' = Book(r)
      BY <1>10, <3>2, <3>3 DEF Book, Live
    <3>5. Marked(r)' \subseteq Marked(r)
      BY <1>10, <3>2, <3>4 DEF Marked, Book
    <3>6. Flagged(r, "pickup")' \subseteq Flagged(r, "pickup") /\ (pc[r] = "clearingPickup" => a \notin Flagged(r, "pickup")')
      <4>1. Flagged(r, "pickup")' = {b \in Book(r) \ {seen[r].address} : View(r, b)'.pickup}
        BY <1>5, <3>4, FlaggedIs DEF Flagged
      <4> QED
        BY <1>10, <3>2, <4>1, FlaggedIs DEF Book
    <3>7. /\ l = "clearingPickup" => seen'[r].pickup = TRUE /\ Flagged(r, "pickup")' \subseteq seen'[r].todo
          /\ l \in {"reload", "write"} => Flagged(r, "pickup")' = {}
      BY <1>1, <1>2, <1>5, <3>1, <3>6 DEF Alone
    <3>8. job[r].op # "create" =>
            /\ Live(View(r, seen[r].address))' <=> Live(View(r, seen[r].address))
            /\ Loaded(View(r, seen[r].address))' = Loaded(View(r, seen[r].address))
      <4> SUFFICES ASSUME job[r].op # "create"
                   PROVE  /\ Live(View(r, seen[r].address))' <=> Live(View(r, seen[r].address))
                          /\ Loaded(View(r, seen[r].address))' = Loaded(View(r, seen[r].address))
        OBVIOUS
      <4>1. PICK c \in Address : c = seen[r].address /\ c = seen'[r].address
        BY <1>2, <1>5 DEF Working, Planned
      <4>2. View(r, c)' = View(r, c)
        BY <1>10, <3>2, <4>1
      <4>3. View(r, seen[r].address)' = View(r, c)'
        BY <4>1 DEF View
      <4> QED
        BY <4>1, <4>2, <4>3 DEF Live, Loaded
    <3>9. seen[r].chosen = TRUE \/ (Kept(r) => Kept(r)')
      <4>1. CASE pc[r] = "clearingChosen"
        BY <1>2, <4>1 DEF Working
      <4>2. CASE pc[r] = "clearingPickup"
        <5>1. \A b \in Address : ChosenRow(View(r, b)) => ChosenRow(View(r, b))'
          BY <1>10, <3>2, <4>2 DEF ChosenRow, Live
        <5> QED
          BY <1>4, <1>5, <5>1 DEF Kept
      <4> QED
        BY <1>2, <4>1, <4>2
    <3>10. \A b \in Address : Holds(r, b)' => db'[b].state # "none"
      <4>1. db[a].state # "none"
        BY <1>8, <1>10, <3>1, <1>3 DEF Alone, View, Holds, Live
      <4> QED
        BY <1>8, <3>1, <3>2, <4>1 DEF Alone
    <3> QED
      BY <1>2, <1>4, <1>5, <1>6, <1>8, <3>1, <3>2, <3>4, <3>5, <3>7, <3>8, <3>9, <3>10 DEF Alone
  <2> QED
    BY <1>2, <1>3, <1>4, <1>10, <2>3, <2>4, <2>5, WriteStep DEF book
<1>11. ASSUME pc[r] = "clearingChosen", a \in Flagged(r, "chosen"),
              WriteRow(r, a, [View(r, a) EXCEPT !["chosen"] = FALSE])
       PROVE  AddressInv'
  <2>1. Live(View(r, a)) /\ a # seen[r].address
    BY <1>11, FlaggedIs DEF Book
  <2> QED
    BY <1>3, <1>10, <1>11, <2>1, ClearedRow
<1>12. ASSUME pc[r] = "clearingPickup", a \in Flagged(r, "pickup"),
              WriteRow(r, a, [View(r, a) EXCEPT !["pickup"] = FALSE])
       PROVE  AddressInv'
  <2>1. Live(View(r, a)) /\ a # seen[r].address
    BY <1>12, FlaggedIs DEF Book
  <2> QED
    BY <1>3, <1>10, <1>12, <2>1, ClearedRow
<1> QED
  BY <1>1, <1>9, <1>11, <1>12

LEMMA ClearChosenStep ==
    ASSUME AddressInv, NEW r \in Request, ClearChosen(r), UNCHANGED book
    PROVE  AddressInv'
BY ClearAllStep, ClearOneStep DEF ClearChosen, ClearOne

LEMMA ClearPickupStep ==
    ASSUME AddressInv, NEW r \in Request, ClearPickup(r), UNCHANGED book
    PROVE  AddressInv'
<1>1. CASE pc[r] = "clearPickup" /\ seen[r].pickup = TRUE /\ ClearAll(r, "pickup", "clearingPickup")
  BY <1>1, ClearAllStep
<1>2. CASE ClearOne(r, "pickup", "clearingPickup")
  BY <1>2, ClearOneStep DEF ClearOne
<1>3. CASE pc[r] = "clearPickup" /\ seen[r].pickup # TRUE /\ Continue(r, AfterClear(r, "pickup"))
  <2>1. PICK l \in {"reload", "write"} : Continue(r, l) /\ (l = "reload" => job[r].op = "update")
    BY <1>3 DEF AfterClear
  <2>2. pc[r] \in Clearing /\ Running(r) /\ Working(r) /\ l \in Label
    BY <1>3, RequestTypes DEF Running, Clearing, Label
  <2> SUFFICES ASSUME pc'[r] = l /\ job'[r] = job[r] /\ seen'[r] = seen[r] /\ UNCHANGED <<db, pend>>
               PROVE  Working(r)' /\ (~overlapped => Alone(r)')
    BY <2>1, <2>2, ContinueStep
  <2>3. Working(r)'
    BY <2>1, <2>2, ClearingKeepsWorking DEF Working, Planned
  <2>4. ASSUME ~overlapped PROVE Alone(r)'
    <3>1. Alone(r)
      BY <2>2, <2>4, AloneNow
    <3>2. Kept(r)' <=> Kept(r)
      BY SameView DEF Kept, ChosenRow, Live
    <3> QED
      BY <1>3, <2>2, <3>1, <3>2, SameView DEF Alone, Ahead, Planned, Clearing, Live, Loaded
  <2> QED
    BY <2>3, <2>4
<1> QED
  BY <1>1, <1>2, <1>3 DEF ClearPickup

(* The statement that makes a row chosen fails or has found no other.      *)
LEMMA StoreEither ==
    ASSUME AddressInv, NEW r \in Request, NEW a \in Address, NEW x \in AddressRow, Store(r, a, x)
    PROVE  \/ Fail(r)
           \/ /\ Write(r, a, x, "commit")
              /\ ChosenRow(x) => \A b \in Address \ {a} : ~ChosenRow(View(r, b))
              /\ ChosenRow(x) => \A s \in Request \ {r}, b \in Address : ~Chooses(s, b)
<1>1. CASE ~ChosenRow(x)
  BY <1>1 DEF Store, ChosenRow
<1>2. CASE ChosenRow(x)
  <2>1. /\ MayChoose(r, a) /\ ~HeldByOther(r, a)
        /\ IF Taken(r, a) THEN Fail(r) ELSE Write(r, a, x, "commit")
    BY <1>2 DEF Store, ChosenRow
  <2>2. CASE Taken(r, a)
    BY <2>1, <2>2
  <2>3. CASE ~Taken(r, a)
    <3>1. \A b \in Address \ {a} : ~ChosenRow(View(r, b))
      BY <2>3 DEF Taken, Book, ChosenRow
    <3>2. ASSUME NEW s \in Request \ {r}, NEW b \in Address, Chooses(s, b) PROVE FALSE
      <4>1. CASE b = a
        BY <2>1, <3>2, <4>1 DEF HeldByOther, Chooses
      <4>2. CASE b # a
        BY <2>1, <3>2, <4>2 DEF MayChoose, HeldByOther, Chooses, ChosenRow
      <4> QED
        BY <4>1, <4>2
    <3> QED
      BY <2>1, <2>3, <3>1, <3>2
  <2> QED
    BY <2>2, <2>3
<1> QED
  BY <1>1, <1>2

(* The last write of a request.                                            *)
LEMMA StoreStep ==
    ASSUME AddressInv, NEW r \in Request, pc[r] = "write", UNCHANGED book,
           NEW a \in Address, NEW x \in AddressRow, Store(r, a, x),
           /\ db' = db /\ View(r, a)' = x
           /\ \A b \in Address : b # a => View(r, b)' = View(r, b)
           /\ job'[r] = job[r] /\ seen'[r] = seen[r] /\ Alone(r)
           => /\ Cardinality(Book(r)') \in 1..MaxAddresses
              /\ \A b, c \in Marked(r)' : b = c
              /\ Chosen # {} => Kept(r)'
    PROVE  AddressInv'
<1>1. Running(r) /\ Working(r)
  BY RequestTypes DEF Running
<1>2. CASE Fail(r)
  BY <1>1, <1>2, RejectStep
<1>3. CASE ~Fail(r)
  <2>1. /\ WriteRow(r, a, x) /\ Goto(r, "commit") /\ UNCHANGED <<job, seen>>
        /\ ChosenRow(x) => \A b \in Address \ {a} : ~ChosenRow(View(r, b))
        /\ ChosenRow(x) => \A s \in Request \ {r}, b \in Address : ~Chooses(s, b)
    BY <1>3, StoreEither DEF Write
  <2>2. OnlyMoves(r) /\ pc'[r] = "commit" /\ job'[r] = job[r] /\ seen'[r] = seen[r]
    BY <2>1, GotoMoves
  <2>3. Working(r)'
    BY <1>1, <2>2 DEF Working, Running, Planned, Clearing, OpsAt
  <2>4. Mine(r)'
    BY <2>1, <2>2, <2>3, WriteMine, RequestTypes DEF Label
  <2>5. ASSUME ~overlapped PROVE Alone(r)'
    <3>1. Alone(r)
      BY <1>1, <2>5, AloneNow
    <3>2. /\ db' = db /\ View(r, a)' = x
          /\ \A b \in Address : b # a => View(r, b)' = View(r, b)
          /\ Chosen' = Chosen
      BY <2>1, AfterWrite
    <3>3. /\ Cardinality(Book(r)') \in 1..MaxAddresses
          /\ \A b, c \in Marked(r)' : b = c
          /\ Chosen # {} => Kept(r)'
      BY <2>2, <3>1, <3>2
    <3> QED
      BY <2>2, <3>2, <3>3 DEF Alone, Ahead, Planned, Clearing
  <2> QED
    BY <1>1, <2>1, <2>2, <2>4, <2>5, WriteStep DEF book
<1> QED
  BY <1>2, <1>3

LEMMA InsertStep ==
    ASSUME AddressInv, NEW r \in Request, Insert(r), UNCHANGED book
    PROVE  AddressInv'
<1>1. pc[r] = "write" /\ job[r].op = "create" /\ Running(r) /\ Working(r)
  BY RequestTypes DEF Insert, At, Running
<1>2. PICK a \in Address :
        /\ db[a].state = "none"
        /\ Store(r, a, [state |-> "live", chosen |-> seen[r].chosen, pickup |-> seen[r].pickup])
  BY DEF Insert
<1>3. seen[r].address = None /\ seen[r].chosen \in BOOLEAN /\ seen[r].pickup \in BOOLEAN
  BY <1>1 DEF Working, Planned
<1>4. PICK x \in AddressRow :
        x = [state |-> "live", chosen |-> seen[r].chosen, pickup |-> seen[r].pickup]
  BY <1>3 DEF AddressRow
<1>5. Store(r, a, x) /\ Live(x) /\ x.chosen = seen[r].chosen /\ x.pickup = seen[r].pickup
  BY <1>2, <1>4 DEF Live
<1>6. ASSUME db' = db, View(r, a)' = x, \A b \in Address : b # a => View(r, b)' = View(r, b),
             job'[r] = job[r], seen'[r] = seen[r], Alone(r)
      PROVE  /\ Cardinality(Book(r)') \in 1..MaxAddresses
             /\ \A b, c \in Marked(r)' : b = c
             /\ Chosen # {} => Kept(r)'
  <2>1. View(r, a) = db[a] /\ a \notin Book(r)
    BY <1>1, <1>2, <1>6 DEF Alone, View, Holds, Book, Live
  <2>2. Book(r)' = Book(r) \cup {a}
    BY <1>5, <1>6 DEF Book, Live
  <2>3. Cardinality(Book(r)') = Cardinality(Book(r)) + 1
    BY <2>1, <2>2, BookIsFinite, FS_AddElement
  <2>4. Cardinality(Book(r)) < MaxAddresses
    BY <1>1, <1>6 DEF Alone, Ahead, Planned, Clearing
  <2>5. \A b \in Address : b \in Marked(r)' <=> IF b = a THEN x.pickup ELSE b \in Marked(r)
    BY <1>6, <2>2 DEF Marked, Book
  <2>6. x.pickup => Marked(r) = {}
    BY <1>1, <1>3, <1>5, <1>6, FlaggedIs, AddressAssumption DEF Alone, Marked, Book
  <2>7. \A b, c \in Marked(r)' : b = c
    <3>1. Marked(r)' \subseteq Address
      BY DEF Marked, Book
    <3>2. \A b, c \in Marked(r) : b = c
      BY <1>6 DEF Alone
    <3> QED
      BY <2>5, <2>6, <3>1, <3>2
  <2>8. ASSUME Chosen # {} PROVE Kept(r)'
    <3>1. seen[r].chosen = TRUE \/ \E b \in Address : ChosenRow(View(r, b))
      BY <1>1, <1>6, <2>8 DEF Alone, Kept
    <3>2. \A b \in Address : ChosenRow(View(r, b)) => ChosenRow(View(r, b))'
      BY <1>6, <2>1, <1>2 DEF ChosenRow, Live
    <3>3. seen[r].chosen = TRUE => ChosenRow(View(r, a))'
      BY <1>5, <1>6 DEF ChosenRow, Live
    <3> QED
      BY <3>1, <3>2, <3>3 DEF Kept
  <2> QED
    BY <2>3, <2>4, <2>7, <2>8, BookIsFinite, AddressAssumption
<1> QED
  BY <1>1, <1>5, <1>6, StoreStep

LEMMA FlushAddressStep ==
    ASSUME AddressInv, NEW r \in Request, FlushAddress(r), UNCHANGED book
    PROVE  AddressInv'
<1>1. pc[r] = "write" /\ job[r].op # "create" /\ Running(r) /\ Working(r)
  BY RequestTypes DEF FlushAddress, Running
<1>2. PICK a \in Address : a = seen[r].address
  BY <1>1 DEF Working, Planned
<1>3. View(r, a) \in AddressRow /\ seen[r] \in Plan
  BY <1>1, ViewTypes DEF Working, Planned
<1>4. job[r].op \in {"delete", "choose"} => seen[r].chosen = TRUE
  BY <1>1 DEF Working
<1>5. job[r].op \in {"update", "delete", "choose"}
  BY <1>1 DEF Working, OpsAt
<1>6. CASE NothingToFlush(r) /\ Continue(r, "commit")
  <2> SUFFICES ASSUME pc'[r] = "commit" /\ job'[r] = job[r] /\ seen'[r] = seen[r] /\ UNCHANGED <<db, pend>>
               PROVE  Working(r)' /\ (~overlapped => Alone(r)')
    BY <1>1, <1>6, ContinueStep DEF Label
  <2>1. Working(r)'
    BY <1>1, <1>5, SameView DEF Working, Running, Planned, Clearing, OpsAt
  <2>2. ASSUME ~overlapped PROVE Alone(r)'
    <3>1. Alone(r)
      BY <1>1, <2>2, AloneNow
    <3>2. ASSUME seen[r].chosen = TRUE PROVE ChosenRow(View(r, a))
      <4>1. seen[r].chosen \in {None, seen[r].loaded.chosen}
        BY <1>6 DEF NothingToFlush
      <4>2. seen[r].loaded.chosen = TRUE
        BY <3>2, <4>1, AddressAssumption
      <4>3. Live(View(r, a)) /\ Loaded(View(r, a)) = seen[r].loaded
        BY <1>1, <1>2, <3>1 DEF Alone, Ahead, Planned, Clearing
      <4> QED
        BY <1>3, <4>2, <4>3, LoadedType DEF ChosenRow
    <3>3. Kept(r)' <=> Kept(r)
      BY SameView DEF Kept, ChosenRow, Live
    <3>4. Chosen # {} => Kept(r)'
      BY <1>1, <3>1, <3>2, <3>3 DEF Alone, Kept
    <3> QED
      BY <3>1, <3>4, SameView DEF Alone, Ahead, Planned, Clearing
  <2> QED
    BY <2>1, <2>2
<1>7. CASE ~NothingToFlush(r)
  <2> DEFINE x == [View(r, a) EXCEPT !.chosen = Flushed(r, "chosen"), !.pickup = Flushed(r, "pickup")]
  <2>1. Store(r, a, x)
    BY <1>2, <1>7 DEF FlushAddress
  <2>2. /\ Flushed(r, "chosen") = IF seen[r].chosen \notin {None, seen[r].loaded.chosen}
                                  THEN seen[r].chosen ELSE View(r, a).chosen
        /\ Flushed(r, "pickup") = IF seen[r].pickup \notin {None, seen[r].loaded.pickup}
                                  THEN seen[r].pickup ELSE View(r, a).pickup
    BY <1>2 DEF Flushed
  <2>3. Flushed(r, "chosen") \in BOOLEAN /\ Flushed(r, "pickup") \in BOOLEAN
    BY <1>3, <2>2 DEF Plan, AddressRow
  <2>4. /\ x \in AddressRow /\ x.state = View(r, a).state /\ x.chosen = Flushed(r, "chosen")
        /\ x.pickup = Flushed(r, "pickup")
    BY <1>3, <2>3 DEF AddressRow
  <2> HIDE DEF x
  <2>5. ASSUME db' = db, View(r, a)' = x, \A b \in Address : b # a => View(r, b)' = View(r, b),
               job'[r] = job[r], seen'[r] = seen[r], Alone(r)
        PROVE  /\ Cardinality(Book(r)') \in 1..MaxAddresses
               /\ \A b, c \in Marked(r)' : b = c
               /\ Chosen # {} => Kept(r)'
    <3>1. Live(View(r, a)) /\ Loaded(View(r, a)) = seen[r].loaded
      BY <1>1, <1>2, <2>5 DEF Alone, Ahead, Planned, Clearing
    <3>2. Live(x) /\ Book(r)' = Book(r)
      BY <2>4, <2>5, <3>1 DEF Book, Live
    <3>3. ASSUME x.pickup, ~View(r, a).pickup PROVE Flagged(r, "pickup") = {}
      <4>1. seen[r].pickup = TRUE
        BY <1>3, <2>2, <2>4, <3>3 DEF Plan
      <4> QED
        BY <1>1, <2>5, <4>1 DEF Alone
    <3>4. \A b \in Address : b \in Marked(r)' <=> IF b = a THEN x.pickup ELSE b \in Marked(r)
      BY <2>5, <3>1, <3>2 DEF Marked, Book
    <3>5. a \in Marked(r) <=> View(r, a).pickup
      BY <3>1 DEF Marked, Book
    <3>6. Flagged(r, "pickup") = Marked(r) \ {a}
      BY <1>2, FlaggedIs DEF Marked
    <3>7. \A b, c \in Marked(r)' : b = c
      <4>1. Marked(r)' \subseteq Address
        BY DEF Marked, Book
      <4>2. \A b, c \in Marked(r) : b = c
        BY <2>5 DEF Alone
      <4> QED
        BY <3>3, <3>4, <3>5, <3>6, <4>1, <4>2
    <3>8. ASSUME seen[r].chosen = TRUE PROVE x.chosen
      <4>1. Loaded(View(r, a)).chosen = View(r, a).chosen
        BY <1>3, LoadedType
      <4> QED
        BY <2>2, <2>4, <3>1, <3>8, <4>1, AddressAssumption
    <3>9. ASSUME Chosen # {} PROVE Kept(r)'
      <4>1. CASE seen[r].chosen = TRUE
        BY <2>5, <3>2, <3>8, <4>1 DEF Kept, ChosenRow, Live
      <4>2. CASE seen[r].chosen = FALSE
        BY <1>4, <1>5, <2>5, <4>2 DEF Kept
      <4>3. CASE seen[r].chosen \notin BOOLEAN
        <5>1. x.chosen = View(r, a).chosen
          BY <1>3, <2>2, <2>4, <4>3 DEF Plan
        <5>2. \E b \in Address : ChosenRow(View(r, b))
          BY <1>1, <2>5, <3>9, <4>3 DEF Alone, Kept
        <5>3. \A b \in Address : ChosenRow(View(r, b)) => ChosenRow(View(r, b))'
          BY <2>5, <3>2, <5>1 DEF ChosenRow, Live
        <5> QED
          BY <5>2, <5>3 DEF Kept
      <4> QED
        BY <4>1, <4>2, <4>3
    <3> QED
      BY <2>5, <3>2, <3>7, <3>9 DEF Alone
  <2> QED
    BY <1>1, <2>1, <2>4, <2>5, StoreStep
<1> QED
  BY <1>2, <1>6, <1>7 DEF FlushAddress

LEMMA RemoveStep ==
    ASSUME AddressInv, NEW r \in Request, Remove(r), UNCHANGED book
    PROVE  AddressInv'
<1>1. pc[r] = "remove" /\ Running(r) /\ Working(r) /\ job[r].op = "delete"
  BY RequestTypes DEF Remove, Running, Working, OpsAt
<1>2. CASE Fail(r)
  BY <1>1, <1>2, RejectStep
<1>3. CASE ~Fail(r)
  <2>1. PICK a \in Address : a = seen[r].address
    BY <1>1 DEF Working, Planned
  <2>2. View(r, a) \in AddressRow /\ seen[r] \in Plan
    BY <1>1, ViewTypes DEF Working, Planned
  <2> DEFINE x == [View(r, a) EXCEPT !.state = "deleted"]
             l == IF seen[r].loaded.chosen THEN "replace" ELSE "commit"
  <2>3. Live(View(r, a)) /\ WriteRow(r, a, x) /\ Goto(r, l) /\ UNCHANGED <<job, seen>>
    BY <1>3, <2>1 DEF Remove, Write
  <2>4. x \in AddressRow /\ ~Live(x) /\ ~ChosenRow(x)
    BY <2>2 DEF AddressRow, Live, ChosenRow
  <2>5. l \in {"replace", "commit"} /\ (l = "commit" => ~seen[r].loaded.chosen)
    OBVIOUS
  <2> HIDE DEF x, l
  <2>6. OnlyMoves(r) /\ pc'[r] = l /\ job'[r] = job[r] /\ seen'[r] = seen[r]
    BY <2>3, GotoMoves
  <2>7. Working(r)'
    BY <1>1, <2>5, <2>6 DEF Working, Running, Planned, Clearing, OpsAt
  <2>8. Mine(r)'
    BY <2>3, <2>4, <2>5, <2>6, <2>7, WriteMine, RequestTypes DEF Label
  <2>9. ASSUME ~overlapped PROVE Alone(r)'
    <3>1. Alone(r)
      BY <1>1, <2>9, AloneNow
    <3>2. /\ db' = db /\ View(r, a)' = x
          /\ \A b \in Address : b # a => View(r, b)' = View(r, b) /\ (Holds(r, b)' <=> Holds(r, b))
          /\ Chosen' = Chosen
      BY <2>3, <2>4, AfterWrite
    <3>3. Book(r)' = Book(r) \ {a} /\ a \in Book(r)
      BY <2>3, <2>4, <3>2 DEF Book, Live
    <3>4. Cardinality(Book(r)') = Cardinality(Book(r)) - 1
      BY <3>3, BookIsFinite, FS_RemoveElement
    <3>5. Cardinality(Book(r)) > 1 /\ Cardinality(Book(r)) \in 1..MaxAddresses
      BY <1>1, <3>1 DEF Alone
    <3>6. Marked(r)' \subseteq Marked(r)
      BY <3>2, <3>3 DEF Marked, Book
    <3>7. \A b \in Address : Holds(r, b)' => db'[b].state # "none"
      <4>1. db[a].state # "none"
        BY <1>1, <2>3, <3>1 DEF Alone, View, Holds, Live
      <4> QED
        BY <1>1, <3>1, <3>2, <4>1 DEF Alone
    <3>8. ASSUME Chosen # {}, l = "commit" PROVE Kept(r)'
      <4>1. PICK c \in Address : ChosenRow(View(r, c))
        BY <1>1, <3>1, <3>8 DEF Alone, Kept
      <4>2. Loaded(View(r, a)) = seen[r].loaded
        BY <1>1, <2>1, <3>1 DEF Alone, Ahead, Planned, Clearing
      <4>3. c # a
        BY <2>2, <2>5, <3>8, <4>1, <4>2, LoadedType DEF ChosenRow
      <4> QED
        BY <3>2, <4>1, <4>3 DEF Kept, ChosenRow, Live
    <3>9. Cardinality(Book(r)') \in 1..MaxAddresses
      BY <3>4, <3>5, AddressAssumption
    <3> QED
      BY <2>5, <2>6, <3>1, <3>2, <3>6, <3>7, <3>8, <3>9 DEF Alone, Ahead, Planned, Clearing
  <2> QED
    BY <1>1, <2>3, <2>4, <2>6, <2>8, <2>9, WriteStep DEF book
<1> QED
  BY <1>2, <1>3

-----------------------------------------------------------------------------
(* The invariant, and what follows from it.                                *)

LEMMA InitInv == Init => AddressInv
<1> SUFFICES ASSUME Init PROVE AddressInv
  OBVIOUS
<1>1. /\ db = [a \in Address |-> [state |-> IF a \in Saved THEN "live" ELSE "none",
                                  chosen |-> a = First, pickup |-> FALSE]]
      /\ pend = [r \in Request |-> [a \in Address |-> None]]
      /\ pc = [r \in Request |-> "new"] /\ job = [r \in Request |-> NoJob]
      /\ seen = [r \in Request |-> None] /\ kind \in Kind /\ overlapped = FALSE
  BY DEF Init, HandlersInit, NoWrites, Row
<1>2. \A a \in Address : /\ db[a] \in AddressRow /\ (Live(db[a]) <=> a \in Saved)
                         /\ (db[a].chosen <=> a = First) /\ ~db[a].pickup
  BY <1>1 DEF AddressRow, Live
<1>3. Types
  BY <1>1, <1>2 DEF Types, TypeOK, Label
<1>4. \A r \in Request : ~Running(r) /\ \A a \in Address : ~Holds(r, a)
  BY <1>1 DEF Running, Holds
<1>5. RowLocksExclusive /\ OneTransactionChooses /\ OneChosen
  BY <1>1, <1>2, <1>4 DEF RowLocksExclusive, OneTransactionChooses, OneChosen, Chooses, ChosenRow, Row
<1>6. \A r \in Request : Working(r) /\ SeesOne(r)
  BY <1>1, <1>4 DEF Working, SeesOne, Chooses, Running, Planned, Clearing
<1>7. Addresses = Saved /\ Pickups = {}
  BY <1>2, AddressAssumption DEF Addresses, Pickups
<1>8. Cardinality(Saved) \in 1..MaxAddresses
  <2>1. IsFiniteSet(Saved)
    BY AddressAssumption, FS_Subset
  <2>2. Cardinality(Saved) \in Nat /\ Cardinality(Saved) # 0
    BY <2>1, AddressAssumption, FS_CardinalityType, FS_EmptySet
  <2> QED
    BY <2>2, AddressAssumption
<1>9. Sequence
  BY <1>4, <1>7, <1>8 DEF Sequence
<1> QED
  BY <1>3, <1>5, <1>6, <1>9 DEF AddressInv

LEMMA StepInv == AddressInv /\ [Next]_vars => AddressInv'
<1> SUFFICES ASSUME AddressInv, [Next]_vars PROVE AddressInv'
  OBVIOUS
<1>1. CASE UNCHANGED vars
  <2>1. UNCHANGED <<db, pend, pc, job, seen, kind, overlapped>>
    BY <1>1 DEF vars, book
  <2>2. Types' /\ RowLocksExclusive' /\ OneTransactionChooses' /\ OneChosen'
    BY <2>1 DEF AddressInv, Types, TypeOK, RowLocksExclusive, OneTransactionChooses, OneChosen, Chooses,
       Holds, Row
  <2>3. \A r \in Request : Working(r)' /\ SeesOne(r)'
    BY <2>1 DEF AddressInv, Working, SeesOne, Running, Chooses, ChosenRow, Holds, View, Live
  <2>4. ~overlapped' => Sequence'
    <3>1. \A r \in Request : Alone(r)' <=> Alone(r)
      BY <2>1 DEF Alone, Kept, ChosenRow, Holds, View, Live, Book, Marked, Flagged, Loaded, Chosen, Addresses
    <3> QED
      BY <2>1, <3>1 DEF AddressInv, Sequence, Running, Addresses, Pickups
  <2> QED
    BY <2>2, <2>3, <2>4 DEF AddressInv
<1>2. ASSUME NEW r \in Request, ConnectionLost(r), UNCHANGED book PROVE AddressInv'
  BY <1>2, RejectStep DEF ConnectionLost
<1> QED
  BY <1>1, <1>2, ArriveStep, CountStep, ReadAddressStep, ClearChosenStep, ClearPickupStep, InsertStep,
     ReloadStep, FlushAddressStep, CountRestStep, RemoveStep, ReplaceStep, ReadReplacementStep, CommitStep
     DEF Next, Statement

(* Each request works on the row it has read, and rows are locked by one   *)
(* transaction at a time, of which one at most leaves a row chosen; while  *)
(* requests do not overlap, the one that runs sees the book in order.      *)
THEOREM AddressesStayInOrder == Spec => []AddressInv
BY InitInv, StepInv, PTL DEF Spec

(* Two requests at once never leave an owner with two default addresses or *)
(* a business with two primary locations: of two transactions that choose  *)
(* a row one waits at the index and then fails or finds the other cleared. *)
THEOREM NeverTwoChosen == Spec => []AtMostOneChosen
<1>1. AddressInv => AtMostOneChosen
  <2> SUFFICES ASSUME AddressInv PROVE Cardinality(Chosen) <= 1
    BY DEF AtMostOneChosen
  <2>1. \A a, b \in Chosen : a = b
    BY DEF Chosen, Addresses, AddressInv, OneChosen, ChosenRow
  <2>2. CASE Chosen = {}
    BY <2>2, FS_EmptySet
  <2>3. CASE Chosen # {}
    <3>1. PICK a \in Chosen : TRUE
      BY <2>3
    <3>2. Chosen = {a}
      BY <2>1, <3>1
    <3> QED
      BY <3>2, FS_Singleton
  <2> QED
    BY <2>2, <2>3
<1> QED
  BY <1>1, AddressesStayInOrder, PTL

(* A book whose requests do not overlap keeps within its limit, keeps its  *)
(* last address, and offers pickup at one location at most, whichever of   *)
(* the requests fail and wherever they do.                                 *)
THEOREM BooksAreInOrder == Spec => []BookInOrder
<1>1. AddressInv => BookInOrder
  <2> SUFFICES ASSUME AddressInv, ~overlapped
               PROVE  Cardinality(Addresses) \in 1..MaxAddresses /\ Cardinality(Pickups) <= 1
    BY DEF BookInOrder
  <2>1. Cardinality(Addresses) \in 1..MaxAddresses /\ \A a, b \in Pickups : a = b
    BY DEF AddressInv, Sequence
  <2>2. CASE Pickups = {}
    BY <2>1, <2>2, FS_EmptySet
  <2>3. CASE Pickups # {}
    <3>1. PICK a \in Pickups : Pickups = {a}
      BY <2>1, <2>3
    <3>2. Cardinality(Pickups) = 1
      BY <3>1, FS_Singleton
    <3> QED
      BY <2>1, <3>2
  <2> QED
    BY <2>2, <2>3
<1> QED
  BY <1>1, AddressesStayInOrder, PTL

(* Only a commit changes the book.                                         *)
LEMMA DbByCommit ==
    ASSUME [Next]_vars, db' # db
    PROVE  \E r \in Request : Commit(r) /\ UNCHANGED book
<1>1. ASSUME NEW r \in Request,
             \/ Arrive(r) \/ Count(r) \/ ReadAddress(r) \/ Reload(r) \/ CountRest(r)
             \/ Replace(r) \/ ReadReplacement(r) \/ ConnectionLost(r)
      PROVE  FALSE
  BY <1>1 DEF Arrive, Begin, Count, ReadAddress, Reload, CountRest, Replace, ReadReplacement,
     ConnectionLost, Read, Continue, Fail, DiscardWrites
<1>2. ASSUME NEW r \in Request, ClearChosen(r) \/ ClearPickup(r) PROVE FALSE
  BY <1>2 DEF ClearChosen, ClearPickup, ClearAll, ClearOne, Read, Continue, WriteRow
<1>3. ASSUME NEW r \in Request, Insert(r) \/ FlushAddress(r) \/ Remove(r) PROVE FALSE
  BY <1>3 DEF Insert, FlushAddress, Remove, Store, Write, WriteRow, Continue, Fail, DiscardWrites
<1>4. ~UNCHANGED vars
  BY DEF vars
<1> QED
  BY <1>1, <1>2, <1>3, <1>4 DEF Next, Statement

(* The chosen address does not get lost on the way: of requests that do    *)
(* not overlap, only an update that clears the flag leaves an owner who    *)
(* has a chosen address without one.                                       *)
THEOREM ChosenStays == Spec => ChosenIsKept
<1> DEFINE Keeps == Chosen # {} /\ ~overlapped' =>
                      \/ Chosen' # {} \/ Addresses' = {}
                      \/ \E r \in Request : At(r, "update", "commit") /\ seen[r].chosen = FALSE
<1>1. ASSUME AddressInv, [Next]_vars, Chosen # {}, ~overlapped'
      PROVE  \/ Chosen' # {}
             \/ \E r \in Request : At(r, "update", "commit") /\ seen[r].chosen = FALSE
  <2>1. CASE db' = db
    BY <1>1, <2>1 DEF Chosen, Addresses
  <2>2. CASE db' # db
    <3>1. PICK r \in Request : Commit(r) /\ UNCHANGED book
      BY <1>1, <2>2, DbByCommit
    <3>2. pc[r] = "commit" /\ Running(r) /\ ~overlapped /\ \A a \in Address : db'[a] = View(r, a)
      BY <1>1, <3>1, RowIs DEF Commit, Finish, CommitWrites, Running, book
    <3>3. Kept(r)
      BY <1>1, <3>2, AloneNow DEF Alone
    <3>4. CASE \E a \in Address : ChosenRow(View(r, a))
      BY <3>2, <3>4 DEF Chosen, Addresses, ChosenRow
    <3>5. CASE job[r].op = "update" /\ seen[r].chosen = FALSE
      BY <3>2, <3>5 DEF At
    <3> QED
      BY <3>3, <3>4, <3>5 DEF Kept
  <2> QED
    BY <2>1, <2>2
<1>2. AddressInv /\ [Next]_vars => [Keeps]_vars
  BY <1>1
<1>3. Spec => []AddressInv /\ [][Next]_vars
  BY AddressesStayInOrder, PTL DEF Spec
<1> QED
  BY <1>2, <1>3, PTL DEF ChosenIsKept
=============================================================================
