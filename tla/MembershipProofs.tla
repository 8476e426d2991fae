-------------------------- MODULE MembershipProofs ---------------------------
(***************************************************************************)
(* Proofs about Membership, for every set of businesses, memberships,      *)
(* roles, users and requests: the three properties its run checks.         *)
(*                                                                         *)
(* That nobody owns or belongs to anything twice rests on the unique       *)
(* indexes and on row locks, whatever runs at the same time.  That stored  *)
(* sessions are current rests on whom the one running request has still to *)
(* revoke, as long as requests do not overlap.                             *)
(***************************************************************************)
EXTENDS Membership, FiniteSetTheorems, TLAPS

Key == Business \cup Mapping \cup Role
Indexed == Business \cup Mapping
AnyRow == BusinessRow \cup MappingRow \cup RoleRow

RowType(k) == IF k \in Business THEN BusinessRow ELSE IF k \in Mapping THEN MappingRow ELSE RoleRow

(* What a request keeps of what it has read, by endpoint.                  *)
Resolved == [owner : BOOLEAN, role : Role]
Opened == [owner : User, todo : SUBSET Mapping]
Listed == [owner : User, todo : SUBSET Mapping, users : SUBSET User]
One == [users : SUBSET User, loaded : MappingRow]
Holders == [users : SUBSET User]
Seen == {None} \cup Role \cup Resolved \cup BusinessToken \cup Opened \cup Listed \cup One \cup Holders

Types ==
    /\ TypeOK
    /\ pend \in [Request -> [Key -> AnyRow \cup {None}]]
    /\ \A r \in Request, k \in Key : pend[r][k] \in RowType(k) \cup {None}
    /\ seen \in [Request -> Seen]

(* The endpoints whose handlers pass a statement.                          *)
OpsAt(label) ==
    CASE label = "issue" -> {"login", "toCustomer"}
      [] label \in {"member", "switch", "privileges", "store"} -> {"toBusiness"}
      [] label \in {"exists", "found"} -> {"create"}
      [] label = "enroll" -> {"create", "add"}
      [] label = "business" -> {"handOver", "delete"}
      [] label = "handOver" -> {"handOver"}
      [] label \in {"members", "close", "dismiss", "dismissing"} -> {"delete"}
      [] label = "mapping" -> {"reassign", "remove"}
      [] label \in {"reload", "reassign"} -> {"reassign"}
      [] label = "dismissOne" -> {"remove"}
      [] label = "role" -> {"drop", "grant"}
      [] label = "grant" -> {"grant"}
      [] label \in {"drop", "list"} -> {"drop"}
      [] label = "revoke" -> {"delete", "reassign", "remove", "drop"}
      [] OTHER -> {"create", "handOver", "delete", "add", "reassign", "remove", "drop", "grant"}

(* What they have read by then, as far as they use it.                     *)
SeenAt(label, op) ==
    CASE label = "switch" -> Role
      [] label = "privileges" -> Resolved
      [] label = "store" -> BusinessToken
      [] label = "members" -> Opened
      [] label \in {"close", "dismiss", "dismissing"} -> Listed
      [] label \in {"reload", "reassign", "dismissOne"} -> One
      [] label = "revoke" ->
           IF op = "delete" THEN Listed ELSE IF op = "drop" THEN Holders ELSE One
      [] OTHER -> Seen

HoldsNothing(r) == \A k \in Key : ~Holds(r, k)

Writing == {"enroll", "dismiss", "dismissing", "list", "revoke", "commit"}

(* What a request works on: the token it was called with stays what it     *)
(* was, and its own is not issued yet.                                     *)
Working(r) ==
    /\ Running(r) => job[r].op \in OpsAt(pc[r])
    /\ job[r].op \in {"toCustomer", "toBusiness", "create"} => token[job[r].by] # None
    /\ job[r].op \in {"handOver", "delete"} =>
         token[job[r].by] # None /\ token[job[r].by].ctx = "BUSINESS"
    /\ pc[r] \notin {"done", "failed", "commit"} => token[r] = None
    /\ pc[r] \notin Writing \/ (pc[r] = "enroll" /\ job[r].op = "add") => HoldsNothing(r)
    /\ seen[r] \in SeenAt(pc[r], job[r].op)

(* A creation has founded one business, and enrolled the owner when it     *)
(* commits; the others bring no business to life.                          *)
Founding(r) ==
    IF job[r].op = "create" /\ pc[r] \in {"enroll", "commit"}
    THEN \E b \in Business :
           /\ Holds(r, b) /\ pend[r][b].owner = token[job[r].by].user
           /\ \A c \in Business : Holds(r, c) => c = b
           /\ pc[r] = "commit" =>
                \E m \in Mapping :
                  /\ Holds(r, m) /\ Live(pend[r][m]) /\ pend[r][m].business = b
                  /\ pend[r][m].user = token[job[r].by].user /\ pend[r][m].role = OwnerRole
    ELSE \A b \in Business : Holds(r, b) /\ Live(pend[r][b]) => Live(db[b])

(* What is committed, and what any two transactions will commit, keeps to  *)
(* the unique indexes.                                                     *)
Exclusive ==
    /\ \A k \in Indexed : \A o \in Table(k) \ {k} : ~Conflict(k, db[k], db[o])
    /\ \A r \in Request, k \in Indexed : Holds(r, k) =>
         \A o \in Table(k) \ {k} : ~Conflict(k, pend[r][k], View(r, o))
    /\ \A r, s \in Request, k \in Indexed : r # s /\ Holds(r, k) =>
         \A o \in Table(k) \ {k} : Holds(s, o) => ~Conflict(k, pend[r][k], pend[s][o])

-----------------------------------------------------------------------------
(* While requests do not overlap.                                          *)

Alive(u) == stored[u] \notin revoked \cup left \cup {None}

(* The session is current once r has committed.                            *)
CurrentSeen(r, t) ==
    t.ctx = "BUSINESS" =>
      \E m \in Mapping :
        /\ Live(View(r, m)) /\ View(r, m).user = t.user /\ View(r, m).business = t.business
        /\ t.owner \/ (View(r, m).role = t.role /\ (t.privileged => View(r, t.role).granted))

(* A membership that bears out what the request has read of it.            *)
Backed(r, role) ==
    \E m \in MemberOf(token[job[r].by].user, job[r].business) : db[m].role = role

Alone(r) ==
    /\ pc[r] \in {"revoke", "commit"} =>
         \A u \in User :
           Alive(u) /\ u \notin Leavers(r) /\ (pc[r] = "revoke" => u \notin seen[r].users)
             => CurrentSeen(r, token[stored[u]])
    /\ pc[r] = "switch" => Backed(r, seen[r])
    /\ pc[r] = "privileges" =>
         \E m \in MemberOf(token[job[r].by].user, job[r].business) :
           seen[r].owner \/ db[m].role = seen[r].role
    /\ pc[r] = "store" => Current(seen[r])
    /\ pc[r] = "enroll" => \A k \in Mapping \cup Role : ~Holds(r, k)
    /\ pc[r] \in {"close", "dismiss", "dismissing"} =>
         /\ \A m \in Mapping :
              Live(db[m]) /\ db[m].business = token[job[r].by].business => db[m].user \in seen[r].users
         /\ \A m \in Mapping : Holds(r, m) =>
              ~Live(pend[r][m]) /\ Live(db[m]) /\ db[m].user \in seen[r].users
         /\ \A k \in Role : ~Holds(r, k)
    /\ pc[r] \in {"reload", "dismissOne"} => seen[r].users = {db[job[r].mapping].user}
    /\ pc[r] \in {"reload", "reassign"} => seen[r].loaded = db[job[r].mapping]
    /\ pc[r] = "reassign" => seen[r].users = LosesSession(job[r].to, seen[r].loaded)
    /\ pc[r] = "list" => \A k \in Key : Holds(r, k) => k = job[r].role

Sequence ==
    /\ \A r, s \in Request : Running(r) /\ Running(s) => r = s
    /\ \A u \in User : Alive(u) => Current(token[stored[u]])
    /\ \A r \in Request : Running(r) => Alone(r)

MembershipInv ==
    /\ Types
    /\ RowLocksExclusive
    /\ Exclusive
    /\ \A r \in Request : Working(r) /\ Founding(r)
    /\ ~overlapped => Sequence

RedisOK ==
    /\ token \in [Name -> CustomerToken \cup BusinessToken \cup {None}]
    /\ stored \in [User -> Name \cup {None}]
    /\ \A u \in User : stored[u] # None => token[stored[u]] # None /\ token[stored[u]].user = u
    /\ revoked \in SUBSET Name
    /\ left \in SUBSET (Name \cup {None})

(* All that the invariant says of one request, whatever else is running.   *)
Mine(r) ==
    /\ pc[r] \in Label /\ job[r] \in Job /\ seen[r] \in Seen
    /\ pend[r] \in [Key -> AnyRow \cup {None}]
    /\ \A k \in Key : pend[r][k] \in RowType(k) \cup {None}
    /\ Working(r) /\ Founding(r)

(* Only r has moved; a token it may have issued is its first.              *)
OnlyMoves(r) ==
    /\ pc' = [pc EXCEPT ![r] = pc'[r]]
    /\ job' = [job EXCEPT ![r] = job'[r]]
    /\ seen' = [seen EXCEPT ![r] = seen'[r]]
    /\ token' = [token EXCEPT ![r] = token'[r]]
    /\ token[r] = None \/ token' = token
    /\ RedisOK'
    /\ overlapped' \in BOOLEAN

Calm == UNCHANGED sessions /\ overlapped' = overlapped /\ left' = left

-----------------------------------------------------------------------------
(* Rows.                                                                   *)

LEMMA KeyFacts ==
    /\ Business \subseteq Key /\ Mapping \subseteq Key /\ Role \subseteq Key
    /\ Indexed \subseteq Key
    /\ \A b \in Business : b \notin Mapping /\ b \notin Role
    /\ \A m \in Mapping : m \notin Business /\ m \notin Role
    /\ \A k \in Role : k \notin Business /\ k \notin Mapping
    /\ \A r \in Request : r \in Name /\ r \notin User
    /\ \A u \in User : u \in Name /\ u \notin Request
BY MembershipAssumption DEF Key, Indexed, Name

LEMMA RowTypes ==
    /\ \A k \in Key : RowType(k) \subseteq AnyRow /\ None \notin RowType(k)
    /\ \A b \in Business : RowType(b) = BusinessRow
    /\ \A m \in Mapping : RowType(m) = MappingRow
    /\ \A k \in Role : RowType(k) = RoleRow
BY MembershipAssumption, KeyFacts DEF RowType, AnyRow

LEMMA InvTypes ==
    ASSUME MembershipInv
    PROVE  /\ db \in [Key -> AnyRow] /\ Row = Key
           /\ pend \in [Request -> [Key -> AnyRow \cup {None}]]
           /\ pc \in [Request -> Label] /\ job \in [Request -> Job] /\ seen \in [Request -> Seen]
           /\ RedisOK /\ overlapped \in BOOLEAN
           /\ \A k \in Key : db[k] \in RowType(k)
           /\ \A r \in Request : Mine(r)
<1>1. Types
  BY DEF MembershipInv
<1>2. db \in [Key -> AnyRow] /\ Row = Key
  BY <1>1 DEF Types, TypeOK, Key, AnyRow, Row
<1>3. \A k \in Key : db[k] \in RowType(k)
  BY <1>1, <1>2 DEF Types, TypeOK, RowType, Row
<1>4. /\ pend \in [Request -> [Key -> AnyRow \cup {None}]]
      /\ pc \in [Request -> Label] /\ job \in [Request -> Job] /\ seen \in [Request -> Seen]
      /\ overlapped \in BOOLEAN
  BY <1>1 DEF Types, TypeOK
<1>5. RedisOK
  BY <1>1 DEF Types, TypeOK, RedisOK
<1>6. \A r \in Request : Mine(r)
  BY <1>1, <1>4 DEF MembershipInv, Mine, Types
<1> QED
  BY <1>2, <1>3, <1>4, <1>5, <1>6

LEMMA ViewTypes ==
    ASSUME MembershipInv, NEW r \in Request, NEW k \in Key
    PROVE  View(r, k) \in RowType(k) /\ db[k] \in RowType(k)
BY InvTypes DEF View, Mine

LEMMA RowsSeen ==
    ASSUME MembershipInv, NEW r \in Request
    PROVE  /\ \A b \in Business : View(r, b) \in BusinessRow /\ db[b] \in BusinessRow
           /\ \A m \in Mapping : View(r, m) \in MappingRow /\ db[m] \in MappingRow
           /\ \A k \in Role : View(r, k) \in RoleRow /\ db[k] \in RoleRow
BY ViewTypes, RowTypes, KeyFacts

LEMMA HeldTypes ==
    ASSUME MembershipInv, NEW r \in Request, NEW k \in Key
    PROVE  /\ Holds(r, k) => pend[r][k] \in RowType(k) /\ View(r, k) = pend[r][k]
           /\ ~Holds(r, k) => pend[r][k] = None /\ View(r, k) = db[k]
BY InvTypes DEF View, Mine, Holds

LEMMA NotHeldByOther ==
    ASSUME MembershipInv, NEW r \in Request, NEW s \in Request \ {r}, NEW k \in Key, Holds(r, k)
    PROVE  ~Holds(s, k)
BY InvTypes DEF MembershipInv, RowLocksExclusive

LEMMA SameColumns ==
    ASSUME NEW k \in Key, NEW x \in RowType(k), NEW y \in RowType(k)
    PROVE  DOMAIN x = DOMAIN y
BY DEF RowType, BusinessRow, MappingRow, RoleRow

LEMMA OtherOfTable ==
    ASSUME NEW k \in Indexed, NEW o \in Table(k)
    PROVE  o \in Indexed /\ o \in Key /\ Table(o) = Table(k) /\ k \in Table(k) /\ k \in Key
BY KeyFacts DEF Indexed, Table, Key

LEMMA ConflictIsMutual ==
    ASSUME NEW k \in Indexed, NEW o \in Table(k), NEW x, NEW y
    PROVE  Conflict(k, x, y) <=> Conflict(o, y, x)
BY KeyFacts DEF Indexed, Table, Conflict

-----------------------------------------------------------------------------
(* The unique indexes.                                                     *)

(* Row k may become x, as far as r and the others can tell.                *)
Fits(r, k, x) ==
    /\ \A o \in Table(k) \ {k} : ~Conflict(k, x, View(r, o))
    /\ \A s \in Request \ {r}, o \in Table(k) \ {k} : Holds(s, o) => ~Conflict(k, x, pend[s][o])

LEMMA StoredFits ==
    ASSUME NEW r \in Request, NEW k, NEW x, ~Undecided(r, k, x), ~Taken(r, k, x)
    PROVE  Fits(r, k, x)
BY DEF Fits, Undecided, Taken

(* So may what it is now.                                                  *)
LEMMA PresentFits ==
    ASSUME MembershipInv, NEW r \in Request, NEW k \in Indexed, ~HeldByOther(r, k)
    PROVE  Fits(r, k, View(r, k))
<1>1. ASSUME NEW o \in Table(k) \ {k}
      PROVE  ~Conflict(k, View(r, k), View(r, o))
  <2>1. o \in Indexed /\ o \in Key /\ k \in Key /\ k \in Table(o) \ {o}
    BY <1>1, OtherOfTable
  <2>2. CASE Holds(r, k)
    BY <2>1, <2>2, <1>1, HeldTypes DEF MembershipInv, Exclusive
  <2>3. CASE Holds(r, o)
    <3>1. ~Conflict(o, View(r, o), View(r, k))
      BY <2>1, <2>3, HeldTypes DEF MembershipInv, Exclusive
    <3> QED
      BY <3>1, ConflictIsMutual, <1>1
  <2>4. CASE ~Holds(r, k) /\ ~Holds(r, o)
    BY <2>1, <2>4, <1>1, HeldTypes DEF MembershipInv, Exclusive
  <2> QED
    BY <2>2, <2>3, <2>4
<1>2. ASSUME NEW s \in Request \ {r}, NEW o \in Table(k) \ {k}, Holds(s, o)
      PROVE  ~Conflict(k, View(r, k), pend[s][o])
  <2>1. o \in Indexed /\ o \in Key /\ k \in Key /\ k \in Table(o) \ {o}
    BY <1>2, OtherOfTable
  <2>2. CASE Holds(r, k)
    BY <2>1, <2>2, <1>2, HeldTypes DEF MembershipInv, Exclusive
  <2>3. CASE ~Holds(r, k)
    <3>1. View(s, k) = View(r, k)
      BY <2>1, <2>3, <1>2, HeldTypes DEF HeldByOther
    <3>2. ~Conflict(o, pend[s][o], View(s, k))
      BY <2>1, <1>2 DEF MembershipInv, Exclusive
    <3> QED
      BY <3>1, <3>2, ConflictIsMutual, <1>2
  <2> QED
    BY <2>2, <2>3
<1> QED
  BY <1>1, <1>2 DEF Fits

(* A change that keeps the columns of the index, or deletes, fits as well. *)
LEMMA ChangeFits ==
    ASSUME MembershipInv, NEW r \in Request, NEW k \in Indexed, ~HeldByOther(r, k), NEW x,
           Live(x) => /\ Live(View(r, k))
                      /\ IF k \in Business THEN x.owner = View(r, k).owner
                         ELSE x.business = View(r, k).business /\ x.user = View(r, k).user
    PROVE  Fits(r, k, x)
<1>1. \A y : Conflict(k, x, y) => Conflict(k, View(r, k), y)
  BY DEF Conflict
<1>2. Fits(r, k, View(r, k))
  BY PresentFits
<1> QED
  BY <1>1, <1>2 DEF Fits

LEMMA ExclusiveStays ==
    ASSUME MembershipInv, UNCHANGED <<db, pend>>
    PROVE  Exclusive' /\ RowLocksExclusive'
<1>1. Exclusive /\ RowLocksExclusive
  BY DEF MembershipInv
<1>2. \A r, k : View(r, k)' = View(r, k) /\ (Holds(r, k)' <=> Holds(r, k))
  BY DEF View, Holds
<1>3. Exclusive'
  BY <1>1, <1>2 DEF Exclusive, Conflict, Live
<1>4. RowLocksExclusive'
  BY <1>1, <1>2 DEF RowLocksExclusive, Row
<1> QED
  BY <1>3, <1>4

LEMMA ExclusiveWrite ==
    ASSUME MembershipInv, NEW r \in Request, NEW k \in Key, NEW x \in RowType(k),
           WriteRow(r, k, x), k \in Indexed => Fits(r, k, x)
    PROVE  Exclusive' /\ RowLocksExclusive'
<1>1. db' = db /\ pend' = [pend EXCEPT ![r][k] = x] /\ \A s \in Request \ {r} : ~Holds(s, k)
  BY DEF WriteRow, HeldByOther
<1>2. \A s \in Request, o \in Key : s # r \/ o # k =>
         pend'[s][o] = pend[s][o] /\ (Holds(s, o)' <=> Holds(s, o)) /\ View(s, o)' = View(s, o)
  BY <1>1, InvTypes DEF Holds, View
<1>3. Holds(r, k)' /\ pend'[r][k] = x /\ View(r, k)' = x
  BY <1>1, InvTypes, RowTypes DEF Holds, View
<1>4. RowLocksExclusive'
  BY <1>1, <1>2, InvTypes DEF MembershipInv, RowLocksExclusive, Row
<1>5. \A i \in Indexed : \A o \in Table(i) \ {i} : ~Conflict(i, db'[i], db'[o])
  BY <1>1 DEF MembershipInv, Exclusive
<1>6. ASSUME NEW s \in Request, NEW i \in Indexed, Holds(s, i)', NEW o \in Table(i) \ {i}
      PROVE  ~Conflict(i, pend'[s][i], View(s, o)')
  <2>1. i \in Key /\ o \in Key /\ o \in Indexed /\ i \in Table(o) /\ Table(o) = Table(i)
    BY <1>6, OtherOfTable
  <2>2. CASE s = r /\ i = k
    <3>1. View(r, o)' = View(r, o)
      BY <2>1, <2>2, <1>2, <1>6
    <3> QED
      BY <3>1, <2>2, <1>3, <1>6 DEF Fits
  <2>3. CASE s = r /\ o = k
    <3>1. ~Conflict(o, x, View(r, i))
      BY <2>1, <2>3, <1>6 DEF Fits
    <3>2. pend'[s][i] = pend[r][i] /\ Holds(r, i)
      BY <2>1, <2>3, <1>2, <1>6
    <3>3. View(r, i) = pend[r][i]
      BY <3>2 DEF View, Holds
    <3> QED
      BY <3>1, <3>2, <3>3, <2>3, <1>3, <1>6, ConflictIsMutual
  <2>4. CASE ~(s = r /\ i = k) /\ ~(s = r /\ o = k)
    <3>1. pend'[s][i] = pend[s][i] /\ Holds(s, i) /\ View(s, o)' = View(s, o)
      BY <2>1, <2>4, <1>2, <1>6
    <3>2. ~Conflict(i, pend[s][i], View(s, o))
      BY <3>1, <1>6 DEF MembershipInv, Exclusive
    <3> QED
      BY <3>1, <3>2
  <2> QED
    BY <2>2, <2>3, <2>4
<1>7. ASSUME NEW p \in Request, NEW s \in Request, p # s, NEW i \in Indexed, Holds(p, i)',
             NEW o \in Table(i) \ {i}, Holds(s, o)'
      PROVE  ~Conflict(i, pend'[p][i], pend'[s][o])
  <2>1. i \in Key /\ o \in Key /\ o \in Indexed /\ i \in Table(o) /\ Table(o) = Table(i)
    BY <1>7, OtherOfTable
  <2>2. CASE p = r /\ i = k
    <3>1. pend'[s][o] = pend[s][o] /\ Holds(s, o)
      BY <2>1, <2>2, <1>2, <1>7
    <3> QED
      BY <3>1, <2>2, <1>3, <1>7 DEF Fits
  <2>3. CASE s = r /\ o = k
    <3>1. pend'[p][i] = pend[p][i] /\ Holds(p, i)
      BY <2>1, <2>3, <1>2, <1>7
    <3>2. ~Conflict(o, x, pend[p][i])
      BY <3>1, <2>1, <2>3, <1>7 DEF Fits
    <3> QED
      BY <3>1, <3>2, <2>3, <1>3, <1>7, ConflictIsMutual
  <2>4. CASE ~(p = r /\ i = k) /\ ~(s = r /\ o = k)
    <3>1. /\ pend'[p][i] = pend[p][i] /\ Holds(p, i)
          /\ pend'[s][o] = pend[s][o] /\ Holds(s, o)
      BY <2>1, <2>4, <1>2, <1>7
    <3>2. ~Conflict(i, pend[p][i], pend[s][o])
      BY <3>1, <1>7 DEF MembershipInv, Exclusive
    <3> QED
      BY <3>1, <3>2
  <2> QED
    BY <2>2, <2>3, <2>4
<1>8. Exclusive'
  <2>1. \A i \in Indexed : \A o \in Table(i) \ {i} : ~Conflict(i, db[i], db[o])'
    BY <1>5 DEF Conflict, Live
  <2>2. \A s \in Request, i \in Indexed : Holds(s, i)' =>
           \A o \in Table(i) \ {i} : ~Conflict(i, pend[s][i], View(s, o))'
    BY <1>6 DEF Conflict, Live
  <2>3. \A p, s \in Request, i \in Indexed : p # s /\ Holds(p, i)' =>
           \A o \in Table(i) \ {i} : Holds(s, o)' => ~Conflict(i, pend[p][i], pend[s][o])'
    BY <1>7 DEF Conflict, Live
  <2> QED
    BY <2>1, <2>2, <2>3 DEF Exclusive
<1> QED
  BY <1>4, <1>8

(* A transaction ends: what the others held, they still hold.              *)
LEMMA ExclusiveEnd ==
    ASSUME MembershipInv, NEW r \in Request, pend' = [pend EXCEPT ![r] = NoWrites],
           db' = db \/ db' = [k \in Row |-> View(r, k)]
    PROVE  Exclusive' /\ RowLocksExclusive'
<1>1. \A k \in Key : ~Holds(r, k)'
  BY InvTypes DEF NoWrites, Holds
<1>2. \A s \in Request \ {r}, k \in Key : pend'[s][k] = pend[s][k] /\ (Holds(s, k)' <=> Holds(s, k))
  BY InvTypes DEF Holds
<1>3. Row' = Key
  <2>1. DOMAIN db' = Key
    BY InvTypes
  <2> QED
    BY <2>1 DEF Row
<1>4. RowLocksExclusive'
  <2>1. ASSUME NEW p \in Request, NEW s \in Request, NEW k \in Key, Holds(p, k)', Holds(s, k)'
        PROVE  p = s
    <3>1. p # r /\ s # r /\ Holds(p, k) /\ Holds(s, k)
      BY <2>1, <1>1, <1>2
    <3> QED
      BY <3>1, NotHeldByOther
  <2> QED
    BY <2>1, <1>3 DEF RowLocksExclusive
<1>5. ASSUME NEW s \in Request, NEW i \in Indexed, NEW o \in Table(i) \ {i}
      PROVE  /\ i \in Key /\ o \in Key /\ o \in Indexed /\ i \in Table(o)
             /\ ~Conflict(i, View(s, i), View(s, o)) /\ ~Conflict(i, db[i], db[o])
  <2>1. i \in Key /\ o \in Key /\ o \in Indexed /\ i \in Table(o)
    BY <1>5, OtherOfTable
  <2>2. ~Conflict(i, db[i], db[o])
    BY <1>5 DEF MembershipInv, Exclusive
  <2>3. CASE Holds(s, i)
    BY <2>1, <2>2, <2>3, <1>5, HeldTypes DEF MembershipInv, Exclusive
  <2>4. CASE Holds(s, o)
    <3>1. ~Conflict(o, View(s, o), View(s, i))
      BY <2>1, <2>4, <1>5, OtherOfTable, HeldTypes DEF MembershipInv, Exclusive
    <3> QED
      BY <3>1, <2>1, <2>2, <1>5, ConflictIsMutual
  <2>5. CASE ~Holds(s, i) /\ ~Holds(s, o)
    BY <2>1, <2>2, <2>5, HeldTypes
  <2> QED
    BY <2>3, <2>4, <2>5
<1>6. \A k \in Key : db'[k] = db[k] \/ db'[k] = View(r, k)
  BY InvTypes
<1>7. ASSUME NEW i \in Indexed, NEW o \in Table(i) \ {i}
      PROVE  ~Conflict(i, db'[i], db'[o])
  BY <1>5, <1>7, InvTypes
<1>8. ASSUME NEW s \in Request \ {r}, NEW i \in Indexed, Holds(s, i), NEW o \in Table(i) \ {i}
      PROVE  ~Conflict(i, pend[s][i], View(s, o)')
  <2>1. i \in Key /\ o \in Key /\ o \in Indexed /\ i \in Table(o)
    BY <1>8, OtherOfTable
  <2>2. ~Conflict(i, pend[s][i], View(s, o))
    BY <1>8 DEF MembershipInv, Exclusive
  <2>3. CASE Holds(s, o)
    BY <2>1, <2>2, <2>3, <1>2 DEF View, Holds
  <2>4. CASE ~Holds(s, o)
    <3>1. View(s, o) = db[o] /\ View(s, o)' = db'[o]
      BY <2>1, <2>4, <1>2 DEF View, Holds
    <3>2. CASE Holds(r, o)
      <4>1. ~Conflict(i, pend[s][i], pend[r][o])
        BY <1>8, <3>2 DEF MembershipInv, Exclusive
      <4> QED
        BY <4>1, <3>1, <3>2, <2>1, <2>2, <1>6 DEF View, Holds
    <3>3. CASE ~Holds(r, o)
      BY <3>1, <3>3, <2>1, <2>2, <1>6 DEF View, Holds
    <3> QED
      BY <3>2, <3>3
  <2> QED
    BY <2>3, <2>4
<1>9. Exclusive'
  <2>1. \A i \in Indexed : \A o \in Table(i) \ {i} : ~Conflict(i, db[i], db[o])'
    BY <1>7 DEF Conflict, Live
  <2>2. \A s \in Request, i \in Indexed : Holds(s, i)' =>
           \A o \in Table(i) \ {i} : ~Conflict(i, pend[s][i], View(s, o))'
    <3> SUFFICES ASSUME NEW s \in Request, NEW i \in Indexed, Holds(s, i)', NEW o \in Table(i) \ {i}
                 PROVE  ~Conflict(i, pend[s][i], View(s, o))'
      OBVIOUS
    <3>1. s # r /\ i \in Key /\ Holds(s, i) /\ pend'[s][i] = pend[s][i]
      BY <1>1, <1>2, OtherOfTable
    <3>2. ~Conflict(i, pend[s][i], View(s, o)')
      BY <3>1, <1>8
    <3> QED
      BY <3>1, <3>2 DEF Conflict, Live
  <2>3. \A p, s \in Request, i \in Indexed : p # s /\ Holds(p, i)' =>
           \A o \in Table(i) \ {i} : Holds(s, o)' => ~Conflict(i, pend[p][i], pend[s][o])'
    <3> SUFFICES ASSUME NEW p \in Request, NEW s \in Request, NEW i \in Indexed, p # s, Holds(p, i)',
                        NEW o \in Table(i) \ {i}, Holds(s, o)'
                 PROVE  ~Conflict(i, pend[p][i], pend[s][o])'
      OBVIOUS
    <3>1. /\ p # r /\ s # r /\ i \in Key /\ o \in Key
          /\ Holds(p, i) /\ pend'[p][i] = pend[p][i]
          /\ Holds(s, o) /\ pend'[s][o] = pend[s][o]
      BY <1>1, <1>2, OtherOfTable
    <3>2. ~Conflict(i, pend[p][i], pend[s][o])
      BY <3>1 DEF MembershipInv, Exclusive
    <3> QED
      BY <3>1, <3>2 DEF Conflict, Live
  <2> QED
    BY <2>1, <2>2, <2>3 DEF Exclusive
<1> QED
  BY <1>4, <1>9

-----------------------------------------------------------------------------
(* The steps of others.                                                    *)

LEMMA TokensStay ==
    ASSUME MembershipInv, NEW r \in Request, OnlyMoves(r)
    PROVE  /\ \A n \in Name : n # r => token'[n] = token[n]
           /\ \A n \in Name : token[n] # None => token'[n] = token[n]
BY InvTypes DEF OnlyMoves, RedisOK

LEMMA JobBy ==
    ASSUME NEW j \in Job, j.op \notin {"none", "login", "drop", "grant"}
    PROVE  j.by \in Name
BY DEF Job, NoJob, LoginJob, ToCustomerJob, ToBusinessJob, CreateJob, HandOverJob, DeleteJob,
       AddJob, ReassignJob, RemoveJob, DropJob, GrantJob

LEMMA OthersKeep ==
    ASSUME MembershipInv, NEW r \in Request, OnlyMoves(r), NEW s \in Request \ {r},
           pend'[s] = pend[s],
           \A b \in Business : Holds(s, b) /\ Live(db[b]) => Live(db'[b])
    PROVE  Mine(s)'
<1>1. Mine(s)
  BY InvTypes
<1>2. pc'[s] = pc[s] /\ job'[s] = job[s] /\ seen'[s] = seen[s]
  BY InvTypes DEF OnlyMoves
<1>3. \A k : Holds(s, k)' <=> Holds(s, k)
  BY DEF Holds
<1>4. job[s].op \in {"toCustomer", "toBusiness", "create", "handOver", "delete"} =>
         token'[job[s].by] = token[job[s].by] /\ token[job[s].by] # None
  <2>1. job[s].op \in {"toCustomer", "toBusiness", "create", "handOver", "delete"} =>
           job[s].by \in Name /\ token[job[s].by] # None
    BY <1>1, JobBy DEF Mine, Working
  <2> QED
    BY <2>1, TokensStay
<1>5. token'[s] = token[s]
  BY TokensStay, KeyFacts
<1>6. Working(s)'
  <2>1. Working(s)
    BY <1>1 DEF Mine
  <2>2. HoldsNothing(s)' <=> HoldsNothing(s)
    BY <1>3 DEF HoldsNothing
  <2> QED
    BY <2>1, <2>2, <1>2, <1>4, <1>5 DEF Working, Running
<1>7. Founding(s)'
  <2>1. Founding(s)
    BY <1>1 DEF Mine
  <2>2. CASE job[s].op = "create" /\ pc[s] \in {"enroll", "commit"}
    BY <2>1, <2>2, <1>2, <1>3, <1>4 DEF Founding, Live
  <2>3. CASE ~(job[s].op = "create" /\ pc[s] \in {"enroll", "commit"})
    <3>1. \A b \in Business : Holds(s, b) /\ Live(pend[s][b]) => Live(db[b])
      BY <2>1, <2>3 DEF Founding
    <3>2. \A b \in Business : Holds(s, b)' /\ Live(pend'[s][b]) => Live(db'[b])
      BY <3>1, <1>3
    <3> QED
      BY <2>3, <3>2, <1>2 DEF Founding, Live
  <2> QED
    BY <2>2, <2>3
<1> QED
  BY <1>1, <1>2, <1>6, <1>7 DEF Mine

LEMMA Together ==
    ASSUME MembershipInv, NEW r \in Request, OnlyMoves(r),
           db' \in [Key -> AnyRow], \A k \in Key : db'[k] \in RowType(k),
           pend' = [pend EXCEPT ![r] = pend'[r]],
           RowLocksExclusive', Exclusive',
           \A s \in Request : Mine(s)',
           ~overlapped' => Sequence'
    PROVE  MembershipInv'
<1>1. pend' \in [Request -> [Key -> AnyRow \cup {None}]]
  BY InvTypes DEF Mine
<1>2. pc' \in [Request -> Label] /\ job' \in [Request -> Job] /\ seen' \in [Request -> Seen]
  BY InvTypes DEF Mine, OnlyMoves
<1>3. \A s \in Request, k \in Key : pend'[s][k] \in RowType(k) \cup {None}
  BY DEF Mine
<1>4. DOMAIN db' = Key
  OBVIOUS
<1>5. \A s \in Request, k \in Key : Holds(s, k)' => DOMAIN pend'[s][k] = DOMAIN db'[k]
  BY <1>3, SameColumns DEF Holds
<1>6. TypeOK'
  BY <1>2, <1>4, <1>5 DEF TypeOK, OnlyMoves, RedisOK, RowType, AnyRow, Key
<1>7. Types'
  BY <1>1, <1>2, <1>3, <1>6 DEF Types
<1> QED
  BY <1>7 DEF MembershipInv, Mine

-----------------------------------------------------------------------------
(* The steps of r.                                                         *)

LEMMA SequenceStays ==
    ASSUME MembershipInv, NEW r \in Request, Running(r), OnlyMoves(r),
           ~overlapped, Running(r)' => Alone(r)',
           \A u \in User : Alive(u)' => Current(token[stored[u]])'
    PROVE  Sequence'
<1>1. Sequence
  BY DEF MembershipInv
<1>2. \A s \in Request \ {r} : pc'[s] = pc[s]
  BY InvTypes DEF OnlyMoves
<1>3. \A s \in Request : Running(s)' => s = r
  BY <1>1, <1>2 DEF Sequence, Running
<1> QED
  BY <1>1, <1>3 DEF Sequence

LEMMA CalmSessions ==
    ASSUME MembershipInv, ~overlapped, db' = db, Calm
    PROVE  \A u \in User : Alive(u)' => Current(token[stored[u]])'
<1> TAKE u \in User
<1>1. Alive(u) => Current(token[stored[u]])
  BY DEF MembershipInv, Sequence
<1>2. token' = token /\ stored' = stored /\ revoked' = revoked
  BY DEF Calm, sessions, redis
<1> QED
  BY <1>1, <1>2 DEF Alive, Calm, Current, MemberOf, Live

LEMMA ReadStep ==
    ASSUME MembershipInv, NEW r \in Request, Running(r), OnlyMoves(r),
           UNCHANGED <<db, pend>>, overlapped' = overlapped, Mine(r)', ~overlapped => Alone(r)',
           ~overlapped => \A u \in User : Alive(u)' => Current(token[stored[u]])'
    PROVE  MembershipInv'
<1>1. \A s \in Request \ {r} : Mine(s)'
  BY OthersKeep
<1>2. RowLocksExclusive' /\ Exclusive'
  BY ExclusiveStays
<1>3. /\ pend' = [pend EXCEPT ![r] = pend'[r]] /\ db' \in [Key -> AnyRow]
      /\ \A k \in Key : db'[k] \in RowType(k)
  BY InvTypes
<1>4. ~overlapped' => Sequence'
  BY SequenceStays
<1>5. \A s \in Request : Mine(s)'
  BY <1>1
<1> QED
  BY <1>2, <1>3, <1>4, <1>5, Together

LEMMA WriteStep ==
    ASSUME MembershipInv, NEW r \in Request, Running(r), OnlyMoves(r),
           NEW k \in Key, NEW x \in RowType(k), WriteRow(r, k, x), Calm,
           k \in Indexed => Fits(r, k, x),
           Mine(r)', ~overlapped => Alone(r)'
    PROVE  MembershipInv'
<1>1. db' = db /\ pend' = [pend EXCEPT ![r][k] = x] /\ overlapped' = overlapped
  BY DEF WriteRow, Calm
<1>2. \A s \in Request \ {r} : pend'[s] = pend[s]
  BY <1>1, InvTypes
<1>3. \A s \in Request \ {r} : Mine(s)'
  BY <1>1, <1>2, OthersKeep
<1>4. RowLocksExclusive' /\ Exclusive'
  BY ExclusiveWrite
<1>5. /\ pend' = [pend EXCEPT ![r] = pend'[r]] /\ db' \in [Key -> AnyRow]
      /\ \A i \in Key : db'[i] \in RowType(i)
  BY <1>1, InvTypes
<1>6. ~overlapped' => Sequence'
  <2> SUFFICES ASSUME ~overlapped PROVE Sequence'
    BY <1>1
  <2>1. \A u \in User : Alive(u)' => Current(token[stored[u]])'
    BY <1>1, CalmSessions
  <2> QED
    BY <2>1, SequenceStays
<1>7. \A s \in Request : Mine(s)'
  BY <1>3
<1> QED
  BY <1>4, <1>5, <1>6, <1>7, Together

-----------------------------------------------------------------------------
(* The end of a request.                                                   *)

LEMMA EndedIsMine ==
    ASSUME MembershipInv, NEW r \in Request, NEW outcome \in {"done", "failed"}, End(r, outcome),
           pend' = [pend EXCEPT ![r] = NoWrites]
    PROVE  Mine(r)' /\ ~Running(r)'
<1>1. /\ pc'[r] = outcome /\ job'[r] = NoJob /\ seen'[r] = None
      /\ pend'[r] = [k \in Key |-> None]
  BY InvTypes DEF End, Goto, NoWrites
<1>2. \A k \in Key : ~Holds(r, k)'
  BY <1>1 DEF Holds
<1>3. HoldsNothing(r)'
  BY <1>2 DEF HoldsNothing
<1>4. Working(r)' /\ ~Running(r)'
  BY <1>1, <1>3 DEF Working, Running, Writing, NoJob, SeenAt, Seen
<1>5. Founding(r)'
  BY <1>1, <1>2, KeyFacts DEF Founding, NoJob
<1> QED
  BY <1>1, <1>4, <1>5 DEF Mine, Label, Job, Seen

LEMMA EndMoves ==
    ASSUME MembershipInv, NEW r \in Request, NEW outcome, End(r, outcome), RedisOK',
           token' = [token EXCEPT ![r] = token'[r]], token[r] = None \/ token' = token,
           overlapped' = overlapped
    PROVE  OnlyMoves(r)
BY InvTypes DEF OnlyMoves, End, Goto

LEMMA CalmTypes ==
    ASSUME MembershipInv, Calm, NEW r \in Request
    PROVE  RedisOK' /\ token' = token /\ token' = [token EXCEPT ![r] = token'[r]]
BY InvTypes DEF Calm, sessions, redis, RedisOK

LEMMA RejectStep ==
    ASSUME MembershipInv, NEW r \in Request, Running(r), Rejected(r)
    PROVE  MembershipInv'
<1>1. /\ db' = db /\ pend' = [pend EXCEPT ![r] = NoWrites] /\ End(r, "failed")
      /\ Calm /\ overlapped' = overlapped
  BY DEF Rejected, Fail, DiscardWrites, Unmoved, Calm
<1>2. OnlyMoves(r)
  BY <1>1, CalmTypes, EndMoves
<1>3. \A s \in Request \ {r} : pend'[s] = pend[s]
  BY <1>1, InvTypes
<1>4. \A s \in Request \ {r} : Mine(s)'
  BY <1>1, <1>2, <1>3, OthersKeep
<1>5. Mine(r)' /\ ~Running(r)'
  BY <1>1, EndedIsMine
<1>6. RowLocksExclusive' /\ Exclusive'
  BY <1>1, ExclusiveEnd
<1>7. /\ pend' = [pend EXCEPT ![r] = pend'[r]] /\ db' \in [Key -> AnyRow]
      /\ \A i \in Key : db'[i] \in RowType(i)
  BY <1>1, InvTypes
<1>8. ~overlapped' => Sequence'
  <2> SUFFICES ASSUME ~overlapped PROVE Sequence'
    BY <1>1
  <2>1. \A u \in User : Alive(u)' => Current(token[stored[u]])'
    BY <1>1, CalmSessions
  <2> QED
    BY <2>1, <1>2, <1>5, SequenceStays
<1>9. \A s \in Request : Mine(s)'
  BY <1>4, <1>5
<1> QED
  BY <1>2, <1>6, <1>7, <1>8, <1>9, Together

LEMMA FinishStep ==
    ASSUME MembershipInv, NEW r \in Request, Running(r), Finish(r), OnlyMoves(r),
           overlapped' = overlapped,
           ~overlapped => \A u \in User : Alive(u)' => Current(token[stored[u]])'
    PROVE  MembershipInv'
<1>1. /\ db' = [k \in Row |-> View(r, k)] /\ pend' = [pend EXCEPT ![r] = NoWrites]
      /\ End(r, "done")
  BY DEF Finish, CommitWrites
<1>2. \A k \in Key : db'[k] = View(r, k) /\ db'[k] \in RowType(k)
  BY <1>1, InvTypes, ViewTypes
<1>3. \A s \in Request \ {r} : pend'[s] = pend[s]
  BY <1>1, InvTypes
<1>4. \A s \in Request \ {r} : Mine(s)'
  <2> TAKE s \in Request \ {r}
  <2>1. ASSUME NEW b \in Business, Holds(s, b), Live(db[b])
        PROVE  Live(db'[b])
    <3>1. b \in Key /\ ~Holds(r, b)
      BY <2>1, KeyFacts, NotHeldByOther
    <3>2. db'[b] = db[b]
      BY <3>1, <1>2, HeldTypes
    <3> QED
      BY <3>2, <2>1
  <2> QED
    BY <1>3, <2>1, OthersKeep
<1>5. Mine(r)' /\ ~Running(r)'
  BY <1>1, EndedIsMine
<1>6. RowLocksExclusive' /\ Exclusive'
  BY <1>1, ExclusiveEnd
<1>7. pend' = [pend EXCEPT ![r] = pend'[r]] /\ db' \in [Key -> AnyRow]
  BY <1>1, <1>2, InvTypes, RowTypes
<1>8. ~overlapped' => Sequence'
  BY <1>5, SequenceStays
<1>9. \A s \in Request : Mine(s)'
  BY <1>4, <1>5
<1> QED
  BY <1>2, <1>6, <1>7, <1>8, <1>9, Together

LEMMA AloneNow ==
    ASSUME MembershipInv, NEW r \in Request, Running(r), ~overlapped
    PROVE  /\ Alone(r)
           /\ \A u \in User : Alive(u) => Current(token[stored[u]])
BY DEF MembershipInv, Sequence

LEMMA RequestFacts ==
    ASSUME MembershipInv, NEW r \in Request
    PROVE  /\ pc[r] \in Label /\ job[r] \in Job /\ seen[r] \in Seen
           /\ Working(r) /\ Founding(r)
BY InvTypes DEF Mine

LEMMA CommitStep ==
    ASSUME MembershipInv, NEW r \in Request, Commit(r)
    PROVE  MembershipInv'
<1>1. /\ pc[r] = "commit" /\ Finish(r) /\ Running(r)
      /\ UNCHANGED sessions /\ overlapped' = overlapped
      /\ left' = left \cup {stored[u] : u \in Leavers(r)}
  BY DEF Commit, Running
<1>2. OnlyMoves(r)
  <2>1. RedisOK /\ token' = token /\ stored' = stored /\ revoked' = revoked
    BY <1>1, InvTypes DEF sessions, redis
  <2>2. Leavers(r) \subseteq User
    BY RowsSeen DEF Leavers, MappingRow
  <2>3. left' \in SUBSET (Name \cup {None})
    BY <1>1, <2>1, <2>2 DEF RedisOK
  <2>4. RedisOK' /\ token' = [token EXCEPT ![r] = token'[r]]
    BY <2>1, <2>3 DEF RedisOK
  <2> QED
    BY <1>1, <2>1, <2>4, EndMoves DEF Finish
<1>3. \A k \in Key : db'[k] = View(r, k)
  BY <1>1, InvTypes DEF Finish, CommitWrites
<1>4. ASSUME ~overlapped, NEW u \in User, Alive(u)'
      PROVE  Current(token[stored[u]])'
  <2>1. token' = token /\ stored' = stored /\ revoked' = revoked
    BY <1>1 DEF sessions, redis
  <2>2. Alive(u) /\ u \notin Leavers(r)
    BY <1>1, <1>4, <2>1 DEF Alive
  <2>3. CurrentSeen(r, token[stored[u]])
    BY <1>1, <1>4, <2>2, AloneNow DEF Alone
  <2>4. token[stored[u]] \in CustomerToken \cup BusinessToken
    BY <2>2, InvTypes DEF Alive, RedisOK
  <2>5. PICK t : t = token[stored[u]]
    OBVIOUS
  <2>6. Current(t)'
    <3> SUFFICES ASSUME t.ctx = "BUSINESS"
                 PROVE  \E m \in MemberOf(t.user, t.business)' :
                          t.owner \/ (db'[m].role = t.role /\ (t.privileged => db'[t.role].granted))
      BY DEF Current
    <3>1. PICK m \in Mapping :
            /\ Live(View(r, m)) /\ View(r, m).user = t.user /\ View(r, m).business = t.business
            /\ t.owner \/ (View(r, m).role = t.role /\ (t.privileged => View(r, t.role).granted))
      BY <2>3, <2>5 DEF CurrentSeen
    <3>2. m \in Key /\ t.role \in Key
      BY <2>4, <2>5, KeyFacts DEF CustomerToken, BusinessToken
    <3> QED
      BY <3>1, <3>2, <1>3 DEF MemberOf, Live
  <2> QED
    BY <2>1, <2>5, <2>6
<1> QED
  BY <1>1, <1>2, <1>4, FinishStep

-----------------------------------------------------------------------------
(* Sessions.                                                               *)

LEMMA TokenFacts ==
    ASSUME MembershipInv, NEW n \in Name, token[n] # None
    PROVE  /\ token[n] \in CustomerToken \cup BusinessToken
           /\ token[n].user \in User
           /\ token[n].ctx = "BUSINESS" => token[n] \in BusinessToken
BY InvTypes DEF RedisOK, CustomerToken, BusinessToken

(* A token that is issued becomes its user's.                              *)
Issued(r, t) == token' = [token EXCEPT ![r] = t] /\ stored' = [stored EXCEPT ![t.user] = r]

LEMMA IssueTypes ==
    ASSUME MembershipInv, NEW r \in Request, token[r] = None,
           NEW t \in CustomerToken \cup BusinessToken, Issued(r, t), revoked' \in SUBSET Name,
           left' = left
    PROVE  /\ RedisOK' /\ token' = [token EXCEPT ![r] = token'[r]]
           /\ stored'[t.user] = r /\ token'[r] = t
           /\ \A u \in User : u # t.user /\ stored[u] # None =>
                 stored'[u] = stored[u] /\ token'[stored[u]] = token[stored[u]]
           /\ \A u \in User : u # t.user => stored'[u] = stored[u]
<1>1. t.user \in User /\ t # None /\ r \in Name
  BY NoneIsNoToken, KeyFacts DEF CustomerToken, BusinessToken
<1>2. RedisOK
  BY InvTypes
<1>3. \A u \in User : u # t.user => stored'[u] = stored[u]
  BY <1>2 DEF RedisOK, Issued
<1>4. \A u \in User : stored[u] # None => stored[u] \in Name /\ stored[u] # r
  BY <1>2 DEF RedisOK
<1>5. \A n \in Name : n # r => token'[n] = token[n]
  BY <1>2 DEF RedisOK, Issued
<1>6. stored'[t.user] = r /\ token'[r] = t
  BY <1>1, <1>2 DEF RedisOK, Issued
<1>7. /\ token' \in [Name -> CustomerToken \cup BusinessToken \cup {None}]
      /\ stored' \in [User -> Name \cup {None}]
  BY <1>1, <1>2 DEF RedisOK, Issued
<1>8. \A u \in User : stored'[u] # None => token'[stored'[u]] # None /\ token'[stored'[u]].user = u
  <2> TAKE u \in User
  <2>1. CASE u = t.user
    BY <2>1, <1>1, <1>6
  <2>2. CASE u # t.user
    BY <2>2, <1>2, <1>3, <1>4, <1>5 DEF RedisOK
  <2> QED
    BY <2>1, <2>2
<1>9. RedisOK'
  BY <1>2, <1>7, <1>8 DEF RedisOK
<1> QED
  BY <1>3, <1>4, <1>5, <1>6, <1>9, <1>2 DEF RedisOK, Issued

(* A session issued by a request that writes nothing.                      *)
LEMMA IssueStep ==
    ASSUME MembershipInv, NEW r \in Request, Running(r), HoldsNothing(r), pc[r] # "commit",
           NEW t \in CustomerToken \cup BusinessToken, Issue(r, t), Finish(r),
           ~overlapped => Current(t)
    PROVE  MembershipInv'
<1>1. token[r] = None
  BY RequestFacts DEF Working, Running
<1>2. Issued(r, t) /\ revoked' = revoked /\ overlapped' = overlapped /\ left' = left
  BY DEF Issue, Issued
<1>3. revoked' \in SUBSET Name
  BY <1>2, InvTypes DEF RedisOK
<1>4. /\ RedisOK' /\ token' = [token EXCEPT ![r] = token'[r]]
      /\ stored'[t.user] = r /\ token'[r] = t
      /\ \A u \in User : u # t.user /\ stored[u] # None =>
            stored'[u] = stored[u] /\ token'[stored[u]] = token[stored[u]]
      /\ \A u \in User : u # t.user => stored'[u] = stored[u]
  BY <1>1, <1>2, <1>3, IssueTypes
<1>5. OnlyMoves(r)
  BY <1>1, <1>2, <1>4, EndMoves DEF Finish
<1>6. db' = db
  <2>1. \A k \in Key : View(r, k) = db[k]
    BY HeldTypes DEF HoldsNothing
  <2> QED
    BY <2>1, InvTypes DEF Finish, CommitWrites
<1>7. ASSUME ~overlapped, NEW u \in User, Alive(u)'
      PROVE  Current(token[stored[u]])'
  <2>1. Current(t)
    BY <1>7
  <2>2. CASE u = t.user
    BY <2>1, <2>2, <1>4, <1>6 DEF Current, MemberOf, Live
  <2>3. CASE u # t.user
    <3>1. stored'[u] = stored[u] /\ stored[u] # None /\ stored[u] \notin revoked \cup left
      BY <2>3, <1>2, <1>4, <1>7 DEF Alive
    <3>2. token'[stored'[u]] = token[stored[u]] /\ Alive(u)
      BY <2>3, <3>1, <1>4 DEF Alive
    <3>3. Current(token[stored[u]])
      BY <1>7, <3>2, AloneNow
    <3> QED
      BY <3>2, <3>3, <1>6 DEF Current, MemberOf, Live
  <2> QED
    BY <2>2, <2>3
<1> QED
  BY <1>2, <1>5, <1>7, FinishStep

LEMMA JobFields ==
    ASSUME NEW j \in Job
    PROVE  /\ j.op \in {"login", "add", "handOver"} => j.user \in User
           /\ j.op \in {"toBusiness", "add"} => j.business \in Business
           /\ j.op \in {"reassign", "remove"} => j.mapping \in Mapping
           /\ j.op = "reassign" => j.to \in PatchBody
           /\ j.op \in {"add", "drop", "grant"} => j.role \in Role
BY MembershipAssumption DEF Job, NoJob, LoginJob, ToCustomerJob, ToBusinessJob, CreateJob, HandOverJob, DeleteJob,
       AddJob, ReassignJob, RemoveJob, DropJob, GrantJob

(* The user, and for staff the business, that a request speaks for.        *)
LEMMA CallerFacts ==
    ASSUME MembershipInv, NEW r \in Request
    PROVE  /\ job[r].op \in {"toCustomer", "toBusiness", "create", "handOver", "delete"} =>
                job[r].by \in Name /\ token[job[r].by] # None /\ token[job[r].by].user \in User
           /\ job[r].op \in {"handOver", "delete"} => token[job[r].by].business \in Business
<1>1. job[r].op \in {"toCustomer", "toBusiness", "create", "handOver", "delete"} =>
         job[r].by \in Name /\ token[job[r].by] # None
  BY RequestFacts, JobBy DEF Working
<1>2. job[r].op \in {"handOver", "delete"} => token[job[r].by].ctx = "BUSINESS"
  BY RequestFacts DEF Working
<1> QED
  BY <1>1, <1>2, TokenFacts DEF BusinessToken

LEMMA IssueCustomerTokenStep ==
    ASSUME MembershipInv, NEW r \in Request, IssueCustomerToken(r)
    PROVE  MembershipInv'
<1>1. PICK u : u = IF job[r].op = "login" THEN job[r].user ELSE token[job[r].by].user
  OBVIOUS
<1>2. pc[r] = "issue" /\ Issue(r, [ctx |-> "CUSTOMER", user |-> u]) /\ Finish(r)
  BY <1>1 DEF IssueCustomerToken
<1>3. Running(r) /\ job[r].op \in {"login", "toCustomer"} /\ HoldsNothing(r)
  BY <1>2, RequestFacts DEF Working, OpsAt, Running, Writing
<1>4. u \in User
  BY <1>1, <1>3, RequestFacts, JobFields, CallerFacts
<1>5. PICK t \in CustomerToken : t = [ctx |-> "CUSTOMER", user |-> u]
  BY <1>4 DEF CustomerToken
<1>6. Current(t)
  BY <1>5 DEF Current
<1>7. Issue(r, t) /\ pc[r] # "commit" /\ t \in CustomerToken \cup BusinessToken
  BY <1>2, <1>5
<1> QED
  BY <1>2, <1>3, <1>6, <1>7, IssueStep

LEMMA StoreTokenStep ==
    ASSUME MembershipInv, NEW r \in Request, StoreToken(r)
    PROVE  MembershipInv'
<1>1. pc[r] = "store" /\ Issue(r, seen[r]) /\ Finish(r)
  BY DEF StoreToken
<1>2. Running(r) /\ HoldsNothing(r) /\ seen[r] \in BusinessToken
  BY <1>1, RequestFacts DEF Working, SeenAt, Running, Writing
<1>3. ~overlapped => Current(seen[r])
  BY <1>1, <1>2, AloneNow DEF Alone
<1>4. PICK t \in BusinessToken : t = seen[r]
  BY <1>2
<1>5. Issue(r, t) /\ pc[r] # "commit" /\ t \in CustomerToken \cup BusinessToken
  BY <1>1, <1>4
<1> QED
  BY <1>1, <1>2, <1>3, <1>4, <1>5, IssueStep

-----------------------------------------------------------------------------
(* Statements that only read.                                              *)

LEMMA SameView ==
    ASSUME NEW r, UNCHANGED <<db, pend>>
    PROVE  /\ \A k : View(r, k)' = View(r, k) /\ (Holds(r, k)' <=> Holds(r, k))
           /\ HoldsNothing(r)' <=> HoldsNothing(r)
           /\ \A u, b : MemberOf(u, b)' = MemberOf(u, b)
BY DEF View, Holds, HoldsNothing, MemberOf, Live

LEMMA GotoMoves ==
    ASSUME MembershipInv, NEW r \in Request, NEW label, Goto(r, label), job' = job,
           seen' = seen \/ seen' = [seen EXCEPT ![r] = seen'[r]], Calm
    PROVE  OnlyMoves(r) /\ pc'[r] = label /\ job'[r] = job[r]
<1>1. RedisOK' /\ token' = token /\ token' = [token EXCEPT ![r] = token'[r]]
  BY CalmTypes
<1> QED
  BY <1>1, InvTypes DEF OnlyMoves, Goto, Calm

(* The request is somewhere else with what it had written.                 *)
LEMMA MovedWorking ==
    ASSUME MembershipInv, NEW r \in Request, Running(r), pc[r] # "commit",
           NEW label \in Label \ {"new", "done", "failed"},
           pc'[r] = label, job'[r] = job[r], UNCHANGED token,
           job[r].op \in OpsAt(label), seen'[r] \in SeenAt(label, job[r].op),
           label \notin Writing \/ (label = "enroll" /\ job[r].op = "add") => HoldsNothing(r)'
    PROVE  Working(r)'
BY RequestFacts DEF Working, Running

LEMMA LookStep ==
    ASSUME MembershipInv, NEW r \in Request, Running(r), pc[r] \notin {"commit", "enroll"},
           NEW label \in Label \ {"new", "done", "failed", "enroll"},
           UNCHANGED <<db, pend, job>>, Goto(r, label),
           seen' = seen \/ seen' = [seen EXCEPT ![r] = seen'[r]], Calm,
           job[r].op \in OpsAt(label), seen'[r] \in Seen, seen'[r] \in SeenAt(label, job[r].op),
           label \notin Writing => HoldsNothing(r),
           label = "commit" => job[r].op # "create",
           ~overlapped => Alone(r)'
    PROVE  MembershipInv'
<1>1. OnlyMoves(r) /\ pc'[r] = label /\ job'[r] = job[r]
  BY GotoMoves
<1>2. Working(r)'
  <2>1. token' = token
    BY DEF Calm, sessions
  <2> QED
    BY <1>1, <2>1, SameView, MovedWorking
<1>3. Founding(r)'
  <2>1. \A b \in Business : Holds(r, b) /\ Live(pend[r][b]) => Live(db[b])
    BY RequestFacts DEF Founding
  <2>2. \A b \in Business : Holds(r, b)' /\ Live(pend'[r][b]) => Live(db'[b])
    BY <2>1, SameView
  <2> QED
    BY <1>1, <2>2 DEF Founding, Live
<1>4. Mine(r)'
  BY <1>1, <1>2, <1>3, InvTypes, RequestFacts DEF Mine
<1>5. overlapped' = overlapped
  BY DEF Calm
<1>6. ~overlapped => \A u \in User : Alive(u)' => Current(token[stored[u]])'
  BY CalmSessions
<1> QED
  BY <1>1, <1>4, <1>5, <1>6, ReadStep

LEMMA NothingSeen ==
    ASSUME MembershipInv, NEW r \in Request, HoldsNothing(r), NEW k \in Key
    PROVE  View(r, k) = db[k]
BY HeldTypes DEF HoldsNothing

LEMMA FindMembershipStep ==
    ASSUME MembershipInv, NEW r \in Request, FindMembership(r)
    PROVE  MembershipInv'
<1>1. pc[r] = "member" /\ Running(r) /\ job[r].op = "toBusiness" /\ HoldsNothing(r)
  BY RequestFacts DEF FindMembership, Running, Working, OpsAt, Writing
<1>2. PICK u : u = token[job[r].by].user
  OBVIOUS
<1>3. CASE Rejected(r)
  BY <1>1, <1>3, RejectStep
<1>4. ASSUME NEW m \in Memberships(r, u), View(r, m).business = job[r].business,
             Read(r, View(r, m).role, "switch"), Unmoved
      PROVE  MembershipInv'
  <2>1. m \in Mapping /\ m \in Key /\ View(r, m) = db[m] /\ Live(db[m]) /\ db[m].user = u
    <3>1. m \in Mapping /\ Live(View(r, m)) /\ View(r, m).user = u
      BY <1>4 DEF Memberships
    <3>2. m \in Key /\ View(r, m) = db[m]
      BY <1>1, <3>1, KeyFacts, NothingSeen
    <3> QED
      BY <3>1, <3>2
  <2>2. PICK role \in Role : role = db[m].role
    BY <2>1, RowsSeen DEF MappingRow
  <2>3. /\ Goto(r, "switch") /\ UNCHANGED <<db, pend, job>> /\ Calm
        /\ seen' = [seen EXCEPT ![r] = role]
    BY <1>4, <2>1, <2>2 DEF Read, Keep, Unmoved, Calm
  <2>4. seen'[r] = role /\ seen' = [seen EXCEPT ![r] = seen'[r]]
    BY <2>3, InvTypes
  <2>5. ~overlapped => Alone(r)'
    <3>1. pc'[r] = "switch" /\ job'[r] = job[r] /\ token' = token
      BY <2>3, InvTypes DEF Goto, Calm, sessions
    <3>2. m \in MemberOf(u, job[r].business) /\ db[m].role = role
      BY <1>4, <2>1, <2>2 DEF MemberOf
    <3>3. Backed(r, seen[r])'
      BY <3>1, <3>2, <2>3, <2>4, <1>2, SameView DEF Backed
    <3> QED
      BY <3>1, <3>3 DEF Alone
  <2>6. "toBusiness" \in OpsAt("switch") /\ role \in SeenAt("switch", "toBusiness") /\ role \in Seen
    BY DEF OpsAt, SeenAt, Seen
  <2>7. "switch" \in Label \ {"new", "done", "failed", "enroll"} /\ pc[r] \notin {"commit", "enroll"}
    BY <1>1 DEF Label
  <2> QED
    BY <1>1, <2>3, <2>4, <2>5, <2>6, <2>7, LookStep
<1> QED
  BY <1>2, <1>3, <1>4 DEF FindMembership

LEMMA ResolveRoleStep ==
    ASSUME MembershipInv, NEW r \in Request, ResolveRole(r)
    PROVE  MembershipInv'
<1>1. /\ pc[r] = "switch" /\ Running(r) /\ job[r].op = "toBusiness" /\ HoldsNothing(r)
      /\ seen[r] \in Role
  BY RequestFacts DEF ResolveRole, Running, Working, OpsAt, SeenAt, Writing
<1>2. PICK u : u = token[job[r].by].user
  OBVIOUS
<1>3. PICK yes \in BOOLEAN : yes = (View(r, job[r].business).owner = u)
  OBVIOUS
<1>4. PICK x : x = [owner |-> yes, role |-> IF yes THEN OwnerRole ELSE seen[r]]
  OBVIOUS
<1>5. CASE Rejected(r)
  BY <1>1, <1>5, RejectStep
<1>6. ASSUME Read(r, x, "privileges"), Unmoved
      PROVE  MembershipInv'
  <2>1. /\ Goto(r, "privileges") /\ UNCHANGED <<db, pend, job>> /\ Calm
        /\ seen' = [seen EXCEPT ![r] = x]
    BY <1>6 DEF Read, Keep, Unmoved, Calm
  <2>2. x \in Resolved
    BY <1>1, <1>3, <1>4, MembershipAssumption DEF Resolved
  <2>3. seen'[r] = x /\ seen' = [seen EXCEPT ![r] = seen'[r]]
    BY <2>1, InvTypes
  <2>4. ~overlapped => Alone(r)'
    <3> SUFFICES ASSUME ~overlapped PROVE Alone(r)'
      OBVIOUS
    <3>1. pc'[r] = "privileges" /\ job'[r] = job[r] /\ token' = token
      BY <2>1, InvTypes DEF Goto, Calm, sessions
    <3>2. PICK m \in MemberOf(u, job[r].business) : db[m].role = seen[r]
      BY <1>1, <1>2, AloneNow DEF Alone, Backed
    <3>3. x.owner \/ db[m].role = x.role
      BY <1>3, <1>4, <3>2
    <3>4. \E n \in MemberOf(token[job[r].by].user, job[r].business)' :
            seen'[r].owner \/ db'[n].role = seen'[r].role
      BY <3>1, <3>2, <3>3, <2>1, <2>3, <1>2, SameView
    <3> QED
      BY <3>1, <3>4 DEF Alone
  <2>5. /\ "toBusiness" \in OpsAt("privileges") /\ x \in SeenAt("privileges", "toBusiness")
        /\ x \in Seen
    BY <2>2 DEF OpsAt, SeenAt, Seen
  <2>6. /\ "privileges" \in Label \ {"new", "done", "failed", "enroll"}
        /\ pc[r] \notin {"commit", "enroll"}
    BY <1>1 DEF Label
  <2> QED
    BY <1>1, <2>1, <2>3, <2>4, <2>5, <2>6, LookStep
<1>7. [owner |-> View(r, job[r].business).owner = u,
       role |-> IF View(r, job[r].business).owner = u THEN OwnerRole ELSE seen[r]] = x
  BY <1>3, <1>4
<1>8. Rejected(r) \/ (Read(r, [owner |-> View(r, job[r].business).owner = u,
       role |-> IF View(r, job[r].business).owner = u THEN OwnerRole ELSE seen[r]], "privileges")
       /\ Unmoved)
  BY <1>2 DEF ResolveRole
<1> QED
  BY <1>5, <1>6, <1>7, <1>8

LEMMA ReadPrivilegesStep ==
    ASSUME MembershipInv, NEW r \in Request, ReadPrivileges(r)
    PROVE  MembershipInv'
<1>1. /\ pc[r] = "privileges" /\ Running(r) /\ job[r].op = "toBusiness" /\ HoldsNothing(r)
      /\ seen[r] \in Resolved
  BY RequestFacts DEF ReadPrivileges, Running, Working, OpsAt, SeenAt, Writing
<1>2. PICK u \in User : u = token[job[r].by].user
  BY <1>1, CallerFacts
<1>3. PICK b \in Business : b = job[r].business
  BY <1>1, RequestFacts, JobFields
<1>4. PICK role \in Role : role = seen[r].role
  BY <1>1 DEF Resolved
<1>5. PICK owner \in BOOLEAN : owner = seen[r].owner
  BY <1>1 DEF Resolved
<1>6. role \in Key /\ View(r, role) = db[role] /\ db[role] \in RoleRow
  BY <1>1, KeyFacts, NothingSeen, ViewTypes, RowTypes
<1>7. PICK granted \in BOOLEAN : granted = View(r, role).granted
  BY <1>6 DEF RoleRow
<1>8. PICK x \in BusinessToken :
        x = [ctx |-> "BUSINESS", user |-> u, business |-> b, owner |-> owner, role |-> role,
             privileged |-> granted]
  BY DEF BusinessToken
<1>9. Read(r, x, "store") /\ Unmoved
  BY <1>2, <1>3, <1>4, <1>5, <1>7, <1>8 DEF ReadPrivileges
<1>10. /\ Goto(r, "store") /\ UNCHANGED <<db, pend, job>> /\ Calm
       /\ seen' = [seen EXCEPT ![r] = x]
  BY <1>9 DEF Read, Keep, Unmoved, Calm
<1>11. seen'[r] = x /\ seen' = [seen EXCEPT ![r] = seen'[r]]
  BY <1>10, InvTypes
<1>12. ~overlapped => Alone(r)'
  <2> SUFFICES ASSUME ~overlapped PROVE Alone(r)'
    OBVIOUS
  <2>1. pc'[r] = "store" /\ job'[r] = job[r] /\ token' = token
    BY <1>10, InvTypes DEF Goto, Calm, sessions
  <2>2. PICK m \in MemberOf(u, b) : owner \/ db[m].role = role
    BY <1>1, <1>2, <1>3, <1>4, <1>5, AloneNow DEF Alone
  <2>3. x.privileged => db[x.role].granted
    BY <1>6, <1>7, <1>8
  <2>4. x.user = u /\ x.business = b /\ x.owner = owner /\ x.role = role
    BY <1>8
  <2>5. Current(x)
    BY <2>2, <2>3, <2>4 DEF Current
  <2>6. Current(x)'
    BY <2>5, <1>10, SameView DEF Current
  <2> QED
    BY <2>1, <2>6, <1>11 DEF Alone, Current
<1>13. "toBusiness" \in OpsAt("store") /\ x \in SeenAt("store", "toBusiness") /\ x \in Seen
  BY DEF OpsAt, SeenAt, Seen
<1>14. "store" \in Label \ {"new", "done", "failed", "enroll"} /\ pc[r] \notin {"commit", "enroll"}
  BY <1>1 DEF Label
<1> QED
  BY <1>1, <1>10, <1>11, <1>12, <1>13, <1>14, LookStep

LEMMA CheckNoBusinessStep ==
    ASSUME MembershipInv, NEW r \in Request, CheckNoBusiness(r)
    PROVE  MembershipInv'
<1>1. pc[r] = "exists" /\ Running(r) /\ job[r].op = "create" /\ HoldsNothing(r)
  BY RequestFacts DEF CheckNoBusiness, Running, Working, OpsAt, Writing
<1>2. CASE Rejected(r)
  BY <1>1, <1>2, RejectStep
<1>3. CASE Continue(r, "found") /\ Unmoved
  <2>1. Goto(r, "found") /\ UNCHANGED <<db, pend, job, seen>> /\ Calm
    BY <1>3 DEF Continue, Unmoved, Calm
  <2>2. ~overlapped => Alone(r)'
    <3>1. pc'[r] = "found"
      BY <2>1, InvTypes DEF Goto
    <3> QED
      BY <3>1 DEF Alone
  <2>3. /\ "create" \in OpsAt("found") /\ seen'[r] \in SeenAt("found", "create")
        /\ seen'[r] \in Seen
    BY <2>1, RequestFacts DEF OpsAt, SeenAt
  <2>4. "found" \in Label \ {"new", "done", "failed", "enroll"} /\ pc[r] \notin {"commit", "enroll"}
    BY <1>1 DEF Label
  <2> QED
    BY <1>1, <2>1, <2>2, <2>3, <2>4, LookStep
<1> QED
  BY <1>2, <1>3 DEF CheckNoBusiness

(* A request that has written no membership and no role sees its own and   *)
(* everybody's sessions as they are.                                       *)
LEMMA SessionsSeen ==
    ASSUME MembershipInv, NEW r \in Request, Running(r), ~overlapped,
           \A k \in Mapping \cup Role : ~Holds(r, k), NEW u \in User, Alive(u)
    PROVE  CurrentSeen(r, token[stored[u]])
<1>1. stored[u] \in Name /\ token[stored[u]] # None
  BY InvTypes DEF Alive, RedisOK
<1>2. PICK t \in CustomerToken \cup BusinessToken : t = token[stored[u]]
  BY <1>1, TokenFacts
<1>3. Current(t)
  BY <1>2, AloneNow
<1>4. \A k \in Mapping \cup Role : View(r, k) = db[k]
  BY KeyFacts, HeldTypes
<1>5. t.ctx = "BUSINESS" => t.role \in Role
  BY <1>2 DEF CustomerToken, BusinessToken
<1>6. CurrentSeen(r, t)
  BY <1>3, <1>4, <1>5 DEF Current, CurrentSeen, MemberOf
<1> QED
  BY <1>2, <1>6

(* What is left to be shown at the statements that end a request.          *)
LEMMA AloneAtEnd ==
    ASSUME NEW r, pc'[r] \in {"revoke", "commit"},
           \A u \in User :
             Alive(u)' /\ u \notin Leavers(r)' /\ (pc'[r] = "revoke" => u \notin seen'[r].users)
               => CurrentSeen(r, token[stored[u]])'
    PROVE  Alone(r)'
BY DEF Alone

LEMMA SeenStays ==
    ASSUME NEW r, UNCHANGED <<db, pend>>, Calm, NEW u, CurrentSeen(r, token[stored[u]])
    PROVE  CurrentSeen(r, token[stored[u]])'
<1>1. token' = token /\ stored' = stored
  BY DEF Calm, sessions, redis
<1> QED
  BY <1>1, SameView DEF CurrentSeen, Live

LEMMA ReadBusinessStep ==
    ASSUME MembershipInv, NEW r \in Request, ReadBusiness(r)
    PROVE  MembershipInv'
<1>1. /\ pc[r] = "business" /\ Running(r) /\ job[r].op \in {"handOver", "delete"}
      /\ HoldsNothing(r)
  BY RequestFacts DEF ReadBusiness, Running, Working, OpsAt, Writing
<1>2. PICK b \in Business : b = token[job[r].by].business
  BY <1>1, CallerFacts
<1>3. PICK owner \in User : owner = View(r, b).owner
  BY RowsSeen DEF BusinessRow
<1>4. PICK label : label = IF job[r].op = "delete" THEN "members"
                           ELSE IF owner = job[r].user THEN "commit" ELSE "handOver"
  OBVIOUS
<1>5. PICK x \in Opened : x = [owner |-> owner, todo |-> {}]
  BY DEF Opened
<1>6. CASE Rejected(r)
  BY <1>1, <1>6, RejectStep
<1>7. CASE Read(r, x, label) /\ Unmoved
  <2>1. /\ Goto(r, label) /\ UNCHANGED <<db, pend, job>> /\ Calm
        /\ seen' = [seen EXCEPT ![r] = x]
    BY <1>7 DEF Read, Keep, Unmoved, Calm
  <2>2. seen'[r] = x /\ seen' = [seen EXCEPT ![r] = seen'[r]] /\ pc'[r] = label
    BY <2>1, InvTypes DEF Goto
  <2>3. label \in {"members", "commit", "handOver"} /\ (label = "commit" => job[r].op = "handOver")
    BY <1>1, <1>4
  <2>4. ~overlapped => Alone(r)'
    <3>1. CASE label # "commit"
      BY <2>2, <2>3, <3>1 DEF Alone
    <3>2. CASE label = "commit"
      <4> SUFFICES ASSUME ~overlapped PROVE Alone(r)'
        OBVIOUS
      <4>1. ASSUME NEW u \in User, Alive(u)'
            PROVE  CurrentSeen(r, token[stored[u]])'
        <5>1. Alive(u)
          BY <2>1, <4>1 DEF Calm, sessions, redis, Alive
        <5>2. \A k \in Mapping \cup Role : ~Holds(r, k)
          BY <1>1, KeyFacts DEF HoldsNothing
        <5> QED
          BY <1>1, <5>1, <5>2, <2>1, SessionsSeen, SeenStays
      <4> QED
        BY <4>1, <3>2, <2>2, AloneAtEnd
    <3> QED
      BY <3>1, <3>2
  <2>5. job[r].op \in OpsAt(label) /\ x \in SeenAt(label, job[r].op) /\ x \in Seen
    BY <1>1, <1>4 DEF OpsAt, SeenAt, Seen
  <2>6. /\ label \in Label \ {"new", "done", "failed", "enroll"}
        /\ pc[r] \notin {"commit", "enroll"}
    BY <1>1, <2>3 DEF Label
  <2> QED
    BY <1>1, <2>1, <2>2, <2>3, <2>4, <2>5, <2>6, LookStep
<1> QED
  BY <1>2, <1>3, <1>4, <1>5, <1>6, <1>7 DEF ReadBusiness

LEMMA UsersAreUsers ==
    ASSUME MembershipInv, NEW r \in Request, NEW M \in SUBSET Mapping
    PROVE  UsersOf(r, M) \in SUBSET User
BY RowsSeen DEF UsersOf, MappingRow

LEMMA ListMembersStep ==
    ASSUME MembershipInv, NEW r \in Request, ListMembers(r)
    PROVE  MembershipInv'
<1>1. /\ pc[r] = "members" /\ Running(r) /\ job[r].op = "delete" /\ HoldsNothing(r)
      /\ seen[r] \in Opened
  BY RequestFacts DEF ListMembers, Running, Working, OpsAt, SeenAt, Writing
<1>2. PICK b \in Business : b = token[job[r].by].business
  BY <1>1, CallerFacts
<1>3. PICK users \in SUBSET User : users = UsersOf(r, MembersOf(r, b))
  BY UsersAreUsers DEF MembersOf
<1>4. PICK owner \in User : owner = seen[r].owner
  BY <1>1 DEF Opened
<1>5. PICK x \in Listed : x = [owner |-> owner, todo |-> {}, users |-> users]
  BY DEF Listed
<1>6. /\ Goto(r, "close") /\ UNCHANGED <<db, pend, job>> /\ Calm
      /\ seen' = [seen EXCEPT ![r] = x]
  BY <1>2, <1>3, <1>4, <1>5 DEF ListMembers, Read, Keep, Unmoved, Calm
<1>7. seen'[r] = x /\ seen' = [seen EXCEPT ![r] = seen'[r]]
  BY <1>6, InvTypes
<1>8. ~overlapped => Alone(r)'
  <2>1. pc'[r] = "close" /\ job'[r] = job[r] /\ token' = token
    BY <1>6, InvTypes DEF Goto, Calm, sessions
  <2>2. ASSUME NEW m \in Mapping, Live(db[m]), db[m].business = b
        PROVE  db[m].user \in users
    <3>1. View(r, m) = db[m]
      BY <1>1, KeyFacts, NothingSeen
    <3>2. m \in MembersOf(r, b)
      BY <2>2, <3>1 DEF MembersOf
    <3> QED
      BY <3>1, <3>2, <1>3 DEF UsersOf
  <2>3. x.users = users
    BY <1>5
  <2>4. \A k \in Key : ~Holds(r, k)'
    BY <1>1, <1>6, SameView DEF HoldsNothing
  <2>5. \A m \in Mapping : Live(db'[m]) /\ db'[m].business = token'[job'[r].by].business
                             => db'[m].user \in seen'[r].users
    BY <2>1, <2>2, <2>3, <1>2, <1>6, <1>7
  <2> QED
    BY <2>1, <2>4, <2>5, KeyFacts DEF Alone, Live
<1>9. "delete" \in OpsAt("close") /\ x \in SeenAt("close", "delete") /\ x \in Seen
  BY DEF OpsAt, SeenAt, Seen
<1>10. "close" \in Label \ {"new", "done", "failed", "enroll"} /\ pc[r] \notin {"commit", "enroll"}
  BY <1>1 DEF Label
<1> QED
  BY <1>1, <1>6, <1>7, <1>8, <1>9, <1>10, LookStep

LEMMA ReadMappingStep ==
    ASSUME MembershipInv, NEW r \in Request, ReadMapping(r)
    PROVE  MembershipInv'
<1>1. /\ pc[r] = "mapping" /\ Running(r) /\ job[r].op \in {"reassign", "remove"}
      /\ HoldsNothing(r)
  BY RequestFacts DEF ReadMapping, Running, Working, OpsAt, Writing
<1>2. PICK m \in Mapping : m = job[r].mapping
  BY <1>1, RequestFacts, JobFields
<1>3. View(r, m) = db[m] /\ db[m] \in MappingRow
  BY <1>1, KeyFacts, NothingSeen, RowsSeen
<1>4. PICK label : label = IF job[r].op = "reassign" THEN "reload" ELSE "dismissOne"
  OBVIOUS
<1>5. PICK x \in One : x = [users |-> {db[m].user}, loaded |-> db[m]]
  BY <1>3 DEF One, MappingRow
<1>6. CASE Rejected(r)
  BY <1>1, <1>6, RejectStep
<1>7. CASE Read(r, x, label) /\ Unmoved
  <2>1. /\ Goto(r, label) /\ UNCHANGED <<db, pend, job>> /\ Calm
        /\ seen' = [seen EXCEPT ![r] = x]
    BY <1>7 DEF Read, Keep, Unmoved, Calm
  <2>2. /\ seen'[r] = x /\ seen' = [seen EXCEPT ![r] = seen'[r]]
        /\ pc'[r] = label /\ job'[r] = job[r]
    BY <2>1, InvTypes DEF Goto
  <2>3. label \in {"reload", "dismissOne"}
    BY <1>4
  <2>4. ~overlapped => Alone(r)'
    <3>1. /\ seen'[r].users = {db'[job'[r].mapping].user}
          /\ seen'[r].loaded = db'[job'[r].mapping]
      BY <1>2, <1>5, <2>1, <2>2
    <3> QED
      BY <3>1, <2>2, <2>3 DEF Alone
  <2>5. job[r].op \in OpsAt(label) /\ x \in SeenAt(label, job[r].op) /\ x \in Seen
    BY <1>1, <1>4 DEF OpsAt, SeenAt, Seen
  <2>6. /\ label \in Label \ {"new", "done", "failed", "enroll"}
        /\ pc[r] \notin {"commit", "enroll"}
    BY <1>1, <2>3 DEF Label
  <2> QED
    BY <1>1, <2>1, <2>2, <2>3, <2>4, <2>5, <2>6, LookStep
<1>8. Rejected(r) \/ (Read(r, x, label) /\ Unmoved)
  BY <1>2, <1>3, <1>4, <1>5 DEF ReadMapping
<1> QED
  BY <1>6, <1>7, <1>8

LEMMA LosesSessionIs ==
    ASSUME NEW to \in PatchBody, NEW row \in MappingRow
    PROVE  LosesSession(to, row) \in SUBSET User
BY DEF LosesSession, PatchBody, MappingRow

LEMMA ReloadStep ==
    ASSUME MembershipInv, NEW r \in Request, Reload(r)
    PROVE  MembershipInv'
<1>1. /\ pc[r] = "reload" /\ Running(r) /\ job[r].op = "reassign" /\ HoldsNothing(r)
      /\ seen[r] \in One
  BY RequestFacts DEF Reload, Running, Working, OpsAt, SeenAt, Writing
<1>2. PICK to \in PatchBody, row \in MappingRow : to = job[r].to /\ row = seen[r].loaded
  BY <1>1, RequestFacts, JobFields DEF One
<1>3. PICK x \in One :
        /\ x = [seen[r] EXCEPT !.users = LosesSession(to, row)]
        /\ x.users = LosesSession(to, row) /\ x.loaded = row
  <2>1. PICK y \in One : y = seen[r] /\ y.loaded = row
    BY <1>1, <1>2
  <2>2. PICK users \in SUBSET User : users = LosesSession(to, row)
    BY LosesSessionIs
  <2>3. /\ [y EXCEPT !.users = users] \in One /\ [y EXCEPT !.users = users].users = users
        /\ [y EXCEPT !.users = users].loaded = y.loaded
    BY DEF One
  <2> QED
    BY <2>1, <2>2, <2>3
<1>4. CASE Rejected(r)
  BY <1>1, <1>4, RejectStep
<1>5. ASSUME NEW label \in {"reassign", "revoke"}, Read(r, x, label), Unmoved
      PROVE  MembershipInv'
  <2>1. /\ Goto(r, label) /\ UNCHANGED <<db, pend, job>> /\ Calm
        /\ seen' = [seen EXCEPT ![r] = x]
    BY <1>5 DEF Read, Keep, Unmoved, Calm
  <2>2. /\ seen'[r] = x /\ seen' = [seen EXCEPT ![r] = seen'[r]]
        /\ pc'[r] = label /\ job'[r] = job[r]
    BY <2>1, InvTypes DEF Goto
  <2>3. ASSUME ~overlapped PROVE Alone(r)'
    <3>1. CASE label = "revoke"
      <4>1. ASSUME NEW u \in User, Alive(u)'
            PROVE  CurrentSeen(r, token[stored[u]])'
        <5>1. Alive(u)
          BY <2>1, <4>1 DEF Calm, sessions, redis, Alive
        <5>2. \A k \in Mapping \cup Role : ~Holds(r, k)
          BY <1>1, KeyFacts DEF HoldsNothing
        <5> QED
          BY <1>1, <5>1, <5>2, <2>1, <2>3, SessionsSeen, SeenStays
      <4> QED
        BY <4>1, <3>1, <2>2, AloneAtEnd
    <3>2. CASE label = "reassign"
      <4>1. row = db[job[r].mapping]
        BY <1>1, <1>2, <2>3, AloneNow DEF Alone
      <4>2. /\ seen'[r].loaded = db'[job'[r].mapping]
            /\ seen'[r].users = LosesSession(job'[r].to, seen'[r].loaded)
        BY <4>1, <1>2, <1>3, <2>1, <2>2
      <4> QED
        BY <4>2, <3>2, <2>2 DEF Alone
    <3> QED
      BY <3>1, <3>2, <1>5
  <2>4. job[r].op \in OpsAt(label) /\ x \in SeenAt(label, job[r].op) /\ x \in Seen
    BY <1>1, <1>5 DEF OpsAt, SeenAt, Seen
  <2>5. /\ label \in Label \ {"new", "done", "failed", "enroll"}
        /\ pc[r] \notin {"commit", "enroll"}
    BY <1>1, <1>5 DEF Label
  <2> QED
    BY <1>1, <2>1, <2>2, <2>3, <2>4, <2>5, <1>5, LookStep
<1>6. \/ Rejected(r)
      \/ Unmoved /\ (Read(r, x, "reassign") \/ Read(r, x, "revoke"))
  BY <1>2, <1>3 DEF Reload
<1> QED
  BY <1>4, <1>5, <1>6

LEMMA ReadRoleStep ==
    ASSUME MembershipInv, NEW r \in Request, ReadRole(r)
    PROVE  MembershipInv'
<1>1. pc[r] = "role" /\ Running(r) /\ job[r].op \in {"drop", "grant"} /\ HoldsNothing(r)
  BY RequestFacts DEF ReadRole, Running, Working, OpsAt, Writing
<1>2. CASE Rejected(r)
  BY <1>1, <1>2, RejectStep
<1>3. ASSUME NEW label \in {"commit", "grant", "drop"}, Continue(r, label), Unmoved,
             label # "drop" => job[r].op = "grant", label = "drop" => job[r].op = "drop"
      PROVE  MembershipInv'
  <2>1. Goto(r, label) /\ UNCHANGED <<db, pend, job, seen>> /\ Calm
    BY <1>3 DEF Continue, Unmoved, Calm
  <2>2. pc'[r] = label /\ seen'[r] = seen[r]
    BY <2>1, InvTypes DEF Goto
  <2>3. ASSUME ~overlapped PROVE Alone(r)'
    <3>1. CASE label = "commit"
      <4>1. ASSUME NEW u \in User, Alive(u)'
            PROVE  CurrentSeen(r, token[stored[u]])'
        <5>1. Alive(u)
          BY <2>1, <4>1 DEF Calm, sessions, redis, Alive
        <5>2. \A k \in Mapping \cup Role : ~Holds(r, k)
          BY <1>1, KeyFacts DEF HoldsNothing
        <5> QED
          BY <1>1, <5>1, <5>2, <2>1, <2>3, SessionsSeen, SeenStays
      <4> QED
        BY <4>1, <3>1, <2>2, AloneAtEnd
    <3>2. CASE label # "commit"
      BY <3>2, <1>3, <2>2 DEF Alone
    <3> QED
      BY <3>1, <3>2
  <2>4. job[r].op \in OpsAt(label) /\ seen[r] \in SeenAt(label, job[r].op) /\ seen[r] \in Seen
    BY <1>1, <1>3, RequestFacts DEF OpsAt, SeenAt
  <2>5. /\ label \in Label \ {"new", "done", "failed", "enroll"}
        /\ pc[r] \notin {"commit", "enroll"}
    BY <1>1, <1>3 DEF Label
  <2> QED
    BY <1>1, <1>3, <2>1, <2>2, <2>3, <2>4, <2>5, LookStep
<1> QED
  BY <1>2, <1>3 DEF ReadRole

LEMMA ListUsersOfRoleStep ==
    ASSUME MembershipInv, NEW r \in Request, ListUsersOfRole(r)
    PROVE  MembershipInv'
<1>1. pc[r] = "list" /\ Running(r) /\ job[r].op = "drop"
  BY RequestFacts DEF ListUsersOfRole, Running, Working, OpsAt
<1>2. PICK role \in Role : role = job[r].role
  BY <1>1, RequestFacts, JobFields
<1>3. PICK holders \in SUBSET Mapping :
        holders = {m \in Mapping : Live(View(r, m)) /\ View(r, m).role = role}
  OBVIOUS
<1>4. PICK users \in SUBSET User : users = UsersOf(r, holders)
  BY UsersAreUsers
<1>5. PICK x \in Holders : x = [users |-> users]
  BY DEF Holders
<1>6. /\ Goto(r, "revoke") /\ UNCHANGED <<db, pend, job>> /\ Calm
      /\ seen' = [seen EXCEPT ![r] = x]
  BY <1>2, <1>3, <1>4, <1>5 DEF ListUsersOfRole, Read, Keep, Unmoved, Calm
<1>7. seen'[r] = x /\ seen' = [seen EXCEPT ![r] = seen'[r]] /\ pc'[r] = "revoke"
  BY <1>6, InvTypes DEF Goto
<1>8. ASSUME ~overlapped PROVE Alone(r)'
  <2>1. ASSUME NEW u \in User, Alive(u)', u \notin users
        PROVE  CurrentSeen(r, token[stored[u]])'
    <3>1. Alive(u)
      BY <1>6, <2>1 DEF Calm, sessions, redis, Alive
    <3>2. stored[u] \in Name /\ token[stored[u]] # None /\ token[stored[u]].user = u
      BY <3>1, InvTypes DEF Alive, RedisOK
    <3>3. PICK t \in CustomerToken \cup BusinessToken : t = token[stored[u]]
      BY <3>2, TokenFacts
    <3>4. Current(t)
      BY <1>1, <1>8, <3>1, <3>3, AloneNow
    <3>5. CurrentSeen(r, t)
      <4> SUFFICES ASSUME t.ctx = "BUSINESS"
                   PROVE  \E m \in Mapping :
                            /\ Live(View(r, m)) /\ View(r, m).user = t.user
                            /\ View(r, m).business = t.business
                            /\ \/ t.owner
                               \/ View(r, m).role = t.role
                                  /\ (t.privileged => View(r, t.role).granted)
        BY DEF CurrentSeen
      <4>1. PICK m \in MemberOf(t.user, t.business) :
               t.owner \/ (db[m].role = t.role /\ (t.privileged => db[t.role].granted))
        BY <3>4 DEF Current
      <4>2. \A k \in Key : Holds(r, k) => k = role
        BY <1>1, <1>2, <1>8, AloneNow DEF Alone
      <4>3. m \in Mapping /\ View(r, m) = db[m]
        BY <4>2, KeyFacts, HeldTypes DEF MemberOf
      <4>4. m \notin holders
        BY <4>3, <2>1, <1>4, <3>2, <3>3, <4>1 DEF UsersOf, MemberOf
      <4>5. db[m].role # role
        BY <4>3, <4>4, <1>3, <4>1 DEF MemberOf
      <4>6. t.role \in Role
        BY <3>3 DEF CustomerToken, BusinessToken
      <4>7. t.role # role => View(r, t.role) = db[t.role]
        BY <4>2, <4>6, KeyFacts, HeldTypes
      <4> QED
        BY <4>1, <4>3, <4>5, <4>7 DEF MemberOf
    <3> QED
      BY <3>3, <3>5, <1>6, SeenStays
  <2>2. x.users = users
    BY <1>5
  <2> QED
    BY <2>1, <2>2, <1>7, AloneAtEnd
<1>9. "drop" \in OpsAt("revoke") /\ x \in SeenAt("revoke", "drop") /\ x \in Seen
  BY DEF OpsAt, SeenAt, Seen
<1>10. /\ "revoke" \in Label \ {"new", "done", "failed", "enroll"} /\ "revoke" \in Writing
       /\ pc[r] \notin {"commit", "enroll"}
  BY <1>1 DEF Label, Writing
<1> QED
  BY <1>1, <1>6, <1>7, <1>8, <1>9, <1>10, LookStep

(* Who is not to be revoked has a membership that r has not touched.       *)
LEMMA SpareSessions ==
    ASSUME MembershipInv, NEW r \in Request, Running(r), ~overlapped,
           NEW users, \A m \in Mapping : Holds(r, m) => Live(db[m]) /\ db[m].user \in users,
           \A k \in Role : ~Holds(r, k), NEW u \in User, Alive(u), u \notin users
    PROVE  CurrentSeen(r, token[stored[u]])
<1>1. stored[u] \in Name /\ token[stored[u]] # None /\ token[stored[u]].user = u
  BY InvTypes DEF Alive, RedisOK
<1>2. PICK t \in CustomerToken \cup BusinessToken : t = token[stored[u]]
  BY <1>1, TokenFacts
<1>3. Current(t)
  BY <1>2, AloneNow
<1>4. CurrentSeen(r, t)
  <2> SUFFICES ASSUME t.ctx = "BUSINESS"
               PROVE  \E m \in Mapping :
                        /\ Live(View(r, m)) /\ View(r, m).user = t.user
                        /\ View(r, m).business = t.business
                        /\ \/ t.owner
                           \/ View(r, m).role = t.role /\ (t.privileged => View(r, t.role).granted)
    BY DEF CurrentSeen
  <2>1. PICK m \in MemberOf(t.user, t.business) :
           t.owner \/ (db[m].role = t.role /\ (t.privileged => db[t.role].granted))
    BY <1>3 DEF Current
  <2>2. m \in Mapping /\ db[m].user = u
    BY <2>1, <1>1, <1>2 DEF MemberOf
  <2>3. View(r, m) = db[m]
    BY <2>2, KeyFacts, HeldTypes
  <2>4. t.role \in Role /\ View(r, t.role) = db[t.role]
    BY <1>2, KeyFacts, HeldTypes DEF CustomerToken, BusinessToken
  <2> QED
    BY <2>1, <2>2, <2>3, <2>4 DEF MemberOf
<1> QED
  BY <1>2, <1>4

LEMMA ListedTodo ==
    ASSUME NEW y \in Listed, NEW todo \in SUBSET Mapping
    PROVE  /\ [y EXCEPT !.todo = todo] \in Listed
           /\ [y EXCEPT !.todo = todo].users = y.users
           /\ [y EXCEPT !.todo = todo].owner = y.owner
           /\ [y EXCEPT !.todo = todo].todo = todo
BY DEF Listed

LEMMA SelectMappingsStep ==
    ASSUME MembershipInv, NEW r \in Request, SelectMappings(r)
    PROVE  MembershipInv'
<1>1. /\ pc[r] = "dismiss" /\ Running(r) /\ job[r].op = "delete" /\ seen[r] \in Listed
  BY RequestFacts DEF SelectMappings, Running, Working, OpsAt, SeenAt
<1>2. PICK b \in Business : b = token[job[r].by].business
  BY <1>1, CallerFacts
<1>3. PICK todo \in SUBSET Mapping : todo = MembersOf(r, b)
  BY DEF MembersOf
<1>4. PICK label : label = IF todo = {} THEN "revoke" ELSE "dismissing"
  OBVIOUS
<1>5. PICK x \in Listed : x = [seen[r] EXCEPT !.todo = todo] /\ x.users = seen[r].users
  BY <1>1, ListedTodo
<1>6. /\ Goto(r, label) /\ UNCHANGED <<db, pend, job>> /\ Calm
      /\ seen' = [seen EXCEPT ![r] = x]
  BY <1>2, <1>3, <1>4, <1>5 DEF SelectMappings, Read, Keep, Unmoved, Calm
<1>7. /\ seen'[r] = x /\ seen' = [seen EXCEPT ![r] = seen'[r]]
      /\ pc'[r] = label /\ job'[r] = job[r] /\ token' = token
  BY <1>6, InvTypes DEF Goto, Calm, sessions
<1>8. label \in {"revoke", "dismissing"}
  BY <1>4
<1>9. ASSUME ~overlapped PROVE Alone(r)'
  <2>1. /\ \A m \in Mapping : Live(db[m]) /\ db[m].business = b => db[m].user \in x.users
        /\ \A m \in Mapping : Holds(r, m) =>
             ~Live(pend[r][m]) /\ Live(db[m]) /\ db[m].user \in x.users
        /\ \A k \in Role : ~Holds(r, k)
    BY <1>1, <1>2, <1>5, <1>9, AloneNow DEF Alone
  <2>2. CASE label = "dismissing"
    <3>1. /\ \A m \in Mapping : Live(db'[m]) /\ db'[m].business = token'[job'[r].by].business
                                  => db'[m].user \in seen'[r].users
          /\ \A m \in Mapping : Holds(r, m)' =>
               ~Live(pend'[r][m]) /\ Live(db'[m]) /\ db'[m].user \in seen'[r].users
          /\ \A k \in Role : ~Holds(r, k)'
      BY <2>1, <1>2, <1>6, <1>7, SameView
    <3> QED
      BY <3>1, <2>2, <1>7 DEF Alone, Live
  <2>3. CASE label = "revoke"
    <3>1. ASSUME NEW u \in User, Alive(u)', u \notin x.users
          PROVE  CurrentSeen(r, token[stored[u]])'
      <4>1. Alive(u)
        BY <1>6, <3>1 DEF Calm, sessions, redis, Alive
      <4>2. CurrentSeen(r, token[stored[u]])
        BY <1>1, <1>9, <2>1, <3>1, <4>1, SpareSessions
      <4> QED
        BY <4>2, <1>6, SeenStays
    <3> QED
      BY <3>1, <2>3, <1>7, AloneAtEnd
  <2> QED
    BY <2>2, <2>3, <1>8
<1>10. job[r].op \in OpsAt(label) /\ x \in SeenAt(label, job[r].op) /\ x \in Seen
  BY <1>1, <1>8 DEF OpsAt, SeenAt, Seen
<1>11. /\ label \in Label \ {"new", "done", "failed", "enroll"} /\ label \in Writing
       /\ pc[r] \notin {"commit", "enroll"} /\ label # "commit"
  BY <1>1, <1>8 DEF Label, Writing
<1> QED
  BY <1>1, <1>6, <1>7, <1>9, <1>10, <1>11, LookStep

-----------------------------------------------------------------------------
(* Statements that write.                                                  *)

LEMMA WrittenIs ==
    ASSUME MembershipInv, NEW r \in Request, NEW k \in Key, NEW x \in RowType(k),
           WriteRow(r, k, x)
    PROVE  /\ db' = db /\ ~HeldByOther(r, k)
           /\ Holds(r, k)' /\ pend'[r][k] = x /\ View(r, k)' = x
           /\ \A i \in Key \ {k} : /\ Holds(r, i)' <=> Holds(r, i)
                                   /\ pend'[r][i] = pend[r][i] /\ View(r, i)' = View(r, i)
           /\ pend'[r] \in [Key -> AnyRow \cup {None}]
           /\ \A i \in Key : pend'[r][i] \in RowType(i) \cup {None}
<1>1. db' = db /\ pend' = [pend EXCEPT ![r][k] = x] /\ ~HeldByOther(r, k)
  BY DEF WriteRow
<1>2. pend'[r] = [pend[r] EXCEPT ![k] = x]
  BY <1>1, InvTypes
<1>3. pend[r] \in [Key -> AnyRow \cup {None}] /\ \A i \in Key : pend[r][i] \in RowType(i) \cup {None}
  BY InvTypes DEF Mine
<1>4. pend'[r][k] = x /\ \A i \in Key \ {k} : pend'[r][i] = pend[r][i]
  BY <1>2, <1>3
<1>5. x # None /\ x \in AnyRow
  BY RowTypes
<1> QED
  BY <1>1, <1>2, <1>3, <1>4, <1>5 DEF Holds, View

(* The write of a handler that founds nothing.                             *)
LEMMA ChangeStep ==
    ASSUME MembershipInv, NEW r \in Request, Running(r), pc[r] # "commit",
           pc[r] = "enroll" => job[r].op # "create",
           NEW label \in Writing \ {"enroll"}, Goto(r, label), job' = job,
           seen' = seen \/ seen' = [seen EXCEPT ![r] = seen'[r]], Calm,
           job[r].op \in OpsAt(label), seen'[r] \in Seen, seen'[r] \in SeenAt(label, job[r].op),
           label = "commit" => job[r].op # "create",
           NEW k \in Key, NEW x \in RowType(k), WriteRow(r, k, x),
           k \in Indexed => Fits(r, k, x), k \in Business /\ Live(x) => Live(db[k]),
           ~overlapped => Alone(r)'
    PROVE  MembershipInv'
<1>1. OnlyMoves(r) /\ pc'[r] = label /\ job'[r] = job[r]
  BY GotoMoves
<1>2. label \in Label \ {"new", "done", "failed"}
  BY DEF Writing, Label
<1>3. Working(r)'
  <2>1. token' = token
    BY DEF Calm, sessions
  <2> QED
    BY <1>1, <1>2, <2>1, MovedWorking
<1>4. Founding(r)'
  <2>1. \A b \in Business : Holds(r, b) /\ Live(pend[r][b]) => Live(db[b])
    BY RequestFacts DEF Founding
  <2>2. \A b \in Business : Holds(r, b)' /\ Live(pend'[r][b]) => Live(db'[b])
    BY <2>1, WrittenIs, KeyFacts
  <2> QED
    BY <1>1, <2>2 DEF Founding, Live
<1>5. Mine(r)'
  BY <1>1, <1>2, <1>3, <1>4, WrittenIs, RequestFacts DEF Mine
<1> QED
  BY <1>1, <1>5, WriteStep

(* A session that r sees current stays so when r writes somebody else's    *)
(* membership, a business or a grant.                                      *)
LEMMA SeenAfterWrite ==
    ASSUME MembershipInv, NEW r \in Request, NEW k \in Key, NEW x \in RowType(k),
           WriteRow(r, k, x), Calm, NEW u \in User, Alive(u), CurrentSeen(r, token[stored[u]]),
           k \in Mapping => ~Live(View(r, k)) \/ View(r, k).user # u,
           k \in Role => x.granted
    PROVE  CurrentSeen(r, token[stored[u]])'
<1>1. stored[u] \in Name /\ token[stored[u]] # None /\ token[stored[u]].user = u
  BY InvTypes DEF Alive, RedisOK
<1>2. PICK t \in CustomerToken \cup BusinessToken : t = token[stored[u]]
  BY <1>1, TokenFacts
<1>3. token' = token /\ stored' = stored
  BY DEF Calm, sessions, redis
<1>4. CurrentSeen(r, t)'
  <2> SUFFICES ASSUME t.ctx = "BUSINESS"
               PROVE  \E m \in Mapping :
                        /\ Live(View(r, m)') /\ View(r, m)'.user = t.user
                        /\ View(r, m)'.business = t.business
                        /\ \/ t.owner
                           \/ View(r, m)'.role = t.role /\ (t.privileged => View(r, t.role)'.granted)
    BY DEF CurrentSeen, Live
  <2>1. PICK m \in Mapping :
          /\ Live(View(r, m)) /\ View(r, m).user = t.user /\ View(r, m).business = t.business
          /\ t.owner \/ (View(r, m).role = t.role /\ (t.privileged => View(r, t.role).granted))
    BY <1>2 DEF CurrentSeen
  <2>2. m # k /\ m \in Key
    BY <2>1, <1>1, <1>2, KeyFacts
  <2>3. View(r, m)' = View(r, m)
    BY <2>2, WrittenIs
  <2>4. t.role \in Role /\ t.role \in Key
    BY <1>2, KeyFacts DEF CustomerToken, BusinessToken
  <2>5. View(r, t.role).granted => View(r, t.role)'.granted
    BY <2>4, WrittenIs
  <2> QED
    BY <2>1, <2>3, <2>5
<1> QED
  BY <1>2, <1>3, <1>4

LEMMA FreshFacts ==
    ASSUME MembershipInv, NEW r \in Request, NEW k \in Key, Fresh(k)
    PROVE  ~Holds(r, k) /\ View(r, k) = db[k] /\ ~Live(View(r, k)) /\ ~Live(db[k])
BY HeldTypes DEF Fresh, Live

LEMMA FoundStep ==
    ASSUME MembershipInv, NEW r \in Request, Found(r)
    PROVE  MembershipInv'
<1>1. pc[r] = "found" /\ Running(r) /\ job[r].op = "create" /\ HoldsNothing(r)
  BY RequestFacts DEF Found, Running, Working, OpsAt, Writing
<1>2. PICK u \in User : u = token[job[r].by].user
  BY <1>1, CallerFacts
<1>3. PICK x \in BusinessRow : x = [state |-> "live", owner |-> u]
  BY DEF BusinessRow
<1>4. PICK b \in Business : Fresh(b) /\ Store(r, b, x, "enroll")
  BY <1>2, <1>3 DEF Found
<1>5. CASE Rejected(r)
  BY <1>1, <1>5, RejectStep
<1>6. CASE ~Undecided(r, b, x) /\ ~Taken(r, b, x) /\ Write(r, b, x, "enroll") /\ Unmoved
  <2>1. /\ WriteRow(r, b, x) /\ Goto(r, "enroll") /\ job' = job /\ seen' = seen /\ Calm
    BY <1>6 DEF Write, Unmoved, Calm
  <2>2. b \in Key /\ x \in RowType(b) /\ Fits(r, b, x)
    BY <1>6, KeyFacts, RowTypes, StoredFits
  <2>3. OnlyMoves(r) /\ pc'[r] = "enroll" /\ job'[r] = job[r]
    BY <2>1, GotoMoves
  <2>4. /\ Holds(r, b)' /\ pend'[r][b] = x
        /\ \A i \in Key \ {b} : ~Holds(r, i)'
        /\ pend'[r] \in [Key -> AnyRow \cup {None}]
        /\ \A i \in Key : pend'[r][i] \in RowType(i) \cup {None}
    BY <1>1, <2>1, <2>2, WrittenIs DEF HoldsNothing
  <2>5. token' = token
    BY <2>1 DEF Calm, sessions
  <2>6. Working(r)'
    <3>1. /\ "enroll" \in Label \ {"new", "done", "failed"} /\ "enroll" \in Writing
          /\ "create" \in OpsAt("enroll") /\ seen'[r] \in SeenAt("enroll", "create")
      BY <2>1, RequestFacts DEF Label, OpsAt, SeenAt, Writing
    <3> QED
      BY <3>1, <1>1, <2>3, <2>5, MovedWorking
  <2>7. Founding(r)'
    <3>1. \A c \in Business : Holds(r, c)' => c = b
      BY <2>4, KeyFacts
    <3>2. pend'[r][b].owner = token'[job'[r].by].user
      BY <2>3, <2>4, <2>5, <1>2, <1>3
    <3> QED
      BY <1>1, <2>3, <2>4, <3>1, <3>2 DEF Founding
  <2>8. Mine(r)'
    BY <2>1, <2>3, <2>4, <2>6, <2>7, RequestFacts DEF Mine, Label
  <2>9. Alone(r)'
    <3>1. \A k \in Mapping \cup Role : ~Holds(r, k)'
      BY <2>4, KeyFacts
    <3> QED
      BY <3>1, <2>3 DEF Alone
  <2> QED
    BY <1>1, <2>1, <2>2, <2>3, <2>8, <2>9, WriteStep
<1> QED
  BY <1>4, <1>5, <1>6 DEF Store

LEMMA NewMappingIs ==
    ASSUME MembershipInv, NEW r \in Request, pc[r] = "enroll"
    PROVE  /\ NewMapping(r) \in MappingRow /\ Live(NewMapping(r))
           /\ job[r].op = "create" =>
                /\ Holds(r, NewMapping(r).business)
                /\ pend[r][NewMapping(r).business].owner = token[job[r].by].user
                /\ \A c \in Business : Holds(r, c) => c = NewMapping(r).business
                /\ NewMapping(r).user = token[job[r].by].user /\ NewMapping(r).role = OwnerRole
<1>1. job[r].op \in {"create", "add"}
  BY RequestFacts DEF Running, Working, OpsAt
<1>2. CASE job[r].op = "create"
  <2>1. PICK u \in User : u = token[job[r].by].user
    BY <1>2, CallerFacts
  <2>2. PICK b \in Business :
          /\ Holds(r, b) /\ pend[r][b].owner = token[job[r].by].user
          /\ \A c \in Business : Holds(r, c) => c = b
    BY <1>2, RequestFacts DEF Founding
  <2>3. (CHOOSE c \in Business : Holds(r, c)) = b
    BY <2>2
  <2>4. NewMapping(r) = [state |-> "live", business |-> b, user |-> u, role |-> OwnerRole]
    BY <1>2, <2>1, <2>3 DEF NewMapping
  <2> QED
    BY <1>2, <2>1, <2>2, <2>4, MembershipAssumption DEF MappingRow, Live
<1>3. CASE job[r].op = "add"
  <2>1. job[r].business \in Business /\ job[r].user \in User /\ job[r].role \in Role
    BY <1>3, RequestFacts, JobFields
  <2> QED
    BY <1>3, <2>1 DEF NewMapping, MappingRow, Live
<1> QED
  BY <1>1, <1>2, <1>3

LEMMA EnrollStep ==
    ASSUME MembershipInv, NEW r \in Request, Enroll(r)
    PROVE  MembershipInv'
<1>1. pc[r] = "enroll" /\ Running(r) /\ job[r].op \in {"create", "add"}
  BY RequestFacts DEF Enroll, Running, Working, OpsAt
<1>2. PICK x \in MappingRow : x = NewMapping(r)
  BY <1>1, NewMappingIs
<1>3. PICK m \in Mapping : Fresh(m) /\ Store(r, m, x, "commit")
  BY <1>2 DEF Enroll
<1>4. CASE Rejected(r)
  BY <1>1, <1>4, RejectStep
<1>5. CASE ~Undecided(r, m, x) /\ ~Taken(r, m, x) /\ Write(r, m, x, "commit") /\ Unmoved
  <2>1. /\ WriteRow(r, m, x) /\ Goto(r, "commit") /\ job' = job /\ seen' = seen /\ Calm
    BY <1>5 DEF Write, Unmoved, Calm
  <2>2. m \in Key /\ x \in RowType(m) /\ Fits(r, m, x)
    BY <1>5, KeyFacts, RowTypes, StoredFits
  <2>3. OnlyMoves(r) /\ pc'[r] = "commit" /\ job'[r] = job[r]
    BY <2>1, GotoMoves
  <2>4. /\ Holds(r, m)' /\ pend'[r][m] = x /\ db' = db
        /\ \A i \in Key \ {m} : (Holds(r, i)' <=> Holds(r, i)) /\ pend'[r][i] = pend[r][i]
        /\ pend'[r] \in [Key -> AnyRow \cup {None}]
        /\ \A i \in Key : pend'[r][i] \in RowType(i) \cup {None}
    BY <2>1, <2>2, WrittenIs
  <2>5. token' = token
    BY <2>1 DEF Calm, sessions
  <2>6. Working(r)'
    <3>1. /\ "commit" \in Label \ {"new", "done", "failed"} /\ "commit" \in Writing
          /\ job[r].op \in OpsAt("commit") /\ seen'[r] \in SeenAt("commit", job[r].op)
      BY <1>1, <2>1, RequestFacts DEF Label, OpsAt, SeenAt, Writing
    <3> QED
      BY <3>1, <1>1, <2>3, <2>5, MovedWorking
  <2>7. Founding(r)'
    <3>1. CASE job[r].op = "create"
      <4>1. PICK b \in Business : b = x.business
        BY DEF MappingRow
      <4>2. /\ Holds(r, b) /\ pend[r][b].owner = token[job[r].by].user
            /\ \A c \in Business : Holds(r, c) => c = b
            /\ Live(x) /\ x.user = token[job[r].by].user /\ x.role = OwnerRole
        BY <1>1, <1>2, <3>1, <4>1, NewMappingIs
      <4>3. \A c \in Business : c \in Key \ {m}
        BY KeyFacts
      <4>4. /\ Holds(r, b)' /\ pend'[r][b].owner = token'[job'[r].by].user
            /\ \A c \in Business : Holds(r, c)' => c = b
        BY <2>3, <2>4, <2>5, <4>2, <4>3
      <4>5. /\ Holds(r, m)' /\ Live(pend'[r][m]) /\ pend'[r][m].business = b
            /\ pend'[r][m].user = token'[job'[r].by].user /\ pend'[r][m].role = OwnerRole
        BY <2>3, <2>4, <2>5, <4>1, <4>2
      <4> QED
        BY <3>1, <2>3, <4>4, <4>5 DEF Founding, Live
    <3>2. CASE job[r].op = "add"
      <4>1. \A b \in Business : Holds(r, b) /\ Live(pend[r][b]) => Live(db[b])
        BY <3>2, RequestFacts DEF Founding
      <4>2. \A b \in Business : Holds(r, b)' /\ Live(pend'[r][b]) => Live(db'[b])
        BY <4>1, <2>4, KeyFacts
      <4> QED
        BY <3>2, <2>3, <4>2 DEF Founding, Live
    <3> QED
      BY <1>1, <3>1, <3>2
  <2>8. Mine(r)'
    BY <2>1, <2>3, <2>4, <2>6, <2>7, RequestFacts DEF Mine, Label
  <2>9. ASSUME ~overlapped PROVE Alone(r)'
    <3>1. \A k \in Mapping \cup Role : ~Holds(r, k)
      BY <1>1, <2>9, AloneNow DEF Alone
    <3>2. ASSUME NEW u \in User, Alive(u)'
          PROVE  CurrentSeen(r, token[stored[u]])'
      <4>1. Alive(u)
        BY <2>1, <3>2 DEF Calm, sessions, redis, Alive
      <4>2. CurrentSeen(r, token[stored[u]])
        BY <1>1, <2>9, <3>1, <4>1, SessionsSeen
      <4>3. ~Live(View(r, m)) /\ m \notin Role
        BY <1>3, <2>2, FreshFacts, KeyFacts
      <4> QED
        BY <2>1, <2>2, <4>1, <4>2, <4>3, SeenAfterWrite
    <3> QED
      BY <3>2, <2>3, AloneAtEnd
  <2> QED
    BY <1>1, <2>1, <2>2, <2>3, <2>8, <2>9, WriteStep
<1> QED
  BY <1>3, <1>4, <1>5 DEF Store

LEMMA ChangedRows ==
    /\ \A y \in BusinessRow, u \in User :
         /\ [y EXCEPT !.owner = u] \in BusinessRow
         /\ Live([y EXCEPT !.owner = u]) <=> Live(y)
    /\ \A y \in BusinessRow :
         [y EXCEPT !.state = "deleted"] \in BusinessRow /\ ~Live([y EXCEPT !.state = "deleted"])
    /\ \A y \in MappingRow :
         [y EXCEPT !.state = "deleted"] \in MappingRow /\ ~Live([y EXCEPT !.state = "deleted"])
BY DEF BusinessRow, MappingRow, Live

LEMMA HandOverStep ==
    ASSUME MembershipInv, NEW r \in Request, HandOver(r)
    PROVE  MembershipInv'
<1>1. pc[r] = "handOver" /\ Running(r) /\ job[r].op = "handOver" /\ HoldsNothing(r)
  BY RequestFacts DEF HandOver, Running, Working, OpsAt, Writing
<1>2. PICK b \in Business : b = token[job[r].by].business
  BY <1>1, CallerFacts
<1>3. PICK u \in User : u = job[r].user
  BY <1>1, RequestFacts, JobFields
<1>4. b \in Key /\ View(r, b) = db[b] /\ db[b] \in BusinessRow
  BY <1>1, KeyFacts, NothingSeen, RowsSeen
<1>5. PICK x \in BusinessRow :
        x = [View(r, b) EXCEPT !.owner = u] /\ (Live(x) <=> Live(View(r, b)))
  <2>1. PICK y \in BusinessRow : y = View(r, b)
    BY RowsSeen
  <2>2. [y EXCEPT !.owner = u] \in BusinessRow /\ (Live([y EXCEPT !.owner = u]) <=> Live(y))
    BY ChangedRows
  <2> QED
    BY <2>1, <2>2
<1>6. Store(r, b, x, "commit")
  BY <1>2, <1>3, <1>5 DEF HandOver
<1>7. CASE Rejected(r)
  BY <1>1, <1>7, RejectStep
<1>8. CASE ~Undecided(r, b, x) /\ ~Taken(r, b, x) /\ Write(r, b, x, "commit") /\ Unmoved
  <2>1. WriteRow(r, b, x) /\ Goto(r, "commit") /\ job' = job /\ seen' = seen /\ Calm
    BY <1>8 DEF Write, Unmoved, Calm
  <2>2. x \in RowType(b) /\ Fits(r, b, x)
    BY <1>8, RowTypes, StoredFits
  <2>3. pc'[r] = "commit" /\ seen'[r] = seen[r]
    BY <2>1, GotoMoves
  <2>4. ASSUME ~overlapped PROVE Alone(r)'
    <3>1. ASSUME NEW v \in User, Alive(v)'
          PROVE  CurrentSeen(r, token[stored[v]])'
      <4>1. Alive(v)
        BY <2>1, <3>1 DEF Calm, sessions, redis, Alive
      <4>2. CurrentSeen(r, token[stored[v]])
        BY <1>1, <2>4, <4>1, SessionsSeen, KeyFacts DEF HoldsNothing
      <4>3. b \notin Role /\ b \notin Mapping
        BY KeyFacts
      <4> QED
        BY <1>4, <2>1, <2>2, <4>1, <4>2, <4>3, SeenAfterWrite
    <3> QED
      BY <3>1, <2>3, AloneAtEnd
  <2>5. /\ "handOver" \in OpsAt("commit") /\ seen[r] \in SeenAt("commit", "handOver")
        /\ seen[r] \in Seen /\ "commit" \in Writing \ {"enroll"}
    BY RequestFacts DEF OpsAt, SeenAt, Writing
  <2> QED
    BY <1>1, <1>4, <1>5, <2>1, <2>2, <2>3, <2>4, <2>5, ChangeStep
<1> QED
  BY <1>6, <1>7, <1>8 DEF Store

LEMMA CloseStep ==
    ASSUME MembershipInv, NEW r \in Request, Close(r)
    PROVE  MembershipInv'
<1>1. /\ pc[r] = "close" /\ Running(r) /\ job[r].op = "delete" /\ HoldsNothing(r)
      /\ seen[r] \in Listed
  BY RequestFacts DEF Close, Running, Working, OpsAt, SeenAt, Writing
<1>2. PICK b \in Business : b = token[job[r].by].business
  BY <1>1, CallerFacts
<1>3. PICK x \in BusinessRow : x = [View(r, b) EXCEPT !.state = "deleted"] /\ ~Live(x)
  BY RowsSeen, ChangedRows
<1>4. CASE Rejected(r)
  BY <1>1, <1>4, RejectStep
<1>5. CASE Write(r, b, x, "dismiss") /\ Unmoved
  <2>1. WriteRow(r, b, x) /\ Goto(r, "dismiss") /\ job' = job /\ seen' = seen /\ Calm
    BY <1>5 DEF Write, Unmoved, Calm
  <2>2. b \in Key /\ x \in RowType(b) /\ b \in Indexed
    BY KeyFacts, RowTypes DEF Indexed
  <2>3. Fits(r, b, x)
    BY <1>3, <2>1, <2>2, WrittenIs, ChangeFits
  <2>4. pc'[r] = "dismiss" /\ seen'[r] = seen[r] /\ job'[r] = job[r]
    BY <2>1, GotoMoves
  <2>5. ASSUME ~overlapped PROVE Alone(r)'
    <3>1. /\ db' = db /\ token' = token
          /\ \A k \in Mapping \cup Role : ~Holds(r, k)'
      BY <1>1, <2>1, <2>2, WrittenIs, KeyFacts DEF HoldsNothing, Calm, sessions
    <3>2. \A m \in Mapping : Live(db[m]) /\ db[m].business = token[job[r].by].business
                               => db[m].user \in seen[r].users
      BY <1>1, <2>5, AloneNow DEF Alone
    <3>3. \A m \in Mapping : Live(db'[m]) /\ db'[m].business = token'[job'[r].by].business
                               => db'[m].user \in seen'[r].users
      BY <3>1, <3>2, <2>4
    <3> QED
      BY <3>1, <3>3, <2>4 DEF Alone, Live
  <2>6. /\ "delete" \in OpsAt("dismiss") /\ seen[r] \in SeenAt("dismiss", "delete")
        /\ seen[r] \in Seen /\ "dismiss" \in Writing \ {"enroll"}
    BY <1>1, RequestFacts DEF OpsAt, SeenAt, Writing
  <2> QED
    BY <1>1, <1>3, <2>1, <2>2, <2>3, <2>4, <2>5, <2>6, ChangeStep
<1> QED
  BY <1>2, <1>3, <1>4, <1>5 DEF Close

LEMMA GrantStep ==
    ASSUME MembershipInv, NEW r \in Request, Grant(r)
    PROVE  MembershipInv'
<1>1. pc[r] = "grant" /\ Running(r) /\ job[r].op = "grant" /\ HoldsNothing(r)
  BY RequestFacts DEF Grant, Running, Working, OpsAt, Writing
<1>2. PICK k \in Role : k = job[r].role
  BY <1>1, RequestFacts, JobFields
<1>3. PICK x \in RoleRow : x = [granted |-> TRUE]
  BY DEF RoleRow
<1>4. CASE Rejected(r)
  BY <1>1, <1>4, RejectStep
<1>5. CASE Write(r, k, x, "commit") /\ Unmoved
  <2>1. WriteRow(r, k, x) /\ Goto(r, "commit") /\ job' = job /\ seen' = seen /\ Calm
    BY <1>5 DEF Write, Unmoved, Calm
  <2>2. k \in Key /\ x \in RowType(k) /\ k \notin Indexed /\ k \notin Mapping /\ k \notin Business
    BY KeyFacts, RowTypes DEF Indexed
  <2>3. pc'[r] = "commit" /\ seen'[r] = seen[r]
    BY <2>1, GotoMoves
  <2>4. ASSUME ~overlapped PROVE Alone(r)'
    <3>1. ASSUME NEW v \in User, Alive(v)'
          PROVE  CurrentSeen(r, token[stored[v]])'
      <4>1. Alive(v)
        BY <2>1, <3>1 DEF Calm, sessions, redis, Alive
      <4>2. CurrentSeen(r, token[stored[v]])
        BY <1>1, <2>4, <4>1, SessionsSeen, KeyFacts DEF HoldsNothing
      <4>3. x.granted
        BY <1>3
      <4> QED
        BY <2>1, <2>2, <4>1, <4>2, <4>3, SeenAfterWrite
    <3> QED
      BY <3>1, <2>3, AloneAtEnd
  <2>5. /\ "grant" \in OpsAt("commit") /\ seen[r] \in SeenAt("commit", "grant")
        /\ seen[r] \in Seen /\ "commit" \in Writing \ {"enroll"}
    BY RequestFacts DEF OpsAt, SeenAt, Writing
  <2> QED
    BY <1>1, <2>1, <2>2, <2>3, <2>4, <2>5, ChangeStep
<1> QED
  BY <1>2, <1>3, <1>4, <1>5 DEF Grant

LEMMA DropStep ==
    ASSUME MembershipInv, NEW r \in Request, Drop(r)
    PROVE  MembershipInv'
<1>1. pc[r] = "drop" /\ Running(r) /\ job[r].op = "drop" /\ HoldsNothing(r)
  BY RequestFacts DEF Drop, Running, Working, OpsAt, Writing
<1>2. PICK k \in Role : k = job[r].role
  BY <1>1, RequestFacts, JobFields
<1>3. PICK x \in RoleRow : x = [granted |-> FALSE]
  BY DEF RoleRow
<1>4. CASE Rejected(r)
  BY <1>1, <1>4, RejectStep
<1>5. CASE Write(r, k, x, "list") /\ Unmoved
  <2>1. WriteRow(r, k, x) /\ Goto(r, "list") /\ job' = job /\ seen' = seen /\ Calm
    BY <1>5 DEF Write, Unmoved, Calm
  <2>2. k \in Key /\ x \in RowType(k) /\ k \notin Indexed /\ k \notin Mapping /\ k \notin Business
    BY KeyFacts, RowTypes DEF Indexed
  <2>3. pc'[r] = "list" /\ seen'[r] = seen[r] /\ job'[r] = job[r]
    BY <2>1, GotoMoves
  <2>4. ~overlapped => Alone(r)'
    <3>1. \A i \in Key : Holds(r, i)' => i = job'[r].role
      BY <1>1, <1>2, <2>1, <2>2, <2>3, WrittenIs DEF HoldsNothing
    <3> QED
      BY <3>1, <2>3 DEF Alone
  <2>5. /\ "drop" \in OpsAt("list") /\ seen[r] \in SeenAt("list", "drop")
        /\ seen[r] \in Seen /\ "list" \in Writing \ {"enroll"}
    BY RequestFacts DEF OpsAt, SeenAt, Writing
  <2> QED
    BY <1>1, <2>1, <2>2, <2>3, <2>4, <2>5, ChangeStep
<1> QED
  BY <1>2, <1>3, <1>4, <1>5 DEF Drop

(* DELETE of one membership: its user is about to be revoked.              *)
LEMMA OneMemberStep ==
    ASSUME MembershipInv, NEW r \in Request, Running(r), HoldsNothing(r),
           pc[r] \in {"reassign", "dismissOne"}, job[r].op \in {"reassign", "remove"},
           seen[r] \in One, NEW m \in Mapping, m = job[r].mapping,
           NEW x \in MappingRow, Write(r, m, x, "revoke"), Unmoved, Fits(r, m, x),
           ASSUME ~overlapped, NEW u \in User, Alive(u), u \notin seen[r].users,
                  u \notin Leavers(r)', CurrentSeen(r, token[stored[u]])
           PROVE  CurrentSeen(r, token[stored[u]])'
    PROVE  MembershipInv'
<1>1. WriteRow(r, m, x) /\ Goto(r, "revoke") /\ job' = job /\ seen' = seen /\ Calm
  BY DEF Write, Unmoved, Calm
<1>2. m \in Key /\ x \in RowType(m) /\ m \in Indexed /\ m \notin Business /\ m \notin Role
  BY KeyFacts, RowTypes DEF Indexed
<1>3. pc'[r] = "revoke" /\ seen'[r] = seen[r]
  BY <1>1, GotoMoves
<1>4. ASSUME ~overlapped PROVE Alone(r)'
  <2>1. ASSUME NEW u \in User, Alive(u)', u \notin seen[r].users, u \notin Leavers(r)'
        PROVE  CurrentSeen(r, token[stored[u]])'
    <3>1. Alive(u)
      BY <1>1, <2>1 DEF Calm, sessions, redis, Alive
    <3>2. CurrentSeen(r, token[stored[u]])
      BY <1>4, <3>1, SessionsSeen, KeyFacts DEF HoldsNothing
    <3> QED
      BY <1>4, <2>1, <3>1, <3>2
  <2> QED
    BY <2>1, <1>3, AloneAtEnd
<1>5. /\ job[r].op \in OpsAt("revoke") /\ seen[r] \in SeenAt("revoke", job[r].op)
      /\ seen[r] \in Seen /\ "revoke" \in Writing \ {"enroll"}
  BY RequestFacts DEF OpsAt, SeenAt, Writing
<1> QED
  BY <1>1, <1>2, <1>3, <1>4, <1>5, ChangeStep

LEMMA PatchedRow ==
    ASSUME NEW to \in PatchBody, NEW row \in MappingRow, NEW now \in MappingRow
    PROVE  /\ Patched(to, row, now) \in MappingRow
           /\ Patched(to, row, now).state = now.state
           /\ Patched(to, row, now).business = Column(to.business, row.business, now.business)
           /\ Patched(to, row, now).user = Column(to.user, row.user, now.user)
           /\ Patched(to, row, now).role = Column(to.role, row.role, now.role)
<1>1. /\ Column(to.business, row.business, now.business) \in Business
      /\ Column(to.user, row.user, now.user) \in User
      /\ Column(to.role, row.role, now.role) \in Role
  BY DEF Column, PatchBody, MappingRow
<1> QED
  BY <1>1 DEF Patched, MappingRow

(* A PATCH leaves a session that it does not revoke current, or moves its  *)
(* membership away.                                                        *)
LEMMA PatchedSeen ==
    ASSUME MembershipInv, NEW r \in Request, HoldsNothing(r), NEW m \in Mapping,
           NEW to \in PatchBody, NEW x \in MappingRow, x = Patched(to, db[m], db[m]),
           WriteRow(r, m, x), Calm,
           NEW u \in User, Alive(u), u \notin LosesSession(to, db[m]), u \notin Leavers(r)',
           CurrentSeen(r, token[stored[u]])
    PROVE  CurrentSeen(r, token[stored[u]])'
<1>1. stored[u] \in Name /\ token[stored[u]] # None /\ token[stored[u]].user = u
  BY InvTypes DEF Alive, RedisOK
<1>2. PICK t \in CustomerToken \cup BusinessToken : t = token[stored[u]]
  BY <1>1, TokenFacts
<1>3. token' = token /\ stored' = stored /\ db' = db
  BY DEF Calm, sessions, redis, WriteRow
<1>4. m \in Key /\ x \in RowType(m) /\ db[m] \in MappingRow
  BY KeyFacts, RowTypes, RowsSeen
<1>5. /\ View(r, m)' = x /\ \A i \in Key \ {m} : View(r, i)' = View(r, i)
      /\ \A i \in Key : View(r, i) = db[i]
  BY <1>4, WrittenIs, NothingSeen
<1>6. ASSUME Live(db[m]), db[m].user = u
      PROVE  x = db[m]
  <2>1. x.state = db[m].state /\ Live(x)
    BY <1>4, <1>6, PatchedRow DEF Live
  <2>2. x.user = db[m].user /\ x.business = db[m].business
    BY <1>3, <1>5, <1>6, <2>1 DEF Leavers, Live
  <2>3. to.user \in {None, db[m].user}
    BY <1>4, <2>2, PatchedRow DEF Column
  <2>4. to.role = None
    BY <1>6, <2>3 DEF LosesSession
  <2>5. x.role = db[m].role
    BY <1>4, <2>4, PatchedRow DEF Column
  <2> QED
    BY <1>4, <2>1, <2>2, <2>5 DEF MappingRow
<1>7. CurrentSeen(r, t)'
  <2> SUFFICES ASSUME t.ctx = "BUSINESS"
               PROVE  \E n \in Mapping :
                        /\ Live(View(r, n)') /\ View(r, n)'.user = t.user
                        /\ View(r, n)'.business = t.business
                        /\ \/ t.owner
                           \/ View(r, n)'.role = t.role /\ (t.privileged => View(r, t.role)'.granted)
    BY DEF CurrentSeen, Live
  <2>1. PICK n \in Mapping :
          /\ Live(View(r, n)) /\ View(r, n).user = t.user /\ View(r, n).business = t.business
          /\ t.owner \/ (View(r, n).role = t.role /\ (t.privileged => View(r, t.role).granted))
    BY <1>2 DEF CurrentSeen
  <2>2. n \in Key /\ t.role \in Key /\ t.role # m
    BY <1>2, KeyFacts DEF CustomerToken, BusinessToken
  <2>3. View(r, n)' = View(r, n)
    BY <1>1, <1>2, <1>5, <1>6, <2>1, <2>2
  <2>4. View(r, t.role)' = View(r, t.role)
    BY <1>5, <2>2
  <2> QED
    BY <2>1, <2>3, <2>4
<1> QED
  BY <1>2, <1>3, <1>7

LEMMA ReassignStep ==
    ASSUME MembershipInv, NEW r \in Request, Reassign(r)
    PROVE  MembershipInv'
<1>1. /\ pc[r] = "reassign" /\ Running(r) /\ job[r].op = "reassign" /\ HoldsNothing(r)
      /\ seen[r] \in One
  BY RequestFacts DEF Reassign, Running, Working, OpsAt, SeenAt, Writing
<1>2. PICK m \in Mapping, to \in PatchBody, row \in MappingRow :
        m = job[r].mapping /\ to = job[r].to /\ row = seen[r].loaded
  BY <1>1, RequestFacts, JobFields DEF One
<1>3. PICK x \in MappingRow : x = Patched(to, row, View(r, m))
  BY RowsSeen, PatchedRow
<1>4. Store(r, m, x, "revoke")
  BY <1>2, <1>3 DEF Reassign
<1>5. CASE Rejected(r)
  BY <1>1, <1>5, RejectStep
<1>6. CASE ~Undecided(r, m, x) /\ ~Taken(r, m, x) /\ Write(r, m, x, "revoke") /\ Unmoved
  <2>1. Fits(r, m, x)
    BY <1>6, StoredFits
  <2>2. ASSUME ~overlapped, NEW u \in User, Alive(u), u \notin seen[r].users,
               u \notin Leavers(r)', CurrentSeen(r, token[stored[u]])
        PROVE  CurrentSeen(r, token[stored[u]])'
    <3>1. row = db[m] /\ seen[r].users = LosesSession(to, db[m])
      BY <1>1, <1>2, <2>2, AloneNow DEF Alone
    <3>2. x = Patched(to, db[m], db[m])
      BY <1>1, <1>3, <3>1, KeyFacts, NothingSeen
    <3>3. WriteRow(r, m, x) /\ Calm
      BY <1>6 DEF Write, Unmoved, Calm
    <3> QED
      BY <1>1, <2>2, <3>1, <3>2, <3>3, PatchedSeen
  <2> QED
    BY <1>1, <1>2, <1>6, <2>1, <2>2, OneMemberStep
<1> QED
  BY <1>4, <1>5, <1>6 DEF Store

LEMMA DismissOneStep ==
    ASSUME MembershipInv, NEW r \in Request, DismissOne(r)
    PROVE  MembershipInv'
<1>1. /\ pc[r] = "dismissOne" /\ Running(r) /\ job[r].op = "remove" /\ HoldsNothing(r)
      /\ seen[r] \in One
  BY RequestFacts DEF DismissOne, Running, Working, OpsAt, SeenAt, Writing
<1>2. PICK m \in Mapping : m = job[r].mapping
  BY <1>1, RequestFacts, JobFields
<1>3. PICK x \in MappingRow : x = [View(r, m) EXCEPT !.state = "deleted"] /\ ~Live(x)
  BY RowsSeen, ChangedRows
<1>4. CASE Rejected(r)
  BY <1>1, <1>4, RejectStep
<1>5. CASE Write(r, m, x, "revoke") /\ Unmoved
  <2>1. WriteRow(r, m, x) /\ Calm /\ m \in Key /\ x \in RowType(m) /\ m \in Indexed /\ m \notin Role
    BY <1>5, KeyFacts, RowTypes DEF Write, Unmoved, Calm, Indexed
  <2>2. Fits(r, m, x)
    BY <1>3, <2>1, WrittenIs, ChangeFits
  <2>3. ASSUME ~overlapped, NEW u \in User, Alive(u), u \notin seen[r].users,
               u \notin Leavers(r)', CurrentSeen(r, token[stored[u]])
        PROVE  CurrentSeen(r, token[stored[u]])'
    <3>1. seen[r].users = {db[m].user} /\ View(r, m) = db[m]
      BY <1>1, <1>2, <2>1, <2>3, AloneNow, NothingSeen DEF Alone
    <3> QED
      BY <2>1, <2>3, <3>1, SeenAfterWrite
  <2> QED
    BY <1>1, <1>2, <1>5, <2>2, <2>3, OneMemberStep
<1> QED
  BY <1>2, <1>3, <1>4, <1>5 DEF DismissOne

LEMMA DismissStep ==
    ASSUME MembershipInv, NEW r \in Request, NEW m \in Mapping, Dismiss(r, m)
    PROVE  MembershipInv'
<1>1. /\ pc[r] = "dismissing" /\ Running(r) /\ job[r].op = "delete" /\ seen[r] \in Listed
      /\ m \in seen[r].todo
  BY RequestFacts DEF Dismiss, Running, Working, OpsAt, SeenAt
<1>2. PICK b \in Business : b = token[job[r].by].business
  BY <1>1, CallerFacts
<1>3. PICK todo \in SUBSET Mapping : todo = seen[r].todo \ {m}
  BY <1>1 DEF Listed
<1>4. PICK label : label = IF seen[r].todo = {m} THEN "revoke" ELSE "dismissing"
  OBVIOUS
<1>5. PICK x \in Listed : x = [seen[r] EXCEPT !.todo = todo] /\ x.users = seen[r].users
  BY <1>1, ListedTodo
<1>6. /\ Goto(r, label) /\ job' = job /\ Calm /\ seen' = [seen EXCEPT ![r] = x]
  BY <1>3, <1>4, <1>5 DEF Dismiss, Keep, Unmoved, Calm
<1>7. /\ seen'[r] = x /\ seen' = [seen EXCEPT ![r] = seen'[r]]
      /\ pc'[r] = label /\ job'[r] = job[r] /\ token' = token
  BY <1>6, InvTypes DEF Goto, Calm, sessions
<1>8. label \in {"revoke", "dismissing"}
  BY <1>4
<1>9. job[r].op \in OpsAt(label) /\ x \in SeenAt(label, job[r].op) /\ x \in Seen
  BY <1>1, <1>8 DEF OpsAt, SeenAt, Seen
<1>10. /\ label \in Label \ {"new", "done", "failed", "enroll"} /\ label \in Writing \ {"enroll"}
       /\ pc[r] \notin {"commit", "enroll"} /\ label # "commit"
  BY <1>1, <1>8 DEF Label, Writing
<1>11. ~overlapped =>
         /\ \A i \in Mapping : Live(db[i]) /\ db[i].business = b => db[i].user \in x.users
         /\ \A i \in Mapping : Holds(r, i) =>
              ~Live(pend[r][i]) /\ Live(db[i]) /\ db[i].user \in x.users
         /\ \A k \in Role : ~Holds(r, k)
  BY <1>1, <1>2, <1>5, AloneNow DEF Alone
<1>12. ASSUME ~overlapped, db' = db,
              \A i \in Mapping : Holds(r, i)' =>
                ~Live(pend'[r][i]) /\ Live(db[i]) /\ db[i].user \in x.users,
              \A k \in Role : ~Holds(r, k)',
              \A u \in User : Alive(u) /\ u \notin x.users => CurrentSeen(r, token[stored[u]])'
       PROVE  Alone(r)'
  <2>1. CASE label = "dismissing"
    <3>1. /\ \A i \in Mapping : Live(db'[i]) /\ db'[i].business = token'[job'[r].by].business
                                  => db'[i].user \in seen'[r].users
          /\ \A i \in Mapping : Holds(r, i)' =>
               ~Live(pend'[r][i]) /\ Live(db'[i]) /\ db'[i].user \in seen'[r].users
      BY <1>2, <1>7, <1>11, <1>12
    <3> QED
      BY <3>1, <1>7, <1>12, <2>1 DEF Alone, Live
  <2>2. CASE label = "revoke"
    <3>1. ASSUME NEW u \in User, Alive(u)', u \notin x.users
          PROVE  CurrentSeen(r, token[stored[u]])'
      <4>1. Alive(u)
        BY <1>6, <3>1 DEF Calm, sessions, redis, Alive
      <4> QED
        BY <3>1, <4>1, <1>12
    <3> QED
      BY <3>1, <2>2, <1>7, AloneAtEnd
  <2> QED
    BY <2>1, <2>2, <1>8
<1>13. CASE UNCHANGED <<db, pend>>
  <2>1. ~overlapped => Alone(r)'
    <3> SUFFICES ASSUME ~overlapped PROVE Alone(r)'
      OBVIOUS
    <3>1. ASSUME NEW u \in User, Alive(u), u \notin x.users
          PROVE  CurrentSeen(r, token[stored[u]])'
      <4>1. CurrentSeen(r, token[stored[u]])
        BY <1>1, <1>11, <3>1, SpareSessions
      <4> QED
        BY <4>1, <1>6, <1>13, SeenStays
    <3>2. /\ db' = db
          /\ \A i \in Mapping : Holds(r, i)' =>
               ~Live(pend'[r][i]) /\ Live(db[i]) /\ db[i].user \in x.users
          /\ \A k \in Role : ~Holds(r, k)'
      BY <1>11, <1>13, SameView
    <3> QED
      BY <3>1, <3>2, <1>12
  <2> QED
    BY <1>1, <1>6, <1>7, <1>9, <1>10, <1>13, <2>1, LookStep
<1>14. CASE m \in MembersOf(r, b) /\ WriteRow(r, m, [View(r, m) EXCEPT !.state = "deleted"])
  <2>1. PICK y \in MappingRow : y = [View(r, m) EXCEPT !.state = "deleted"] /\ ~Live(y)
    BY RowsSeen, ChangedRows
  <2>2. WriteRow(r, m, y)
    BY <1>14, <2>1
  <2>3. m \in Key /\ y \in RowType(m) /\ m \in Indexed /\ m \notin Business /\ m \notin Role
    BY KeyFacts, RowTypes DEF Indexed
  <2>4. Fits(r, m, y)
    BY <2>1, <2>2, <2>3, WrittenIs, ChangeFits
  <2>5. ~overlapped => Alone(r)'
    <3> SUFFICES ASSUME ~overlapped PROVE Alone(r)'
      OBVIOUS
    <3>1. Live(db[m]) /\ db[m].user \in x.users /\ View(r, m) = db[m]
      <4>1. Live(View(r, m)) /\ View(r, m).business = b
        BY <1>14 DEF MembersOf
      <4>2. ~Holds(r, m)
        BY <4>1, <2>3, <1>11, HeldTypes
      <4>3. View(r, m) = db[m]
        BY <4>2, <2>3, HeldTypes
      <4> QED
        BY <4>1, <4>3, <1>11
    <3>2. ASSUME NEW u \in User, Alive(u), u \notin x.users
          PROVE  CurrentSeen(r, token[stored[u]])'
      <4>1. CurrentSeen(r, token[stored[u]])
        BY <1>1, <1>11, <3>2, SpareSessions
      <4>2. View(r, m).user # u
        BY <3>1, <3>2
      <4> QED
        BY <4>1, <4>2, <1>6, <2>2, <2>3, <3>2, SeenAfterWrite
    <3>3. /\ db' = db
          /\ \A i \in Mapping : Holds(r, i)' =>
               ~Live(pend'[r][i]) /\ Live(db[i]) /\ db[i].user \in x.users
          /\ \A k \in Role : ~Holds(r, k)'
      BY <1>11, <2>1, <2>2, <2>3, <3>1, WrittenIs, KeyFacts
    <3> QED
      BY <3>2, <3>3, <1>12
  <2> QED
    BY <1>1, <1>6, <1>7, <1>9, <1>10, <2>1, <2>2, <2>3, <2>4, <2>5, ChangeStep
<1> QED
  BY <1>2, <1>13, <1>14 DEF Dismiss

-----------------------------------------------------------------------------
(* Revocations.                                                            *)

LEMMA SameLeavers ==
    ASSUME NEW r, UNCHANGED <<db, pend>>
    PROVE  Leavers(r)' = Leavers(r)
BY DEF Leavers, View, Live

LEMMA RevokeSessionStep ==
    ASSUME MembershipInv, NEW r \in Request, NEW u \in User, RevokeSession(r, u)
    PROVE  MembershipInv'
<1>1. /\ pc[r] = "revoke" /\ Running(r) /\ job[r].op \in OpsAt("revoke")
      /\ seen[r] \in SeenAt("revoke", job[r].op)
  BY RequestFacts DEF RevokeSession, Running, Working
<1>2. PICK users \in SUBSET User : users = seen[r].users \ {u}
  BY <1>1 DEF SeenAt, Listed, Holders, One
<1>3. PICK x \in SeenAt("revoke", job[r].op) :
        x = [seen[r] EXCEPT !.users = users] /\ x.users = users
  <2>1. CASE job[r].op = "delete"
    <3>1. seen[r] \in Listed
      BY <1>1, <2>1 DEF SeenAt
    <3>2. [seen[r] EXCEPT !.users = users] \in Listed /\ [seen[r] EXCEPT !.users = users].users = users
      BY <3>1 DEF Listed
    <3> QED
      BY <2>1, <3>2 DEF SeenAt
  <2>2. CASE job[r].op = "drop"
    <3>1. seen[r] \in Holders
      BY <1>1, <2>2 DEF SeenAt
    <3>2. [seen[r] EXCEPT !.users = users] \in Holders /\ [seen[r] EXCEPT !.users = users].users = users
      BY <3>1 DEF Holders
    <3> QED
      BY <2>2, <3>2 DEF SeenAt
  <2>3. CASE job[r].op \notin {"delete", "drop"}
    <3>1. seen[r] \in One
      BY <1>1, <2>3 DEF SeenAt
    <3>2. [seen[r] EXCEPT !.users = users] \in One /\ [seen[r] EXCEPT !.users = users].users = users
      BY <3>1 DEF One
    <3> QED
      BY <2>3, <3>2 DEF SeenAt
  <2> QED
    BY <2>1, <2>2, <2>3
<1>4. /\ revoked' = revoked \cup ({stored[u]} \ {None})
      /\ seen' = [seen EXCEPT ![r] = x]
      /\ UNCHANGED <<db, pend, pc, job, token, stored, overlapped, left>>
  BY <1>2, <1>3 DEF RevokeSession, ToRevoke, Keep
<1>5. seen'[r] = x /\ seen' = [seen EXCEPT ![r] = seen'[r]] /\ x \in Seen
  BY <1>1, <1>3, <1>4, InvTypes DEF SeenAt, Seen
<1>6. RedisOK'
  BY <1>4, InvTypes DEF RedisOK
<1>7. OnlyMoves(r)
  BY <1>4, <1>5, <1>6, InvTypes DEF OnlyMoves, RedisOK
<1>8. Mine(r)'
  <2>1. Working(r)'
    BY <1>1, <1>3, <1>4, <1>5, RequestFacts, SameView DEF Working, Running, Writing
  <2>2. Founding(r)'
    <3>1. \A b \in Business : Holds(r, b) /\ Live(pend[r][b]) => Live(db[b])
      BY <1>1, RequestFacts DEF Founding
    <3>2. \A b \in Business : Holds(r, b)' /\ Live(pend'[r][b]) => Live(db'[b])
      BY <3>1, <1>4, SameView
    <3> QED
      BY <1>1, <1>4, <3>2 DEF Founding, Live
  <2> QED
    BY <2>1, <2>2, <1>4, <1>5, InvTypes, RequestFacts DEF Mine
<1>9. \A v \in User : Alive(v)' => Alive(v) /\ v # u
  BY <1>4 DEF Alive
<1>10. ~overlapped => \A v \in User : Alive(v)' => Current(token[stored[v]])'
  <2>1. ~overlapped => \A v \in User : Alive(v) => Current(token[stored[v]])
    BY <1>1, AloneNow
  <2>2. \A v : Current(token[stored[v]]) => Current(token[stored[v]])'
    BY <1>4 DEF Current, MemberOf, Live
  <2> QED
    BY <2>1, <2>2, <1>9
<1>11. ASSUME ~overlapped PROVE Alone(r)'
  <2>1. ASSUME NEW v \in User, Alive(v)', v \notin Leavers(r)', v \notin x.users
        PROVE  CurrentSeen(r, token[stored[v]])'
    <3>1. Alive(v) /\ v \notin seen[r].users /\ v \notin Leavers(r)
      BY <2>1, <1>2, <1>3, <1>4, <1>9, SameLeavers
    <3>2. CurrentSeen(r, token[stored[v]])
      BY <1>1, <1>11, <3>1, AloneNow DEF Alone
    <3> QED
      BY <3>2, <1>4, SameView DEF CurrentSeen, Live
  <2>2. pc'[r] = "revoke"
    BY <1>1, <1>4
  <2> QED
    BY <2>1, <2>2, <1>5, AloneAtEnd
<1> QED
  BY <1>1, <1>4, <1>7, <1>8, <1>10, <1>11, ReadStep

LEMMA AfterRevokingStep ==
    ASSUME MembershipInv, NEW r \in Request, AfterRevoking(r)
    PROVE  MembershipInv'
<1>1. /\ pc[r] = "revoke" /\ Running(r) /\ job[r].op \in OpsAt("revoke")
      /\ seen[r] \in SeenAt("revoke", job[r].op) /\ seen[r].users = {}
  BY RequestFacts DEF AfterRevoking, Running, Working
<1>2. Goto(r, "commit") /\ UNCHANGED <<db, pend, job, seen, overlapped, left>>
  BY DEF AfterRevoking, Continue
<1>3. pc'[r] = "commit" /\ pc' = [pc EXCEPT ![r] = pc'[r]]
  BY <1>2, InvTypes DEF Goto
<1>4. /\ ~overlapped => \A u \in User : Alive(u) /\ u \notin Leavers(r)
                                            => CurrentSeen(r, token[stored[u]])
      /\ Leavers(r)' = Leavers(r)
  BY <1>1, <1>2, AloneNow, SameLeavers DEF Alone
<1>5. /\ job[r].op \in OpsAt("commit") /\ job[r].op # "create" /\ seen[r] \in Seen
      /\ seen[r] \in SeenAt("commit", job[r].op)
      /\ "commit" \in Label \ {"new", "done", "failed", "enroll"} /\ "commit" \in Writing
  BY <1>1, RequestFacts DEF OpsAt, SeenAt, Label, Writing
<1>6. CASE job[r].op = "delete"
  <2>1. seen[r] \in Listed
    BY <1>1, <1>6 DEF SeenAt
  <2>2. PICK owner \in User : owner = seen[r].owner
    BY <2>1 DEF Listed
  <2>3. PICK t \in CustomerToken \cup BusinessToken : t = [ctx |-> "CUSTOMER", user |-> owner]
    BY DEF CustomerToken
  <2>4. token[r] = None /\ job[r].by \in Name
    BY <1>1, <1>6, RequestFacts, CallerFacts DEF Working, Running
  <2>5. /\ revoked' = revoked \cup {job[r].by}
        /\ Issued(r, t)
    BY <1>6, <2>2, <2>3 DEF AfterRevoking, Holder, Issued
  <2>6. revoked' \in SUBSET Name
    BY <2>4, <2>5, InvTypes DEF RedisOK
  <2>7. /\ RedisOK' /\ token' = [token EXCEPT ![r] = token'[r]]
        /\ stored'[t.user] = r /\ token'[r] = t
        /\ \A u \in User : u # t.user /\ stored[u] # None =>
              stored'[u] = stored[u] /\ token'[stored[u]] = token[stored[u]]
        /\ \A u \in User : u # t.user => stored'[u] = stored[u]
    BY <1>2, <2>4, <2>5, <2>6, IssueTypes
  <2>8. OnlyMoves(r)
    BY <1>2, <1>3, <2>4, <2>7, InvTypes DEF OnlyMoves
  <2>9. job'[r] = job[r] /\ seen'[r] = seen[r] /\ token'[job[r].by] = token[job[r].by]
    BY <1>1, <1>2, <1>6, <2>8, CallerFacts, TokensStay
  <2>10. Working(r)'
    <3>1. Working(r)
      BY RequestFacts
    <3>2. job'[r].op = "delete" /\ token'[job'[r].by] # None /\ token'[job'[r].by].ctx = "BUSINESS"
      BY <3>1, <1>6, <2>9 DEF Working
    <3>3. job'[r].op \in OpsAt(pc'[r]) /\ seen'[r] \in SeenAt(pc'[r], job'[r].op) /\ pc'[r] \in Writing
      BY <1>3, <1>5, <2>9
    <3> QED
      BY <3>2, <3>3, <1>3 DEF Working
  <2>11. Founding(r)'
    <3>1. \A b \in Business : Holds(r, b) /\ Live(pend[r][b]) => Live(db[b])
      BY <1>1, RequestFacts DEF Founding
    <3>2. \A b \in Business : Holds(r, b)' /\ Live(pend'[r][b]) => Live(db'[b])
      BY <3>1, <1>2, SameView
    <3> QED
      BY <1>6, <2>9, <3>2 DEF Founding, Live
  <2>12. Mine(r)'
    BY <1>2, <1>3, <1>5, <2>9, <2>10, <2>11, InvTypes, RequestFacts DEF Mine
  <2>13. ASSUME NEW u \in User, Alive(u)', u # t.user
         PROVE  Alive(u) /\ stored'[u] = stored[u] /\ token'[stored'[u]] = token[stored[u]]
    <3>1. stored'[u] = stored[u] /\ stored[u] # None
      BY <2>7, <2>13 DEF Alive
    <3> QED
      BY <3>1, <1>2, <2>5, <2>7, <2>13 DEF Alive
  <2>14. Current(t)' /\ CurrentSeen(r, t)'
    BY <2>3 DEF Current, CurrentSeen
  <2>15. ASSUME ~overlapped, NEW u \in User, Alive(u)'
         PROVE  /\ Current(token[stored[u]])'
                /\ u \notin Leavers(r)' => CurrentSeen(r, token[stored[u]])'
    <3>1. CASE u = t.user
      <4>1. token'[stored'[u]] = t
        BY <3>1, <2>7
      <4> QED
        BY <4>1, <2>14
    <3>2. CASE u # t.user
      <4>1. Alive(u) /\ token'[stored'[u]] = token[stored[u]]
        BY <3>2, <2>13, <2>15
      <4>2. PICK s : s = token[stored[u]]
        OBVIOUS
      <4>3. Current(s) /\ (u \notin Leavers(r) => CurrentSeen(r, s))
        BY <1>1, <1>4, <2>15, <4>1, <4>2, AloneNow
      <4>4. Current(s)'
        BY <4>3, <1>2, SameView DEF Current
      <4>5. u \notin Leavers(r)' => CurrentSeen(r, s)'
        BY <4>3, <1>2, <1>4, SameView DEF CurrentSeen, Live
      <4> QED
        BY <4>1, <4>2, <4>4, <4>5
    <3> QED
      BY <3>1, <3>2
  <2>16. ~overlapped => Alone(r)'
    BY <2>15, <1>3, AloneAtEnd
  <2> QED
    BY <1>1, <1>2, <2>8, <2>12, <2>15, <2>16, ReadStep
<1>7. CASE job[r].op # "delete"
  <2>1. Calm
    BY <1>2, <1>7 DEF AfterRevoking, Calm
  <2>2. ASSUME ~overlapped PROVE Alone(r)'
    <3>1. ASSUME NEW u \in User, Alive(u)', u \notin Leavers(r)'
          PROVE  CurrentSeen(r, token[stored[u]])'
      <4>1. Alive(u)
        BY <2>1, <3>1 DEF Calm, sessions, redis, Alive
      <4>2. CurrentSeen(r, token[stored[u]])
        BY <4>1, <3>1, <2>2, <1>4
      <4> QED
        BY <4>2, <2>1, <1>2, SeenStays
    <3> QED
      BY <3>1, <1>3, AloneAtEnd
  <2>3. seen'[r] = seen[r] /\ pc[r] \notin {"commit", "enroll"}
    BY <1>1, <1>2
  <2> QED
    BY <1>1, <1>2, <1>5, <2>1, <2>2, <2>3, LookStep
<1> QED
  BY <1>6, <1>7

-----------------------------------------------------------------------------
(* A request begins.                                                       *)

LEMMA BeginStep ==
    ASSUME MembershipInv, NEW r \in Request, pc[r] = "new", NEW j \in Job,
           NEW label \in {"issue", "member", "exists", "business", "enroll", "mapping", "role"},
           job' = [job EXCEPT ![r] = j], Goto(r, label), UNCHANGED <<db, pend, seen>>,
           overlapped' = (overlapped \/ \E s \in Request : Running(s)), UNCHANGED <<sessions, left>>,
           j.op \in OpsAt(label), label = "enroll" => j.op = "add",
           j.op \in {"toCustomer", "toBusiness", "create"} => token[j.by] # None,
           j.op \in {"handOver", "delete"} => token[j.by] # None /\ token[j.by].ctx = "BUSINESS"
    PROVE  MembershipInv'
<1>1. /\ pc'[r] = label /\ job'[r] = j /\ seen'[r] = seen[r]
      /\ pc' = [pc EXCEPT ![r] = pc'[r]] /\ job' = [job EXCEPT ![r] = job'[r]]
      /\ token' = token
  BY InvTypes DEF Goto, sessions
<1>2. RedisOK'
  BY InvTypes DEF RedisOK, sessions, redis
<1>3. OnlyMoves(r)
  BY <1>1, <1>2, InvTypes DEF OnlyMoves, RedisOK
<1>4. HoldsNothing(r) /\ token[r] = None
  BY RequestFacts DEF Working, Writing
<1>5. HoldsNothing(r)'
  BY <1>4, SameView
<1>6. label \in Label /\ Running(r)' /\ seen[r] \in SeenAt(label, j.op)
  BY <1>1, RequestFacts DEF Label, Running, SeenAt
<1>7. Working(r)'
  BY <1>1, <1>4, <1>5, <1>6 DEF Working
<1>8. Founding(r)'
  BY <1>1, <1>5, KeyFacts DEF Founding, HoldsNothing
<1>9. Mine(r)'
  BY <1>1, <1>6, <1>7, <1>8, InvTypes, RequestFacts DEF Mine
<1>10. \A s \in Request : Mine(s)'
  BY <1>3, <1>9, OthersKeep
<1>11. RowLocksExclusive' /\ Exclusive'
  BY ExclusiveStays
<1>12. /\ pend' = [pend EXCEPT ![r] = pend'[r]] /\ db' \in [Key -> AnyRow]
       /\ \A i \in Key : db'[i] \in RowType(i)
  BY InvTypes
<1>13. ASSUME ~overlapped' PROVE Sequence'
  <2>1. ~overlapped /\ Calm /\ \A s \in Request : ~Running(s)
    BY <1>13, InvTypes DEF Calm
  <2>2. \A u \in User : Alive(u)' => Current(token[stored[u]])'
    BY <2>1, CalmSessions
  <2>3. \A s \in Request \ {r} : pc'[s] = pc[s]
    BY <1>1, InvTypes
  <2>4. \A s \in Request : Running(s)' => s = r
    BY <2>1, <2>3 DEF Running
  <2>5. Alone(r)'
    BY <1>1, <1>5, KeyFacts DEF Alone, HoldsNothing
  <2> QED
    BY <2>2, <2>4, <2>5 DEF Sequence
<1> QED
  BY <1>3, <1>10, <1>11, <1>12, <1>13, Together

LEMMA ArriveStep ==
    ASSUME MembershipInv, NEW r \in Request, Arrive(r)
    PROVE  MembershipInv'
<1>1. ASSUME NEW Jobs \in SUBSET Job,
             NEW label \in {"issue", "member", "exists", "business", "enroll", "mapping", "role"},
             ArriveAt(r, Jobs, label), label = "enroll" => \A j \in Jobs : j.op = "add",
             \A j \in Jobs :
               /\ j.op \in OpsAt(label)
               /\ j.op \in {"toCustomer", "toBusiness", "create"} => token[j.by] # None
               /\ j.op \in {"handOver", "delete"} =>
                    token[j.by] # None /\ token[j.by].ctx = "BUSINESS"
      PROVE  MembershipInv'
  <2>1. PICK j \in Jobs : job' = [job EXCEPT ![r] = j]
    BY <1>1 DEF ArriveAt, Begin, Called
  <2>2. /\ pc[r] = "new" /\ Goto(r, label) /\ UNCHANGED <<db, pend, seen>>
        /\ UNCHANGED <<sessions, left>>
        /\ overlapped' = (overlapped \/ \E s \in Request : Running(s))
    BY <1>1 DEF ArriveAt, Begin
  <2>3. j \in Job
    OBVIOUS
  <2> QED
    BY <1>1, <2>1, <2>2, <2>3, BeginStep
<1>2. \A n : /\ Member(n) \/ Customer(n) \/ Proprietor(n) => token[n] # None
             /\ Member(n) \/ Proprietor(n) => token[n].ctx = "BUSINESS"
  BY DEF Member, Customer, Proprietor, Valid
<1>3. CASE ArriveAt(r, LoginJob \cup {j \in ToCustomerJob : Member(j.by)}, "issue")
  <2> DEFINE Jobs == LoginJob \cup {j \in ToCustomerJob : Member(j.by)}
  <2>1. Jobs \in SUBSET Job
    BY DEF Job
  <2>2. \A j \in Jobs : j.op \in {"login", "toCustomer"} /\ (j.op = "toCustomer" => token[j.by] # None)
    BY <1>2 DEF LoginJob, ToCustomerJob
  <2> HIDE DEF Jobs
  <2>3. ArriveAt(r, Jobs, "issue")
    BY <1>3 DEF Jobs
  <2> QED
    BY <1>1, <2>1, <2>2, <2>3 DEF OpsAt
<1>4. CASE ArriveAt(r, {j \in ToBusinessJob : MaySwitch(j)}, "member")
  <2> DEFINE Jobs == {j \in ToBusinessJob : MaySwitch(j)}
  <2>1. Jobs \in SUBSET Job
    BY DEF Job
  <2>2. \A j \in Jobs : j.op = "toBusiness" /\ token[j.by] # None
    BY <1>2 DEF ToBusinessJob, MaySwitch
  <2> HIDE DEF Jobs
  <2>3. ArriveAt(r, Jobs, "member")
    BY <1>4 DEF Jobs
  <2> QED
    BY <1>1, <2>1, <2>2, <2>3 DEF OpsAt
<1>5. CASE ArriveAt(r, {j \in CreateJob : Customer(j.by)}, "exists")
  <2> DEFINE Jobs == {j \in CreateJob : Customer(j.by)}
  <2>1. Jobs \in SUBSET Job
    BY DEF Job
  <2>2. \A j \in Jobs : j.op = "create" /\ token[j.by] # None
    BY <1>2 DEF CreateJob
  <2> HIDE DEF Jobs
  <2>3. ArriveAt(r, Jobs, "exists")
    BY <1>5 DEF Jobs
  <2> QED
    BY <1>1, <2>1, <2>2, <2>3 DEF OpsAt
<1>6. CASE ArriveAt(r, {j \in HandOverJob \cup DeleteJob : Proprietor(j.by)}, "business")
  <2> DEFINE Jobs == {j \in HandOverJob \cup DeleteJob : Proprietor(j.by)}
  <2>1. Jobs \in SUBSET Job
    BY DEF Job
  <2>2. \A j \in Jobs : /\ j.op \in {"handOver", "delete"}
                        /\ token[j.by] # None /\ token[j.by].ctx = "BUSINESS"
    BY <1>2 DEF HandOverJob, DeleteJob
  <2> HIDE DEF Jobs
  <2>3. ArriveAt(r, Jobs, "business")
    BY <1>6 DEF Jobs
  <2> QED
    BY <1>1, <2>1, <2>2, <2>3 DEF OpsAt
<1>7. CASE ArriveAt(r, {j \in AddJob : Privileged(j.by)}, "enroll")
  <2> DEFINE Jobs == {j \in AddJob : Privileged(j.by)}
  <2>1. Jobs \in SUBSET Job
    BY DEF Job
  <2>2. \A j \in Jobs : j.op = "add"
    BY DEF AddJob
  <2> HIDE DEF Jobs
  <2>3. ArriveAt(r, Jobs, "enroll")
    BY <1>7 DEF Jobs
  <2> QED
    BY <1>1, <2>1, <2>2, <2>3 DEF OpsAt
<1>8. CASE ArriveAt(r, {j \in ReassignJob \cup RemoveJob : Privileged(j.by)}, "mapping")
  <2> DEFINE Jobs == {j \in ReassignJob \cup RemoveJob : Privileged(j.by)}
  <2>1. Jobs \in SUBSET Job
    BY DEF Job
  <2>2. \A j \in Jobs : j.op \in {"reassign", "remove"}
    BY DEF ReassignJob, RemoveJob
  <2> HIDE DEF Jobs
  <2>3. ArriveAt(r, Jobs, "mapping")
    BY <1>8 DEF Jobs
  <2> QED
    BY <1>1, <2>1, <2>2, <2>3 DEF OpsAt
<1>9. CASE ArriveAt(r, DropJob \cup GrantJob, "role")
  <2> DEFINE Jobs == DropJob \cup GrantJob
  <2>1. Jobs \in SUBSET Job
    BY DEF Job
  <2>2. \A j \in Jobs : j.op \in {"drop", "grant"}
    BY DEF DropJob, GrantJob
  <2> HIDE DEF Jobs
  <2>3. ArriveAt(r, Jobs, "role")
    BY <1>9 DEF Jobs
  <2> QED
    BY <1>1, <2>1, <2>2, <2>3 DEF OpsAt
<1> QED
  BY <1>3, <1>4, <1>5, <1>6, <1>7, <1>8, <1>9 DEF Arrive

-----------------------------------------------------------------------------
(* The start.                                                              *)

LEMMA RowAtStart ==
    ASSUME Init
    PROVE  /\ DOMAIN db = Key /\ \A k \in Key : db[k] = InitialRow(k) /\ db[k] \in RowType(k)
           /\ \A u \in Staff : MappingOf[u] \in Mapping /\ RoleAtStart(u) \in Role
           /\ \A u \in Staff : db[MappingOf[u]] = [state |-> "live", business |-> Home, user |-> u,
                                                   role |-> RoleAtStart(u)]
           /\ \A m \in Mapping : Live(db[m]) => \E u \in Staff : MappingOf[u] = m
           /\ \A b \in Business : Live(db[b]) <=> b = Home
           /\ \A k \in Role : db[k].granted
<1>1. DOMAIN db = Key /\ \A k \in Key : db[k] = InitialRow(k)
  BY DEF Init, Key
<1>2. \A u \in Staff : u \in User /\ MappingOf[u] \in Mapping /\ RoleAtStart(u) \in Role
  BY MembershipAssumption DEF Staff, RoleAtStart
<1>3. \A u, v \in Staff : MappingOf[u] = MappingOf[v] => u = v
  BY MembershipAssumption DEF Staff
<1>4. ASSUME NEW u \in Staff
      PROVE  InitialRow(MappingOf[u]) = [state |-> "live", business |-> Home, user |-> u,
                                         role |-> RoleAtStart(u)]
  <2>1. MappingOf[u] \notin Business /\ MappingOf[u] \notin Role
    BY <1>2, KeyFacts
  <2>2. (CHOOSE v \in Staff : MappingOf[v] = MappingOf[u]) = u
    BY <1>3
  <2> QED
    BY <2>1, <2>2 DEF InitialRow
<1>5. ASSUME NEW m \in Mapping, ~\E u \in Staff : MappingOf[u] = m
      PROVE  InitialRow(m) = [state |-> "none", business |-> Home, user |-> Owner, role |-> OwnerRole]
  <2>1. m \notin Business /\ m \notin Role
    BY KeyFacts
  <2> QED
    BY <2>1, <1>5 DEF InitialRow
<1>6. \A b \in Business : InitialRow(b) = [state |-> IF b = Home THEN "live" ELSE "none",
                                           owner |-> Owner]
  BY DEF InitialRow
<1>7. \A k \in Role : InitialRow(k) = [granted |-> TRUE]
  BY KeyFacts DEF InitialRow
<1>8. \A k \in Role : InitialRow(k) \in RoleRow
  <2>1. [granted |-> TRUE] \in RoleRow
    BY DEF RoleRow
  <2> QED
    BY <2>1, <1>7
<1>9. \A b \in Business : InitialRow(b) \in BusinessRow
  BY <1>6, MembershipAssumption DEF BusinessRow
<1>10. \A m \in Mapping : InitialRow(m) \in MappingRow
  <2> TAKE m \in Mapping
  <2>1. CASE \E u \in Staff : MappingOf[u] = m
    <3>1. PICK u \in Staff : MappingOf[u] = m
      BY <2>1
    <3>2. PICK role \in Role : role = RoleAtStart(u)
      BY <1>2
    <3>3. InitialRow(m) = [state |-> "live", business |-> Home, user |-> u, role |-> role]
      BY <3>1, <3>2, <1>4
    <3>4. u \in User /\ Home \in Business
      BY <1>2, MembershipAssumption
    <3> QED
      BY <3>3, <3>4 DEF MappingRow
  <2>2. CASE ~\E u \in Staff : MappingOf[u] = m
    BY <2>2, <1>5, MembershipAssumption DEF MappingRow
  <2> QED
    BY <2>1, <2>2
<1>11. \A k \in Key : InitialRow(k) \in RowType(k)
  BY <1>8, <1>9, <1>10, RowTypes DEF Key
<1>12. \A u \in Staff : db[MappingOf[u]] = [state |-> "live", business |-> Home, user |-> u,
                                            role |-> RoleAtStart(u)]
  BY <1>1, <1>2, <1>4, KeyFacts
<1>13. \A m \in Mapping : Live(db[m]) => \E u \in Staff : MappingOf[u] = m
  BY <1>1, <1>5, KeyFacts DEF Live
<1>14. \A b \in Business : Live(db[b]) <=> b = Home
  BY <1>1, <1>6, KeyFacts DEF Live
<1>15. \A k \in Role : db[k].granted
  <2> TAKE k \in Role
  <2>1. db[k] = [granted |-> TRUE]
    BY <1>1, <1>7, KeyFacts
  <2> QED
    BY <2>1
<1> QED
  BY <1>1, <1>2, <1>11, <1>12, <1>13, <1>14, <1>15

LEMMA NothingAtStart ==
    ASSUME Init
    PROVE  \A r \in Request :
             /\ pend[r] = [k \in Key |-> None] /\ HoldsNothing(r) /\ \A k \in Key : ~Holds(r, k)
             /\ pc[r] = "new" /\ job[r] = NoJob /\ seen[r] = None /\ ~Running(r)
<1> TAKE r \in Request
<1>1. /\ pend[r] = [k \in Key |-> None]
      /\ pc[r] = "new" /\ job[r] = NoJob /\ seen[r] = None
  BY RowAtStart DEF Init, HandlersInit, NoWrites, Row
<1>2. \A k \in Key : ~Holds(r, k)
  BY <1>1 DEF Holds
<1> QED
  BY <1>1, <1>2 DEF HoldsNothing, Running

LEMMA SessionsAtStart ==
    ASSUME Init
    PROVE  /\ RedisOK
           /\ \A u \in User : Alive(u) => u \in Staff /\ token[stored[u]] = StaffToken(u, RoleAtStart(u))
           /\ \A r \in Request : token[r] = None
<1>1. /\ token = [n \in Name |-> IF n \in Staff THEN StaffToken(n, RoleAtStart(n)) ELSE None]
      /\ stored = [u \in User |-> IF u \in Staff THEN u ELSE None]
      /\ revoked = {} /\ left = {}
  BY DEF Init
<1>2. \A u \in Staff : u \in User /\ u \in Name
  BY MembershipAssumption, KeyFacts DEF Staff
<1>3. \A u \in Staff : StaffToken(u, RoleAtStart(u)) \in BusinessToken
  BY <1>2, RowAtStart, MembershipAssumption DEF StaffToken, BusinessToken
<1>4. /\ token \in [Name -> CustomerToken \cup BusinessToken \cup {None}]
      /\ stored \in [User -> Name \cup {None}] /\ revoked \in SUBSET Name
  BY <1>1, <1>2, <1>3
<1>5. \A u \in User : stored[u] # None =>
         u \in Staff /\ stored[u] = u /\ token[stored[u]] = StaffToken(u, RoleAtStart(u))
  BY <1>1, <1>2
<1>6. \A u \in User : stored[u] # None => token[stored[u]] # None /\ token[stored[u]].user = u
  <2> TAKE u \in User
  <2> HAVE stored[u] # None
  <2>1. u \in Staff /\ token[stored[u]] = StaffToken(u, RoleAtStart(u))
    BY <1>5
  <2>2. token[stored[u]] # None
    BY <2>1, <1>3, NoneIsNoToken
  <2> QED
    BY <2>1, <2>2 DEF StaffToken
<1>7. \A r \in Request : token[r] = None
  BY <1>1, <1>2, KeyFacts
<1> QED
  BY <1>1, <1>4, <1>5, <1>6, <1>7 DEF RedisOK, Alive

LEMMA InitInv == Init => MembershipInv
<1> SUFFICES ASSUME Init PROVE MembershipInv
  OBVIOUS
<1>1. /\ pend \in [Request -> [Key -> AnyRow \cup {None}]]
      /\ pc \in [Request -> Label] /\ job \in [Request -> Job] /\ seen \in [Request -> Seen]
      /\ overlapped = FALSE
  BY RowAtStart DEF Init, HandlersInit, NoWrites, Row, Label, Job, Seen
<1>2. db \in [Key -> AnyRow]
  <2>1. \A k \in Key : db[k] \in AnyRow
    BY RowAtStart, RowTypes
  <2> QED
    BY <2>1 DEF Init, Key
<1>3. Types
  <2>1. TypeOK
    BY <1>1, <1>2, RowAtStart, NothingAtStart, SessionsAtStart
       DEF TypeOK, RedisOK, Key, AnyRow, RowType
  <2>2. \A r \in Request, k \in Key : pend[r][k] \in RowType(k) \cup {None}
    BY NothingAtStart
  <2> QED
    BY <2>1, <2>2, <1>1 DEF Types
<1>4. RowLocksExclusive
  BY RowAtStart, NothingAtStart DEF RowLocksExclusive, Row
<1>5. Exclusive
  <2>1. ASSUME NEW k \in Indexed, NEW o \in Table(k) \ {k}
        PROVE  ~Conflict(k, db[k], db[o])
    <3>1. CASE k \in Business
      BY <3>1, <2>1, RowAtStart DEF Conflict, Table
    <3>2. CASE k \in Mapping
      <4>1. k \notin Business /\ o \in Mapping /\ o # k
        BY <2>1, <3>2, KeyFacts DEF Table
      <4>2. ASSUME Live(db[k]), Live(db[o]) PROVE db[k].user # db[o].user
        <5>1. PICK u \in Staff : MappingOf[u] = k
          BY <4>2, <3>2, RowAtStart
        <5>2. PICK v \in Staff : MappingOf[v] = o
          BY <4>1, <4>2, RowAtStart
        <5>3. /\ db[k] = [state |-> "live", business |-> Home, user |-> u, role |-> RoleAtStart(u)]
              /\ db[o] = [state |-> "live", business |-> Home, user |-> v, role |-> RoleAtStart(v)]
          BY <5>1, <5>2, RowAtStart
        <5>4. u # v
          BY <5>1, <5>2, <4>1
        <5> QED
          BY <5>3, <5>4
      <4> QED
        BY <4>1, <4>2 DEF Conflict
    <3> QED
      BY <3>1, <3>2 DEF Indexed
  <2>2. \A r \in Request, k \in Indexed : ~Holds(r, k)
    BY NothingAtStart, KeyFacts
  <2> QED
    BY <2>1, <2>2 DEF Exclusive
<1>6. ASSUME NEW r \in Request PROVE Working(r) /\ Founding(r)
  <2>1. /\ pc[r] = "new" /\ job[r] = NoJob /\ seen[r] = None /\ ~Running(r)
        /\ HoldsNothing(r) /\ \A k \in Key : ~Holds(r, k)
    BY NothingAtStart
  <2>2. Working(r)
    BY <2>1, SessionsAtStart DEF Working, Writing, NoJob, SeenAt, Seen
  <2>3. Founding(r)
    BY <2>1, KeyFacts DEF Founding, NoJob
  <2> QED
    BY <2>2, <2>3
<1>7. Sequence
  <2>1. ASSUME NEW u \in User, Alive(u) PROVE Current(token[stored[u]])
    <3>1. u \in Staff /\ token[stored[u]] = StaffToken(u, RoleAtStart(u))
      BY <2>1, SessionsAtStart
    <3>2. PICK t : t = StaffToken(u, RoleAtStart(u))
      OBVIOUS
    <3>3. t.user = u /\ t.business = Home /\ t.role = RoleAtStart(u)
      BY <3>2 DEF StaffToken
    <3>4. PICK m : m = MappingOf[u]
      OBVIOUS
    <3>5. /\ m \in Mapping /\ RoleAtStart(u) \in Role
          /\ db[m] = [state |-> "live", business |-> Home, user |-> u, role |-> RoleAtStart(u)]
      BY <3>1, <3>4, RowAtStart
    <3>6. m \in MemberOf(t.user, t.business) /\ db[m].role = t.role /\ db[t.role].granted
      BY <3>3, <3>5, RowAtStart DEF MemberOf, Live
    <3> QED
      BY <3>1, <3>2, <3>6 DEF Current
  <2> QED
    BY <2>1, NothingAtStart DEF Sequence
<1> QED
  BY <1>3, <1>4, <1>5, <1>6, <1>7 DEF MembershipInv

-----------------------------------------------------------------------------
(* Every step.                                                             *)

LEMMA StutterStep ==
    ASSUME MembershipInv, UNCHANGED vars
    PROVE  MembershipInv'
<1>1. /\ UNCHANGED <<db, pend>> /\ db' = db /\ pend' = pend /\ pc' = pc /\ job' = job /\ seen' = seen
      /\ token' = token /\ stored' = stored /\ revoked' = revoked /\ overlapped' = overlapped
      /\ left' = left
  BY DEF vars, sessions, redis
<1>2. Types'
  <2>1. Types
    BY DEF MembershipInv
  <2>2. \A r, k : Holds(r, k)' <=> Holds(r, k)
    BY <1>1, SameView
  <2> QED
    BY <1>1, <2>1, <2>2 DEF Types, TypeOK
<1>3. RowLocksExclusive' /\ Exclusive'
  BY <1>1, ExclusiveStays
<1>4. ASSUME NEW r \in Request PROVE Working(r)' /\ Founding(r)'
  <2>1. Working(r) /\ Founding(r)
    BY RequestFacts
  <2>2. (\A k : Holds(r, k)' <=> Holds(r, k)) /\ (HoldsNothing(r)' <=> HoldsNothing(r))
    BY <1>1, SameView
  <2>3. Working(r)'
    BY <1>1, <2>1, <2>2 DEF Working, Running
  <2>4. Founding(r)'
    BY <1>1, <2>1, <2>2 DEF Founding, Live
  <2> QED
    BY <2>3, <2>4
<1>5. ASSUME ~overlapped PROVE Sequence'
  <2>1. Sequence
    BY <1>5 DEF MembershipInv
  <2>2. \A u, b : MemberOf(u, b)' = MemberOf(u, b)
    BY <1>1, SameView
  <2>3. \A u \in User : Alive(u)' => Current(token[stored[u]])'
    BY <1>1, <2>1, <2>2 DEF Sequence, Alive, Current
  <2>4. ASSUME NEW r \in Request, Running(r) PROVE Alone(r)'
    <3>1. Alone(r)
      BY <2>1, <2>4 DEF Sequence
    <3>2. \A k : View(r, k)' = View(r, k) /\ (Holds(r, k)' <=> Holds(r, k))
      BY <1>1, SameView
    <3>3. \A t : CurrentSeen(r, t)' <=> CurrentSeen(r, t)
      BY <3>2 DEF CurrentSeen, Live
    <3> QED
      BY <1>1, <3>1, <3>2, <3>3, <2>2, SameLeavers DEF Alone, Alive, Backed, Current, Live
  <2> QED
    BY <1>1, <2>1, <2>3, <2>4 DEF Sequence, Running
<1> QED
  BY <1>1, <1>2, <1>3, <1>4, <1>5 DEF MembershipInv

LEMMA StepInv ==
    ASSUME MembershipInv, [Next]_vars
    PROVE  MembershipInv'
<1>1. ASSUME NEW r \in Request, ConnectionLost(r) PROVE MembershipInv'
  BY <1>1, RejectStep DEF ConnectionLost
<1> QED
  BY <1>1, StutterStep, ArriveStep, IssueCustomerTokenStep, FindMembershipStep, ResolveRoleStep,
     ReadPrivilegesStep, StoreTokenStep, CheckNoBusinessStep, FoundStep, EnrollStep,
     ReadBusinessStep, HandOverStep, ListMembersStep, CloseStep, SelectMappingsStep, DismissStep,
     ReadMappingStep, ReloadStep, ReassignStep, DismissOneStep, ReadRoleStep, GrantStep, DropStep,
     ListUsersOfRoleStep, RevokeSessionStep, AfterRevokingStep, CommitStep
     DEF Next

-----------------------------------------------------------------------------
(* The properties.                                                         *)

(* Rows, requests and sessions are in order in every reachable state: each *)
(* request has read what its next statement needs, transactions hold no    *)
(* row together and fit the unique indexes, and, while no two requests     *)
(* overlap, what the running one has still to revoke makes up for what it  *)
(* is about to commit.                                                     *)
THEOREM MembersStayInOrder == Spec => []MembershipInv
<1>1. MembershipInv /\ [Next]_vars => MembershipInv'
  BY StepInv
<1> QED
  BY InitInv, <1>1, PTL DEF Spec

(* However creations, changes of owner and additions overlap, nobody owns  *)
(* two live businesses and nobody is twice a member of one: the checks     *)
(* that POST /businesses makes by reading are not what this rests on, the  *)
(* partial unique indexes are.                                             *)
THEOREM NobodyIsTwice == Spec => []NobodyTwice
<1>1. MembershipInv => NobodyTwice
  <2> SUFFICES ASSUME MembershipInv PROVE NobodyTwice
    OBVIOUS
  <2>1. ASSUME NEW b \in Business, NEW c \in Business, Live(db[b]), Live(db[c]),
               db[b].owner = db[c].owner
        PROVE  b = c
    BY <2>1 DEF MembershipInv, Exclusive, Conflict, Table, Indexed
  <2>2. ASSUME NEW u \in User, NEW b \in Business
        PROVE  Cardinality(MemberOf(u, b)) <= 1
    <3>1. \A m, n \in MemberOf(u, b) : m = n
      BY <2>2, KeyFacts DEF MembershipInv, Exclusive, Conflict, Table, Indexed, MemberOf
    <3>2. CASE MemberOf(u, b) = {}
      BY <3>2, FS_EmptySet
    <3>3. CASE MemberOf(u, b) # {}
      <4>1. PICK m \in MemberOf(u, b) : MemberOf(u, b) = {m}
        BY <3>1, <3>3
      <4> QED
        BY <4>1, FS_Singleton
    <3> QED
      BY <3>2, <3>3
  <2> QED
    BY <2>1, <2>2 DEF NobodyTwice
<1> QED
  BY <1>1, MembersStayInOrder, PTL

(* A session that is stored and not revoked never says more than the       *)
(* committed rows do, for any sequence of requests that do not overlap,    *)
(* whichever of them fail and wherever they do.                            *)
THEOREM StoredSessionsAreCurrent == Spec => []StoredSessionIsCurrent
<1>1. MembershipInv => StoredSessionIsCurrent
  BY DEF MembershipInv, Sequence, StoredSessionIsCurrent, Alive
<1> QED
  BY <1>1, MembersStayInOrder, PTL

(* Only a commit changes the committed rows: the requests that return      *)
(* elsewhere have written nothing.                                         *)
LEMMA DbByCommit ==
    ASSUME MembershipInv, [Next]_vars, db' # db
    PROVE  \E r \in Request : Commit(r)
<1>1. ASSUME NEW r \in Request, IssueCustomerToken(r) \/ StoreToken(r) PROVE FALSE
  <2>1. Finish(r) /\ HoldsNothing(r)
    BY <1>1, RequestFacts DEF IssueCustomerToken, StoreToken, Working, Writing
  <2>2. \A k \in Key : View(r, k) = db[k]
    BY <2>1, HeldTypes DEF HoldsNothing
  <2>3. db' = db
    BY <2>1, <2>2, InvTypes DEF Finish, CommitWrites
  <2> QED
    BY <2>3
<1>2. ASSUME NEW r \in Request, Rejected(r) PROVE FALSE
  BY <1>2 DEF Rejected, Fail, DiscardWrites
<1>3. ASSUME NEW r \in Request, NEW k, NEW x, NEW label, Store(r, k, x, label) PROVE FALSE
  BY <1>3, <1>2 DEF Store, Write, WriteRow
<1>4. ASSUME NEW r \in Request,
             \/ Arrive(r) \/ FindMembership(r) \/ ResolveRole(r) \/ ReadPrivileges(r)
             \/ CheckNoBusiness(r) \/ ReadBusiness(r) \/ ListMembers(r) \/ SelectMappings(r)
             \/ ReadMapping(r) \/ Reload(r) \/ ReadRole(r) \/ ListUsersOfRole(r)
      PROVE  FALSE
  BY <1>4, <1>2 DEF Arrive, ArriveAt, Begin, Read, Continue, FindMembership, ResolveRole,
     ReadPrivileges, CheckNoBusiness, ReadBusiness, ListMembers, SelectMappings, ReadMapping,
     Reload, ReadRole, ListUsersOfRole
<1>5. ASSUME NEW r \in Request,
             \/ Found(r) \/ Enroll(r) \/ HandOver(r) \/ Close(r) \/ Reassign(r) \/ DismissOne(r)
             \/ Grant(r) \/ Drop(r) \/ \E m \in Mapping : Dismiss(r, m)
      PROVE  FALSE
  BY <1>5, <1>2, <1>3 DEF Found, Enroll, HandOver, Close, Reassign, DismissOne, Grant, Drop, Dismiss,
     Write, WriteRow
<1>6. ASSUME NEW r \in Request, (\E u \in User : RevokeSession(r, u)) \/ AfterRevoking(r) PROVE FALSE
  BY <1>6 DEF RevokeSession, AfterRevoking, Continue
<1>7. ASSUME NEW r \in Request, ConnectionLost(r) PROVE FALSE
  BY <1>7, <1>2 DEF ConnectionLost
<1>8. ~UNCHANGED vars
  BY DEF vars
<1> QED
  BY <1>1, <1>4, <1>5, <1>6, <1>7, <1>8 DEF Next

(* No commit brings a business to life without its owner's membership: the *)
(* handler that founds it reaches the commit only by enrolling the owner.  *)
THEOREM BusinessesHaveOwners == Spec => FoundedWithOwner
<1> DEFINE Owned == \A b \in Business : ~Live(db[b]) /\ Live(db'[b]) =>
                      \E m \in Mapping : /\ Live(db'[m]) /\ db'[m].business = b
                                         /\ db'[m].user = db'[b].owner /\ db'[m].role = OwnerRole
<1>1. ASSUME MembershipInv, [Next]_vars, NEW b \in Business, ~Live(db[b]), Live(db'[b])
      PROVE  \E m \in Mapping : /\ Live(db'[m]) /\ db'[m].business = b
                                /\ db'[m].user = db'[b].owner /\ db'[m].role = OwnerRole
  <2>1. db' # db
    BY <1>1 DEF Live
  <2>2. PICK r \in Request : Commit(r)
    BY <1>1, <2>1, DbByCommit
  <2>3. pc[r] = "commit" /\ \A k \in Key : db'[k] = View(r, k)
    BY <1>1, <2>2, InvTypes DEF Commit, Finish, CommitWrites
  <2>4. Holds(r, b) /\ db'[b] = pend[r][b] /\ Live(pend[r][b])
    BY <1>1, <2>3, KeyFacts, HeldTypes DEF Live
  <2>5. job[r].op = "create"
    BY <1>1, <2>3, <2>4, RequestFacts DEF Founding
  <2>6. PICK c \in Business :
          /\ Holds(r, c) /\ pend[r][c].owner = token[job[r].by].user
          /\ \A d \in Business : Holds(r, d) => d = c
          /\ \E m \in Mapping :
               /\ Holds(r, m) /\ Live(pend[r][m]) /\ pend[r][m].business = c
               /\ pend[r][m].user = token[job[r].by].user /\ pend[r][m].role = OwnerRole
    BY <1>1, <2>3, <2>5, RequestFacts DEF Founding
  <2>7. b = c
    BY <2>4, <2>6
  <2>8. PICK m \in Mapping :
          /\ Holds(r, m) /\ Live(pend[r][m]) /\ pend[r][m].business = b
          /\ pend[r][m].user = pend[r][b].owner /\ pend[r][m].role = OwnerRole
    BY <2>6, <2>7
  <2>9. db'[m] = pend[r][m]
    BY <1>1, <2>3, <2>8, KeyFacts, HeldTypes
  <2> QED
    BY <2>4, <2>8, <2>9 DEF Live
<1>2. MembershipInv /\ [Next]_vars => [Owned]_vars
  BY <1>1
<1>3. Spec => []MembershipInv /\ [][Next]_vars
  BY MembersStayInOrder, PTL DEF Spec
<1> QED
  BY <1>2, <1>3, PTL DEF FoundedWithOwner
=============================================================================
