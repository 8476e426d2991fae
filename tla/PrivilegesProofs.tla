-------------------------- MODULE PrivilegesProofs ---------------------------
(***************************************************************************)
(* Proofs about Privileges, for every catalogue, finite set of entries and *)
(* set of requests: types, that sessions are backed by grants, and that    *)
(* the privileges of a resource are installed together or not at all.      *)
(*                                                                         *)
(* What a request has still to do is data here: an agenda that grows while *)
(* it is worked off.  The invariant says that an agenda consists of steps  *)
(* its endpoint may take, ends with the commit, and revokes the sessions   *)
(* of a role directly after each deletion of a grant.                      *)
(***************************************************************************)
EXTENDS Privileges, FiniteSetTheorems, WellFoundedInduction, TLAPS

-----------------------------------------------------------------------------
(* Sequences.                                                              *)

(* A set of numbers that has 0, and the successor of each of its members,  *)
(* has them all.                                                           *)
LEMMA SetInduction ==
    ASSUME NEW T, 0 \in T, \A n \in Nat : n \in T => n + 1 \in T
    PROVE  \A n \in Nat : n \in T
<1> SUFFICES ASSUME NEW m \in Nat, m \notin T PROVE FALSE
  OBVIOUS
<1> DEFINE Outside == {n \in Nat : n \notin T}
<1>1. Outside \subseteq Nat /\ Outside # {}
  OBVIOUS
<1>2. PICK n \in Outside : \A k \in Outside : <<k, n>> \notin OpToRel(<, Nat)
  <2> HIDE DEF Outside
  <2> QED
    BY <1>1, NatLessThanWellFounded, WFMin
<1>3. \A k \in Outside : ~(k < n)
  BY <1>2 DEF OpToRel
<1>4. n # 0 /\ n - 1 \in Nat /\ n - 1 < n
  OBVIOUS
<1>5. n - 1 \in T
  BY <1>3, <1>4
<1> QED
  BY <1>4, <1>5

(* FlattenSeq is the last of its partial results.                          *)
IsFlattening(f, seqs, n) ==
    f = [i \in 1..n |-> IF i = 1 THEN seqs[i] ELSE f[i - 1] \o seqs[i]]

LEMMA FlatteningExists ==
    ASSUME NEW T, \A s, t \in T : s \o t \in T, NEW n \in Nat, NEW seqs \in [1..n -> T]
    PROVE  \E f \in [1..n -> T] : IsFlattening(f, seqs, n)
<1> DEFINE Reached == {k \in Nat : k <= n => \E f \in [1..k -> T] : IsFlattening(f, seqs, k)}
<1>1. 0 \in Reached
  <2> DEFINE f == [i \in 1..0 |-> seqs[i]]
  <2>1. f \in [1..0 -> T] /\ IsFlattening(f, seqs, 0)
    BY DEF IsFlattening
  <2> QED
    BY <2>1
<1>2. ASSUME NEW k \in Nat, k \in Reached PROVE k + 1 \in Reached
  <2> SUFFICES ASSUME k + 1 <= n
               PROVE  \E f \in [1..(k + 1) -> T] : IsFlattening(f, seqs, k + 1)
    OBVIOUS
  <2>1. PICK f \in [1..k -> T] : IsFlattening(f, seqs, k)
    BY <1>2
  <2> DEFINE g == [i \in 1..(k + 1) |-> IF i = 1 THEN seqs[i] ELSE f[i - 1] \o seqs[i]]
  <2>2. g \in [1..(k + 1) -> T]
    <3>1. ASSUME NEW i \in 1..(k + 1) PROVE (IF i = 1 THEN seqs[i] ELSE f[i - 1] \o seqs[i]) \in T
      <4>1. seqs[i] \in T
        OBVIOUS
      <4>2. i # 1 => i - 1 \in 1..k
        OBVIOUS
      <4>3. i # 1 => f[i - 1] \in T
        BY <4>2
      <4> QED
        BY <4>1, <4>3
    <3> QED
      BY <3>1
  <2>3. \A i \in 1..k : g[i] = f[i]
    <3> TAKE i \in 1..k
    <3>1. f[i] = IF i = 1 THEN seqs[i] ELSE f[i - 1] \o seqs[i]
      BY <2>1 DEF IsFlattening
    <3> QED
      BY <3>1
  <2>4. \A i \in 1..(k + 1) : g[i] = IF i = 1 THEN seqs[i] ELSE g[i - 1] \o seqs[i]
    <3> TAKE i \in 1..(k + 1)
    <3>1. g[i] = IF i = 1 THEN seqs[i] ELSE f[i - 1] \o seqs[i]
      OBVIOUS
    <3>2. i # 1 => i - 1 \in 1..k
      OBVIOUS
    <3> HIDE DEF g
    <3>3. i # 1 => g[i - 1] = f[i - 1]
      BY <2>3, <3>2
    <3> QED
      BY <3>1, <3>3
  <2>5. IsFlattening(g, seqs, k + 1)
    <3> HIDE DEF g
    <3> QED
      BY <2>2, <2>4 DEF IsFlattening
  <2> QED
    BY <2>2, <2>5
<1> HIDE DEF Reached
<1>3. n \in Reached
  BY <1>1, <1>2, SetInduction
<1> QED
  BY <1>3 DEF Reached

LEMMA FlattenSeqIn ==
    ASSUME NEW T, <<>> \in T, \A s, t \in T : s \o t \in T, NEW n \in Nat, NEW seqs \in [1..n -> T]
    PROVE  FlattenSeq(seqs) \in T
<1>1. Len(seqs) = n
  OBVIOUS
<1>2. CASE n = 0
  <2>1. seqs = <<>>
    BY <1>2
  <2> QED
    BY <2>1, <1>1, <1>2 DEF FlattenSeq
<1>3. CASE n # 0
  <2> DEFINE f == CHOOSE g : IsFlattening(g, seqs, n)
  <2>1. FlattenSeq(seqs) = f[n]
    BY <1>1, <1>3 DEF FlattenSeq, IsFlattening
  <2>2. IsFlattening(f, seqs, n)
    BY FlatteningExists
  <2> HIDE DEF f
  <2> DEFINE Reached == {k \in Nat : k \in 1..n => f[k] \in T}
  <2>3. ASSUME NEW k \in Nat, k \in Reached PROVE k + 1 \in Reached
    <3> SUFFICES ASSUME k + 1 \in 1..n PROVE f[k + 1] \in T
      OBVIOUS
    <3>1. PICK i \in 1..n : i = k + 1
      OBVIOUS
    <3>2. f[i] = IF i = 1 THEN seqs[i] ELSE f[i - 1] \o seqs[i]
      BY <2>2 DEF IsFlattening
    <3>3. i - 1 = k /\ (i # 1 => f[k] \in T) /\ seqs[i] \in T
      BY <3>1, <2>3
    <3> QED
      BY <3>1, <3>2, <3>3
  <2>4. 0 \in Reached
    OBVIOUS
  <2> HIDE DEF Reached
  <2>5. n \in Reached
    BY <2>3, <2>4, SetInduction
  <2> QED
    BY <2>1, <2>5, <1>3 DEF Reached
<1> QED
  BY <1>2, <1>3

-----------------------------------------------------------------------------
(* The steps of agendas, and which endpoints have them.                    *)

Adding ==
    [do : {"ensure", "insert"}, kind : Kind, name : Name, group : Module \cup {None}]
      \cup [do : {"clash"}, kind : Kind, name : Name, row : Entry \cup {None}]
      \cup [do : {"link"}, name : Name, strict : BOOLEAN]
      \cup [do : {"owner", "commit"}]
      \cup [do : {"list"}, module : Module, then : {"update"}]
      \cup [do : {"reload", "edit"}, row : Entry, name : Name \cup {Same}, group : Module \cup {Same}]
      \cup [do : {"mappingRow", "touch"}, link : SetLink, by : Request \cup {None}]

Removing ==
    [do : {"list"}, module : Module, then : {"delete"}]
      \cup [do : {"grants", "dropCode"}, code : Name]
      \cup [do : {"mapping", "unlink", "revoke"}, link : RoleLink]
      \cup [do : {"unlinkRow"}, link : SetLink, by : Request \cup {None}]
      \cup [do : {"drop"}, row : Entry]

Reading == [do : {"codes"}, role : Roles] \cup [do : {"commit"}]

StepsOf(op) ==
    IF op \in Removers THEN Adding \cup Removing ELSE IF op = "switch" THEN Reading ELSE Adding

(* The sessions of a role are revoked right after a grant of it has gone.  *)
Paired(todo) ==
    \A i \in 1..Len(todo) :
      todo[i].do = "unlink" =>
        i + 1 \in 1..Len(todo) /\ todo[i + 1] = [do |-> "revoke", link |-> todo[i].link]

Todo(op) == {todo \in Seq(StepsOf(op)) : Paired(todo)}

Ended(todo) == todo # <<>> /\ todo[Len(todo)].do = "commit"

LEMMA AddingIsPaired ==
    ASSUME NEW op, op # "switch", NEW todo \in Seq(Adding)
    PROVE  todo \in Todo(op)
<1>1. \A i \in 1..Len(todo) : todo[i].do # "unlink"
  <2> TAKE i \in 1..Len(todo)
  <2>1. todo[i] \in Adding
    OBVIOUS
  <2> QED
    BY <2>1 DEF Adding
<1>2. Adding \subseteq StepsOf(op)
  BY DEF StepsOf
<1>3. todo \in Seq(StepsOf(op))
  BY <1>2
<1> QED
  BY <1>1, <1>3 DEF Todo, Paired

LEMMA TodoConcat ==
    ASSUME NEW op, NEW s \in Todo(op), NEW t \in Todo(op)
    PROVE  s \o t \in Todo(op)
<1>1. s \in Seq(StepsOf(op)) /\ t \in Seq(StepsOf(op))
  BY DEF Todo
<1>2. s \o t \in Seq(StepsOf(op)) /\ Len(s \o t) = Len(s) + Len(t)
  BY <1>1
<1>3. ASSUME NEW i \in 1..Len(s \o t), (s \o t)[i].do = "unlink"
      PROVE  /\ i + 1 \in 1..Len(s \o t)
             /\ (s \o t)[i + 1] = [do |-> "revoke", link |-> (s \o t)[i].link]
  <2>1. CASE i \in 1..Len(s)
    <3>1. (s \o t)[i] = s[i]
      BY <1>1, <2>1
    <3>2. i + 1 \in 1..Len(s) /\ s[i + 1] = [do |-> "revoke", link |-> s[i].link]
      BY <1>3, <2>1, <3>1 DEF Todo, Paired
    <3>3. (s \o t)[i + 1] = s[i + 1]
      BY <1>1, <3>2
    <3> QED
      BY <1>2, <3>1, <3>2, <3>3
  <2>2. CASE i \notin 1..Len(s)
    <3>1. PICK k \in 1..Len(t) : i = Len(s) + k
      <4>1. i - Len(s) \in 1..Len(t)
        BY <1>1, <1>2, <2>2
      <4> QED
        BY <4>1, <1>1
    <3>2. (s \o t)[i] = t[k]
      BY <1>1, <3>1
    <3>3. k + 1 \in 1..Len(t) /\ t[k + 1] = [do |-> "revoke", link |-> t[k].link]
      BY <1>3, <3>2 DEF Todo, Paired
    <3>4. (s \o t)[i + 1] = t[k + 1]
      BY <1>1, <3>1, <3>3
    <3> QED
      BY <1>1, <1>2, <3>1, <3>2, <3>3, <3>4
  <2> QED
    BY <2>1, <2>2
<1> QED
  BY <1>2, <1>3 DEF Todo, Paired

LEMMA TodoTail ==
    ASSUME NEW op, NEW todo \in Todo(op), todo # <<>>
    PROVE  /\ Tail(todo) \in Todo(op) /\ Head(todo) \in StepsOf(op) /\ Head(todo) = todo[1]
           /\ Head(todo).do = "unlink" =>
                /\ Tail(todo) # <<>>
                /\ Head(Tail(todo)) = [do |-> "revoke", link |-> Head(todo).link]
<1>1. todo \in Seq(StepsOf(op)) /\ Len(todo) \in Nat /\ Len(todo) > 0
  BY DEF Todo
<1>2. /\ Tail(todo) \in Seq(StepsOf(op)) /\ Len(Tail(todo)) = Len(todo) - 1
      /\ \A i \in 1..Len(Tail(todo)) : Tail(todo)[i] = todo[i + 1]
      /\ Head(todo) = todo[1] /\ Head(todo) \in StepsOf(op)
  BY <1>1
<1>3. ASSUME NEW i \in 1..Len(Tail(todo)), Tail(todo)[i].do = "unlink"
      PROVE  /\ i + 1 \in 1..Len(Tail(todo))
             /\ Tail(todo)[i + 1] = [do |-> "revoke", link |-> Tail(todo)[i].link]
  <2>1. PICK k \in 1..Len(todo) : k = i + 1
    BY <1>1, <1>2
  <2>2. Tail(todo)[i] = todo[k]
    BY <1>2, <2>1
  <2>3. k + 1 \in 1..Len(todo) /\ todo[k + 1] = [do |-> "revoke", link |-> todo[k].link]
    BY <1>3, <2>2 DEF Todo, Paired
  <2>4. i + 1 \in 1..Len(Tail(todo)) /\ Tail(todo)[i + 1] = todo[k + 1]
    BY <1>1, <1>2, <2>1, <2>3
  <2> QED
    BY <2>2, <2>3, <2>4
<1>4. Tail(todo) \in Todo(op)
  BY <1>2, <1>3 DEF Todo, Paired
<1>5. ASSUME todo[1].do = "unlink"
      PROVE  Tail(todo) # <<>> /\ Head(Tail(todo)) = [do |-> "revoke", link |-> todo[1].link]
  <2>1. 1 + 1 \in 1..Len(todo) /\ todo[1 + 1] = [do |-> "revoke", link |-> todo[1].link]
    BY <1>1, <1>5 DEF Todo, Paired
  <2>2. 1 \in 1..Len(Tail(todo)) /\ Tail(todo)[1] = todo[1 + 1]
    BY <1>1, <1>2, <2>1
  <2>3. Tail(todo) # <<>> /\ Head(Tail(todo)) = Tail(todo)[1]
    <3> DEFINE t == Tail(todo)
    <3>1. t \in Seq(StepsOf(op)) /\ 1 \in 1..Len(t)
      BY <1>2, <2>2
    <3> HIDE DEF t
    <3>2. t # <<>> /\ Head(t) = t[1]
      BY <3>1
    <3> QED
      BY <3>2 DEF t
  <2> QED
    BY <2>1, <2>2, <2>3
<1> QED
  BY <1>2, <1>4, <1>5

LEMMA EndedConcat ==
    ASSUME NEW T, NEW s \in Seq(T), NEW t \in Seq(T), Ended(t)
    PROVE  Ended(s \o t)
<1>1. Len(t) \in 1..Len(t) /\ Len(s \o t) = Len(s) + Len(t) /\ Len(t) \in Nat /\ Len(t) > 0
  BY DEF Ended
<1>2. (s \o t)[Len(s) + Len(t)] = t[Len(t)]
  BY <1>1
<1> QED
  BY <1>1, <1>2 DEF Ended

LEMMA EndedTail ==
    ASSUME NEW T, NEW t \in Seq(T), Ended(t), Head(t).do # "commit" \/ Tail(t) # <<>>
    PROVE  Ended(Tail(t))
<1>1. Len(t) \in Nat /\ Len(t) > 0 /\ Head(t) = t[1] /\ Len(Tail(t)) = Len(t) - 1
  BY DEF Ended
<1>2. Tail(t) # <<>>
  BY <1>1 DEF Ended
<1>3. Tail(t) \in Seq(T) /\ Len(t) - 1 \in 1..Len(Tail(t))
  BY <1>1, <1>2
<1>4. Tail(t)[Len(t) - 1] = t[(Len(t) - 1) + 1]
  BY <1>1, <1>3
<1> QED
  BY <1>1, <1>2, <1>4 DEF Ended

-----------------------------------------------------------------------------
(* The invariant.                                                          *)

AnyRow == EntryRow \cup LinkRow

Label ==
    {"new", "done", "failed", "owner", "ensure", "insert", "clash", "link", "attach", "commit", "list",
     "reload", "edit", "mappingRow", "touch", "grants", "dropCode", "mapping", "unlink", "revoke",
     "unlinkRow", "drop", "codes", "issue"}

Op ==
    {"createRole", "createPrivilege", "createPlatform", "createSet", "rename", "drop", "grant", "ungrant",
     "touchLink", "dropLink", "createModule", "updateModule", "deleteModule", "switch", "seed"}
Work == [todo : Seq(Adding \cup Removing \cup Reading), holder : Entry \cup {None}, codes : SUBSET Name]
Seen == {None} \cup Work

HoldsNothing(r) == \A k \in Rows : ~Holds(r, k)

(* Where a request is in its agenda.                                       *)
OnAgenda(r) ==
    /\ job[r] \in Job /\ seen[r] \in Work
    /\ seen[r].todo \in Todo(job[r].op) /\ Ended(seen[r].todo)
    /\ \/ pc[r] = Item(r).do
       \/ <<Item(r).do, pc[r]>> \in {<<"ensure", "insert">>, <<"link", "attach">>, <<"codes", "issue">>}

(* The grants of roles that r has deleted and not yet committed: no        *)
(* session has them any more, but for the one whose sessions come next.    *)
Revoking(r) ==
    \A l \in RoleLink : Holds(r, l) /\ ~Live(pend[r][l]) =>
      /\ job[r].op \in Removers
      /\ (pc[r] = "revoke" /\ Item(r).link = l) \/ l[2] \notin token[l[1]]

(* The codes that r has read, as far as it may store them, are granted.    *)
Backing(r) ==
    pc[r] = "issue" /\ beside[r] \cap Removers = {} =>
      \A c \in seen[r].codes : <<Item(r).role, c>> \in Link /\ Live(db[<<Item(r).role, c>>])

Mine(r) ==
    /\ IF Running(r) THEN OnAgenda(r) ELSE HoldsNothing(r) /\ job[r] = NoJob
    /\ job[r].op = "switch" => HoldsNothing(r)
    /\ Revoking(r) /\ Backing(r)

Covered == \A h \in Roles : \A c \in token[h] : <<h, c>> \in Link /\ Live(db[<<h, c>>])

PrivilegesInv ==
    /\ db \in [Rows -> AnyRow] /\ \A k \in Rows : db[k] \in RowType(k)
    /\ pend \in [Request -> [Rows -> AnyRow \cup {None}]]
    /\ \A r \in Request, k \in Rows : Holds(r, k) => pend[r][k] \in RowType(k)
    /\ pc \in [Request -> Label] /\ job \in [Request -> Job \cup {NoJob}] /\ seen \in [Request -> Seen]
    /\ token \in [Roles -> SUBSET Name] /\ beside \in [Request -> SUBSET Op] /\ tidy \in BOOLEAN
    /\ \A r \in Request : Mine(r)
    /\ \A r, s \in Request : r # s /\ Running(r) /\ Running(s) => job[s].op \in beside[r]
    /\ Covered

-----------------------------------------------------------------------------
(* Agendas.                                                                *)

Def == [name : Name, group : Module]

LEMMA ItemOfSeq ==
    ASSUME NEW S, NEW s \in Seq(S), NEW i \in 1..Len(s)
    PROVE  s[i] \in S
OBVIOUS

LEMMA SeqOfMore ==
    ASSUME NEW S, NEW T, S \subseteq T, NEW s \in Seq(S)
    PROVE  s \in Seq(T)
OBVIOUS

LEMMA CrudIsTyped ==
    ASSUME NEW def, def.resource \in Resource, def.module \in Module
    PROVE  Crud(def) \in Seq(Def)
<1> DEFINE T == Seq(Def)
           n == Len(Operations)
           seqs == [i \in DOMAIN Operations |->
                      IF Includes(def, Operations[i])
                      THEN <<[name |-> <<Operations[i], def.resource>>, group |-> def.module]>> ELSE <<>>]
<1>1. n \in Nat /\ DOMAIN Operations = 1..n
  BY PrivilegesAssumption
<1>2. \A i \in 1..n : <<Operations[i], def.resource>> \in Name
  BY <1>1 DEF Name, Code
<1>3. seqs \in [1..n -> T]
  <2>1. ASSUME NEW i \in 1..n
        PROVE  (IF Includes(def, Operations[i])
                THEN <<[name |-> <<Operations[i], def.resource>>, group |-> def.module]>> ELSE <<>>) \in T
    <3>1. [name |-> <<Operations[i], def.resource>>, group |-> def.module] \in Def
      BY <1>2 DEF Def
    <3> QED
      BY <3>1
  <2> QED
    BY <1>1, <2>1
<1>4. <<>> \in T /\ \A s, t \in T : s \o t \in T
  OBVIOUS
<1> HIDE DEF T, n, seqs
<1>5. FlattenSeq(seqs) \in T
  BY <1>1, <1>3, <1>4, FlattenSeqIn
<1> QED
  BY <1>5 DEF Crud, seqs, T

LEMMA BusinessPrivilegesAreTyped ==
    BusinessPrivileges \in Seq(Def)
<1> DEFINE T == Seq(Def)
           n == Len(Catalogue)
           seqs == [i \in DOMAIN Catalogue |-> Crud(Catalogue[i])]
<1>1. n \in Nat /\ DOMAIN Catalogue = 1..n
  BY PrivilegesAssumption
<1>2. ASSUME NEW i \in 1..n PROVE Crud(Catalogue[i]) \in T
  <2>1. Catalogue[i] \in [resource : Resource, module : Module, update : BOOLEAN, delete : BOOLEAN]
    BY <1>1, PrivilegesAssumption, ItemOfSeq
  <2>2. Catalogue[i].resource \in Resource /\ Catalogue[i].module \in Module
    BY <2>1
  <2> QED
    BY <2>2, CrudIsTyped
<1>3. seqs \in [1..n -> T]
  BY <1>1, <1>2
<1>4. <<>> \in T /\ \A s, t \in T : s \o t \in T
  OBVIOUS
<1> HIDE DEF T, n, seqs
<1>5. FlattenSeq(seqs) \in T
  BY <1>1, <1>3, <1>4, FlattenSeqIn
<1> QED
  BY <1>5 DEF BusinessPrivileges, seqs, T

LEMMA AddingSteps ==
    /\ \A kind \in Kind, name \in Name, group \in Module \cup {None} :
         Ensure(kind, name, group) \in Adding /\ New(kind, name, group) \in Adding
    /\ \A kind \in Kind, name \in Name, row \in Entry \cup {None} : Refuse(kind, name, row) \in Adding
    /\ \A name \in Name : Grant(name) \in Adding /\ [Grant(name) EXCEPT !.strict = TRUE] \in Adding
    /\ [do |-> "commit"] \in Adding /\ [do |-> "owner"] \in Adding
    /\ Commits \in Seq(Adding)
<1>1. [do |-> "commit"] \in Adding /\ [do |-> "owner"] \in Adding
  BY DEF Adding
<1>2. ASSUME NEW kind \in Kind, NEW name \in Name, NEW group \in Module \cup {None}
      PROVE  Ensure(kind, name, group) \in Adding /\ New(kind, name, group) \in Adding
  BY DEF Adding, Ensure, New
<1>3. ASSUME NEW kind \in Kind, NEW name \in Name, NEW row \in Entry \cup {None}
      PROVE  Refuse(kind, name, row) \in Adding
  BY DEF Adding, Refuse
<1>4. ASSUME NEW name \in Name
      PROVE  Grant(name) \in Adding /\ [Grant(name) EXCEPT !.strict = TRUE] \in Adding
  <2>1. Grant(name) \in [do : {"link"}, name : Name, strict : BOOLEAN]
    BY DEF Grant
  <2>2. [Grant(name) EXCEPT !.strict = TRUE] \in [do : {"link"}, name : Name, strict : BOOLEAN]
    BY <2>1
  <2> QED
    BY <2>1, <2>2 DEF Adding
<1> QED
  BY <1>1, <1>2, <1>3, <1>4 DEF Commits

LEMMA GrantAllAdds ==
    ASSUME NEW names \in Seq(Name)
    PROVE  GrantAll(names) \in Seq(Adding)
<1>1. Len(names) \in Nat /\ DOMAIN names = 1..Len(names) /\ \A i \in 1..Len(names) : names[i] \in Name
  OBVIOUS
<1>2. GrantAll(names) \in [1..Len(names) -> Adding]
  BY <1>1, AddingSteps DEF GrantAll
<1> QED
  BY <1>1, <1>2

LEMMA InstallAdds ==
    ASSUME NEW defs \in Seq(Def)
    PROVE  Install(defs) \in Seq(Adding)
<1> DEFINE T == Seq(Adding)
           n == Len(defs)
           seqs == [i \in DOMAIN defs |->
                      <<Ensure("privilege", defs[i].name, defs[i].group), Grant(defs[i].name)>>]
<1>1. n \in Nat /\ DOMAIN defs = 1..n
  OBVIOUS
<1>2. ASSUME NEW i \in 1..n
      PROVE  <<Ensure("privilege", defs[i].name, defs[i].group), Grant(defs[i].name)>> \in T
  <2>1. defs[i] \in Def
    BY <1>1
  <2>2. defs[i].name \in Name /\ defs[i].group \in Module
    BY <2>1 DEF Def
  <2>3. Ensure("privilege", defs[i].name, defs[i].group) \in Adding /\ Grant(defs[i].name) \in Adding
    BY <2>2, AddingSteps DEF Kind
  <2> QED
    BY <2>3
<1>3. seqs \in [1..n -> T]
  BY <1>1, <1>2
<1>4. <<>> \in T /\ \A s, t \in T : s \o t \in T
  OBVIOUS
<1> HIDE DEF T, n, seqs
<1>5. FlattenSeq(seqs) \in T
  BY <1>1, <1>3, <1>4, FlattenSeqIn
<1> QED
  BY <1>5 DEF Install, seqs, T

LEMMA SetUpAdds ==
    ASSUME NEW kind \in Kind, NEW sets \in Seq([name : Word, members : Seq(Word)])
    PROVE  SetUp(kind, sets) \in Seq(Adding)
<1> DEFINE T == Seq(Adding)
           n == Len(sets)
           seqs == [i \in DOMAIN sets |-> <<Ensure(kind, sets[i].name, None)>> \o GrantAll(sets[i].members)]
<1>1. n \in Nat /\ DOMAIN sets = 1..n
  OBVIOUS
<1>2. ASSUME NEW i \in 1..n
      PROVE  <<Ensure(kind, sets[i].name, None)>> \o GrantAll(sets[i].members) \in T
  <2>1. sets[i] \in [name : Word, members : Seq(Word)]
    BY <1>1, ItemOfSeq
  <2>2. sets[i].name \in Name /\ sets[i].members \in Seq(Word)
    BY <2>1 DEF Name
  <2>3. sets[i].members \in Seq(Name)
    BY <2>2 DEF Name
  <2>4. GrantAll(sets[i].members) \in Seq(Adding)
    BY <2>3, GrantAllAdds
  <2>5. Ensure(kind, sets[i].name, None) \in Adding
    BY <2>2, AddingSteps
  <2> QED
    BY <2>4, <2>5
<1>3. seqs \in [1..n -> T]
  BY <1>1, <1>2
<1>4. <<>> \in T /\ \A s, t \in T : s \o t \in T
  OBVIOUS
<1> HIDE DEF T, n, seqs
<1>5. FlattenSeq(seqs) \in T
  BY <1>1, <1>3, <1>4, FlattenSeqIn
<1> QED
  BY <1>5 DEF SetUp, seqs, T

LEMMA SeedAdds ==
    Seed \in Seq(Adding) /\ Ended(Seed)
<1>1. SeedBusiness \in Seq(Adding)
  <2>1. Ensure("role", Owner, None) \in Adding
    BY PrivilegesAssumption, AddingSteps DEF Kind, Name
  <2>2. Install(BusinessPrivileges) \in Seq(Adding)
    BY BusinessPrivilegesAreTyped, InstallAdds
  <2> QED
    BY <2>1, <2>2 DEF SeedBusiness
<1>2. SeedPlatform \in Seq(Adding)
  <2> DEFINE codes == [i \in DOMAIN PlatformCodes |-> Ensure("platformPrivilege", PlatformCodes[i], None)]
  <2>1. /\ Len(PlatformCodes) \in Nat /\ DOMAIN PlatformCodes = 1..Len(PlatformCodes)
        /\ \A i \in 1..Len(PlatformCodes) : PlatformCodes[i] \in Name
    BY PrivilegesAssumption DEF Name
  <2>2. codes \in [1..Len(PlatformCodes) -> Adding]
    BY <2>1, AddingSteps DEF Kind
  <2>3. codes \in Seq(Adding)
    BY <2>1, <2>2
  <2>4. SetUp("set", PlatformSets) \in Seq(Adding)
    BY PrivilegesAssumption, SetUpAdds DEF Kind
  <2> HIDE DEF codes
  <2>5. codes \o SetUp("set", PlatformSets) \in Seq(Adding)
    BY <2>3, <2>4
  <2> QED
    BY <2>5 DEF SeedPlatform, codes
<1>3. SeedVocabulary \in Seq(Adding)
  BY PrivilegesAssumption, SetUpAdds DEF Kind, SeedVocabulary
<1>4. Commits \in Seq(Adding) /\ Ended(Commits)
  BY AddingSteps DEF Commits, Ended
<1> DEFINE most == SeedBusiness \o Commits \o SeedPlatform \o Commits \o SeedVocabulary
<1>5. most \in Seq(Adding)
  BY <1>1, <1>2, <1>3, <1>4
<1>6. Seed = most \o Commits
  BY DEF Seed
<1> HIDE DEF most
<1> QED
  BY <1>4, <1>5, <1>6, EndedConcat

LEMMA RemovingSteps ==
    /\ \A link \in RoleLink :
         /\ [do |-> "mapping", link |-> link] \in Removing /\ [do |-> "unlink", link |-> link] \in Removing
         /\ [do |-> "revoke", link |-> link] \in Removing
    /\ \A code \in Name : [do |-> "grants", code |-> code] \in Removing
                            /\ [do |-> "dropCode", code |-> code] \in Removing
    /\ \A row \in Entry : [do |-> "drop", row |-> row] \in Removing
    /\ \A m \in Module : [do |-> "list", module |-> m, then |-> "delete"] \in Removing
    /\ \A link \in SetLink, by \in Request \cup {None} :
         [do |-> "unlinkRow", link |-> link, by |-> by] \in Removing
BY DEF Removing

LEMMA UngrantIsTodo ==
    ASSUME NEW op \in Removers, NEW link \in RoleLink
    PROVE  Ungrant(link) \in Todo(op)
<1> DEFINE a == [do |-> "mapping", link |-> link]
           b == [do |-> "unlink", link |-> link]
           c == [do |-> "revoke", link |-> link]
<1>1. a \in StepsOf(op) /\ b \in StepsOf(op) /\ c \in StepsOf(op)
  BY RemovingSteps DEF StepsOf
<1>2. a.do # "unlink" /\ c.do # "unlink" /\ b.link = link
  OBVIOUS
<1>3. c = [do |-> "revoke", link |-> link]
  OBVIOUS
<1>4. Ungrant(link) = <<a, b, c>>
  BY DEF Ungrant
<1> HIDE DEF a, b, c
<1>5. <<a, b, c>> \in Seq(StepsOf(op))
  BY <1>1
<1>6. Paired(<<a, b, c>>)
  <2> DEFINE s == <<a, b, c>>
  <2>1. Len(s) = 3 /\ s[1] = a /\ s[2] = b /\ s[3] = c
    OBVIOUS
  <2> HIDE DEF s
  <2>2. \A i \in 1..Len(s) : i = 1 \/ i = 2 \/ i = 3
    BY <2>1
  <2>3. Paired(s)
    BY <1>2, <1>3, <2>1, <2>2 DEF Paired
  <2> QED
    BY <2>3 DEF s
<1> QED
  BY <1>4, <1>5, <1>6 DEF Todo

(* A single step that is not the deletion of a grant.                      *)
LEMMA SingleIsTodo ==
    ASSUME NEW op, NEW i \in StepsOf(op), i.do # "unlink"
    PROVE  <<i>> \in Todo(op)
BY DEF Todo, Paired

LEMMA CommitsIsTodo ==
    ASSUME NEW op
    PROVE  Commits \in Todo(op) /\ Ended(Commits)
<1> DEFINE c == [do |-> "commit"]
<1>1. c \in StepsOf(op)
  BY AddingSteps DEF StepsOf, Reading
<1>2. c.do = "commit" /\ Commits = <<c>>
  BY DEF Commits
<1> HIDE DEF c
<1>3. <<c>> \in Todo(op)
  BY <1>1, <1>2, SingleIsTodo
<1>4. Ended(<<c>>)
  BY <1>2 DEF Ended
<1> QED
  BY <1>2, <1>3, <1>4

LEMMA CommittedTodo ==
    ASSUME NEW op, NEW todo \in Todo(op)
    PROVE  todo \o Commits \in Todo(op) /\ Ended(todo \o Commits)
<1>1. Commits \in Todo(op) /\ Ended(Commits)
  BY CommitsIsTodo
<1>2. todo \in Seq(StepsOf(op)) /\ Commits \in Seq(StepsOf(op))
  BY <1>1 DEF Todo
<1> QED
  BY <1>1, <1>2, TodoConcat, EndedConcat

LEMMA ModuleAgendas ==
    ASSUME NEW m \in Module
    PROVE  /\ ModuleCreation(m) \in Seq(Adding) /\ ModuleUpdate(m) \in Seq(Adding)
           /\ ModuleDeletion(m) \in Todo("deleteModule")
<1> DEFINE def == [resource |-> Upper[m], module |-> m, update |-> TRUE, delete |-> Upper[m] # Undeletable]
<1>1. def.resource \in Resource /\ def.module \in Module
  BY DEF Resource
<1>2. <<[do |-> "owner"]>> \in Seq(Adding)
  BY AddingSteps
<1>3. ModuleCreation(m) = <<[do |-> "owner"]>> \o Install(Crud(def))
  BY DEF ModuleCreation
<1> HIDE DEF def
<1>4. Install(Crud(def)) \in Seq(Adding)
  BY <1>1, CrudIsTyped, InstallAdds
<1>5. ModuleCreation(m) \in Seq(Adding)
  BY <1>2, <1>3, <1>4
<1>6. ModuleUpdate(m) \in Seq(Adding)
  <2>1. [do |-> "list", module |-> m, then |-> "update"] \in Adding
    BY DEF Adding
  <2> QED
    BY <2>1, AddingSteps DEF ModuleUpdate
<1>7. ModuleDeletion(m) \in Todo("deleteModule")
  <2> DEFINE i == [do |-> "list", module |-> m, then |-> "delete"]
  <2>1. i \in StepsOf("deleteModule") /\ i.do # "unlink"
    BY RemovingSteps DEF StepsOf, Removers
  <2> HIDE DEF i
  <2>2. <<i>> \in Todo("deleteModule")
    BY <2>1, SingleIsTodo
  <2> QED
    BY <2>2 DEF i, ModuleDeletion
<1> QED
  BY <1>5, <1>6, <1>7

LEMMA CreationAgendas ==
    /\ \A j \in CreateRole : RoleCreation(j) \in Seq(Adding)
    /\ \A j \in CreatePrivilege : PrivilegeCreation(j) \in Seq(Adding)
    /\ \A j \in CreatePlatform : PlatformCreation(j) \in Seq(Adding) /\ SetCreation(j) \in Seq(Adding)
<1>1. ASSUME NEW j \in CreateRole PROVE RoleCreation(j) \in Seq(Adding)
  <2>1. j.name \in Name /\ j.codes \in Seq(Name)
    BY <1>1 DEF CreateRole
  <2>2. New("role", j.name, None) \in Adding /\ GrantAll(j.codes) \in Seq(Adding)
    BY <2>1, AddingSteps, GrantAllAdds DEF Kind
  <2> QED
    BY <2>2 DEF RoleCreation
<1>2. ASSUME NEW j \in CreatePrivilege PROVE PrivilegeCreation(j) \in Seq(Adding)
  <2>1. j.name \in Name /\ j.group \in Module
    BY <1>2 DEF CreatePrivilege
  <2>2. New("privilege", j.name, j.group) \in Adding
    BY <2>1, AddingSteps DEF Kind
  <2> QED
    BY <2>2 DEF PrivilegeCreation
<1>3. ASSUME NEW j \in CreatePlatform
      PROVE  PlatformCreation(j) \in Seq(Adding) /\ SetCreation(j) \in Seq(Adding)
  <2>1. j.name \in Name
    BY <1>3 DEF CreatePlatform
  <2>2. /\ Refuse("platformPrivilege", j.name, None) \in Adding
        /\ New("platformPrivilege", j.name, None) \in Adding /\ New("set", j.name, None) \in Adding
    BY <2>1, AddingSteps DEF Kind
  <2> QED
    BY <2>2 DEF PlatformCreation, SetCreation
<1> QED
  BY <1>1, <1>2, <1>3

LEMMA RenamingAdds ==
    ASSUME NEW j \in Rename
    PROVE  Renaming(j) \in Seq(Adding)
<1>1. j.row \in Entry /\ j.name \in Name \cup {Same} /\ j.group \in Module \cup {Same}
  BY DEF Rename
<1> DEFINE first == IF KindOf[j.row] = "platformPrivilege" /\ j.name # Same
                    THEN <<Refuse("platformPrivilege", j.name, j.row)>> ELSE <<>>
           second == [do |-> "reload", row |-> j.row, name |-> j.name, group |-> j.group]
<1>2. first \in Seq(Adding)
  <2>1. j.name # Same => Refuse("platformPrivilege", j.name, j.row) \in Adding
    BY <1>1, AddingSteps DEF Kind
  <2> QED
    BY <2>1
<1>3. second \in Adding
  BY <1>1 DEF Adding
<1>4. Renaming(j) = first \o <<second>>
  BY DEF Renaming
<1> HIDE DEF first, second
<1> QED
  BY <1>2, <1>3, <1>4

LEMMA GrantingAdds ==
    /\ \A j \in GrantJob : j.holder \in Roles => RoleGranting(j) \in Seq(Adding)
    /\ \A j \in GrantJob : j.holder \notin Roles => SetGranting(j) \in Seq(Adding)
<1>1. ASSUME NEW j \in GrantJob, j.holder \in Roles PROVE RoleGranting(j) \in Seq(Adding)
  <2>1. j.codes \in Seq(Name)
    <3>1. CASE j \in [op : {"grant"}, holder : Roles, codes : Seq(Name)]
      BY <3>1
    <3>2. CASE j \in [op : {"grant"}, holder : Sets, codes : {<<n>> : n \in Name}]
      <4>1. PICK n \in Name : j.codes = <<n>>
        BY <3>2
      <4> QED
        BY <4>1
    <3> QED
      BY <1>1, <3>1, <3>2 DEF GrantJob
  <2> QED
    BY <2>1, GrantAllAdds DEF RoleGranting
<1>2. ASSUME NEW j \in GrantJob, j.holder \notin Roles PROVE SetGranting(j) \in Seq(Adding)
  <2>1. j \in [op : {"grant"}, holder : Sets, codes : {<<n>> : n \in Name}]
    BY <1>2 DEF GrantJob
  <2>2. PICK n \in Name : j.codes = <<n>>
    BY <2>1
  <2>3. [Grant(j.codes[1]) EXCEPT !.strict = TRUE] \in Adding
    BY <2>2, AddingSteps
  <2> QED
    BY <2>3 DEF SetGranting
<1> QED
  BY <1>1, <1>2

LEMMA SetLinkAgendas ==
    ASSUME NEW j \in SetLinkJob
    PROVE  Touching(j) \in Seq(Adding) /\ Unlinking(j) \in Todo("dropLink")
<1>1. j.link \in SetLink /\ j.by \in Request \cup {None}
  BY DEF SetLinkJob
<1>2. /\ [do |-> "mappingRow", link |-> j.link, by |-> j.by] \in Adding
      /\ [do |-> "touch", link |-> j.link, by |-> j.by] \in Adding
  BY <1>1 DEF Adding
<1>3. Touching(j) \in Seq(Adding)
  BY <1>2 DEF Touching
<1>4. Unlinking(j) \in Todo("dropLink")
  <2> DEFINE i == [do |-> "unlinkRow", link |-> j.link, by |-> j.by]
  <2>1. i \in StepsOf("dropLink") /\ i.do # "unlink"
    BY <1>1, RemovingSteps DEF StepsOf, Removers
  <2> HIDE DEF i
  <2>2. <<i>> \in Todo("dropLink")
    BY <2>1, SingleIsTodo
  <2> QED
    BY <2>2 DEF i, Unlinking
<1> QED
  BY <1>3, <1>4

LEMMA OtherAgendas ==
    /\ \A j \in DropJob : <<[do |-> "drop", row |-> j.row]>> \in Todo("drop")
    /\ \A j \in SwitchJob : Switching(j) \in Todo("switch")
<1>1. ASSUME NEW j \in DropJob PROVE <<[do |-> "drop", row |-> j.row]>> \in Todo("drop")
  <2> DEFINE i == [do |-> "drop", row |-> j.row]
  <2>1. j.row \in Entry
    BY <1>1 DEF DropJob
  <2>2. i \in StepsOf("drop") /\ i.do # "unlink"
    BY <2>1, RemovingSteps DEF StepsOf, Removers
  <2> HIDE DEF i
  <2>3. <<i>> \in Todo("drop")
    BY <2>2, SingleIsTodo
  <2> QED
    BY <2>3 DEF i
<1>2. ASSUME NEW j \in SwitchJob PROVE Switching(j) \in Todo("switch")
  <2> DEFINE i == [do |-> "codes", role |-> j.role]
  <2>1. j.role \in Roles
    BY <1>2 DEF SwitchJob
  <2>2. i \in StepsOf("switch") /\ i.do # "unlink"
    BY <2>1 DEF StepsOf, Removers, Reading
  <2> HIDE DEF i
  <2>3. <<i>> \in Todo("switch")
    BY <2>2, SingleIsTodo
  <2> QED
    BY <2>3 DEF i, Switching
<1> QED
  BY <1>1, <1>2

(* What a call has to do is of the steps its endpoint takes, and ends with *)
(* a commit.                                                               *)
Fitting(todo, op) == todo \in Todo(op) /\ Ended(todo)

LEMMA AddingFits ==
    ASSUME NEW op, op # "switch", NEW todo \in Seq(Adding)
    PROVE  Fitting(todo \o Commits, op)
BY AddingIsPaired, CommittedTodo DEF Fitting

LEMMA AgendaFits ==
    ASSUME NEW j \in Job
    PROVE  j.op \in Op /\ Fitting(Agenda(j), j.op)
<1>1. CASE j \in SeedJob
  <2>1. j.op = "seed"
    BY <1>1 DEF SeedJob
  <2>2. Agenda(j) = Seed
    BY <2>1 DEF Agenda
  <2>3. Seed \in Todo("seed") /\ Ended(Seed)
    BY SeedAdds, AddingIsPaired
  <2> QED
    BY <2>1, <2>2, <2>3 DEF Op, Fitting
<1>2. CASE j \in ModuleJob
  <2>1. j.op \in {"createModule", "updateModule", "deleteModule"} /\ j.module \in Module
    BY <1>2 DEF ModuleJob
  <2>2. CASE j.op = "createModule"
    <3>1. Agenda(j) = ModuleCreation(j.module) \o Commits
      BY <2>2 DEF Agenda
    <3> QED
      BY <2>1, <2>2, <3>1, ModuleAgendas, AddingFits DEF Op
  <2>3. CASE j.op = "updateModule"
    <3>1. Agenda(j) = ModuleUpdate(j.module) \o Commits
      BY <2>3 DEF Agenda
    <3> QED
      BY <2>1, <2>3, <3>1, ModuleAgendas, AddingFits DEF Op
  <2>4. CASE j.op = "deleteModule"
    <3>1. Agenda(j) = ModuleDeletion(j.module) \o Commits
      BY <2>4 DEF Agenda
    <3> QED
      BY <2>1, <2>4, <3>1, ModuleAgendas, CommittedTodo DEF Op, Fitting
  <2> QED
    BY <2>1, <2>2, <2>3, <2>4
<1>3. CASE j \in CreateRole
  <2>1. j.op = "createRole"
    BY <1>3 DEF CreateRole
  <2>2. Agenda(j) = RoleCreation(j) \o Commits
    BY <2>1 DEF Agenda
  <2> QED
    BY <1>3, <2>1, <2>2, CreationAgendas, AddingFits DEF Op
<1>4. CASE j \in CreatePrivilege
  <2>1. j.op = "createPrivilege"
    BY <1>4 DEF CreatePrivilege
  <2>2. Agenda(j) = PrivilegeCreation(j) \o Commits
    BY <2>1 DEF Agenda
  <2> QED
    BY <1>4, <2>1, <2>2, CreationAgendas, AddingFits DEF Op
<1>5. CASE j \in CreatePlatform
  <2>1. j.op \in {"createPlatform", "createSet"}
    BY <1>5 DEF CreatePlatform
  <2>2. CASE j.op = "createPlatform"
    <3>1. Agenda(j) = PlatformCreation(j) \o Commits
      BY <2>2 DEF Agenda
    <3> QED
      BY <1>5, <2>2, <3>1, CreationAgendas, AddingFits DEF Op
  <2>3. CASE j.op = "createSet"
    <3>1. Agenda(j) = SetCreation(j) \o Commits
      BY <2>3 DEF Agenda
    <3> QED
      BY <1>5, <2>3, <3>1, CreationAgendas, AddingFits DEF Op
  <2> QED
    BY <2>1, <2>2, <2>3
<1>6. CASE j \in Rename
  <2>1. j.op = "rename"
    BY <1>6 DEF Rename
  <2>2. Agenda(j) = Renaming(j) \o Commits
    BY <2>1 DEF Agenda
  <2> QED
    BY <1>6, <2>1, <2>2, RenamingAdds, AddingFits DEF Op
<1>7. CASE j \in DropJob
  <2>1. j.op = "drop"
    BY <1>7 DEF DropJob
  <2>2. Agenda(j) = <<[do |-> "drop", row |-> j.row]>> \o Commits
    BY <2>1 DEF Agenda
  <2>3. <<[do |-> "drop", row |-> j.row]>> \in Todo("drop")
    BY <1>7, OtherAgendas
  <2> QED
    BY <2>1, <2>2, <2>3, CommittedTodo DEF Op, Fitting
<1>8. CASE j \in GrantJob
  <2>1. j.op = "grant"
    BY <1>8 DEF GrantJob
  <2>2. CASE j.holder \in Roles
    <3>1. Agenda(j) = RoleGranting(j) \o Commits
      BY <2>1, <2>2 DEF Agenda
    <3> QED
      BY <1>8, <2>1, <2>2, <3>1, GrantingAdds, AddingFits DEF Op
  <2>3. CASE j.holder \notin Roles
    <3>1. Agenda(j) = SetGranting(j) \o Commits
      BY <2>1, <2>3 DEF Agenda
    <3> QED
      BY <1>8, <2>1, <2>3, <3>1, GrantingAdds, AddingFits DEF Op
  <2> QED
    BY <2>2, <2>3
<1>9. CASE j \in UngrantJob
  <2>1. j.op = "ungrant" /\ j.link \in RoleLink
    BY <1>9 DEF UngrantJob
  <2>2. Agenda(j) = Ungrant(j.link) \o Commits
    BY <2>1 DEF Agenda
  <2>3. Ungrant(j.link) \in Todo("ungrant")
    BY <2>1, UngrantIsTodo DEF Removers
  <2> QED
    BY <2>1, <2>2, <2>3, CommittedTodo DEF Op, Fitting
<1>10. CASE j \in SetLinkJob
  <2>1. j.op \in {"touchLink", "dropLink"}
    BY <1>10 DEF SetLinkJob
  <2>2. CASE j.op = "touchLink"
    <3>1. Agenda(j) = Touching(j) \o Commits
      BY <2>2 DEF Agenda
    <3> QED
      BY <1>10, <2>2, <3>1, SetLinkAgendas, AddingFits DEF Op
  <2>3. CASE j.op = "dropLink"
    <3>1. Agenda(j) = Unlinking(j) \o Commits
      BY <2>3 DEF Agenda
    <3> QED
      BY <1>10, <2>3, <3>1, SetLinkAgendas, CommittedTodo DEF Op, Fitting
  <2> QED
    BY <2>1, <2>2, <2>3
<1>11. CASE j \in SwitchJob
  <2>1. j.op = "switch"
    BY <1>11 DEF SwitchJob
  <2>2. Agenda(j) = Switching(j) \o Commits
    BY <2>1 DEF Agenda
  <2>3. Switching(j) \in Todo("switch")
    BY <1>11, OtherAgendas
  <2> QED
    BY <2>1, <2>2, <2>3, CommittedTodo DEF Op, Fitting
<1> QED
  BY <1>1, <1>2, <1>3, <1>4, <1>5, <1>6, <1>7, <1>8, <1>9, <1>10, <1>11 DEF Job

-----------------------------------------------------------------------------
(* What the invariant gives.                                               *)

LEMMA RowFacts ==
    /\ Entry \subseteq Rows /\ Link \subseteq Rows /\ RoleLink \subseteq Link /\ SetLink \subseteq Link
    /\ \A e \in Entry : RowType(e) = EntryRow /\ e \notin Link
    /\ \A l \in Link : RowType(l) = LinkRow /\ l \notin Entry /\ l = <<l[1], l[2]>> /\ l[2] \in Name
    /\ \A l \in SetLink : l \notin RoleLink
    /\ \A h \in Entry \cup {None}, n \in Name : <<h, n>> \notin Entry
    /\ \A k \in Rows : RowType(k) \subseteq AnyRow
<1>1. Link \subseteq Holders \X Name /\ Entry \cap ((Entry \cup {None}) \X Name) = {}
  BY PrivilegesAssumption
<1>2. Link \cap Entry = {}
  BY <1>1 DEF Holders
<1>3. \A l \in Link : l = <<l[1], l[2]>> /\ l[2] \in Name
  BY <1>1
<1>4. \A l \in SetLink : l \notin RoleLink
  BY DEF SetLink, RoleLink, Sets, Roles
<1>5. \A h \in Entry \cup {None}, n \in Name : <<h, n>> \notin Entry
  BY <1>1
<1> QED
  BY <1>2, <1>3, <1>4, <1>5 DEF Rows, RoleLink, SetLink, RowType, AnyRow

LEMMA StepKinds ==
    ASSUME NEW op, NEW i \in StepsOf(op)
    PROVE  /\ i.do \in Label /\ i.do \notin {"new", "done", "failed", "attach", "issue"}
           /\ i \in Adding \/ (i \in Removing /\ op \in Removers) \/ (i \in Reading /\ op = "switch")
<1>1. CASE i \in Adding
  BY <1>1 DEF Adding, Label
<1>2. CASE i \in Removing /\ op \in Removers
  BY <1>2 DEF Removing, Label
<1>3. CASE i \in Reading /\ op = "switch"
  BY <1>3 DEF Reading, Label
<1> QED
  BY <1>1, <1>2, <1>3 DEF StepsOf

LEMMA AllSteps ==
    ASSUME NEW op
    PROVE  StepsOf(op) \subseteq Adding \cup Removing \cup Reading
BY DEF StepsOf

(* Where a running request is.                                             *)
LEMMA OnItem ==
    ASSUME PrivilegesInv, NEW r \in Request, Running(r)
    PROVE  /\ job[r] \in Job /\ job[r].op \in Op /\ seen[r] \in Work
           /\ seen[r].holder \in Entry \cup {None}
           /\ seen[r].todo \in Todo(job[r].op) /\ seen[r].todo # <<>>
           /\ Tail(seen[r].todo) \in Todo(job[r].op)
           /\ Item(r) \in StepsOf(job[r].op)
           /\ \/ pc[r] = Item(r).do
              \/ <<Item(r).do, pc[r]>> \in
                   {<<"ensure", "insert">>, <<"link", "attach">>, <<"codes", "issue">>}
           /\ Item(r).do # "commit" \/ Tail(seen[r].todo) # <<>> => Ended(Tail(seen[r].todo))
           /\ Item(r).do = "unlink" =>
                /\ Tail(seen[r].todo) # <<>>
                /\ Head(Tail(seen[r].todo)) = [do |-> "revoke", link |-> Item(r).link]
<1>1. OnAgenda(r)
  BY DEF PrivilegesInv, Mine
<1> DEFINE todo == seen[r].todo
           op == job[r].op
<1>2. todo \in Todo(op) /\ Ended(todo) /\ todo # <<>> /\ Item(r) = Head(todo)
  BY <1>1 DEF OnAgenda, Ended, Item
<1>3. todo \in Seq(StepsOf(op))
  BY <1>2 DEF Todo
<1>4. op \in Op /\ seen[r].holder \in Entry \cup {None}
  BY <1>1, AgendaFits DEF OnAgenda, Work
<1> HIDE DEF todo, op
<1>5. /\ Tail(todo) \in Todo(op) /\ Head(todo) \in StepsOf(op)
      /\ Head(todo).do = "unlink" =>
           /\ Tail(todo) # <<>>
           /\ Head(Tail(todo)) = [do |-> "revoke", link |-> Head(todo).link]
  BY <1>2, TodoTail
<1>6. Head(todo).do # "commit" \/ Tail(todo) # <<>> => Ended(Tail(todo))
  BY <1>2, <1>3, EndedTail
<1> QED
  BY <1>1, <1>2, <1>4, <1>5, <1>6 DEF OnAgenda, todo, op

(* Only r moves, and no session changes.                                   *)
Steady(r) ==
    /\ db' = db /\ job' = job /\ token' = token /\ beside' = beside /\ tidy' = tidy
    /\ pc' \in [Request -> Label] /\ seen' \in [Request -> Seen]
    /\ \A s \in Request \ {r} : pc'[s] = pc[s] /\ seen'[s] = seen[s]

LEMMA Advance ==
    ASSUME PrivilegesInv, NEW r \in Request, Running(r), Item(r).do # "commit" \/ Tail(seen[r].todo) # <<>>,
           NEW steps \in Todo(job[r].op), NEW holder \in Entry \cup {None}, Insertion(r, steps, holder)
    PROVE  /\ job' = job /\ token' = token /\ beside' = beside /\ tidy' = tidy
           /\ pc' \in [Request -> Label] /\ seen' \in [Request -> Seen]
           /\ \A s \in Request \ {r} : pc'[s] = pc[s] /\ seen'[s] = seen[s]
           /\ OnAgenda(r)' /\ Running(r)' /\ pc'[r] # "issue" /\ Item(r)' = Head(steps \o Tail(seen[r].todo))
           /\ pc'[r] = Item(r)'.do
<1> DEFINE todo == steps \o Tail(seen[r].todo)
           op == job[r].op
           x == [seen[r] EXCEPT !.todo = todo, !.holder = holder]
<1>1. /\ pc \in [Request -> Label] /\ seen \in [Request -> Seen]
  BY DEF PrivilegesInv
<1>2. /\ job' = job /\ token' = token /\ beside' = beside /\ tidy' = tidy
      /\ seen' = [seen EXCEPT ![r] = x] /\ pc' = [pc EXCEPT ![r] = Head(todo).do]
  BY DEF Insertion, Keep, Goto, Calm
<1>3. /\ job[r] \in Job /\ seen[r] \in Work /\ Tail(seen[r].todo) \in Todo(op)
      /\ Ended(Tail(seen[r].todo))
  BY OnItem
<1>4. todo \in Todo(op)
  BY <1>3, TodoConcat
<1>5. steps \in Seq(StepsOf(op)) /\ Tail(seen[r].todo) \in Seq(StepsOf(op))
  BY <1>3 DEF Todo
<1>6. Ended(todo)
  BY <1>3, <1>5, EndedConcat
<1>7. todo \in Seq(StepsOf(op)) /\ todo \in Seq(Adding \cup Removing \cup Reading)
  <2>1. todo \in Seq(StepsOf(op))
    BY <1>5
  <2> HIDE DEF todo, op
  <2> QED
    BY <2>1, AllSteps, SeqOfMore
<1>8. x \in Work /\ x.todo = todo
  BY <1>3, <1>7 DEF Work
<1> HIDE DEF todo, op, x
<1>9. Head(todo) \in StepsOf(op)
  BY <1>4, <1>6, TodoTail DEF Ended
<1>10. Head(todo).do \in Label /\ Head(todo).do \notin {"new", "done", "failed", "attach", "issue"}
  BY <1>9, StepKinds
<1>11. /\ seen'[r] = x /\ pc'[r] = Head(todo).do /\ pc' \in [Request -> Label] /\ seen' \in [Request -> Seen]
       /\ \A s \in Request \ {r} : pc'[s] = pc[s] /\ seen'[s] = seen[s]
  BY <1>1, <1>2, <1>8, <1>10 DEF Seen
<1>12. Item(r)' = Head(todo) /\ pc'[r] = Item(r)'.do
  BY <1>8, <1>11 DEF Item
<1>13. OnAgenda(r)'
  BY <1>2, <1>3, <1>4, <1>6, <1>8, <1>11, <1>12 DEF OnAgenda, op
<1>14. Running(r)' /\ pc'[r] # "issue"
  BY <1>10, <1>11 DEF Running
<1> QED
  BY <1>2, <1>11, <1>12, <1>13, <1>14 DEF todo

-----------------------------------------------------------------------------
(* Steps that change no session and commit nothing.                        *)

LEMMA Stepping ==
    ASSUME PrivilegesInv, NEW r \in Request, Running(r), Steady(r), OnAgenda(r)', Running(r)',
           pend' \in [Request -> [Rows -> AnyRow \cup {None}]],
           \A s \in Request \ {r} : pend'[s] = pend[s],
           \A k \in Rows : Holds(r, k)' => pend'[r][k] \in RowType(k),
           job[r].op = "switch" => HoldsNothing(r)',
           Revoking(r)', Backing(r)'
    PROVE  PrivilegesInv'
<1>1. /\ db' \in [Rows -> AnyRow] /\ \A k \in Rows : db'[k] \in RowType(k)
      /\ job' \in [Request -> Job \cup {NoJob}]
      /\ token' \in [Roles -> SUBSET Name] /\ beside' \in [Request -> SUBSET Op] /\ tidy' \in BOOLEAN
  BY DEF PrivilegesInv, Steady
<1>2. \A s \in Request \ {r} : \A k \in Rows : Holds(s, k)' <=> Holds(s, k)
  BY DEF Holds
<1>3. \A s \in Request, k \in Rows : Holds(s, k)' => pend'[s][k] \in RowType(k)
  BY <1>2 DEF PrivilegesInv
<1>4. \A s \in Request : Running(s)' <=> Running(s)
  BY DEF Running, Steady
<1>5. \A s, t \in Request : s # t /\ Running(s)' /\ Running(t)' => job'[t].op \in beside'[s]
  BY <1>4 DEF PrivilegesInv, Steady
<1>6. ASSUME NEW s \in Request PROVE Mine(s)'
  <2>1. CASE s = r
    BY <2>1 DEF Mine, Steady
  <2>2. CASE s # r
    <3>1. /\ pc'[s] = pc[s] /\ seen'[s] = seen[s] /\ job'[s] = job[s] /\ token' = token /\ db' = db
          /\ beside' = beside /\ pend'[s] = pend[s] /\ Mine(s)
      BY <2>2 DEF PrivilegesInv, Steady
    <3>2. Item(s)' = Item(s) /\ (Running(s)' <=> Running(s)) /\ \A k : Holds(s, k)' <=> Holds(s, k)
      BY <3>1 DEF Item, Running, Holds
    <3>3. OnAgenda(s)' <=> OnAgenda(s)
      BY <3>1, <3>2 DEF OnAgenda
    <3>4. HoldsNothing(s)' <=> HoldsNothing(s)
      BY <3>2 DEF HoldsNothing
    <3>5. Revoking(s)' <=> Revoking(s)
      BY <3>1, <3>2 DEF Revoking
    <3>6. Backing(s)' <=> Backing(s)
      BY <3>1, <3>2 DEF Backing
    <3> QED
      BY <3>1, <3>2, <3>3, <3>4, <3>5, <3>6 DEF Mine
  <2> QED
    BY <2>1, <2>2
<1>7. Covered'
  BY DEF PrivilegesInv, Steady, Covered
<1> QED
  BY <1>1, <1>3, <1>5, <1>6, <1>7 DEF PrivilegesInv, Steady

LEMMA Unwriting ==
    ASSUME PrivilegesInv, NEW r \in Request, Running(r), Steady(r), OnAgenda(r)', Running(r)',
           pend' = pend, pc[r] # "revoke", Backing(r)'
    PROVE  PrivilegesInv'
<1>1. /\ pend' \in [Request -> [Rows -> AnyRow \cup {None}]]
      /\ \A s \in Request \ {r} : pend'[s] = pend[s]
      /\ \A k : Holds(r, k)' <=> Holds(r, k)
      /\ job' = job /\ token' = token
  BY DEF PrivilegesInv, Holds, Steady
<1>2. Mine(r) /\ \A k \in Rows : Holds(r, k) => pend[r][k] \in RowType(k)
  BY DEF PrivilegesInv
<1>3. \A k \in Rows : Holds(r, k)' => pend'[r][k] \in RowType(k)
  BY <1>1, <1>2
<1>4. job[r].op = "switch" => HoldsNothing(r)'
  BY <1>1, <1>2 DEF Mine, HoldsNothing
<1>5. Revoking(r)'
  BY <1>1, <1>2 DEF Mine, Revoking
<1> QED
  BY <1>1, <1>3, <1>4, <1>5, Stepping

(* A statement writes one row; a grant that it deletes is the next whose   *)
(* sessions are revoked.                                                   *)
LEMMA Writing ==
    ASSUME PrivilegesInv, NEW r \in Request, Running(r), Steady(r), OnAgenda(r)', Running(r)',
           pc[r] # "revoke", pc'[r] # "issue", job[r].op # "switch",
           NEW k, NEW x, pend' = [pend EXCEPT ![r][k] = x],
           k \in Rows => x \in RowType(k),
           k \in RoleLink /\ ~Live(x) =>
             job[r].op \in Removers /\ pc'[r] = "revoke" /\ Item(r)'.link = k
    PROVE  PrivilegesInv'
<1>1. pend \in [Request -> [Rows -> AnyRow \cup {None}]] /\ job' = job /\ token' = token
  BY DEF PrivilegesInv, Steady
<1>2. Mine(r) /\ \A o \in Rows : Holds(r, o) => pend[r][o] \in RowType(o)
  BY DEF PrivilegesInv
<1>3. /\ \A s \in Request \ {r} : pend'[s] = pend[s]
      /\ pend'[r] = [pend[r] EXCEPT ![k] = x]
      /\ DOMAIN pend' = Request
      /\ pend' = [s \in Request |-> pend'[s]]
  BY <1>1
<1>4. \A o \in Rows : pend'[r][o] = IF o = k THEN x ELSE pend[r][o]
  BY <1>1, <1>3
<1>5. \A o \in Rows : o # k => (Holds(r, o)' <=> Holds(r, o)) /\ pend'[r][o] = pend[r][o]
  BY <1>4 DEF Holds
<1>6. k \in Rows => pend'[r][k] = x /\ x \in AnyRow
  BY <1>4, RowFacts
<1>7. pend'[r] \in [Rows -> AnyRow \cup {None}]
  <2>1. \A o \in Rows : pend'[r][o] \in AnyRow \cup {None}
    BY <1>1, <1>5, <1>6
  <2>2. pend[r] \in [Rows -> AnyRow \cup {None}]
    BY <1>1
  <2>3. pend'[r] = [o \in Rows |-> pend'[r][o]]
    BY <1>3, <2>2
  <2> QED
    BY <2>1, <2>3
<1>8. pend' \in [Request -> [Rows -> AnyRow \cup {None}]]
  <2>1. \A s \in Request : pend'[s] \in [Rows -> AnyRow \cup {None}]
    BY <1>1, <1>3, <1>7
  <2> QED
    BY <1>3, <2>1
<1>9. \A o \in Rows : Holds(r, o)' => pend'[r][o] \in RowType(o)
  BY <1>2, <1>5, <1>6
<1>10. Revoking(r)'
  <2> SUFFICES ASSUME NEW l \in RoleLink, Holds(r, l)', ~Live(pend'[r][l])
               PROVE  /\ job'[r].op \in Removers
                      /\ (pc'[r] = "revoke" /\ Item(r)'.link = l) \/ l[2] \notin token'[l[1]]
    BY DEF Revoking
  <2>1. l \in Rows
    BY RowFacts
  <2>2. CASE l = k
    BY <1>1, <1>6, <2>1, <2>2
  <2>3. CASE l # k
    BY <1>1, <1>2, <1>5, <2>1, <2>3 DEF Mine, Revoking
  <2> QED
    BY <2>2, <2>3
<1>11. Backing(r)'
  BY DEF Backing
<1> QED
  BY <1>3, <1>8, <1>9, <1>10, <1>11, Stepping

-----------------------------------------------------------------------------
(* Transactions end.                                                       *)

LEMMA OthersStay ==
    ASSUME PrivilegesInv, NEW s \in Request,
           pc'[s] = pc[s], seen'[s] = seen[s], job'[s] = job[s], pend'[s] = pend[s], token' = token,
           Backing(s)'
    PROVE  Mine(s)'
<1>1. Mine(s)
  BY DEF PrivilegesInv
<1>2. Item(s)' = Item(s) /\ (Running(s)' <=> Running(s)) /\ \A k : Holds(s, k)' <=> Holds(s, k)
  BY DEF Item, Running, Holds
<1>3. OnAgenda(s)' <=> OnAgenda(s)
  BY <1>2 DEF OnAgenda
<1>4. HoldsNothing(s)' <=> HoldsNothing(s)
  BY <1>2 DEF HoldsNothing
<1>5. Revoking(s)' <=> Revoking(s)
  BY <1>2 DEF Revoking
<1> QED
  BY <1>1, <1>2, <1>3, <1>4, <1>5 DEF Mine

LEMMA WritesGone ==
    ASSUME PrivilegesInv, NEW r \in Request, pend' = [pend EXCEPT ![r] = NoWrites]
    PROVE  /\ pend' \in [Request -> [Rows -> AnyRow \cup {None}]]
           /\ \A s \in Request \ {r} : pend'[s] = pend[s]
           /\ HoldsNothing(r)' /\ Revoking(r)'
           /\ \A s \in Request, k \in Rows : Holds(s, k)' => pend'[s][k] \in RowType(k)
<1>1. pend \in [Request -> [Rows -> AnyRow \cup {None}]] /\ DOMAIN db = Rows
  BY DEF PrivilegesInv
<1>2. NoWrites = [k \in Rows |-> None]
  BY <1>1 DEF NoWrites, Row
<1>3. pend' = [pend EXCEPT ![r] = [k \in Rows |-> None]]
  BY <1>2
<1>4. /\ pend' \in [Request -> [Rows -> AnyRow \cup {None}]]
      /\ \A s \in Request \ {r} : pend'[s] = pend[s]
      /\ \A k \in Rows : pend'[r][k] = None
  BY <1>1, <1>3
<1>5. HoldsNothing(r)'
  BY <1>4 DEF HoldsNothing, Holds
<1>6. Revoking(r)'
  BY <1>5, RowFacts DEF Revoking, HoldsNothing
<1>7. ASSUME NEW s \in Request, NEW k \in Rows, Holds(s, k)' PROVE pend'[s][k] \in RowType(k)
  <2>1. s # r
    BY <1>5, <1>7 DEF HoldsNothing
  <2>2. pend'[s] = pend[s] /\ Holds(s, k)
    BY <1>4, <1>7, <2>1 DEF Holds
  <2> QED
    BY <2>2 DEF PrivilegesInv
<1> QED
  BY <1>4, <1>5, <1>6, <1>7

LEMMA Ending ==
    ASSUME PrivilegesInv, NEW r \in Request, Running(r),
           NEW outcome \in {"done", "failed"}, End(r, outcome), Forget(r),
           pend' = [pend EXCEPT ![r] = NoWrites],
           db' \in [Rows -> AnyRow], \A k \in Rows : db'[k] \in RowType(k), Covered',
           \A s \in Request \ {r} : Backing(s)'
    PROVE  PrivilegesInv'
<1>1. /\ pc \in [Request -> Label] /\ job \in [Request -> Job \cup {NoJob}] /\ seen \in [Request -> Seen]
      /\ beside \in [Request -> SUBSET Op] /\ token \in [Roles -> SUBSET Name] /\ tidy \in BOOLEAN
  BY DEF PrivilegesInv
<1>2. /\ pc' = [pc EXCEPT ![r] = outcome] /\ job' = [job EXCEPT ![r] = NoJob]
      /\ seen' = [seen EXCEPT ![r] = None] /\ beside' = [beside EXCEPT ![r] = {}]
      /\ token' = token /\ tidy' = tidy
  BY DEF End, Goto, Forget
<1>3. /\ pc' \in [Request -> Label] /\ job' \in [Request -> Job \cup {NoJob}]
      /\ seen' \in [Request -> Seen] /\ beside' \in [Request -> SUBSET Op]
  BY <1>1, <1>2 DEF Label, Seen
<1>4. /\ pc'[r] = outcome /\ job'[r] = NoJob
      /\ \A s \in Request \ {r} : /\ pc'[s] = pc[s] /\ job'[s] = job[s] /\ seen'[s] = seen[s]
                                  /\ beside'[s] = beside[s]
  BY <1>1, <1>2
<1>5. /\ pend' \in [Request -> [Rows -> AnyRow \cup {None}]]
      /\ \A s \in Request \ {r} : pend'[s] = pend[s]
      /\ HoldsNothing(r)' /\ Revoking(r)'
      /\ \A s \in Request, k \in Rows : Holds(s, k)' => pend'[s][k] \in RowType(k)
  BY WritesGone
<1>6. ASSUME NEW s \in Request PROVE Mine(s)'
  <2>1. CASE s = r
    <3>1. ~Running(r)' /\ Backing(r)'
      BY <1>4 DEF Running, Backing
    <3> QED
      BY <1>4, <1>5, <2>1, <3>1 DEF Mine
  <2>2. CASE s # r
    BY <1>2, <1>4, <1>5, <2>2, OthersStay
  <2> QED
    BY <2>1, <2>2
<1>7. ASSUME NEW s \in Request, NEW t \in Request, s # t, Running(s)', Running(t)'
      PROVE  job'[t].op \in beside'[s]
  <2>1. s # r /\ t # r
    BY <1>4, <1>7 DEF Running
  <2>2. Running(s) /\ Running(t) /\ job'[t] = job[t] /\ beside'[s] = beside[s]
    BY <1>4, <1>7, <2>1 DEF Running
  <2> QED
    BY <1>7, <2>2 DEF PrivilegesInv
<1> QED
  BY <1>1, <1>2, <1>3, <1>5, <1>6, <1>7 DEF PrivilegesInv

LEMMA AbandonKeeps ==
    ASSUME PrivilegesInv, NEW r \in Request, Running(r), Abandon(r)
    PROVE  PrivilegesInv'
<1>1. /\ End(r, "failed") /\ Forget(r) /\ pend' = [pend EXCEPT ![r] = NoWrites]
      /\ db' = db /\ token' = token
  BY DEF Abandon, Fail, DiscardWrites, Forget
<1>2. db' \in [Rows -> AnyRow] /\ \A k \in Rows : db'[k] \in RowType(k)
  BY <1>1 DEF PrivilegesInv
<1>3. Covered'
  BY <1>1 DEF PrivilegesInv, Covered
<1>4. ASSUME NEW s \in Request \ {r} PROVE Backing(s)'
  <2>1. pc'[s] = pc[s] /\ seen'[s] = seen[s] /\ beside'[s] = beside[s] /\ Backing(s)
    BY <1>1 DEF End, Goto, Forget, PrivilegesInv, Mine
  <2>2. Item(s)' = Item(s)
    BY <2>1 DEF Item
  <2> QED
    BY <1>1, <2>1, <2>2 DEF Backing
<1> QED
  BY <1>1, <1>2, <1>3, <1>4, Ending

(* A commit takes away no grant that a session has or is about to have.    *)
LEMMA CommitKeepsGrants ==
    ASSUME PrivilegesInv, NEW r \in Request, pc[r] = "commit", CommitWrites(r)
    PROVE  /\ pend' = [pend EXCEPT ![r] = NoWrites]
           /\ db' \in [Rows -> AnyRow] /\ \A k \in Rows : db'[k] \in RowType(k)
           /\ \A h \in Roles : \A c \in token[h] : <<h, c>> \in Link /\ Live(db'[<<h, c>>])
           /\ \A s \in Request \ {r} :
                pc[s] = "issue" /\ beside[s] \cap Removers = {} =>
                  \A c \in seen[s].codes : <<Item(s).role, c>> \in Link /\ Live(db'[<<Item(s).role, c>>])
<1>1. /\ pend' = [pend EXCEPT ![r] = NoWrites] /\ db' = [k \in Row |-> View(r, k)]
      /\ Row = Rows
  BY DEF CommitWrites, Row, PrivilegesInv
<1>2. Mine(r) /\ Running(r)
  BY DEF PrivilegesInv, Running
<1>3. \A k \in Rows : db'[k] = IF Holds(r, k) THEN pend[r][k] ELSE db[k]
  BY <1>1 DEF View, Holds
<1>4. \A k \in Rows : db'[k] \in RowType(k) /\ db'[k] \in AnyRow
  BY <1>3, RowFacts DEF PrivilegesInv
<1>5. db' \in [Rows -> AnyRow]
  BY <1>1, <1>4
<1>6. ASSUME NEW h \in Roles, NEW c \in token[h]
      PROVE  <<h, c>> \in Link /\ Live(db'[<<h, c>>])
  <2>1. <<h, c>> \in Link /\ Live(db[<<h, c>>])
    BY DEF PrivilegesInv, Covered
  <2>2. <<h, c>> \in RoleLink /\ <<h, c>> \in Rows
    BY <2>1, RowFacts DEF RoleLink
  <2>3. Holds(r, <<h, c>>) => Live(pend[r][<<h, c>>])
    BY <1>2, <2>2 DEF Mine, Revoking
  <2> QED
    BY <1>3, <2>1, <2>2, <2>3
<1>7. ASSUME NEW s \in Request \ {r}, pc[s] = "issue", beside[s] \cap Removers = {}, NEW c \in seen[s].codes
      PROVE  <<Item(s).role, c>> \in Link /\ Live(db'[<<Item(s).role, c>>])
  <2> DEFINE l == <<Item(s).role, c>>
  <2>1. Mine(s) /\ Running(s) /\ job[r].op \in beside[s]
    BY <1>2, <1>7 DEF PrivilegesInv, Running
  <2>2. l \in Link /\ Live(db[l])
    BY <1>7, <2>1 DEF Mine, Backing
  <2>3. job[r].op \notin Removers
    BY <1>7, <2>1
  <2>4. Item(s).role \in Roles
    <3>1. Item(s).do = "codes" /\ Item(s) \in StepsOf(job[s].op)
      BY <1>7, <2>1, OnItem, StepKinds
    <3>2. Item(s) \in Reading
      BY <3>1, StepKinds DEF Adding, Removing
    <3> QED
      BY <3>1, <3>2 DEF Reading
  <2>5. l \in RoleLink /\ l \in Rows
    BY <2>2, <2>4, RowFacts DEF RoleLink
  <2> HIDE DEF l
  <2>6. Holds(r, l) => Live(pend[r][l])
    BY <1>2, <2>3, <2>5 DEF Mine, Revoking
  <2>7. Live(db'[l])
    BY <1>3, <2>2, <2>5, <2>6
  <2> QED
    BY <2>2, <2>7 DEF l
<1> QED
  BY <1>1, <1>4, <1>5, <1>6, <1>7

LEMMA AtStep ==
    ASSUME PrivilegesInv, NEW r \in Request, pc[r] \notin {"new", "done", "failed"}
    PROVE  /\ Running(r)
           /\ pc[r] \notin {"insert", "attach", "issue"} => Item(r).do = pc[r]
           /\ pc[r] = "insert" => Item(r).do \in {"ensure", "insert"}
           /\ pc[r] = "attach" => Item(r).do = "link"
           /\ pc[r] = "issue" => Item(r).do = "codes"
           /\ pc[r] # "commit" => Item(r).do # "commit"
<1>1. Running(r)
  BY DEF Running
<1>2. /\ \/ pc[r] = Item(r).do
         \/ <<Item(r).do, pc[r]>> \in {<<"ensure", "insert">>, <<"link", "attach">>, <<"codes", "issue">>}
      /\ Item(r) \in StepsOf(job[r].op)
  BY <1>1, OnItem
<1>3. Item(r).do \notin {"attach", "issue"}
  BY <1>2, StepKinds
<1> QED
  BY <1>1, <1>2, <1>3

LEMMA NothingToDo ==
    ASSUME NEW op
    PROVE  <<>> \in Todo(op)
BY DEF Todo, Paired

LEMMA ProceedKeeps ==
    ASSUME PrivilegesInv, NEW r \in Request, pc[r] \notin {"new", "done", "failed", "commit", "revoke"},
           NEW steps \in Todo(job[r].op), NEW holder \in Entry \cup {None},
           Insertion(r, steps, holder), Unwritten
    PROVE  PrivilegesInv'
<1>1. Running(r) /\ Item(r).do # "commit"
  BY AtStep
<1>2. /\ job' = job /\ token' = token /\ beside' = beside /\ tidy' = tidy
      /\ pc' \in [Request -> Label] /\ seen' \in [Request -> Seen]
      /\ \A s \in Request \ {r} : pc'[s] = pc[s] /\ seen'[s] = seen[s]
      /\ OnAgenda(r)' /\ Running(r)' /\ pc'[r] # "issue"
  BY <1>1, Advance
<1>3. db' = db /\ pend' = pend
  BY DEF Unwritten
<1>4. Steady(r)
  BY <1>2, <1>3 DEF Steady
<1>5. Backing(r)'
  BY <1>2 DEF Backing
<1> QED
  BY <1>1, <1>2, <1>3, <1>4, <1>5, Unwriting

LEMMA WriteKeeps ==
    ASSUME PrivilegesInv, NEW r \in Request, pc[r] \notin {"new", "done", "failed", "commit", "revoke"},
           job[r].op # "switch", NEW holder \in Entry \cup {None}, Insertion(r, <<>>, holder),
           NEW k, NEW x, db' = db, pend' = [pend EXCEPT ![r][k] = x],
           k \in Rows => x \in RowType(k),
           k \in RoleLink /\ ~Live(x) => pc[r] = "unlink" /\ Item(r).link = k
    PROVE  PrivilegesInv'
<1>1. Running(r) /\ Item(r).do # "commit"
  BY AtStep
<1> DEFINE rest == Tail(seen[r].todo)
<1>2. <<>> \in Todo(job[r].op) /\ rest \in Seq(StepsOf(job[r].op))
  BY <1>1, NothingToDo, OnItem DEF Todo
<1>3. /\ job' = job /\ token' = token /\ beside' = beside /\ tidy' = tidy
      /\ pc' \in [Request -> Label] /\ seen' \in [Request -> Seen]
      /\ \A s \in Request \ {r} : pc'[s] = pc[s] /\ seen'[s] = seen[s]
      /\ OnAgenda(r)' /\ Running(r)' /\ pc'[r] # "issue" /\ Item(r)' = Head(<<>> \o rest)
      /\ pc'[r] = Item(r)'.do
  BY <1>1, <1>2, Advance
<1>4. Steady(r)
  BY <1>3 DEF Steady
<1>5. <<>> \o rest = rest
  <2> HIDE DEF rest
  <2> QED
    BY <1>2
<1>6. ASSUME k \in RoleLink, ~Live(x)
      PROVE  job[r].op \in Removers /\ pc'[r] = "revoke" /\ Item(r)'.link = k
  <2>1. pc[r] = "unlink" /\ Item(r).link = k
    BY <1>6
  <2>2. Item(r).do = "unlink" /\ Item(r) \in StepsOf(job[r].op)
    BY <1>1, <2>1, AtStep, OnItem
  <2>3. job[r].op \in Removers
    BY <2>2, StepKinds DEF Adding, Reading
  <2>4. Item(r)' = [do |-> "revoke", link |-> k]
    <3>1. Head(rest) = [do |-> "revoke", link |-> Item(r).link]
      BY <1>1, <2>2, OnItem
    <3> HIDE DEF rest
    <3>2. Item(r)' = Head(rest)
      BY <1>3, <1>5
    <3> QED
      BY <2>1, <3>1, <3>2
  <2> DEFINE next == [do |-> "revoke", link |-> k]
  <2>5. next.do = "revoke" /\ next.link = k
    OBVIOUS
  <2>6. Item(r)' = next
    BY <2>4
  <2> HIDE DEF next
  <2> QED
    BY <1>3, <2>3, <2>5, <2>6
<1> QED
  BY <1>1, <1>3, <1>4, <1>6, Writing

-----------------------------------------------------------------------------
(* The actions.                                                            *)

LEMMA CommitStep ==
    ASSUME PrivilegesInv, NEW r \in Request, Commit(r)
    PROVE  PrivilegesInv'
<1>1. pc[r] = "commit" /\ Running(r) /\ Item(r).do = "commit"
  BY AtStep DEF Commit
<1>2. CASE Tail(seen[r].todo) = <<>>
  <2>1. Finish(r) /\ Forget(r)
    BY <1>2 DEF Commit
  <2>2. CommitWrites(r) /\ End(r, "done") /\ token' = token
    BY <2>1 DEF Finish, Forget
  <2>3. Covered'
    BY <1>1, <2>2, CommitKeepsGrants DEF Covered
  <2>4. ASSUME NEW s \in Request \ {r} PROVE Backing(s)'
    <3>1. pc'[s] = pc[s] /\ seen'[s] = seen[s] /\ beside'[s] = beside[s]
      BY <2>1, <2>2 DEF End, Goto, Forget, PrivilegesInv
    <3>2. Item(s)' = Item(s)
      BY <3>1 DEF Item
    <3> QED
      BY <1>1, <2>2, <3>1, <3>2, CommitKeepsGrants DEF Backing
  <2> QED
    BY <1>1, <2>1, <2>2, <2>3, <2>4, CommitKeepsGrants, Ending
<1>3. CASE Tail(seen[r].todo) # <<>>
  <2>1. CommitWrites(r) /\ Insertion(r, <<>>, seen[r].holder)
    BY <1>3 DEF Commit, Proceed
  <2>2. <<>> \in Todo(job[r].op) /\ seen[r].holder \in Entry \cup {None}
    BY <1>1, NothingToDo, OnItem
  <2>3. /\ job' = job /\ token' = token /\ beside' = beside /\ tidy' = tidy
        /\ pc' \in [Request -> Label] /\ seen' \in [Request -> Seen]
        /\ \A s \in Request \ {r} : pc'[s] = pc[s] /\ seen'[s] = seen[s]
        /\ OnAgenda(r)' /\ Running(r)' /\ pc'[r] # "issue"
    BY <1>1, <1>3, <2>1, <2>2, Advance
  <2>4. /\ pend' = [pend EXCEPT ![r] = NoWrites]
        /\ db' \in [Rows -> AnyRow] /\ \A k \in Rows : db'[k] \in RowType(k)
    BY <1>1, <2>1, CommitKeepsGrants
  <2>5. Covered'
    BY <1>1, <2>1, <2>3, CommitKeepsGrants DEF Covered
  <2>6. /\ pend' \in [Request -> [Rows -> AnyRow \cup {None}]]
        /\ \A s \in Request \ {r} : pend'[s] = pend[s]
        /\ HoldsNothing(r)' /\ Revoking(r)'
        /\ \A s \in Request, k \in Rows : Holds(s, k)' => pend'[s][k] \in RowType(k)
    BY <2>4, WritesGone
  <2>7. ASSUME NEW s \in Request PROVE Mine(s)'
    <3>1. CASE s = r
      <4>1. Backing(r)'
        BY <2>3 DEF Backing
      <4> QED
        BY <2>3, <2>6, <3>1, <4>1 DEF Mine
    <3>2. CASE s # r
      <4>1. pc'[s] = pc[s] /\ seen'[s] = seen[s] /\ beside'[s] = beside[s] /\ pend'[s] = pend[s]
        BY <2>3, <2>6, <3>2
      <4>2. Item(s)' = Item(s)
        BY <4>1 DEF Item
      <4>3. Backing(s)'
        BY <1>1, <2>1, <3>2, <4>1, <4>2, CommitKeepsGrants DEF Backing
      <4> QED
        BY <2>3, <4>1, <4>3, OthersStay
    <3> QED
      BY <3>1, <3>2
  <2>8. \A s \in Request : Running(s)' <=> Running(s)
    BY <1>1, <2>3 DEF Running
  <2>9. \A s, t \in Request : s # t /\ Running(s)' /\ Running(t)' => job'[t].op \in beside'[s]
    BY <2>3, <2>8 DEF PrivilegesInv
  <2>10. /\ job' \in [Request -> Job \cup {NoJob}] /\ token' \in [Roles -> SUBSET Name]
         /\ beside' \in [Request -> SUBSET Op] /\ tidy' \in BOOLEAN
    BY <2>3 DEF PrivilegesInv
  <2> QED
    BY <2>3, <2>4, <2>5, <2>6, <2>7, <2>9, <2>10 DEF PrivilegesInv
<1> QED
  BY <1>2, <1>3

LEMMA ItemShapes ==
    ASSUME NEW op, NEW i \in StepsOf(op)
    PROVE  /\ i.do \in {"ensure", "insert"} => i.name \in Name /\ i.group \in Module \cup {None}
           /\ i.do \in {"reload", "edit"} =>
                i.row \in Entry /\ i.name \in Name \cup {Same} /\ i.group \in Module \cup {Same}
           /\ i.do = "drop" => i.row \in Entry
           /\ i.do = "link" => i.name \in Name
           /\ i.do \in {"touch", "unlinkRow"} => i.link \in SetLink
           /\ i.do = "list" => i.module \in Module /\ (i.then = "update" \/ op \in Removers)
           /\ i.do \in {"grants", "dropCode"} => i.code \in Name /\ op \in Removers
           /\ i.do \in {"mapping", "unlink", "revoke"} => i.link \in RoleLink /\ op \in Removers
           /\ i.do = "codes" => i.role \in Roles /\ op = "switch"
           /\ i.do \notin {"codes", "commit"} => op # "switch"
<1>1. op = "switch" => i \in Reading
  BY DEF StepsOf, Removers
<1>2. CASE i \in Adding
  <2>1. i.do \notin {"codes", "commit"} => i \notin Reading
    BY DEF Reading
  <2> QED
    BY <1>1, <1>2, <2>1 DEF Adding
<1>3. CASE i \in Removing /\ op \in Removers
  BY <1>3 DEF Removing, Removers
<1>4. CASE i \in Reading /\ op = "switch"
  BY <1>4 DEF Reading
<1> QED
  BY <1>2, <1>3, <1>4, StepKinds

LEMMA ItemShape ==
    ASSUME PrivilegesInv, NEW r \in Request, Running(r)
    PROVE  LET i == Item(r)
               op == job[r].op
           IN  /\ i.do \in {"ensure", "insert"} => i.name \in Name /\ i.group \in Module \cup {None}
               /\ i.do \in {"reload", "edit"} =>
                    i.row \in Entry /\ i.name \in Name \cup {Same} /\ i.group \in Module \cup {Same}
               /\ i.do = "drop" => i.row \in Entry
               /\ i.do = "link" => i.name \in Name
               /\ i.do \in {"touch", "unlinkRow"} => i.link \in SetLink
               /\ i.do = "list" => i.module \in Module /\ (i.then = "update" \/ op \in Removers)
               /\ i.do \in {"grants", "dropCode"} => i.code \in Name /\ op \in Removers
               /\ i.do \in {"mapping", "unlink", "revoke"} => i.link \in RoleLink /\ op \in Removers
               /\ i.do = "codes" => i.role \in Roles /\ op = "switch"
               /\ i.do \notin {"codes", "commit"} => op # "switch"
<1>1. Item(r) \in StepsOf(job[r].op)
  BY OnItem
<1> QED
  BY <1>1, ItemShapes

LEMMA ViewTyped ==
    ASSUME PrivilegesInv, NEW r \in Request, NEW k \in Rows
    PROVE  View(r, k) \in RowType(k)
BY DEF PrivilegesInv, View, Holds

LEMMA HolderTyped ==
    ASSUME PrivilegesInv, NEW r \in Request, Running(r)
    PROVE  /\ seen[r].holder \in Entry \cup {None}
           /\ \A e : HolderAfter(r, e) \in Entry \cup {None}
BY OnItem DEF HolderAfter, Holders

LEMMA FindOwnerStep ==
    ASSUME PrivilegesInv, NEW r \in Request, FindOwner(r)
    PROVE  PrivilegesInv'
<1>1. pc[r] = "owner" /\ Running(r)
  BY AtStep DEF FindOwner
<1>2. CASE Abandon(r)
  BY <1>1, <1>2, AbandonKeeps
<1>3. CASE ~Abandon(r)
  <2>1. PICK e \in Named(r, "role", Owner) : Insertion(r, <<>>, e) /\ Unwritten
    BY <1>3 DEF FindOwner
  <2>2. e \in Entry \cup {None} /\ <<>> \in Todo(job[r].op)
    BY NothingToDo DEF Named
  <2> QED
    BY <1>1, <2>1, <2>2, ProceedKeeps
<1> QED
  BY <1>2, <1>3

(* The second half of a step.                                              *)
LEMMA ContinueKeeps ==
    ASSUME PrivilegesInv, NEW r \in Request, Running(r), NEW label,
           <<Item(r).do, label>> \in {<<"ensure", "insert">>, <<"link", "attach">>},
           pc[r] = Item(r).do, Continue(r, label), Calm
    PROVE  PrivilegesInv'
<1>1. /\ pc' = [pc EXCEPT ![r] = label] /\ db' = db /\ pend' = pend /\ job' = job /\ seen' = seen
      /\ token' = token /\ beside' = beside /\ tidy' = tidy
  BY DEF Continue, Goto, Calm
<1>2. label \in {"insert", "attach"} /\ pc[r] # "revoke"
  OBVIOUS
<1>3. /\ pc' \in [Request -> Label] /\ pc'[r] = label
      /\ \A s \in Request \ {r} : pc'[s] = pc[s]
  BY <1>1, <1>2 DEF PrivilegesInv, Label
<1>4. Steady(r)
  BY <1>1, <1>3 DEF Steady, PrivilegesInv
<1>5. Running(r)' /\ Backing(r)'
  BY <1>2, <1>3 DEF Running, Backing
<1>6. OnAgenda(r)'
  <2>1. OnAgenda(r)
    BY DEF PrivilegesInv, Mine
  <2>2. Item(r)' = Item(r)
    BY <1>1 DEF Item
  <2> QED
    BY <1>1, <1>3, <2>1, <2>2 DEF OnAgenda
<1> QED
  BY <1>1, <1>2, <1>4, <1>5, <1>6, Unwriting

LEMMA EnsureEntryStep ==
    ASSUME PrivilegesInv, NEW r \in Request, EnsureEntry(r)
    PROVE  PrivilegesInv'
<1>1. pc[r] = "ensure" /\ Running(r) /\ Item(r).do = "ensure"
  BY AtStep DEF EnsureEntry
<1>2. CASE Continue(r, "insert") /\ Calm
  BY <1>1, <1>2, ContinueKeeps
<1>3. CASE ~(Continue(r, "insert") /\ Calm)
  <2>1. PICK e : Insertion(r, <<>>, HolderAfter(r, e)) /\ Unwritten
    BY <1>3 DEF EnsureEntry
  <2>2. HolderAfter(r, e) \in Entry \cup {None} /\ <<>> \in Todo(job[r].op)
    BY <1>1, NothingToDo, HolderTyped
  <2> QED
    BY <1>1, <2>1, <2>2, ProceedKeeps
<1> QED
  BY <1>2, <1>3

LEMMA GoingOn ==
    ASSUME PrivilegesInv, NEW r \in Request, pc[r] \notin {"new", "done", "failed", "commit", "revoke"},
           Proceed(r), Unwritten
    PROVE  PrivilegesInv'
<1>1. Running(r)
  BY AtStep
<1>2. Insertion(r, <<>>, seen[r].holder)
  BY DEF Proceed
<1> QED
  BY <1>1, <1>2, HolderTyped, NothingToDo, ProceedKeeps

LEMMA RefuseTakenStep ==
    ASSUME PrivilegesInv, NEW r \in Request, RefuseTaken(r)
    PROVE  PrivilegesInv'
<1>1. pc[r] = "clash" /\ Running(r)
  BY AtStep DEF RefuseTaken
<1>2. Abandon(r) \/ (Proceed(r) /\ Unwritten)
  BY DEF RefuseTaken
<1> QED
  BY <1>1, <1>2, AbandonKeeps, GoingOn

LEMMA InsertEntryStep ==
    ASSUME PrivilegesInv, NEW r \in Request, InsertEntry(r)
    PROVE  PrivilegesInv'
<1>1. pc[r] = "insert" /\ Running(r) /\ Item(r).do \in {"ensure", "insert"} /\ Fresh(Item(r).kind) # {}
  BY AtStep DEF InsertEntry
<1>2. CASE Abandon(r)
  BY <1>1, <1>2, AbandonKeeps
<1>3. CASE ~Abandon(r)
  <2> DEFINE e == CHOOSE k \in Fresh(Item(r).kind) : TRUE
             x == [state |-> "live", name |-> Item(r).name, group |-> Item(r).group]
  <2>1. e \in Entry
    BY <1>1 DEF Fresh
  <2>2. Store(r, e, x) /\ Insertion(r, <<>>, HolderAfter(r, e))
    BY <1>3 DEF InsertEntry
  <2>3. x \in EntryRow
    BY <1>1, ItemShape DEF EntryRow, State
  <2> HIDE DEF e, x
  <2>4. db' = db /\ pend' = [pend EXCEPT ![r][e] = x]
    BY <2>2 DEF Store
  <2>5. (e \in Rows => x \in RowType(e)) /\ e \notin RoleLink
    BY <2>1, <2>3, RowFacts
  <2>6. job[r].op # "switch" /\ HolderAfter(r, e) \in Entry \cup {None}
    BY <1>1, ItemShape, HolderTyped
  <2> QED
    BY <1>1, <2>2, <2>4, <2>5, <2>6, WriteKeeps
<1> QED
  BY <1>2, <1>3

LEMMA ReloadEntryStep ==
    ASSUME PrivilegesInv, NEW r \in Request, ReloadEntry(r)
    PROVE  PrivilegesInv'
<1>1. pc[r] = "reload" /\ Running(r) /\ Item(r).do = "reload"
  BY AtStep DEF ReloadEntry
<1>2. CASE Abandon(r)
  BY <1>1, <1>2, AbandonKeeps
<1>3. CASE ~Abandon(r)
  <2> DEFINE i == Item(r)
             name == IF i.name = View(r, i.row).name THEN Same ELSE i.name
             group == IF i.group = View(r, i.row).group THEN Same ELSE i.group
             edit == [do |-> "edit", row |-> i.row, name |-> name, group |-> group]
             steps == IF name = Same /\ group = Same THEN <<>> ELSE <<edit>>
  <2>1. Insertion(r, steps, seen[r].holder) /\ Unwritten
    BY <1>3 DEF ReloadEntry
  <2>2. job[r].op # "switch" /\ i.row \in Entry /\ name \in Name \cup {Same} /\ group \in Module \cup {Same}
    BY <1>1, ItemShape
  <2>3. edit \in Adding
    <3> HIDE DEF i, name, group
    <3> QED
      BY <2>2 DEF Adding
  <2>4. steps \in Seq(Adding)
    <3> HIDE DEF edit, name, group, i
    <3> QED
      BY <2>3
  <2> HIDE DEF steps
  <2>5. steps \in Todo(job[r].op)
    BY <2>2, <2>4, AddingIsPaired
  <2> QED
    BY <1>1, <2>1, <2>5, HolderTyped, ProceedKeeps
<1> QED
  BY <1>2, <1>3

LEMMA EditEntryStep ==
    ASSUME PrivilegesInv, NEW r \in Request, EditEntry(r)
    PROVE  PrivilegesInv'
<1>1. pc[r] = "edit" /\ Running(r) /\ Item(r).do = "edit"
  BY AtStep DEF EditEntry
<1>2. CASE Abandon(r)
  BY <1>1, <1>2, AbandonKeeps
<1>3. CASE ~Abandon(r)
  <2> DEFINE i == Item(r)
             x == View(r, i.row)
             y == [x EXCEPT !.name = IF i.name = Same THEN @ ELSE i.name,
                            !.group = IF i.group = Same THEN @ ELSE i.group]
  <2>1. Store(r, i.row, y) /\ Proceed(r)
    BY <1>3 DEF EditEntry
  <2>2. /\ job[r].op # "switch" /\ i.row \in Entry
        /\ i.name \in Name \cup {Same} /\ i.group \in Module \cup {Same}
    BY <1>1, ItemShape
  <2>3. x \in EntryRow
    BY <2>2, RowFacts, ViewTyped
  <2>4. y \in EntryRow
    <3> HIDE DEF x, i
    <3>1. [x EXCEPT !.name = IF i.name = Same THEN x.name ELSE i.name,
                    !.group = IF i.group = Same THEN x.group ELSE i.group] \in EntryRow
      BY <2>2, <2>3 DEF EntryRow
    <3> QED
      BY <3>1
  <2> HIDE DEF y, x
  <2>5. db' = db /\ pend' = [pend EXCEPT ![r][i.row] = y]
    BY <2>1 DEF Store
  <2>6. (i.row \in Rows => y \in RowType(i.row)) /\ i.row \notin RoleLink
    BY <2>2, <2>4, RowFacts
  <2>7. Insertion(r, <<>>, seen[r].holder) /\ seen[r].holder \in Entry \cup {None}
    BY <1>1, <2>1, HolderTyped DEF Proceed
  <2> HIDE DEF i
  <2> QED
    BY <1>1, <2>2, <2>5, <2>6, <2>7, WriteKeeps
<1> QED
  BY <1>2, <1>3

(* A row goes: it is marked as deleted.                                    *)
LEMMA DeletedTyped ==
    /\ \A x \in EntryRow : [x EXCEPT !.state = "deleted"] \in EntryRow
    /\ \A x \in LinkRow : [x EXCEPT !.state = "deleted"] \in LinkRow
BY DEF EntryRow, LinkRow, State

LEMMA DropEntryStep ==
    ASSUME PrivilegesInv, NEW r \in Request, DropEntry(r)
    PROVE  PrivilegesInv'
<1>1. pc[r] = "drop" /\ Running(r) /\ Item(r).do = "drop"
  BY AtStep DEF DropEntry
<1>2. CASE Abandon(r)
  BY <1>1, <1>2, AbandonKeeps
<1>3. CASE ~Abandon(r)
  <2> DEFINE e == Item(r).row
             y == [View(r, e) EXCEPT !.state = "deleted"]
  <2>1. WriteRow(r, e, y) /\ Proceed(r)
    BY <1>3 DEF DropEntry
  <2>2. job[r].op # "switch" /\ e \in Entry
    BY <1>1, ItemShape
  <2>3. View(r, e) \in EntryRow
    BY <2>2, RowFacts, ViewTyped
  <2>4. y \in EntryRow
    BY <2>3, DeletedTyped
  <2> HIDE DEF y, e
  <2>5. db' = db /\ pend' = [pend EXCEPT ![r][e] = y]
    BY <2>1 DEF WriteRow
  <2>6. (e \in Rows => y \in RowType(e)) /\ e \notin RoleLink
    BY <2>2, <2>4, RowFacts
  <2>7. Insertion(r, <<>>, seen[r].holder) /\ seen[r].holder \in Entry \cup {None}
    BY <1>1, <2>1, HolderTyped DEF Proceed
  <2> QED
    BY <1>1, <2>2, <2>5, <2>6, <2>7, WriteKeeps
<1> QED
  BY <1>2, <1>3

-----------------------------------------------------------------------------
(* Links.                                                                  *)

LEMMA LookForLinkStep ==
    ASSUME PrivilegesInv, NEW r \in Request, LookForLink(r)
    PROVE  PrivilegesInv'
<1>1. pc[r] = "link" /\ Running(r) /\ Item(r).do = "link"
  BY AtStep DEF LookForLink
<1>2. Abandon(r) \/ (Proceed(r) /\ Unwritten) \/ (Continue(r, "attach") /\ Calm)
  BY DEF LookForLink
<1> QED
  BY <1>1, <1>2, AbandonKeeps, GoingOn, ContinueKeeps

LEMMA AttachStep ==
    ASSUME PrivilegesInv, NEW r \in Request, Attach(r)
    PROVE  PrivilegesInv'
<1>1. pc[r] = "attach" /\ Running(r) /\ Item(r).do = "link"
  BY AtStep DEF Attach
<1>2. CASE Abandon(r)
  BY <1>1, <1>2, AbandonKeeps
<1>3. CASE ~Abandon(r)
  <2> DEFINE k == HeldLink(r)
             x == [state |-> "live", by |-> r]
  <2>1. WriteRow(r, k, x) /\ Proceed(r)
    BY <1>3 DEF Attach
  <2>2. job[r].op # "switch" /\ k \notin Entry
    BY <1>1, ItemShape, HolderTyped, RowFacts DEF HeldLink
  <2>3. x \in LinkRow /\ Live(x)
    BY DEF LinkRow, State, Live
  <2> HIDE DEF k, x
  <2>4. db' = db /\ pend' = [pend EXCEPT ![r][k] = x]
    BY <2>1 DEF WriteRow
  <2>5. k \in Rows => x \in RowType(k)
    BY <2>2, <2>3, RowFacts DEF Rows
  <2>6. Insertion(r, <<>>, seen[r].holder) /\ seen[r].holder \in Entry \cup {None}
    BY <1>1, <2>1, HolderTyped DEF Proceed
  <2> QED
    BY <1>1, <2>2, <2>3, <2>4, <2>5, <2>6, WriteKeeps
<1> QED
  BY <1>2, <1>3

LEMMA FindMappingStep ==
    ASSUME PrivilegesInv, NEW r \in Request, FindMapping(r)
    PROVE  PrivilegesInv'
<1>1. pc[r] = "mapping" /\ Running(r)
  BY AtStep DEF FindMapping
<1>2. Abandon(r) \/ (Proceed(r) /\ Unwritten)
  BY DEF FindMapping
<1> QED
  BY <1>1, <1>2, AbandonKeeps, GoingOn

LEMMA FindSetRowStep ==
    ASSUME PrivilegesInv, NEW r \in Request, FindSetRow(r)
    PROVE  PrivilegesInv'
<1>1. pc[r] = "mappingRow" /\ Running(r)
  BY AtStep DEF FindSetRow
<1>2. Abandon(r) \/ (Proceed(r) /\ Unwritten)
  BY DEF FindSetRow
<1> QED
  BY <1>1, <1>2, AbandonKeeps, GoingOn

LEMMA DeleteMappingStep ==
    ASSUME PrivilegesInv, NEW r \in Request, DeleteMapping(r)
    PROVE  PrivilegesInv'
<1>1. pc[r] = "unlink" /\ Running(r) /\ Item(r).do = "unlink"
  BY AtStep DEF DeleteMapping
<1>2. CASE Abandon(r)
  BY <1>1, <1>2, AbandonKeeps
<1>3. CASE ~Abandon(r)
  <2> DEFINE k == Item(r).link
             y == [View(r, k) EXCEPT !.state = "deleted"]
  <2>1. WriteRow(r, k, y) /\ Proceed(r)
    BY <1>3 DEF DeleteMapping
  <2>2. job[r].op # "switch" /\ k \in RoleLink
    BY <1>1, ItemShape
  <2>3. View(r, k) \in LinkRow
    BY <2>2, RowFacts, ViewTyped
  <2>4. y \in LinkRow
    BY <2>3, DeletedTyped
  <2>5. k = Item(r).link
    OBVIOUS
  <2> HIDE DEF y, k
  <2>6. db' = db /\ pend' = [pend EXCEPT ![r][k] = y]
    BY <2>1 DEF WriteRow
  <2>7. k \in Rows => y \in RowType(k)
    BY <2>2, <2>4, RowFacts
  <2>8. Insertion(r, <<>>, seen[r].holder) /\ seen[r].holder \in Entry \cup {None}
    BY <1>1, <2>1, HolderTyped DEF Proceed
  <2> QED
    BY <1>1, <2>2, <2>5, <2>6, <2>7, <2>8, WriteKeeps
<1> QED
  BY <1>2, <1>3

LEMMA TouchSetRowStep ==
    ASSUME PrivilegesInv, NEW r \in Request, TouchSetRow(r)
    PROVE  PrivilegesInv'
<1>1. pc[r] = "touch" /\ Running(r) /\ Item(r).do = "touch" /\ Proceed(r)
  BY AtStep DEF TouchSetRow
<1>2. CASE Unwritten
  BY <1>1, <1>2, GoingOn
<1>3. CASE ~Unwritten
  <2> DEFINE k == Item(r).link
             y == View(r, k)
  <2>1. WriteRow(r, k, y)
    BY <1>3 DEF TouchSetRow
  <2>2. job[r].op # "switch" /\ k \in SetLink
    BY <1>1, ItemShape
  <2>3. y \in LinkRow
    BY <2>2, RowFacts, ViewTyped
  <2> HIDE DEF y, k
  <2>4. db' = db /\ pend' = [pend EXCEPT ![r][k] = y]
    BY <2>1 DEF WriteRow
  <2>5. (k \in Rows => y \in RowType(k)) /\ k \notin RoleLink
    BY <2>2, <2>3, RowFacts
  <2>6. Insertion(r, <<>>, seen[r].holder) /\ seen[r].holder \in Entry \cup {None}
    BY <1>1, HolderTyped DEF Proceed
  <2> QED
    BY <1>1, <2>2, <2>4, <2>5, <2>6, WriteKeeps
<1> QED
  BY <1>2, <1>3

LEMMA DropSetRowStep ==
    ASSUME PrivilegesInv, NEW r \in Request, DropSetRow(r)
    PROVE  PrivilegesInv'
<1>1. pc[r] = "unlinkRow" /\ Running(r) /\ Item(r).do = "unlinkRow"
  BY AtStep DEF DropSetRow
<1>2. CASE Abandon(r)
  BY <1>1, <1>2, AbandonKeeps
<1>3. CASE ~Abandon(r)
  <2> DEFINE k == Item(r).link
             y == [View(r, k) EXCEPT !.state = "deleted"]
  <2>1. WriteRow(r, k, y) /\ Proceed(r)
    BY <1>3 DEF DropSetRow
  <2>2. job[r].op # "switch" /\ k \in SetLink
    BY <1>1, ItemShape
  <2>3. View(r, k) \in LinkRow
    BY <2>2, RowFacts, ViewTyped
  <2>4. y \in LinkRow
    BY <2>3, DeletedTyped
  <2> HIDE DEF y, k
  <2>5. db' = db /\ pend' = [pend EXCEPT ![r][k] = y]
    BY <2>1 DEF WriteRow
  <2>6. (k \in Rows => y \in RowType(k)) /\ k \notin RoleLink
    BY <2>2, <2>4, RowFacts
  <2>7. Insertion(r, <<>>, seen[r].holder) /\ seen[r].holder \in Entry \cup {None}
    BY <1>1, <2>1, HolderTyped DEF Proceed
  <2> QED
    BY <1>1, <2>2, <2>5, <2>6, <2>7, WriteKeeps
<1> QED
  BY <1>2, <1>3

-----------------------------------------------------------------------------
(* Whole modules.                                                          *)

LEMMA TodoFlattened ==
    ASSUME NEW op, NEW n \in Nat, NEW seqs \in [1..n -> Todo(op)]
    PROVE  FlattenSeq(seqs) \in Todo(op)
<1> DEFINE T == Todo(op)
<1>1. <<>> \in T /\ \A s, t \in T : s \o t \in T
  BY NothingToDo, TodoConcat
<1> HIDE DEF T
<1>2. seqs \in [1..n -> T]
  BY DEF T
<1>3. FlattenSeq(seqs) \in T
  BY <1>1, <1>2, FlattenSeqIn
<1> QED
  BY <1>3 DEF T

LEMMA OrderOf ==
    ASSUME NEW S, S \subseteq Entry, NEW s \in SetToSeqs(S)
    PROVE  /\ Cardinality(S) \in Nat /\ DOMAIN s = 1..Cardinality(S)
           /\ \A i \in 1..Cardinality(S) : s[i] \in S
<1>1. IsFiniteSet(S)
  BY PrivilegesAssumption, FS_Subset
<1>2. Cardinality(S) \in Nat
  BY <1>1, FS_CardinalityType
<1>3. s \in [1..Cardinality(S) -> S]
  BY DEF SetToSeqs
<1> QED
  BY <1>2, <1>3

LEMMA StepsForTodo ==
    ASSUME PrivilegesInv, NEW r \in Request, NEW e \in Entry, NEW then, NEW op, op # "switch",
           then = "update" \/ op \in Removers
    PROVE  StepsFor(r, e, then) \in Todo(op)
<1> DEFINE code == View(r, e).name
           reload == [do |-> "reload", row |-> e, name |-> Same, group |-> Same]
           grants == [do |-> "grants", code |-> code]
           dropCode == [do |-> "dropCode", code |-> code]
<1>1. code \in Name
  <2>1. View(r, e) \in EntryRow
    BY RowFacts, ViewTyped
  <2> QED
    BY <2>1 DEF EntryRow
<1>2. CASE then = "update"
  <2>1. reload \in Adding
    BY DEF Adding
  <2>2. StepsFor(r, e, then) = <<reload, Grant(code)>>
    BY <1>2 DEF StepsFor
  <2> DEFINE grant == Grant(code)
  <2>3. grant \in Adding
    BY <1>1, AddingSteps
  <2> HIDE DEF reload, grant
  <2>4. <<reload, grant>> \in Seq(Adding)
    BY <2>1, <2>3
  <2> QED
    BY <2>2, <2>4, AddingIsPaired DEF grant
<1>3. CASE then # "update"
  <2>1. /\ grants \in StepsOf(op) /\ grants.do # "unlink"
        /\ dropCode \in StepsOf(op) /\ dropCode.do # "unlink"
    BY <1>1, <1>3, RemovingSteps DEF StepsOf
  <2>2. StepsFor(r, e, then) = <<grants, dropCode>>
    BY <1>3 DEF StepsFor
  <2> HIDE DEF grants, dropCode
  <2>3. <<grants, dropCode>> \in Todo(op)
    BY <2>1 DEF Todo, Paired
  <2> QED
    BY <2>2, <2>3
<1> QED
  BY <1>2, <1>3

LEMMA ListModuleStep ==
    ASSUME PrivilegesInv, NEW r \in Request, ListModule(r)
    PROVE  PrivilegesInv'
<1>1. pc[r] = "list" /\ Running(r) /\ Item(r).do = "list"
  BY AtStep DEF ListModule
<1>2. CASE Abandon(r)
  BY <1>1, <1>2, AbandonKeeps
<1>3. CASE ~Abandon(r)
  <2> DEFINE rows == OfModule(r, Item(r).module)
             op == job[r].op
             then == Item(r).then
  <2>1. PICK s \in SetToSeqs(rows) :
          /\ Insertion(r, FlattenSeq([i \in DOMAIN s |-> StepsFor(r, s[i], Item(r).then)]), seen[r].holder)
          /\ Unwritten
    BY <1>3 DEF ListModule
  <2>2. rows \subseteq Entry
    BY DEF OfModule
  <2>3. op # "switch" /\ (then = "update" \/ op \in Removers)
    BY <1>1, ItemShape
  <2> DEFINE n == Cardinality(rows)
             seqs == [i \in DOMAIN s |-> StepsFor(r, s[i], then)]
  <2>4. n \in Nat /\ DOMAIN s = 1..n /\ \A i \in 1..n : s[i] \in Entry
    <3> HIDE DEF rows
    <3> QED
      BY <2>2, OrderOf
  <2>5. Insertion(r, FlattenSeq(seqs), seen[r].holder) /\ Unwritten
    BY <2>1
  <2> HIDE DEF n, rows, op, then
  <2>6. \A i \in 1..n : StepsFor(r, s[i], then) \in Todo(op)
    BY <2>3, <2>4, StepsForTodo
  <2>7. seqs \in [1..n -> Todo(op)]
    BY <2>4, <2>6
  <2> HIDE DEF seqs
  <2>8. FlattenSeq(seqs) \in Todo(op)
    BY <2>4, <2>7, TodoFlattened
  <2> QED
    BY <1>1, <2>5, <2>8, HolderTyped, ProceedKeeps DEF op
<1> QED
  BY <1>2, <1>3

LEMMA ListGrantsStep ==
    ASSUME PrivilegesInv, NEW r \in Request, ListGrants(r)
    PROVE  PrivilegesInv'
<1>1. pc[r] = "grants" /\ Running(r) /\ Item(r).do = "grants"
  BY AtStep DEF ListGrants
<1> DEFINE code == Item(r).code
           holders == GrantsOf(r, code)
           op == job[r].op
<1>2. PICK s \in SetToSeqs(holders) : Insertion(r, UngrantEach(r, s, code), seen[r].holder)
  BY DEF ListGrants
<1>3. Unwritten
  BY DEF ListGrants
<1>4. op \in Removers
  BY <1>1, ItemShape
<1>5. holders \subseteq Entry /\ \A h \in holders : <<h, code>> \in RoleLink
  BY DEF GrantsOf, Roles, RoleLink
<1> DEFINE n == Cardinality(holders)
           seqs == [i \in DOMAIN s |-> Ungrant(<<s[i], code>>)]
<1>6. n \in Nat /\ DOMAIN s = 1..n /\ \A i \in 1..n : s[i] \in holders
  <2> HIDE DEF holders
  <2> QED
    BY <1>5, OrderOf
<1>7. UngrantEach(r, s, code) = FlattenSeq(seqs)
  BY DEF UngrantEach
<1> HIDE DEF n, holders, op, code
<1>8. \A i \in 1..n : Ungrant(<<s[i], code>>) \in Todo(op)
  BY <1>4, <1>5, <1>6, UngrantIsTodo
<1>9. seqs \in [1..n -> Todo(op)]
  BY <1>6, <1>8
<1> HIDE DEF seqs
<1>10. FlattenSeq(seqs) \in Todo(op)
  BY <1>6, <1>9, TodoFlattened
<1> QED
  BY <1>1, <1>2, <1>3, <1>7, <1>10, HolderTyped, ProceedKeeps DEF op

LEMMA DropCodeStep ==
    ASSUME PrivilegesInv, NEW r \in Request, DropCode(r)
    PROVE  PrivilegesInv'
<1>1. pc[r] = "dropCode" /\ Running(r) /\ Item(r).do = "dropCode" /\ Proceed(r)
  BY AtStep DEF DropCode
<1>2. CASE Unwritten
  BY <1>1, <1>2, GoingOn
<1>3. CASE ~Unwritten
  <2>1. PICK e \in Named(r, "privilege", Item(r).code) :
          WriteRow(r, e, [View(r, e) EXCEPT !.state = "deleted"])
    BY <1>3 DEF DropCode
  <2> DEFINE y == [View(r, e) EXCEPT !.state = "deleted"]
  <2>2. job[r].op # "switch" /\ e \in Entry
    BY <1>1, ItemShape DEF Named
  <2>3. View(r, e) \in EntryRow
    BY <2>2, RowFacts, ViewTyped
  <2>4. y \in EntryRow
    BY <2>3, DeletedTyped
  <2>5. WriteRow(r, e, y)
    BY <2>1
  <2> HIDE DEF y
  <2>6. db' = db /\ pend' = [pend EXCEPT ![r][e] = y]
    BY <2>5 DEF WriteRow
  <2>7. (e \in Rows => y \in RowType(e)) /\ e \notin RoleLink
    BY <2>2, <2>4, RowFacts
  <2>8. Insertion(r, <<>>, seen[r].holder) /\ seen[r].holder \in Entry \cup {None}
    BY <1>1, HolderTyped DEF Proceed
  <2> QED
    BY <1>1, <2>2, <2>6, <2>7, <2>8, WriteKeeps
<1> QED
  BY <1>2, <1>3

-----------------------------------------------------------------------------
(* Sessions.                                                               *)

(* As Advance, when the token store changes.                               *)
LEMMA NextItem ==
    ASSUME PrivilegesInv, NEW r \in Request, Running(r), Item(r).do # "commit",
           Keep(r, [seen[r] EXCEPT !.todo = Tail(seen[r].todo)]),
           Goto(r, Head(Tail(seen[r].todo)).do), job' = job
    PROVE  /\ pc' \in [Request -> Label] /\ seen' \in [Request -> Seen]
           /\ \A s \in Request \ {r} : pc'[s] = pc[s] /\ seen'[s] = seen[s]
           /\ OnAgenda(r)' /\ Running(r)' /\ pc'[r] # "issue"
<1> DEFINE todo == Tail(seen[r].todo)
           op == job[r].op
           x == [seen[r] EXCEPT !.todo = todo]
<1>1. /\ pc \in [Request -> Label] /\ seen \in [Request -> Seen]
  BY DEF PrivilegesInv
<1>2. seen' = [seen EXCEPT ![r] = x] /\ pc' = [pc EXCEPT ![r] = Head(todo).do]
  BY DEF Keep, Goto
<1>3. /\ job[r] \in Job /\ seen[r] \in Work /\ todo \in Todo(op) /\ Ended(todo)
  BY OnItem
<1>4. todo \in Seq(Adding \cup Removing \cup Reading)
  <2>1. todo \in Seq(StepsOf(op))
    BY <1>3 DEF Todo
  <2> HIDE DEF todo, op
  <2> QED
    BY <2>1, AllSteps, SeqOfMore
<1>5. x \in Work /\ x.todo = todo
  BY <1>3, <1>4 DEF Work
<1> HIDE DEF todo, op, x
<1>6. Head(todo) \in StepsOf(op)
  BY <1>3, TodoTail DEF Ended
<1>7. Head(todo).do \in Label /\ Head(todo).do \notin {"new", "done", "failed", "attach", "issue"}
  BY <1>6, StepKinds
<1>8. /\ seen'[r] = x /\ pc'[r] = Head(todo).do /\ pc' \in [Request -> Label] /\ seen' \in [Request -> Seen]
      /\ \A s \in Request \ {r} : pc'[s] = pc[s] /\ seen'[s] = seen[s]
  BY <1>1, <1>2, <1>5, <1>7 DEF Seen
<1>9. Item(r)' = Head(todo)
  BY <1>5, <1>8 DEF Item
<1>10. OnAgenda(r)'
  BY <1>3, <1>5, <1>8, <1>9 DEF OnAgenda, op
<1>11. Running(r)' /\ pc'[r] # "issue"
  BY <1>7, <1>8 DEF Running
<1> QED
  BY <1>8, <1>10, <1>11

LEMMA RevokeSessionsStep ==
    ASSUME PrivilegesInv, NEW r \in Request, RevokeSessions(r)
    PROVE  PrivilegesInv'
<1>1. pc[r] = "revoke" /\ Running(r) /\ Item(r).do = "revoke"
  BY AtStep DEF RevokeSessions
<1> DEFINE h == Item(r).link[1]
<1>2. /\ db' = db /\ pend' = pend /\ job' = job /\ beside' = beside /\ tidy' = tidy
      /\ token' = [token EXCEPT ![h] = {}]
  BY DEF RevokeSessions
<1>3. /\ pc' \in [Request -> Label] /\ seen' \in [Request -> Seen]
      /\ \A s \in Request \ {r} : pc'[s] = pc[s] /\ seen'[s] = seen[s]
      /\ OnAgenda(r)' /\ Running(r)' /\ pc'[r] # "issue"
  BY <1>1, <1>2, NextItem DEF RevokeSessions
<1>4. Item(r).link \in RoleLink /\ job[r].op # "switch" /\ h \in Roles
  BY <1>1, ItemShape DEF RoleLink
<1>5. \A g \in Roles : token'[g] = IF g = h THEN {} ELSE token[g]
  <2> HIDE DEF h
  <2> QED
    BY <1>2 DEF PrivilegesInv
<1>6. token' \in [Roles -> SUBSET Name]
  <2> HIDE DEF h
  <2> QED
    BY <1>2 DEF PrivilegesInv
<1>7. \A s \in Request : \A k : Holds(s, k)' <=> Holds(s, k)
  BY <1>2 DEF Holds
<1>8. Covered'
  BY <1>2, <1>5 DEF PrivilegesInv, Covered
<1>9. ASSUME NEW s \in Request PROVE Revoking(s)'
  <2> SUFFICES ASSUME NEW l \in RoleLink, Holds(s, l)', ~Live(pend'[s][l])
               PROVE  /\ job'[s].op \in Removers
                      /\ (pc'[s] = "revoke" /\ Item(s)'.link = l) \/ l[2] \notin token'[l[1]]
    BY DEF Revoking
  <2>1. /\ job[s].op \in Removers
        /\ (pc[s] = "revoke" /\ Item(s).link = l) \/ l[2] \notin token[l[1]]
    BY <1>2, <1>7 DEF PrivilegesInv, Mine, Revoking
  <2>2. l[1] \in Roles
    BY DEF RoleLink
  <2>3. l[2] \notin token[l[1]] => l[2] \notin token'[l[1]]
    BY <1>5, <2>2
  <2>4. CASE s = r
    <3>1. Item(r).link = l => l[2] \notin token'[l[1]]
      BY <1>5, <2>2
    <3> QED
      BY <1>2, <2>1, <2>3, <2>4, <3>1
  <2>5. CASE s # r
    <3>1. pc'[s] = pc[s] /\ Item(s)' = Item(s) /\ job' = job
      BY <1>2, <1>3, <2>5 DEF Item
    <3> QED
      BY <2>1, <2>3, <3>1
  <2> QED
    BY <2>4, <2>5
<1>10. ASSUME NEW s \in Request PROVE Mine(s)'
  <2>1. HoldsNothing(s)' <=> HoldsNothing(s)
    BY <1>7 DEF HoldsNothing
  <2>2. CASE s = r
    <3>1. Backing(r)'
      BY <1>3 DEF Backing
    <3> QED
      BY <1>2, <1>3, <1>4, <1>9, <2>2, <3>1 DEF Mine
  <2>3. CASE s # r
    <3>1. pc'[s] = pc[s] /\ seen'[s] = seen[s] /\ Item(s)' = Item(s)
      BY <1>3, <2>3 DEF Item
    <3>2. (OnAgenda(s)' <=> OnAgenda(s)) /\ (Running(s)' <=> Running(s))
      BY <1>2, <3>1 DEF OnAgenda, Running
    <3>3. Backing(s)' <=> Backing(s)
      BY <1>2, <3>1 DEF Backing
    <3> QED
      BY <1>2, <1>9, <2>1, <3>2, <3>3 DEF Mine, PrivilegesInv
  <2> QED
    BY <2>2, <2>3
<1>11. \A s \in Request : Running(s)' <=> Running(s)
  BY <1>1, <1>3 DEF Running
<1> QED
  BY <1>2, <1>3, <1>6, <1>7, <1>8, <1>10, <1>11 DEF PrivilegesInv

LEMMA ReadCodesStep ==
    ASSUME PrivilegesInv, NEW r \in Request, ReadCodes(r)
    PROVE  PrivilegesInv'
<1>1. pc[r] = "codes" /\ Running(r) /\ Item(r).do = "codes"
  BY AtStep DEF ReadCodes
<1> DEFINE h == Item(r).role
           codes == {k[2] : k \in {l \in Link : l[1] = h /\ Live(View(r, l))}}
           x == [seen[r] EXCEPT !.codes = codes]
<1>2. /\ pc' = [pc EXCEPT ![r] = "issue"] /\ seen' = [seen EXCEPT ![r] = x]
      /\ db' = db /\ pend' = pend /\ job' = job
      /\ token' = token /\ beside' = beside /\ tidy' = tidy
  BY DEF ReadCodes, Read, Keep, Goto, Calm
<1>3. OnAgenda(r) /\ (job[r].op = "switch" => HoldsNothing(r))
  BY <1>1 DEF PrivilegesInv, Mine
<1>4. job[r].op = "switch" /\ h \in Roles
  BY <1>1, ItemShape
<1>5. codes \in SUBSET Name
  BY RowFacts
<1>6. \A c \in codes : <<h, c>> \in Link /\ Live(db[<<h, c>>])
  <2> SUFFICES ASSUME NEW k \in Link, k[1] = h, Live(View(r, k))
               PROVE  <<h, k[2]>> \in Link /\ Live(db[<<h, k[2]>>])
    OBVIOUS
  <2>1. k = <<h, k[2]>> /\ k \in Rows
    BY RowFacts
  <2>2. View(r, k) = db[k]
    BY <1>3, <1>4, <2>1 DEF HoldsNothing, Holds, View
  <2> QED
    BY <2>1, <2>2
<1>7. x \in Work /\ x.todo = seen[r].todo /\ x.codes = codes
  <2> HIDE DEF codes
  <2> QED
    BY <1>3, <1>5 DEF OnAgenda, Work
<1> HIDE DEF x, codes
<1>8. /\ pc' \in [Request -> Label] /\ seen' \in [Request -> Seen] /\ pc'[r] = "issue" /\ seen'[r] = x
      /\ \A s \in Request \ {r} : pc'[s] = pc[s] /\ seen'[s] = seen[s]
  BY <1>2, <1>7 DEF PrivilegesInv, Label, Seen
<1>9. Item(r)' = Item(r) /\ Running(r)'
  BY <1>7, <1>8 DEF Item, Running
<1>10. OnAgenda(r)'
  BY <1>1, <1>2, <1>3, <1>7, <1>8, <1>9 DEF OnAgenda
<1>11. Steady(r)
  BY <1>2, <1>8 DEF Steady
<1>12. Backing(r)'
  BY <1>2, <1>6, <1>7, <1>8, <1>9 DEF Backing
<1> QED
  BY <1>1, <1>2, <1>9, <1>10, <1>11, <1>12, Unwriting

LEMMA IssueTokenStep ==
    ASSUME PrivilegesInv, NEW r \in Request, IssueToken(r)
    PROVE  PrivilegesInv'
<1>1. pc[r] = "issue" /\ Running(r) /\ Item(r).do = "codes"
  BY AtStep DEF IssueToken
<1> DEFINE h == Item(r).role
           quiet == beside[r] \cap Removers = {}
           codes == seen[r].codes
<1>2. /\ db' = db /\ pend' = pend /\ job' = job /\ beside' = beside /\ tidy' = tidy
      /\ token' = [token EXCEPT ![h] = IF quiet THEN token[h] \cup codes ELSE token[h]]
  BY DEF IssueToken
<1>3. /\ pc' \in [Request -> Label] /\ seen' \in [Request -> Seen]
      /\ \A s \in Request \ {r} : pc'[s] = pc[s] /\ seen'[s] = seen[s]
      /\ OnAgenda(r)' /\ Running(r)' /\ pc'[r] # "issue"
  BY <1>1, <1>2, NextItem DEF IssueToken
<1>4. h \in Roles /\ job[r].op = "switch" /\ Mine(r)
  BY <1>1, ItemShape DEF PrivilegesInv
<1>5. quiet => \A c \in codes : <<h, c>> \in Link /\ Live(db[<<h, c>>])
  BY <1>1, <1>4 DEF Mine, Backing
<1>6. codes \in SUBSET Name
  BY <1>1, OnItem DEF Work
<1> HIDE DEF h, quiet, codes
<1>7. \A g \in Roles : token'[g] = IF g = h /\ quiet THEN token[g] \cup codes ELSE token[g]
  BY <1>2 DEF PrivilegesInv
<1>8. token' \in [Roles -> SUBSET Name]
  BY <1>2, <1>4, <1>6 DEF PrivilegesInv
<1>9. \A s \in Request : \A k : Holds(s, k)' <=> Holds(s, k)
  BY <1>2 DEF Holds
<1>10. Covered'
  BY <1>2, <1>5, <1>7 DEF PrivilegesInv, Covered
<1>11. ASSUME NEW s \in Request \ {r} PROVE Revoking(s)'
  <2> SUFFICES ASSUME NEW l \in RoleLink, Holds(s, l)', ~Live(pend'[s][l])
               PROVE  /\ job'[s].op \in Removers
                      /\ (pc'[s] = "revoke" /\ Item(s)'.link = l) \/ l[2] \notin token'[l[1]]
    BY DEF Revoking
  <2>1. /\ job[s].op \in Removers
        /\ (pc[s] = "revoke" /\ Item(s).link = l) \/ l[2] \notin token[l[1]]
    BY <1>2, <1>9 DEF PrivilegesInv, Mine, Revoking
  <2>2. l[1] \in Roles /\ l \in Rows
    BY RowFacts DEF RoleLink
  <2>3. Running(s)
    <3>1. Holds(s, l)
      BY <1>9
    <3> QED
      BY <2>2, <3>1 DEF PrivilegesInv, Mine, HoldsNothing
  <2>4. ~quiet
    BY <1>1, <2>1, <2>3 DEF PrivilegesInv, quiet
  <2>5. token'[l[1]] = token[l[1]]
    BY <1>7, <2>2, <2>4
  <2>6. pc'[s] = pc[s] /\ Item(s)' = Item(s) /\ job' = job
    BY <1>2, <1>3 DEF Item
  <2> QED
    BY <2>1, <2>5, <2>6
<1>12. ASSUME NEW s \in Request PROVE Mine(s)'
  <2>1. HoldsNothing(s)' <=> HoldsNothing(s)
    BY <1>9 DEF HoldsNothing
  <2>2. CASE s = r
    <3>1. Backing(r)'
      BY <1>3 DEF Backing
    <3>2. HoldsNothing(r)'
      BY <1>4, <2>1, <2>2 DEF Mine
    <3>3. Revoking(r)'
      BY <3>2, RowFacts DEF Revoking, HoldsNothing
    <3> QED
      BY <1>3, <2>2, <3>1, <3>2, <3>3 DEF Mine
  <2>3. CASE s # r
    <3>1. pc'[s] = pc[s] /\ seen'[s] = seen[s] /\ Item(s)' = Item(s)
      BY <1>3, <2>3 DEF Item
    <3>2. (OnAgenda(s)' <=> OnAgenda(s)) /\ (Running(s)' <=> Running(s))
      BY <1>2, <3>1 DEF OnAgenda, Running
    <3>3. Backing(s)' <=> Backing(s)
      BY <1>2, <3>1 DEF Backing
    <3> QED
      BY <1>2, <1>11, <2>1, <2>3, <3>2, <3>3 DEF Mine, PrivilegesInv
  <2> QED
    BY <2>2, <2>3
<1>13. \A s \in Request : Running(s)' <=> Running(s)
  BY <1>1, <1>3 DEF Running
<1> QED
  BY <1>2, <1>3, <1>8, <1>9, <1>10, <1>12, <1>13 DEF PrivilegesInv

-----------------------------------------------------------------------------
(* Requests come and go.                                                   *)

LEMMA GrantHolders ==
    ASSUME NEW j \in Job, j.op = "grant"
    PROVE  j.holder \in Entry
<1>1. j \in GrantJob
  BY DEF Job, CreateRole, CreatePrivilege, CreatePlatform, Rename, DropJob, UngrantJob, SetLinkJob,
         ModuleJob, SwitchJob, SeedJob
<1> QED
  BY <1>1 DEF GrantJob, Roles, Sets

LEMMA ArriveStep ==
    ASSUME PrivilegesInv, NEW r \in Request, Arrive(r)
    PROVE  PrivilegesInv'
<1> DEFINE others == {s \in Request \ {r} : Running(s)}
<1>1. PICK j \in Asked[r] :
        /\ job' = [job EXCEPT ![r] = j]
        /\ Keep(r, [todo |-> Agenda(j), holder |-> IF j.op = "grant" THEN j.holder ELSE None, codes |-> {}])
        /\ Goto(r, Head(Agenda(j)).do)
        /\ beside' = [s \in Request |-> IF s = r THEN {job[t].op : t \in others}
                                        ELSE IF s \in others THEN beside[s] \cup {j.op} ELSE {}]
        /\ tidy' \in BOOLEAN
  BY DEF Arrive
<1>2. pc[r] = "new" /\ db' = db /\ pend' = pend /\ token' = token
  BY DEF Arrive
<1>3. /\ pc \in [Request -> Label] /\ seen \in [Request -> Seen] /\ job \in [Request -> Job \cup {NoJob}]
      /\ beside \in [Request -> SUBSET Op]
  BY DEF PrivilegesInv
<1>4. j \in Job /\ j.op \in Op /\ Fitting(Agenda(j), j.op)
  BY PrivilegesAssumption, AgendaFits
<1> DEFINE todo == Agenda(j)
           op == j.op
           x == [todo |-> todo, holder |-> IF op = "grant" THEN j.holder ELSE None, codes |-> {}]
<1>5. seen' = [seen EXCEPT ![r] = x] /\ pc' = [pc EXCEPT ![r] = Head(todo).do]
  BY <1>1 DEF Keep, Goto
<1>6. beside' = [s \in Request |-> IF s = r THEN {job[t].op : t \in others}
                                   ELSE IF s \in others THEN beside[s] \cup {op} ELSE {}]
  BY <1>1
<1>7. op = "grant" => j.holder \in Entry
  BY <1>4, GrantHolders
<1>8. todo \in Todo(op) /\ Ended(todo) /\ op \in Op
  BY <1>4 DEF Fitting
<1> HIDE DEF todo
<1>9. todo \in Seq(Adding \cup Removing \cup Reading)
  <2>1. todo \in Seq(StepsOf(op))
    BY <1>8 DEF Todo
  <2> HIDE DEF op
  <2> QED
    BY <2>1, AllSteps, SeqOfMore
<1>10. x \in Work /\ x.todo = todo
  BY <1>7, <1>9 DEF Work
<1> HIDE DEF x
<1>11. Head(todo) \in StepsOf(op)
  BY <1>8, TodoTail DEF Ended
<1>12. Head(todo).do \in Label /\ Head(todo).do \notin {"new", "done", "failed", "attach", "issue"}
  BY <1>11, StepKinds
<1>13. /\ seen'[r] = x /\ pc'[r] = Head(todo).do /\ job'[r] = j
       /\ pc' \in [Request -> Label] /\ seen' \in [Request -> Seen] /\ job' \in [Request -> Job \cup {NoJob}]
       /\ \A s \in Request \ {r} : pc'[s] = pc[s] /\ seen'[s] = seen[s] /\ job'[s] = job[s]
  BY <1>1, <1>3, <1>4, <1>5, <1>10, <1>12 DEF Seen
<1>14. Item(r)' = Head(todo) /\ Running(r)'
  BY <1>10, <1>12, <1>13 DEF Item, Running
<1>15. OnAgenda(r)'
  BY <1>4, <1>8, <1>10, <1>13, <1>14 DEF OnAgenda
<1>16. \A t \in others : job[t].op \in Op
  BY OnItem
<1>17. beside' \in [Request -> SUBSET Op]
  <2>1. {job[t].op : t \in others} \in SUBSET Op
    BY <1>16
  <2>2. \A s \in Request : beside[s] \cup {op} \in SUBSET Op
    BY <1>3, <1>8
  <2> HIDE DEF others, op
  <2> QED
    BY <1>6, <2>1, <2>2
<1>18. HoldsNothing(r)'
  <2>1. HoldsNothing(r)
    BY <1>2 DEF PrivilegesInv, Mine, Running
  <2> QED
    BY <1>2, <2>1 DEF HoldsNothing, Holds
<1>19. ASSUME NEW s \in Request PROVE Mine(s)'
  <2>1. CASE s = r
    <3>1. Revoking(r)'
      BY <1>18, RowFacts DEF Revoking, HoldsNothing
    <3>2. Backing(r)'
      BY <1>12, <1>13 DEF Backing
    <3> QED
      BY <1>14, <1>15, <1>18, <2>1, <3>1, <3>2 DEF Mine
  <2>2. CASE s # r
    <3>1. pc'[s] = pc[s] /\ seen'[s] = seen[s] /\ job'[s] = job[s] /\ pend'[s] = pend[s]
      BY <1>2, <1>13, <2>2
    <3>2. Item(s)' = Item(s) /\ Backing(s)
      BY <3>1 DEF Item, PrivilegesInv, Mine
    <3>3. pc[s] = "issue" => beside[s] \subseteq beside'[s]
      BY <1>6, <2>2 DEF Running
    <3>4. Backing(s)'
      BY <1>2, <3>1, <3>2, <3>3 DEF Backing
    <3> QED
      BY <1>2, <3>1, <3>4, OthersStay
  <2> QED
    BY <2>1, <2>2
<1>20. ASSUME NEW s \in Request, NEW t \in Request, s # t, Running(s)', Running(t)'
       PROVE  job'[t].op \in beside'[s]
  <2>1. \A q \in Request \ {r} : Running(q)' <=> q \in others
    BY <1>13 DEF Running
  <2>2. CASE s = r
    BY <1>6, <1>13, <1>20, <2>1, <2>2
  <2>3. CASE s # r /\ t = r
    BY <1>6, <1>13, <1>20, <2>1, <2>3
  <2>4. CASE s # r /\ t # r
    BY <1>6, <1>13, <1>20, <2>1, <2>4 DEF PrivilegesInv
  <2> QED
    BY <2>2, <2>3, <2>4
<1>21. \A s \in Request, k \in Rows : Holds(s, k)' => pend'[s][k] \in RowType(k)
  BY <1>2 DEF PrivilegesInv, Holds
<1>22. Covered'
  BY <1>2 DEF PrivilegesInv, Covered
<1> QED
  BY <1>1, <1>2, <1>13, <1>17, <1>19, <1>20, <1>21, <1>22 DEF PrivilegesInv

LEMMA ConnectionLostStep ==
    ASSUME PrivilegesInv, NEW r \in Request, ConnectionLost(r)
    PROVE  PrivilegesInv'
BY AbandonKeeps DEF ConnectionLost

LEMMA InitHolds == Init => PrivilegesInv
<1> SUFFICES ASSUME Init PROVE PrivilegesInv
  OBVIOUS
<1>1. PICK start \in Starts : db = [k \in Rows |-> InitialRow(start, k)]
  BY DEF Init
<1>2. \A k \in DOMAIN start.entries : k \in Entry /\ start.entries[k] \in EntryRow
  BY PrivilegesAssumption
<1>3. ASSUME NEW k \in Rows PROVE InitialRow(start, k) \in RowType(k)
  <2>1. CASE k \in DOMAIN start.entries
    BY <1>2, <2>1, RowFacts DEF InitialRow
  <2>2. CASE k \notin DOMAIN start.entries /\ k \in Entry
    <3>1. [state |-> "none", name |-> Owner, group |-> None] \in EntryRow
      BY PrivilegesAssumption DEF EntryRow, State, Name
    <3> QED
      BY <2>2, <3>1, RowFacts DEF InitialRow
  <2>3. CASE k \notin Entry
    <3>1. \A state \in {"live", "none"} : [state |-> state, by |-> None] \in LinkRow
      BY DEF LinkRow, State
    <3> QED
      BY <1>2, <2>3, <3>1 DEF InitialRow, RowType
  <2> QED
    BY <2>1, <2>2, <2>3
<1>4. \A k \in Rows : db[k] \in RowType(k) /\ db[k] \in AnyRow
  BY <1>1, <1>3, RowFacts
<1>5. db \in [Rows -> AnyRow] /\ Row = Rows
  BY <1>1, <1>4 DEF Row
<1>6. pend = [r \in Request |-> [k \in Rows |-> None]]
  BY <1>5 DEF Init, HandlersInit, NoWrites
<1>7. pend \in [Request -> [Rows -> AnyRow \cup {None}]]
  BY <1>6
<1>8. \A r \in Request : HoldsNothing(r)
  BY <1>6 DEF HoldsNothing, Holds
<1>9. /\ pc = [r \in Request |-> "new"] /\ job = [r \in Request |-> NoJob]
      /\ seen = [r \in Request |-> None] /\ token = [h \in Roles |-> {}] /\ beside = [r \in Request |-> {}]
  BY DEF Init, HandlersInit
<1>10. tidy \in BOOLEAN
  BY DEF Init, WholeModules, Filed
<1>11. ASSUME NEW r \in Request PROVE Mine(r) /\ ~Running(r)
  <2>1. ~Running(r) /\ job[r] = NoJob /\ pc[r] = "new" /\ HoldsNothing(r)
    BY <1>8, <1>9 DEF Running
  <2>2. Revoking(r) /\ Backing(r)
    BY <2>1, RowFacts DEF Revoking, Backing, HoldsNothing
  <2> QED
    BY <2>1, <2>2 DEF Mine
<1>12. Covered
  BY <1>9 DEF Covered
<1>13. /\ pc \in [Request -> Label] /\ job \in [Request -> Job \cup {NoJob}] /\ seen \in [Request -> Seen]
       /\ token \in [Roles -> SUBSET Name] /\ beside \in [Request -> SUBSET Op]
  BY <1>9 DEF Label, Seen
<1>14. \A r \in Request, k \in Rows : Holds(r, k) => pend[r][k] \in RowType(k)
  BY <1>8 DEF HoldsNothing
<1> QED
  BY <1>4, <1>5, <1>7, <1>10, <1>11, <1>12, <1>13, <1>14 DEF PrivilegesInv

LEMMA StepHolds == PrivilegesInv /\ [Next]_vars => PrivilegesInv'
<1> SUFFICES ASSUME PrivilegesInv, [Next]_vars PROVE PrivilegesInv'
  OBVIOUS
<1>1. CASE UNCHANGED vars
  <2>1. /\ db' = db /\ pend' = pend /\ pc' = pc /\ job' = job /\ seen' = seen
        /\ token' = token /\ beside' = beside /\ tidy' = tidy
    BY <1>1 DEF vars
  <2>2. \A r \in Request : \A k : Holds(r, k)' <=> Holds(r, k)
    BY <2>1 DEF Holds
  <2>3. \A r \in Request : Running(r)' <=> Running(r)
    BY <2>1 DEF Running
  <2>4. ASSUME NEW r \in Request PROVE Mine(r)'
    <3>1. Backing(r)'
      <4>1. Backing(r) /\ Item(r)' = Item(r)
        BY <2>1 DEF PrivilegesInv, Mine, Item
      <4> QED
        BY <2>1, <4>1 DEF Backing
    <3> QED
      BY <2>1, <3>1, OthersStay
  <2>5. Covered'
    BY <2>1 DEF PrivilegesInv, Covered
  <2> QED
    BY <2>1, <2>2, <2>3, <2>4, <2>5 DEF PrivilegesInv
<1>2. CASE Next
  BY <1>2, ArriveStep, FindOwnerStep, EnsureEntryStep, RefuseTakenStep, InsertEntryStep, ReloadEntryStep,
     EditEntryStep, DropEntryStep, LookForLinkStep, AttachStep, FindMappingStep, DeleteMappingStep,
     RevokeSessionsStep, FindSetRowStep, TouchSetRowStep, DropSetRowStep, ListModuleStep, ListGrantsStep,
     DropCodeStep, ReadCodesStep, IssueTokenStep, CommitStep, ConnectionLostStep
  DEF Next
<1> QED
  BY <1>1, <1>2

-----------------------------------------------------------------------------

LEMMA InvImplies == PrivilegesInv => TypeOK /\ TokensAreBacked
<1> SUFFICES ASSUME PrivilegesInv PROVE TypeOK /\ TokensAreBacked
  OBVIOUS
<1>1. TokensAreBacked
  BY DEF PrivilegesInv, Covered, TokensAreBacked
<1>2. TypeOK
  BY OnItem DEF PrivilegesInv, TypeOK
<1> QED
  BY <1>1, <1>2

(* PrivilegesInv is an inductive invariant.                                *)
THEOREM AgendasHold == Spec => []PrivilegesInv
<1>1. Init => PrivilegesInv
  BY InitHolds
<1>2. PrivilegesInv /\ [Next]_vars => PrivilegesInv'
  BY StepHolds
<1> QED
  BY <1>1, <1>2, PTL DEF Spec

(* Every row is of its table's type, and a request is at a step of its     *)
(* agenda, whatever it has found on the way (TypeOK).                      *)
THEOREM TypeCorrect == Spec => []TypeOK
<1>1. PrivilegesInv => TypeOK
  BY InvImplies
<1> QED
  BY <1>1, AgendasHold, PTL

(* A session carries no privilege that its role has lost, for any          *)
(* catalogue and any number of requests that grant, install, rename and    *)
(* delete at once, if the switch that issued it did not run beside a       *)
(* request that removes grants (TokensAreBacked).                          *)
THEOREM TokensAreCovered == Spec => []TokensAreBacked
<1>1. PrivilegesInv => TokensAreBacked
  BY InvImplies
<1> QED
  BY <1>1, AgendasHold, PTL

-----------------------------------------------------------------------------
(* Whole modules.  What a transaction makes of a module is stated of the   *)
(* values it is made of: the committed rows, the versions p that the       *)
(* transaction has written, its agenda and the holder it has found.        *)

PrivilegeRows == {e \in Entry : KindOf[e] = "privilege"}

(* The database as the transaction that has written p sees it.             *)
Over(rows, p) == [k \in Rows |-> IF p[k] # None THEN p[k] ELSE rows[k]]
NoVersions == [k \in Rows |-> None]

(* The unique index of privileges.                                         *)
Unique(rows) ==
    \A e, o \in PrivilegeRows :
        Live(rows[e]) /\ Live(rows[o]) /\ rows[e].name = rows[o].name => e = o

(* Two transactions have locked and named different rows.                  *)
Separate(p, q) ==
    /\ \A e \in Entry : p[e] = None \/ q[e] = None
    /\ \A e, o \in PrivilegeRows :
         p[e] # None /\ Live(p[e]) /\ q[o] # None /\ Live(q[o]) => p[e].name # q[o].name

IsOwner(rows, h) == h \in Roles /\ Live(rows[h]) /\ rows[h].name = Owner

(* The steps of endpoints that change modules as a whole.                  *)
Installing ==
    [do : {"ensure"}, kind : Kind, name : Name, group : Module \cup {None}]
      \cup [do : {"link"}, name : Name, strict : {FALSE}]
      \cup [do : {"owner", "commit"}]
      \cup [do : {"list"}, module : Module, then : {"update"}]
      \cup [do : {"reload"}, row : Entry, name : {Same}, group : {Same}]

Deleting ==
    [do : {"list"}, module : Module, then : {"delete"}]
      \cup [do : {"grants", "dropCode"}, code : Name]
      \cup [do : {"mapping", "unlink", "revoke"}, link : RoleLink]
      \cup [do : {"commit"}]

Ensures(i) == i.do = "ensure" /\ i.kind = "privilege"
Grants(i, c) == i.do = "link" /\ i.name = c
Begins(i) == i.do = "owner" \/ (i.do = "ensure" /\ i.kind = "role" /\ i.name = Owner)

(* The steps that change something of the i-th resource.                   *)
Changes(s, i) ==
    \/ s.do = "ensure" /\ s.kind = "role"
    \/ Ensures(s) /\ s.name \in CodesOf(i)
    \/ s.do = "link" /\ s.name \in CodesOf(i)
    \/ s.do \in {"grants", "dropCode"} /\ s.code \in CodesOf(i)
    \/ s.do = "unlink" /\ s.link[2] \in CodesOf(i)

(* Nothing written concerns the i-th resource, and nothing will.           *)
Untouched(p, i) ==
    \A k \in Rows : p[k] # None =>
        /\ k \notin Roles
        /\ k \in PrivilegeRows => p[k].name \notin CodesOf(i)
        /\ k \in RoleLink => k[2] \notin CodesOf(i)

Apart(p, todo, i) == Untouched(p, i) /\ \A s \in ToSet(todo) : ~Changes(s, i)

(* An installation has nothing but privileges and grants before its last   *)
(* privilege, except that it begins with the owner's role; from then on    *)
(* this role is the holder.                                                *)
Straight(todo) ==
    \A n \in 1..Len(todo) : Ensures(todo[n]) =>
        \A h \in 1..(n - 1) : todo[h].do = "link" \/ Ensures(todo[h]) \/ (h = 1 /\ Begins(todo[h]))

Owned(rows, todo, holder) ==
    (\E s \in ToSet(todo) : Ensures(s)) /\ ~Begins(todo[1]) => IsOwner(rows, holder)

(* The code c is installed, or it is still to be, or its grant comes next. *)
Ahead(todo, c) ==
    \E n \in 1..Len(todo) : /\ Ensures(todo[n]) /\ todo[n].name = c
                            /\ n + 1 \in 1..Len(todo) /\ Grants(todo[n + 1], c)

Coming(rows, todo, holder, c) ==
    \/ Installed(rows, c)
    \/ Ahead(todo, c)
    \/ Grants(todo[1], c) /\ Has(rows, "privilege", c, {}) /\ IsOwner(rows, holder)

(* Privileges of the i-th resource are new all together, under one module. *)
First(rows, p, i) ==
    \A e, o \in PrivilegeRows :
        p[e] # None /\ p[e].name \in CodesOf(i) => ~(Live(rows[o]) /\ rows[o].name \in CodesOf(i))

FiledAs(p, todo, i, m) ==
    /\ \A s \in ToSet(todo) : Ensures(s) /\ s.name \in CodesOf(i) => s.group = m
    /\ \A e \in PrivilegeRows : p[e] # None /\ p[e].name \in CodesOf(i) => p[e].group = m

Lists(todo) == \E s \in ToSet(todo) : s.do = "list"
Updating(m) == ModuleUpdate(m) \o Commits

Installation(rows, p, todo, holder) ==
    /\ todo \in Seq(Installing) /\ Straight(todo) /\ Owned(Over(rows, p), todo, holder)
    /\ \A k \in Rows : p[k] # None => Live(p[k])
    /\ \A e \in Entry : p[e] # None => rows[e].state = "none"
    /\ Lists(todo) =>
         /\ \A k \in Rows : p[k] = None
         /\ \E m \in Module : todo = Updating(m) \/ todo = Tail(Updating(m))
    /\ \A i \in DOMAIN Catalogue :
         /\ Apart(p, todo, i) \/ \A c \in CodesOf(i) : Coming(Over(rows, p), todo, holder, c)
         /\ First(rows, p, i) /\ \E m \in Module \cup {None} : FiledAs(p, todo, i, m)

(* The privilege c and its grants are gone or still to go.                 *)
Going(rows, todo, c) ==
    /\ ~Has(rows, "privilege", c, {}) \/ [do |-> "dropCode", code |-> c] \in ToSet(todo)
    /\ \/ [do |-> "grants", code |-> c] \in ToSet(todo)
       \/ \A h \in Roles : Live(rows[<<h, c>>]) => [do |-> "unlink", link |-> <<h, c>>] \in ToSet(todo)

Deletion(rows, p, todo) ==
    /\ todo \in Seq(Deleting)
    /\ \A k \in Rows : p[k] # None => ~Live(p[k])
    /\ \A e \in Entry : p[e] # None => p[e].name = rows[e].name
    /\ \A n \in 1..Len(todo) : todo[n].do = "commit" => n = Len(todo)
    /\ Lists(todo) => (\A k \in Rows : p[k] = None) /\ \E m \in Module : todo = ModuleDeletion(m) \o Commits
    /\ \A i \in DOMAIN Catalogue :
         Apart(p, todo, i) \/ \A c \in CodesOf(i) : Going(Over(rows, p), todo, c)

Wholly(rows, r) ==
    /\ job[r].op \in Whole
    /\ job[r].op \in Installers => Installation(rows, pend[r], seen[r].todo, seen[r].holder)
    /\ job[r].op = "deleteModule" => Deletion(rows, pend[r], seen[r].todo)

Sound(rows) == WholeModules(rows) /\ (\A i \in DOMAIN Catalogue : Filed(rows, i)) /\ Unique(rows)

WholeInv ==
    tidy =>
      /\ Sound(db)
      /\ \A r \in Request : Unique(Over(db, pend[r])) /\ (Running(r) => Wholly(db, r))
      /\ \A r, s \in Request : r # s =>
           /\ Separate(pend[r], pend[s])
           /\ Running(r) /\ Running(s) => ~(job[r].op \in Installers /\ job[s].op = "deleteModule")
-----------------------------------------------------------------------------
(* Agendas as sets of steps.                                               *)

LEMMA SetOfTail ==
    ASSUME NEW S, NEW t \in Seq(S), t # <<>>
    PROVE  /\ Tail(t) \in Seq(S) /\ Head(t) = t[1] /\ t[1] \in S /\ Len(t) \in Nat /\ Len(t) >= 1
           /\ Len(Tail(t)) = Len(t) - 1 /\ \A n \in 1..Len(Tail(t)) : Tail(t)[n] = t[n + 1]
           /\ t[1] \in ToSet(t) /\ ToSet(Tail(t)) \subseteq ToSet(t)
           /\ ToSet(t) = {t[1]} \cup ToSet(Tail(t))
<1>1. /\ Tail(t) \in Seq(S) /\ Head(t) = t[1] /\ t[1] \in S /\ Len(t) \in Nat /\ Len(t) >= 1
      /\ Len(Tail(t)) = Len(t) - 1 /\ \A n \in 1..Len(Tail(t)) : Tail(t)[n] = t[n + 1]
      /\ DOMAIN t = 1..Len(t) /\ DOMAIN Tail(t) = 1..Len(Tail(t))
  OBVIOUS
<1>2. t[1] \in ToSet(t)
  BY <1>1 DEF ToSet
<1>3. ASSUME NEW x \in ToSet(Tail(t)) PROVE x \in ToSet(t)
  <2>1. PICK n \in 1..Len(Tail(t)) : x = Tail(t)[n]
    BY <1>1, <1>3 DEF ToSet
  <2>2. x = t[n + 1] /\ n + 1 \in 1..Len(t)
    BY <1>1, <2>1
  <2> QED
    BY <1>1, <2>2 DEF ToSet
<1>4. ASSUME NEW x \in ToSet(t), x # t[1] PROVE x \in ToSet(Tail(t))
  <2>1. PICK n \in 1..Len(t) : x = t[n]
    BY <1>1, <1>4 DEF ToSet
  <2>2. PICK h \in 1..Len(Tail(t)) : n = h + 1
    BY <1>1, <1>4, <2>1
  <2>3. x = Tail(t)[h]
    BY <1>1, <2>1, <2>2
  <2> QED
    BY <1>1, <2>3 DEF ToSet
<1> QED
  BY <1>1, <1>2, <1>3, <1>4

LEMMA SetOfConcat ==
    ASSUME NEW S, NEW s \in Seq(S), NEW t \in Seq(S)
    PROVE  /\ s \o t \in Seq(S) /\ Len(s \o t) = Len(s) + Len(t)
           /\ \A n \in 1..Len(s) : (s \o t)[n] = s[n]
           /\ \A n \in 1..Len(t) : (s \o t)[Len(s) + n] = t[n]
           /\ ToSet(s \o t) = ToSet(s) \cup ToSet(t)
<1>1. /\ s \o t \in Seq(S) /\ Len(s \o t) = Len(s) + Len(t) /\ Len(s) \in Nat /\ Len(t) \in Nat
      /\ \A n \in 1..Len(s) : (s \o t)[n] = s[n]
      /\ \A n \in 1..Len(t) : (s \o t)[Len(s) + n] = t[n]
      /\ DOMAIN s = 1..Len(s) /\ DOMAIN t = 1..Len(t) /\ DOMAIN (s \o t) = 1..Len(s \o t)
  OBVIOUS
<1>2. ASSUME NEW x \in ToSet(s \o t) PROVE x \in ToSet(s) \cup ToSet(t)
  <2>1. PICK n \in 1..Len(s \o t) : x = (s \o t)[n]
    BY <1>1, <1>2 DEF ToSet
  <2>2. CASE n \in 1..Len(s)
    BY <1>1, <2>1, <2>2 DEF ToSet
  <2>3. CASE n \notin 1..Len(s)
    <3>1. PICK h \in 1..Len(t) : n = Len(s) + h
      <4>1. n - Len(s) \in 1..Len(t)
        BY <1>1, <2>3
      <4> QED
        BY <1>1, <4>1
    <3> QED
      BY <1>1, <2>1, <3>1 DEF ToSet
  <2> QED
    BY <2>2, <2>3
<1>3. ASSUME NEW x \in ToSet(s) PROVE x \in ToSet(s \o t)
  <2>1. PICK n \in 1..Len(s) : x = s[n]
    BY <1>1, <1>3 DEF ToSet
  <2>2. x = (s \o t)[n] /\ n \in 1..Len(s \o t)
    BY <1>1, <2>1
  <2> QED
    BY <1>1, <2>2 DEF ToSet
<1>4. ASSUME NEW x \in ToSet(t) PROVE x \in ToSet(s \o t)
  <2>1. PICK n \in 1..Len(t) : x = t[n]
    BY <1>1, <1>4 DEF ToSet
  <2>2. x = (s \o t)[Len(s) + n] /\ Len(s) + n \in 1..Len(s \o t)
    BY <1>1, <2>1
  <2> QED
    BY <1>1, <2>2 DEF ToSet
<1> QED
  BY <1>1, <1>2, <1>3, <1>4

LEMMA SetOfSeq ==
    ASSUME NEW S, NEW t \in Seq(S)
    PROVE  /\ \A x \in ToSet(t) : x \in S /\ \E n \in 1..Len(t) : x = t[n]
           /\ \A n \in 1..Len(t) : t[n] \in ToSet(t)
<1>1. DOMAIN t = 1..Len(t) /\ \A n \in 1..Len(t) : t[n] \in S
  OBVIOUS
<1> QED
  BY <1>1 DEF ToSet

(* What holds of a sequence as soon as it holds of a part holds of a       *)
(* flattened one when it holds of one of the pieces.                       *)
LEMMA FlattenHas ==
    ASSUME NEW S, NEW U, U \subseteq Seq(S),
           \A s \in Seq(S), t \in Seq(S) : s \in U \/ t \in U => s \o t \in U,
           NEW n \in Nat, NEW seqs \in [1..n -> Seq(S)], NEW i \in 1..n, seqs[i] \in U
    PROVE  FlattenSeq(seqs) \in U
<1> DEFINE T == Seq(S)
           f == CHOOSE g : IsFlattening(g, seqs, n)
<1>1. <<>> \in T /\ \A s, t \in T : s \o t \in T
  OBVIOUS
<1>2. Len(seqs) = n /\ n # 0
  OBVIOUS
<1>3. FlattenSeq(seqs) = f[n]
  BY <1>2 DEF FlattenSeq, IsFlattening
<1>4. PICK g \in [1..n -> T] : IsFlattening(g, seqs, n)
  <2> HIDE DEF T
  <2>1. seqs \in [1..n -> T]
    BY DEF T
  <2> QED
    BY <1>1, <2>1, FlatteningExists
<1>5. IsFlattening(f, seqs, n)
  BY <1>4
<1> HIDE DEF f
<1>6. \A k \in 1..n : f[k] = IF k = 1 THEN seqs[k] ELSE f[k - 1] \o seqs[k]
  BY <1>5 DEF IsFlattening
<1> DEFINE Reached == {k \in Nat : k \in 1..n => f[k] \in T /\ (i <= k => f[k] \in U)}
<1>7. ASSUME NEW k \in Nat, k \in Reached PROVE k + 1 \in Reached
  <2> SUFFICES ASSUME k + 1 \in 1..n PROVE f[k + 1] \in T /\ (i <= k + 1 => f[k + 1] \in U)
    OBVIOUS
  <2>1. f[k + 1] = IF k + 1 = 1 THEN seqs[k + 1] ELSE f[(k + 1) - 1] \o seqs[k + 1]
    BY <1>6
  <2>2. (k + 1) - 1 = k /\ seqs[k + 1] \in T
    OBVIOUS
  <2>3. CASE k = 0
    BY <2>1, <2>2, <2>3
  <2>4. CASE k # 0
    <3>1. k \in 1..n /\ f[k] \in T /\ (i <= k => f[k] \in U)
      BY <1>7, <2>4
    <3>2. f[k + 1] = f[k] \o seqs[k + 1]
      <4>1. k + 1 # 1
        BY <2>4
      <4>2. f[k + 1] = f[(k + 1) - 1] \o seqs[k + 1]
        BY <2>1, <4>1, Zenon
      <4> QED
        BY <2>2, <4>2, Zenon
    <3>3. f[k + 1] \in T
      BY <1>1, <2>2, <3>1, <3>2
    <3>4. ASSUME i <= k + 1 PROVE f[k + 1] \in U
      <4>1. f[k] \in U \/ seqs[k + 1] \in U
        BY <3>1, <3>4
      <4> QED
        BY <2>2, <3>1, <3>2, <4>1
    <3> QED
      BY <3>3, <3>4
  <2> QED
    BY <2>3, <2>4
<1>8. 0 \in Reached
  OBVIOUS
<1> HIDE DEF Reached
<1>9. n \in Reached
  BY <1>7, <1>8, SetInduction
<1>10. n \in 1..n /\ i <= n
  BY <1>2
<1>11. f[n] \in U
  BY <1>9, <1>10 DEF Reached
<1> QED
  BY <1>3, <1>11

LEMMA ConcatAssociates ==
    ASSUME NEW S, NEW a \in Seq(S), NEW b \in Seq(S), NEW c \in Seq(S)
    PROVE  (a \o b) \o c = a \o (b \o c)
OBVIOUS

-----------------------------------------------------------------------------
(* The codes of a resource.                                                *)

LEMMA CrudOf ==
    ASSUME NEW def, def.resource \in Resource, def.module \in Module
    PROVE  /\ \A d \in ToSet(Crud(def)) :
                /\ d \in Def /\ d.group = def.module
                /\ \E n \in DOMAIN Operations :
                     d.name = <<Operations[n], def.resource>> /\ Includes(def, Operations[n])
           /\ \A n \in DOMAIN Operations : Includes(def, Operations[n]) =>
                [name |-> <<Operations[n], def.resource>>, group |-> def.module] \in ToSet(Crud(def))
<1> DEFINE n == Len(Operations)
           New1(i) == [name |-> <<Operations[i], def.resource>>, group |-> def.module]
           S == {New1(i) : i \in {k \in 1..n : Includes(def, Operations[k])}}
           seqs == [i \in DOMAIN Operations |->
                      IF Includes(def, Operations[i])
                      THEN <<[name |-> <<Operations[i], def.resource>>, group |-> def.module]>> ELSE <<>>]
<1>1. n \in Nat /\ DOMAIN Operations = 1..n
  BY PrivilegesAssumption
<1>2. \A i \in 1..n : <<Operations[i], def.resource>> \in Name
  BY <1>1 DEF Name, Code
<1>3. Crud(def) = FlattenSeq(seqs)
  BY DEF Crud
<1>4. \A i \in 1..n : seqs[i] = IF Includes(def, Operations[i]) THEN <<New1(i)>> ELSE <<>>
  BY <1>1
<1>5. \A d \in S : /\ d \in Def /\ d.group = def.module
                   /\ \E i \in 1..n : d.name = <<Operations[i], def.resource>> /\ Includes(def, Operations[i])
  BY <1>2 DEF Def
<1>6. \A i \in 1..n : Includes(def, Operations[i]) => New1(i) \in S
  OBVIOUS
<1>7. DOMAIN seqs = 1..n
  BY <1>1
<1>8. seqs \in [1..n -> Seq(S)]
  <2>1. \A i \in 1..n : seqs[i] \in Seq(S)
    <3> TAKE i \in 1..n
    <3> DEFINE d == New1(i)
    <3>1. seqs[i] = IF Includes(def, Operations[i]) THEN <<d>> ELSE <<>>
      BY <1>4
    <3>2. Includes(def, Operations[i]) => d \in S
      BY <1>6
    <3> HIDE DEF S, New1, seqs, d
    <3> QED
      BY <3>1, <3>2
  <2> QED
    BY <1>1, <2>1
<1> HIDE DEF n, S, seqs, New1
<1>9. <<>> \in Seq(S) /\ \A s, t \in Seq(S) : s \o t \in Seq(S)
  OBVIOUS
<1>10. FlattenSeq(seqs) \in Seq(S)
  BY <1>1, <1>8, <1>9, FlattenSeqIn
<1>11. \A d \in ToSet(Crud(def)) : d \in S
  BY <1>3, <1>10, SetOfSeq
<1>12. ASSUME NEW i \in 1..n, Includes(def, Operations[i])
       PROVE  New1(i) \in ToSet(Crud(def))
  <2> DEFINE U == {s \in Seq(S) : New1(i) \in ToSet(s)}
  <2>1. U \subseteq Seq(S)
    OBVIOUS
  <2>2. \A s \in Seq(S), t \in Seq(S) : s \in U \/ t \in U => s \o t \in U
    BY SetOfConcat
  <2>3. seqs[i] = <<New1(i)>> /\ New1(i) \in S
    BY <1>4, <1>6, <1>12
  <2>4. seqs[i] \in U
    <3> DEFINE d == New1(i)
    <3> HIDE DEF New1, S, seqs
    <3>1. d \in S /\ seqs[i] = <<d>>
      BY <2>3
    <3> HIDE DEF d
    <3>2. <<d>> \in Seq(S) /\ d \in ToSet(<<d>>)
      BY <3>1 DEF ToSet
    <3> QED
      BY <3>1, <3>2 DEF d
  <2> HIDE DEF U
  <2>5. FlattenSeq(seqs) \in U
    BY <1>1, <1>8, <2>1, <2>2, <2>4, FlattenHas
  <2> QED
    BY <1>3, <2>5 DEF U
<1> QED
  BY <1>1, <1>5, <1>11, <1>12 DEF New1

LEMMA CatalogueItem ==
    ASSUME NEW i \in DOMAIN Catalogue
    PROVE  /\ Catalogue[i].resource \in Resource /\ Catalogue[i].module \in Module
           /\ Catalogue[i].delete => Catalogue[i].resource # Undeletable
<1> DEFINE Item1 == [resource : Resource, module : Module, update : BOOLEAN, delete : BOOLEAN]
<1>1. Catalogue \in Seq(Item1)
  BY PrivilegesAssumption
<1> HIDE DEF Item1
<1>2. Catalogue[i] \in Item1
  BY <1>1
<1> QED
  BY <1>2, CatalogueAssumption DEF Item1

LEMMA CodeFacts ==
    ASSUME NEW i \in DOMAIN Catalogue, NEW c \in CodesOf(i)
    PROVE  /\ c[2] = Catalogue[i].resource /\ c \in Name
           /\ \A h \in Roles : <<h, c>> \in RoleLink /\ <<h, c>> \in Rows
           /\ \E d \in ToSet(Crud(Catalogue[i])) : d.name = c
<1>1. PICK d \in ToSet(Crud(Catalogue[i])) : d.name = c
  BY DEF CodesOf
<1>2. d \in Def /\ \E n \in DOMAIN Operations : d.name = <<Operations[n], Catalogue[i].resource>>
  BY CatalogueItem, CrudOf
<1>3. c[2] = Catalogue[i].resource /\ c \in Name
  BY <1>1, <1>2 DEF Def
<1>4. \A h \in Roles : <<h, c>> \in Link
  BY CatalogueAssumption
<1>5. \A h \in Roles : <<h, c>> \in RoleLink /\ <<h, c>> \in Rows
  BY <1>4 DEF RoleLink, Rows
<1> QED
  BY <1>1, <1>3, <1>5

LEMMA OneResource ==
    ASSUME NEW i \in DOMAIN Catalogue, NEW j \in DOMAIN Catalogue, NEW c, c \in CodesOf(i), c \in CodesOf(j)
    PROVE  i = j
BY CodeFacts, CatalogueAssumption

Whole1(m) ==
    [resource |-> Upper[m], module |-> m, update |-> TRUE, delete |-> Upper[m] # Undeletable]

(* What create_module makes of a resource of the catalogue has all of it.  *)
LEMMA CreationHasAll ==
    ASSUME NEW m \in Module, NEW i \in DOMAIN Catalogue, Catalogue[i].resource = Upper[m],
           NEW c \in CodesOf(i)
    PROVE  \E d \in ToSet(Crud(Whole1(m))) : d.name = c
<1>1. PICK d \in ToSet(Crud(Catalogue[i])) : d.name = c
  BY DEF CodesOf
<1>2. PICK n \in DOMAIN Operations :
        d.name = <<Operations[n], Catalogue[i].resource>> /\ Includes(Catalogue[i], Operations[n])
  BY CatalogueItem, CrudOf
<1> DEFINE def == Whole1(m)
<1>3. def.resource = Upper[m] /\ def.module = m /\ def.update /\ (def.delete <=> Upper[m] # Undeletable)
  BY DEF Whole1
<1>4. Upper[m] \in Resource
  BY DEF Resource
<1> HIDE DEF def
<1>5. Includes(def, Operations[n])
  BY <1>2, <1>3, CatalogueItem DEF Includes
<1>6. [name |-> <<Operations[n], def.resource>>, group |-> def.module] \in ToSet(Crud(def))
  BY <1>3, <1>4, <1>5, CrudOf
<1>7. [name |-> <<Operations[n], def.resource>>, group |-> def.module].name = c
  BY <1>1, <1>2, <1>3
<1> QED
  BY <1>6, <1>7 DEF def

(* The seed's list is made of the catalogue's.                             *)
LEMMA BusinessOf ==
    /\ \A d \in ToSet(BusinessPrivileges) : \E i \in DOMAIN Catalogue : d \in ToSet(Crud(Catalogue[i]))
    /\ \A i \in DOMAIN Catalogue : ToSet(Crud(Catalogue[i])) \subseteq ToSet(BusinessPrivileges)
<1> DEFINE n == Len(Catalogue)
           S == UNION {ToSet(Crud(Catalogue[i])) : i \in 1..n}
           seqs == [i \in DOMAIN Catalogue |-> Crud(Catalogue[i])]
<1>1. n \in Nat /\ DOMAIN Catalogue = 1..n
  BY PrivilegesAssumption
<1>2. BusinessPrivileges = FlattenSeq(seqs)
  BY DEF BusinessPrivileges
<1>3. ASSUME NEW i \in 1..n PROVE Crud(Catalogue[i]) \in Seq(S)
  <2> DEFINE s == Crud(Catalogue[i])
  <2>1. s \in Seq(Def)
    BY <1>1, CatalogueItem, CrudIsTyped
  <2>2. ToSet(s) \subseteq S
    OBVIOUS
  <2> HIDE DEF s, S
  <2>3. \A k \in 1..Len(s) : s[k] \in S
    BY <2>1, <2>2, SetOfSeq
  <2>4. s \in Seq(S)
    BY <2>1, <2>3
  <2> QED
    BY <2>4 DEF s
<1>4. \A i \in 1..n : seqs[i] = Crud(Catalogue[i])
  BY <1>1
<1>5. seqs \in [1..n -> Seq(S)]
  <2> HIDE DEF S
  <2> QED
    BY <1>1, <1>3
<1>6. \A d \in S : \E i \in 1..n : d \in ToSet(Crud(Catalogue[i]))
  OBVIOUS
<1> HIDE DEF n, S, seqs
<1>7. <<>> \in Seq(S) /\ \A s, t \in Seq(S) : s \o t \in Seq(S)
  OBVIOUS
<1>8. FlattenSeq(seqs) \in Seq(S)
  BY <1>1, <1>5, <1>7, FlattenSeqIn
<1>9. \A d \in ToSet(BusinessPrivileges) : d \in S
  BY <1>2, <1>8, SetOfSeq
<1>10. ASSUME NEW i \in 1..n, NEW d \in ToSet(Crud(Catalogue[i]))
       PROVE  d \in ToSet(BusinessPrivileges)
  <2> DEFINE U == {s \in Seq(S) : d \in ToSet(s)}
  <2>1. U \subseteq Seq(S)
    OBVIOUS
  <2>2. \A s \in Seq(S), t \in Seq(S) : s \in U \/ t \in U => s \o t \in U
    BY SetOfConcat
  <2>3. seqs[i] \in U
    BY <1>3, <1>4, <1>10
  <2> HIDE DEF U
  <2>4. FlattenSeq(seqs) \in U
    BY <1>1, <1>5, <2>1, <2>2, <2>3, FlattenHas
  <2> QED
    BY <1>2, <2>4 DEF U
<1> QED
  BY <1>1, <1>6, <1>9, <1>10
-----------------------------------------------------------------------------
(* The agendas of whole modules.                                           *)

LEMMA AheadConcat ==
    ASSUME NEW S, NEW s \in Seq(S), NEW t \in Seq(S), NEW c, Ahead(s, c) \/ Ahead(t, c)
    PROVE  Ahead(s \o t, c)
<1>1. /\ Len(s \o t) = Len(s) + Len(t) /\ Len(s) \in Nat /\ Len(t) \in Nat
      /\ \A n \in 1..Len(s) : (s \o t)[n] = s[n]
      /\ \A n \in 1..Len(t) : (s \o t)[Len(s) + n] = t[n]
  BY SetOfConcat
<1>2. CASE Ahead(s, c)
  <2>1. PICK n \in 1..Len(s) : /\ Ensures(s[n]) /\ s[n].name = c
                               /\ n + 1 \in 1..Len(s) /\ Grants(s[n + 1], c)
    BY <1>2 DEF Ahead
  <2>2. /\ n \in 1..Len(s \o t) /\ n + 1 \in 1..Len(s \o t)
        /\ (s \o t)[n] = s[n] /\ (s \o t)[n + 1] = s[n + 1]
    BY <1>1, <2>1
  <2> QED
    BY <2>1, <2>2 DEF Ahead
<1>3. CASE Ahead(t, c)
  <2>1. PICK n \in 1..Len(t) : /\ Ensures(t[n]) /\ t[n].name = c
                               /\ n + 1 \in 1..Len(t) /\ Grants(t[n + 1], c)
    BY <1>3 DEF Ahead
  <2> DEFINE k == Len(s) + n
  <2>2. k \in 1..Len(s \o t) /\ k + 1 \in 1..Len(s \o t) /\ k + 1 = Len(s) + (n + 1)
    BY <1>1, <2>1
  <2>3. (s \o t)[k] = t[n] /\ (s \o t)[Len(s) + (n + 1)] = t[n + 1]
    BY <1>1, <2>1
  <2> HIDE DEF k
  <2> QED
    BY <2>1, <2>2, <2>3 DEF Ahead
<1> QED
  BY <1>2, <1>3

InstallSteps(defs) ==
    {Ensure("privilege", d.name, d.group) : d \in defs} \cup {Grant(d.name) : d \in defs}

LEMMA InstallOf ==
    ASSUME NEW defs \in Seq(Def)
    PROVE  /\ Install(defs) \in Seq(InstallSteps(ToSet(defs)))
           /\ \A d \in ToSet(defs) : Ahead(Install(defs), d.name)
<1> DEFINE S == InstallSteps(ToSet(defs))
           n == Len(defs)
           seqs == [i \in DOMAIN defs |->
                      <<Ensure("privilege", defs[i].name, defs[i].group), Grant(defs[i].name)>>]
<1>1. n \in Nat /\ DOMAIN defs = 1..n
  OBVIOUS
<1>2. \A i \in 1..n : defs[i] \in ToSet(defs)
  BY SetOfSeq
<1>3. ASSUME NEW i \in 1..n
      PROVE  /\ seqs[i] = <<Ensure("privilege", defs[i].name, defs[i].group), Grant(defs[i].name)>>
             /\ Ensure("privilege", defs[i].name, defs[i].group) \in S /\ Grant(defs[i].name) \in S
  BY <1>1, <1>2 DEF InstallSteps
<1>4. Install(defs) = FlattenSeq(seqs) /\ DOMAIN seqs = 1..n
  BY <1>1 DEF Install
<1> HIDE DEF S, n, seqs
<1>5. seqs \in [1..n -> Seq(S)]
  <2>1. ASSUME NEW i \in 1..n PROVE seqs[i] \in Seq(S)
    <3> DEFINE a == Ensure("privilege", defs[i].name, defs[i].group)
               b == Grant(defs[i].name)
    <3>1. seqs[i] = <<a, b>> /\ a \in S /\ b \in S
      BY <1>3
    <3> HIDE DEF a, b
    <3> QED
      BY <3>1
  <2>2. seqs = [i \in 1..n |-> seqs[i]]
    BY <1>4 DEF seqs
  <2> QED
    BY <2>1, <2>2
<1>6. <<>> \in Seq(S) /\ \A s, t \in Seq(S) : s \o t \in Seq(S)
  OBVIOUS
<1>7. FlattenSeq(seqs) \in Seq(S)
  BY <1>1, <1>5, <1>6, FlattenSeqIn
<1>8. ASSUME NEW d \in ToSet(defs) PROVE Ahead(Install(defs), d.name)
  <2>1. PICK i \in 1..n : d = defs[i]
    BY SetOfSeq DEF n
  <2> DEFINE c == d.name
             U == {s \in Seq(S) : Ahead(s, c)}
  <2>2. U \subseteq Seq(S)
    OBVIOUS
  <2>3. \A s \in Seq(S), t \in Seq(S) : s \in U \/ t \in U => s \o t \in U
    <3> SUFFICES ASSUME NEW s \in Seq(S), NEW t \in Seq(S), s \in U \/ t \in U PROVE s \o t \in U
      OBVIOUS
    <3>1. Ahead(s, c) \/ Ahead(t, c)
      OBVIOUS
    <3> HIDE DEF c
    <3>2. Ahead(s \o t, c)
      BY <3>1, AheadConcat
    <3> QED
      BY <3>2, <1>6
  <2>4. seqs[i] \in U
    <3> DEFINE a == Ensure("privilege", defs[i].name, defs[i].group)
               b == Grant(defs[i].name)
    <3>1. seqs[i] = <<a, b>> /\ a \in S /\ b \in S
      BY <1>3
    <3>2. Ensures(a) /\ a.name = c /\ Grants(b, c)
      BY <2>1 DEF Ensures, Ensure, Grants, Grant
    <3> HIDE DEF a, b, c
    <3>3. Len(<<a, b>>) = 2 /\ <<a, b>>[1] = a /\ <<a, b>>[1 + 1] = b /\ <<a, b>> \in Seq(S)
      BY <3>1
    <3>4. Ahead(<<a, b>>, c)
      BY <3>2, <3>3 DEF Ahead
    <3> QED
      BY <3>1, <3>3, <3>4
  <2> HIDE DEF U
  <2>5. FlattenSeq(seqs) \in U
    BY <1>1, <1>5, <2>2, <2>3, <2>4, FlattenHas
  <2> QED
    BY <1>4, <2>5 DEF U
<1> QED
  BY <1>4, <1>7, <1>8 DEF S

LEMMA InstallShape ==
    ASSUME NEW defs, NEW s \in InstallSteps(defs)
    PROVE  /\ s.do = "link" \/ Ensures(s)
           /\ s.do # "list" /\ s.do # "commit" /\ s.do # "owner" /\ ~Begins(s)
           /\ Ensures(s) => \E d \in defs : s.name = d.name /\ s.group = d.group
           /\ \E d \in defs : s.name = d.name
           /\ \A i : Changes(s, i) => \E d \in defs : d.name \in CodesOf(i)
<1>1. CASE s \in {Ensure("privilege", d.name, d.group) : d \in defs}
  BY <1>1 DEF Ensure, Ensures, Begins, Changes
<1>2. CASE s \in {Grant(d.name) : d \in defs}
  BY <1>2 DEF Grant, Ensures, Begins, Changes
<1> QED
  BY <1>1, <1>2 DEF InstallSteps

LEMMA InstallTyped ==
    ASSUME NEW defs, defs \subseteq Def
    PROVE  InstallSteps(defs) \subseteq Installing
<1>1. ASSUME NEW d \in Def
      PROVE  Ensure("privilege", d.name, d.group) \in Installing /\ Grant(d.name) \in Installing
  <2>1. d.name \in Name /\ d.group \in Module \cup {None} /\ "privilege" \in Kind
    BY DEF Def, Kind
  <2> QED
    BY <2>1 DEF Installing, Ensure, Grant
<1> QED
  BY <1>1 DEF InstallSteps

(* An installation that begins with the owner and ends with steps that add *)
(* no privilege.                                                           *)
LEMMA StraightStart ==
    ASSUME NEW S, NEW b \in S, Begins(b), NEW s \in Seq(S), NEW t \in Seq(S),
           \A x \in ToSet(s) : x.do = "link" \/ Ensures(x), \A x \in ToSet(t) : ~Ensures(x)
    PROVE  LET todo == <<b>> \o s \o t IN
           /\ todo \in Seq(S) /\ todo[1] = b /\ ToSet(todo) = {b} \cup ToSet(s) \cup ToSet(t)
           /\ Straight(todo)
<1> DEFINE u == <<b>> \o s
           todo == u \o t
<1>1. <<b>> \in Seq(S) /\ Len(<<b>>) = 1 /\ <<b>>[1] = b /\ ToSet(<<b>>) = {b}
  BY DEF ToSet
<1>2. /\ u \in Seq(S) /\ Len(u) = 1 + Len(s) /\ u[1] = b /\ ToSet(u) = {b} \cup ToSet(s)
      /\ \A n \in 1..Len(s) : u[1 + n] = s[n]
  <2> DEFINE v == <<b>>
  <2>1. v \in Seq(S) /\ Len(v) = 1 /\ v[1] = b /\ ToSet(v) = {b}
    BY <1>1
  <2> HIDE DEF v
  <2>2. /\ v \o s \in Seq(S) /\ Len(v \o s) = Len(v) + Len(s)
        /\ \A n \in 1..Len(v) : (v \o s)[n] = v[n]
        /\ \A n \in 1..Len(s) : (v \o s)[Len(v) + n] = s[n]
        /\ ToSet(v \o s) = ToSet(v) \cup ToSet(s)
    <3>1. v \in Seq(S)
      BY <2>1
    <3> QED
      BY ONLY <3>1, s \in Seq(S), SetOfConcat
  <2>3. (v \o s)[1] = b
    <3>1. 1 \in 1..Len(v)
      BY <2>1
    <3> QED
      BY <2>1, <2>2, <3>1, Zenon
  <2> QED
    BY <2>1, <2>2, <2>3 DEF v
<1>3. Len(s) \in Nat /\ Len(t) \in Nat
  OBVIOUS
<1> HIDE DEF u
<1>4. /\ todo \in Seq(S) /\ Len(todo) = Len(u) + Len(t)
      /\ \A n \in 1..Len(u) : todo[n] = u[n]
      /\ \A n \in 1..Len(t) : todo[Len(u) + n] = t[n]
      /\ ToSet(todo) = ToSet(u) \cup ToSet(t)
  <2>1. u \in Seq(S)
    BY <1>2
  <2> QED
    BY ONLY <2>1, t \in Seq(S), SetOfConcat
<1>5. todo[1] = b
  BY <1>2, <1>3, <1>4
<1> HIDE DEF todo
<1>6. ASSUME NEW n \in 1..Len(todo), Ensures(todo[n]), NEW h \in 1..(n - 1)
      PROVE  todo[h].do = "link" \/ Ensures(todo[h]) \/ (h = 1 /\ Begins(todo[h]))
  <2>1. n \in 1..Len(u)
    <3> SUFFICES ASSUME n \notin 1..Len(u) PROVE FALSE
      OBVIOUS
    <3>1. PICK k \in 1..Len(t) : n = Len(u) + k
      <4>1. Len(u) \in Nat /\ n \in Nat
        BY <1>2, <1>3
      <4>2. n - Len(u) \in 1..Len(t) /\ n = Len(u) + (n - Len(u))
        BY <1>3, <1>4, <4>1
      <4> QED
        BY <4>2
    <3>2. todo[n] = t[k] /\ t[k] \in ToSet(t)
      BY <1>4, <3>1, SetOfSeq
    <3> QED
      BY <1>6, <3>2
  <2>2. CASE h = 1
    BY <1>5, <2>2
  <2>3. CASE h # 1
    <3>1. PICK k \in 1..Len(s) : h = 1 + k
      <4>1. h - 1 \in 1..Len(s)
        BY <1>2, <1>3, <2>1, <2>3
      <4> QED
        BY <4>1
    <3>2. todo[h] = u[1 + k]
      BY <1>2, <1>3, <1>4, <3>1
    <3>3. todo[h] = s[k] /\ s[k] \in ToSet(s)
      BY <1>2, <3>2, SetOfSeq
    <3> QED
      BY <3>3
  <2> QED
    BY <2>2, <2>3
<1>7. Straight(todo)
  BY <1>6 DEF Straight
<1> QED
  BY <1>2, <1>4, <1>5, <1>7 DEF todo, u
LEMMA SetUpOf ==
    ASSUME NEW S, NEW kind, NEW sets \in Seq([name : Word, members : Seq(Word)]),
           \A n \in Name : Ensure(kind, n, None) \in S /\ Grant(n) \in S
    PROVE  SetUp(kind, sets) \in Seq(S)
<1> DEFINE T == Seq(S)
           n == Len(sets)
           seqs == [i \in DOMAIN sets |-> <<Ensure(kind, sets[i].name, None)>> \o GrantAll(sets[i].members)]
<1>1. n \in Nat /\ DOMAIN sets = 1..n
  OBVIOUS
<1>2. ASSUME NEW i \in 1..n
      PROVE  <<Ensure(kind, sets[i].name, None)>> \o GrantAll(sets[i].members) \in T
  <2>1. sets[i] \in [name : Word, members : Seq(Word)]
    BY <1>1, ItemOfSeq
  <2> DEFINE names == sets[i].members
  <2>2. sets[i].name \in Name /\ names \in Seq(Word) /\ Word \subseteq Name
    BY <2>1 DEF Name
  <2> HIDE DEF names
  <2>3. Len(names) \in Nat /\ DOMAIN names = 1..Len(names) /\ \A k \in 1..Len(names) : names[k] \in Name
    BY <2>2
  <2>4. GrantAll(names) \in [1..Len(names) -> S]
    BY <2>3 DEF GrantAll
  <2>5. GrantAll(names) \in Seq(S)
    <3> DEFINE g == GrantAll(names)
               k == Len(names)
    <3>1. g \in [1..k -> S] /\ k \in Nat
      BY <2>3, <2>4
    <3> HIDE DEF g, k
    <3>2. g \in Seq(S)
      BY <3>1
    <3> QED
      BY <3>2 DEF g
  <2>6. Ensure(kind, sets[i].name, None) \in S
    BY <2>2
  <2> QED
    BY <2>5, <2>6 DEF names
<1>3. seqs \in [1..n -> T]
  BY <1>1, <1>2
<1>4. <<>> \in T /\ \A s, t \in T : s \o t \in T
  OBVIOUS
<1> HIDE DEF T, n, seqs
<1>5. FlattenSeq(seqs) \in T
  BY <1>1, <1>3, <1>4, FlattenSeqIn
<1> QED
  BY <1>5 DEF SetUp, seqs, T

(* The steps of a seed after the business privileges.                      *)
Later == {s \in Installing : ~Ensures(s) /\ s.do # "list"}

SeedRest == Commits \o (SeedPlatform \o (Commits \o (SeedVocabulary \o Commits)))

LEMMA SeedIs ==
    /\ Seed = SeedBusiness \o SeedRest
    /\ SeedRest \in Seq(Later)
<1>1. /\ \A kind \in Kind \ {"privilege"}, n \in Name : Ensure(kind, n, None) \in Later
      /\ \A n \in Name : Grant(n) \in Later
      /\ [do |-> "commit"] \in Later
  <2>1. ASSUME NEW kind \in Kind \ {"privilege"}, NEW n \in Name PROVE Ensure(kind, n, None) \in Later
    BY DEF Later, Installing, Ensure, Ensures
  <2>2. ASSUME NEW n \in Name PROVE Grant(n) \in Later
    BY DEF Later, Installing, Grant, Ensures
  <2>3. [do |-> "commit"] \in Later
    BY DEF Later, Installing, Ensures
  <2> QED
    BY <2>1, <2>2, <2>3
<1>2. Commits \in Seq(Later)
  <2> DEFINE c == [do |-> "commit"]
  <2>1. c \in Later /\ Commits = <<c>>
    BY <1>1 DEF Commits
  <2> HIDE DEF c
  <2> QED
    BY <2>1
<1>3. SeedPlatform \in Seq(Later)
  <2> DEFINE codes == [i \in DOMAIN PlatformCodes |-> Ensure("platformPrivilege", PlatformCodes[i], None)]
  <2>1. /\ Len(PlatformCodes) \in Nat /\ DOMAIN PlatformCodes = 1..Len(PlatformCodes)
        /\ \A i \in 1..Len(PlatformCodes) : PlatformCodes[i] \in Name
    BY PrivilegesAssumption DEF Name
  <2>2. "platformPrivilege" \in Kind \ {"privilege"} /\ "set" \in Kind \ {"privilege"}
    BY DEF Kind
  <2>3. codes \in [1..Len(PlatformCodes) -> Later]
    BY <1>1, <2>1, <2>2
  <2>4. codes \in Seq(Later)
    BY <2>1, <2>3
  <2>5. SetUp("set", PlatformSets) \in Seq(Later)
    BY <1>1, <2>2, PrivilegesAssumption, SetUpOf
  <2> HIDE DEF codes
  <2>6. codes \o SetUp("set", PlatformSets) \in Seq(Later)
    BY <2>4, <2>5
  <2> QED
    BY <2>6 DEF SeedPlatform, codes
<1>4. SeedVocabulary \in Seq(Later)
  <2>1. "type" \in Kind \ {"privilege"}
    BY DEF Kind
  <2> QED
    BY <1>1, <2>1, PrivilegesAssumption, SetUpOf DEF SeedVocabulary
<1>5. SeedRest \in Seq(Later)
  BY <1>2, <1>3, <1>4 DEF SeedRest
<1>6. SeedBusiness \in Seq(Adding)
  <2>1. Ensure("role", Owner, None) \in Adding
    BY PrivilegesAssumption, AddingSteps DEF Kind, Name
  <2>2. Install(BusinessPrivileges) \in Seq(Adding)
    BY BusinessPrivilegesAreTyped, InstallAdds
  <2> QED
    BY <2>1, <2>2 DEF SeedBusiness
<1>7. Seed = SeedBusiness \o SeedRest
  <2> DEFINE S == Adding \cup Later
  <2>1. SeedBusiness \in Seq(S) /\ Commits \in Seq(S) /\ SeedPlatform \in Seq(S) /\ SeedVocabulary \in Seq(S)
    BY <1>2, <1>3, <1>4, <1>6, SeqOfMore
  <2> HIDE DEF S
  <2> DEFINE a == SeedBusiness
             b == Commits
             c == SeedPlatform
             d == SeedVocabulary
  <2>2. a \in Seq(S) /\ b \in Seq(S) /\ c \in Seq(S) /\ d \in Seq(S)
    BY <2>1
  <2>3. Seed = ((((a \o b) \o c) \o b) \o d) \o b /\ SeedRest = b \o (c \o (b \o (d \o b)))
    BY DEF Seed, SeedRest
  <2> HIDE DEF a, b, c, d
  <2> DEFINE x1 == a \o b
             x2 == x1 \o c
             x3 == x2 \o b
             y1 == d \o b
             y2 == b \o y1
             y3 == c \o y2
  <2>4. /\ x1 \in Seq(S) /\ x2 \in Seq(S) /\ x3 \in Seq(S) /\ y1 \in Seq(S) /\ y2 \in Seq(S) /\ y3 \in Seq(S)
        /\ Seed = (x3 \o d) \o b /\ SeedRest = b \o y3
        /\ x1 = a \o b /\ x2 = x1 \o c /\ x3 = x2 \o b /\ y1 = d \o b /\ y2 = b \o y1 /\ y3 = c \o y2
    BY <2>2, <2>3
  <2> HIDE DEF x1, x2, x3, y1, y2, y3
  <2>5. (x3 \o d) \o b = x3 \o y1
    <3>1. x3 \in Seq(S) /\ d \in Seq(S) /\ b \in Seq(S)
      BY <2>2, <2>4
    <3>2. (x3 \o d) \o b = x3 \o (d \o b)
      BY ONLY <3>1, ConcatAssociates
    <3> QED
      BY <2>4, <3>2
  <2>6. (x2 \o b) \o y1 = x2 \o y2
    <3>1. x2 \in Seq(S) /\ b \in Seq(S) /\ y1 \in Seq(S)
      BY <2>2, <2>4
    <3>2. (x2 \o b) \o y1 = x2 \o (b \o y1)
      BY ONLY <3>1, ConcatAssociates
    <3> QED
      BY <2>4, <3>2
  <2>7. (x1 \o c) \o y2 = x1 \o y3
    <3>1. x1 \in Seq(S) /\ c \in Seq(S) /\ y2 \in Seq(S)
      BY <2>2, <2>4
    <3>2. (x1 \o c) \o y2 = x1 \o (c \o y2)
      BY ONLY <3>1, ConcatAssociates
    <3> QED
      BY <2>4, <3>2
  <2>8. (a \o b) \o y3 = a \o (b \o y3)
    <3>1. a \in Seq(S) /\ b \in Seq(S) /\ y3 \in Seq(S)
      BY <2>2, <2>4
    <3> QED
      BY ONLY <3>1, ConcatAssociates
  <2>9. Seed = a \o SeedRest
    BY <2>4, <2>5, <2>6, <2>7, <2>8
  <2> QED
    BY <2>9 DEF a
<1> QED
  BY <1>5, <1>7

LEMMA NothingWritten ==
    ASSUME NEW rows
    PROVE  /\ \A k \in Rows : NoVersions[k] = None
           /\ Entry \subseteq Rows /\ PrivilegeRows \subseteq Rows
           /\ \A i : Untouched(NoVersions, i)
           /\ \A i : First(rows, NoVersions, i)
BY RowFacts DEF NoVersions, Untouched, First, PrivilegeRows

(* An installation that has written nothing yet.                           *)
LEMMA FreshInstallation ==
    ASSUME NEW rows, NEW holder, NEW todo \in Seq(Installing), Straight(todo), Begins(todo[1]),
           Lists(todo) => \E m \in Module : todo = Updating(m),
           \A i \in DOMAIN Catalogue :
             /\ (\A s \in ToSet(todo) : ~Changes(s, i)) \/ \A c \in CodesOf(i) : Ahead(todo, c)
             /\ \E m \in Module \cup {None} :
                  \A s \in ToSet(todo) : Ensures(s) /\ s.name \in CodesOf(i) => s.group = m
    PROVE  Installation(rows, NoVersions, todo, holder)
<1>1. Owned(Over(rows, NoVersions), todo, holder)
  BY DEF Owned
<1>2. ASSUME NEW i \in DOMAIN Catalogue
      PROVE  /\ \/ Apart(NoVersions, todo, i)
                \/ \A c \in CodesOf(i) : Coming(Over(rows, NoVersions), todo, holder, c)
             /\ First(rows, NoVersions, i)
             /\ \E m \in Module \cup {None} : FiledAs(NoVersions, todo, i, m)
  <2>1. PICK m \in Module \cup {None} :
          \A s \in ToSet(todo) : Ensures(s) /\ s.name \in CodesOf(i) => s.group = m
    OBVIOUS
  <2>2. FiledAs(NoVersions, todo, i, m)
    BY <2>1, NothingWritten DEF FiledAs
  <2>3. Apart(NoVersions, todo, i) \/ \A c \in CodesOf(i) : Coming(Over(rows, NoVersions), todo, holder, c)
    BY NothingWritten DEF Apart, Coming
  <2> QED
    BY <2>2, <2>3, NothingWritten
<1> QED
  BY <1>1, <1>2, NothingWritten DEF Installation
LEMMA CommitsOf ==
    /\ Commits \in Seq(Installing) /\ Commits \in Seq(Deleting)
    /\ \A s \in ToSet(Commits) : s = [do |-> "commit"]
<1> DEFINE c == [do |-> "commit"]
<1>1. c \in Installing /\ c \in Deleting /\ Commits = <<c>>
  BY DEF Installing, Deleting, Commits
<1> HIDE DEF c
<1>2. <<c>> \in Seq(Installing) /\ <<c>> \in Seq(Deleting) /\ ToSet(<<c>>) = {c}
  BY <1>1 DEF ToSet
<1>3. \A s \in ToSet(Commits) : s = c
  BY <1>1, <1>2
<1> QED
  BY <1>1, <1>2, <1>3 DEF c

LEMMA CreationBegins ==
    ASSUME NEW m \in Module, NEW rows, NEW holder
    PROVE  Installation(rows, NoVersions, ModuleCreation(m) \o Commits, holder)
<1> DEFINE defs == Crud(Whole1(m))
           b == [do |-> "owner"]
           s == Install(defs)
           t == Commits
           todo == <<b>> \o s \o t
<1>1. ModuleCreation(m) \o Commits = todo
  BY DEF ModuleCreation, Whole1
<1>2. Whole1(m).resource = Upper[m] /\ Whole1(m).module = m /\ Upper[m] \in Resource
  BY DEF Whole1, Resource
<1>3. /\ defs \in Seq(Def)
      /\ \A d \in ToSet(defs) : d \in Def /\ d.group = m /\ d.name[2] = Upper[m]
  <2>1. /\ Whole1(m).resource \in Resource /\ Whole1(m).module \in Module
    BY <1>2
  <2>2. \A d \in ToSet(defs) : /\ d \in Def /\ d.group = Whole1(m).module
                               /\ \E n \in DOMAIN Operations : d.name = <<Operations[n], Whole1(m).resource>>
    BY <2>1, CrudOf
  <2>3. defs \in Seq(Def)
    BY <2>1, CrudIsTyped
  <2> HIDE DEF defs
  <2>4. \A d \in ToSet(defs) : d.name[2] = Upper[m]
    BY <1>2, <2>2
  <2> QED
    BY <1>2, <2>2, <2>3, <2>4
<1>4. b.do = "owner" /\ b \in Installing
  BY DEF Installing
<1>5. Begins(b) /\ ~Ensures(b) /\ \A i : ~Changes(b, i)
  BY <1>4 DEF Begins, Ensures, Changes
<1> HIDE DEF defs, b
<1>6. s \in Seq(InstallSteps(ToSet(defs))) /\ \A d \in ToSet(defs) : Ahead(s, d.name)
  BY <1>3, InstallOf
<1>7. \A x \in ToSet(s) : x \in InstallSteps(ToSet(defs))
  BY <1>6, SetOfSeq
<1>8. InstallSteps(ToSet(defs)) \subseteq Installing
  <2>1. ToSet(defs) \subseteq Def
    BY <1>3
  <2> QED
    BY <2>1, InstallTyped
<1>9. s \in Seq(Installing) /\ t \in Seq(Installing)
  BY <1>6, <1>8, CommitsOf, SeqOfMore
<1>10. \A x \in ToSet(s) : (x.do = "link" \/ Ensures(x)) /\ x.do # "list"
  BY <1>7, InstallShape
<1>11. \A x \in ToSet(t) : x.do = "commit" /\ ~Ensures(x) /\ \A i : ~Changes(x, i)
  BY CommitsOf DEF Ensures, Changes
<1> HIDE DEF s, t
<1>12. /\ todo \in Seq(Installing) /\ todo[1] = b /\ ToSet(todo) = {b} \cup ToSet(s) \cup ToSet(t)
       /\ Straight(todo)
  BY <1>4, <1>5, <1>9, <1>10, <1>11, StraightStart
<1>13. ~Lists(todo)
  BY <1>4, <1>10, <1>11, <1>12 DEF Lists
<1>14. \A d \in ToSet(defs) : Ahead(todo, d.name)
  <2> TAKE d \in ToSet(defs)
  <2> DEFINE c == d.name
             u == <<b>>
  <2>1. Ahead(s, c) /\ u \in Seq(Installing)
    BY <1>4, <1>6
  <2> HIDE DEF c, u
  <2>2. u \o s \in Seq(Installing) /\ Ahead(u \o s, c)
    BY <1>9, <2>1, AheadConcat
  <2>3. Ahead((u \o s) \o t, c)
    BY <1>9, <2>2, AheadConcat
  <2> QED
    BY <2>3 DEF c, u
<1>15. ASSUME NEW i \in DOMAIN Catalogue
       PROVE  /\ (\A x \in ToSet(todo) : ~Changes(x, i)) \/ \A c \in CodesOf(i) : Ahead(todo, c)
              /\ \A x \in ToSet(todo) : Ensures(x) /\ x.name \in CodesOf(i) => x.group = m
  <2>1. CASE Catalogue[i].resource = Upper[m]
    <3>1. \A c \in CodesOf(i) : \E d \in ToSet(defs) : d.name = c
      BY <2>1, CreationHasAll DEF defs
    <3> HIDE DEF todo
    <3> QED
      BY <1>3, <1>5, <1>7, <1>11, <1>12, <1>14, <3>1, InstallShape
  <2>2. CASE Catalogue[i].resource # Upper[m]
    <3>1. \A d \in ToSet(defs) : d.name \notin CodesOf(i)
      BY <1>3, <2>2, CodeFacts
    <3>2. \A x \in ToSet(s) : ~Changes(x, i)
      BY <1>7, <3>1, InstallShape
    <3> HIDE DEF todo
    <3>3. \A x \in ToSet(todo) : ~Changes(x, i)
      BY <1>5, <1>11, <1>12, <3>2
    <3> QED
      BY <3>3 DEF Changes
  <2> QED
    BY <2>1, <2>2
<1> HIDE DEF todo
<1>16. m \in Module \cup {None}
  OBVIOUS
<1>17. Installation(rows, NoVersions, todo, holder)
  BY <1>5, <1>12, <1>13, <1>15, <1>16, FreshInstallation
<1> QED
  BY <1>1, <1>17

LEMMA SeedBegins ==
    ASSUME NEW rows, NEW holder
    PROVE  Installation(rows, NoVersions, Seed, holder)
<1> DEFINE defs == BusinessPrivileges
           b == Ensure("role", Owner, None)
           s == Install(defs)
           t == SeedRest
           todo == <<b>> \o s \o t
<1>1. Seed = todo
  BY SeedIs DEF SeedBusiness
<1>2. /\ defs \in Seq(Def)
      /\ \A d \in ToSet(defs) : \E i \in DOMAIN Catalogue :
           d \in Def /\ d.group = Catalogue[i].module /\ d.name[2] = Catalogue[i].resource
  <2>1. ASSUME NEW i \in DOMAIN Catalogue, NEW d \in ToSet(Crud(Catalogue[i]))
        PROVE  d \in Def /\ d.group = Catalogue[i].module /\ d.name[2] = Catalogue[i].resource
    <3>1. PICK n \in DOMAIN Operations : d.name = <<Operations[n], Catalogue[i].resource>>
      BY CatalogueItem, CrudOf
    <3>2. d \in Def /\ d.group = Catalogue[i].module
      BY CatalogueItem, CrudOf
    <3> QED
      BY <3>1, <3>2
  <2> QED
    BY <2>1, BusinessOf, BusinessPrivilegesAreTyped
<1>3. b.do = "ensure" /\ b.kind = "role" /\ b.name = Owner /\ b \in Installing
  BY PrivilegesAssumption DEF Installing, Ensure, Kind, Name
<1>4. Begins(b) /\ ~Ensures(b)
  BY <1>3 DEF Begins, Ensures
<1>5. \A i \in DOMAIN Catalogue : \A c \in CodesOf(i) : \E d \in ToSet(defs) : d.name = c
  BY BusinessOf, CodeFacts
<1> HIDE DEF defs, b
<1>6. s \in Seq(InstallSteps(ToSet(defs))) /\ \A d \in ToSet(defs) : Ahead(s, d.name)
  BY <1>2, InstallOf
<1>7. \A x \in ToSet(s) : x \in InstallSteps(ToSet(defs))
  BY <1>6, SetOfSeq
<1>8. InstallSteps(ToSet(defs)) \subseteq Installing
  <2>1. ToSet(defs) \subseteq Def
    BY <1>2
  <2> QED
    BY <2>1, InstallTyped
<1>9. s \in Seq(Installing) /\ t \in Seq(Installing)
  <2>1. Later \subseteq Installing
    BY DEF Later
  <2> QED
    BY <1>6, <1>8, <2>1, SeedIs, SeqOfMore
<1>10. \A x \in ToSet(s) : (x.do = "link" \/ Ensures(x)) /\ x.do # "list"
  BY <1>7, InstallShape
<1>11. \A x \in ToSet(t) : x.do # "list" /\ ~Ensures(x)
  BY SeedIs, SetOfSeq DEF Later
<1> HIDE DEF s, t
<1>12. /\ todo \in Seq(Installing) /\ todo[1] = b /\ ToSet(todo) = {b} \cup ToSet(s) \cup ToSet(t)
       /\ Straight(todo)
  BY <1>3, <1>4, <1>9, <1>10, <1>11, StraightStart
<1>13. ~Lists(todo)
  BY <1>3, <1>10, <1>11, <1>12 DEF Lists
<1>14. \A d \in ToSet(defs) : Ahead(todo, d.name)
  <2> TAKE d \in ToSet(defs)
  <2> DEFINE c == d.name
             u == <<b>>
  <2>1. Ahead(s, c) /\ u \in Seq(Installing)
    BY <1>3, <1>6
  <2> HIDE DEF c, u
  <2>2. u \o s \in Seq(Installing) /\ Ahead(u \o s, c)
    BY <1>9, <2>1, AheadConcat
  <2>3. Ahead((u \o s) \o t, c)
    BY <1>9, <2>2, AheadConcat
  <2> QED
    BY <2>3 DEF c, u
<1> HIDE DEF todo
<1>15. ASSUME NEW i \in DOMAIN Catalogue
       PROVE  /\ \A c \in CodesOf(i) : Ahead(todo, c)
              /\ \E m \in Module \cup {None} :
                   \A x \in ToSet(todo) : Ensures(x) /\ x.name \in CodesOf(i) => x.group = m
  <2>1. Catalogue[i].module \in Module \cup {None}
    BY CatalogueItem
  <2>2. ASSUME NEW x \in ToSet(todo), Ensures(x), x.name \in CodesOf(i)
        PROVE  x.group = Catalogue[i].module
    <3>1. PICK d \in ToSet(defs) : x.name = d.name /\ x.group = d.group
      BY <1>4, <1>7, <1>11, <1>12, <2>2, InstallShape
    <3>2. PICK j \in DOMAIN Catalogue : d.group = Catalogue[j].module /\ d.name[2] = Catalogue[j].resource
      BY <1>2
    <3>3. d.name[2] = Catalogue[i].resource
      BY <2>2, <3>1, CodeFacts
    <3>4. i = j
      BY <3>2, <3>3, CatalogueAssumption
    <3> QED
      BY <3>1, <3>2, <3>4
  <2>3. \A c \in CodesOf(i) : Ahead(todo, c)
    BY <1>5, <1>14
  <2> QED
    BY <2>1, <2>2, <2>3
<1>16. Installation(rows, NoVersions, todo, holder)
  BY <1>4, <1>12, <1>13, <1>15, FreshInstallation
<1> QED
  BY <1>1, <1>16

LEMMA Appended ==
    ASSUME NEW a, NEW b, NEW c
    PROVE  <<a, b>> \o <<c>> = <<a, b, c>> /\ <<a>> \o <<c>> = <<a, c>>
<1>1. <<a, b>> \o <<c>> = <<a, b, c>>
  <2> DEFINE s == <<a, b>> \o <<c>>
             t == <<a, b, c>>
  <2>1. s \in Seq({a, b, c}) /\ Len(s) = 3 /\ s[1] = a /\ s[2] = b /\ s[3] = c
    OBVIOUS
  <2>2. t \in Seq({a, b, c}) /\ Len(t) = 3 /\ t[1] = a /\ t[2] = b /\ t[3] = c
    OBVIOUS
  <2> HIDE DEF s, t
  <2>3. s = [i \in 1..3 |-> s[i]] /\ t = [i \in 1..3 |-> t[i]]
    BY <2>1, <2>2
  <2>4. \A i \in 1..3 : s[i] = t[i]
    <3>1. \A i \in 1..3 : i = 1 \/ i = 2 \/ i = 3
      OBVIOUS
    <3> QED
      BY <2>1, <2>2, <3>1
  <2> QED
    BY <2>3, <2>4 DEF s, t
<1>2. <<a>> \o <<c>> = <<a, c>>
  <2> DEFINE s == <<a>> \o <<c>>
             t == <<a, c>>
  <2>1. s \in Seq({a, c}) /\ Len(s) = 2 /\ s[1] = a /\ s[2] = c
    OBVIOUS
  <2>2. t \in Seq({a, c}) /\ Len(t) = 2 /\ t[1] = a /\ t[2] = c
    OBVIOUS
  <2> HIDE DEF s, t
  <2>3. s = [i \in 1..2 |-> s[i]] /\ t = [i \in 1..2 |-> t[i]]
    BY <2>1, <2>2
  <2>4. \A i \in 1..2 : s[i] = t[i]
    <3>1. \A i \in 1..2 : i = 1 \/ i = 2
      OBVIOUS
    <3> QED
      BY <2>1, <2>2, <3>1
  <2> QED
    BY <2>3, <2>4 DEF s, t
<1> QED
  BY <1>1, <1>2

LEMMA UpdatingIs ==
    ASSUME NEW m \in Module
    PROVE  LET a == [do |-> "owner"]
               b == [do |-> "list", module |-> m, then |-> "update"]
               c == [do |-> "commit"]
           IN  /\ Updating(m) = <<a, b, c>> /\ Tail(Updating(m)) = <<b, c>> /\ Tail(Tail(Updating(m))) = <<c>>
               /\ ModuleDeletion(m) \o Commits = <<[do |-> "list", module |-> m, then |-> "delete"], c>>
               /\ Tail(ModuleDeletion(m) \o Commits) = <<c>>
<1> DEFINE a == [do |-> "owner"]
           b == [do |-> "list", module |-> m, then |-> "update"]
           c == [do |-> "commit"]
           d == [do |-> "list", module |-> m, then |-> "delete"]
<1>1. Updating(m) = <<a, b>> \o <<c>> /\ ModuleDeletion(m) \o Commits = <<d>> \o <<c>>
  BY DEF Updating, ModuleUpdate, ModuleDeletion, Commits
<1> HIDE DEF a, b, c, d
<1>2. <<a, b>> \o <<c>> = <<a, b, c>> /\ <<d>> \o <<c>> = <<d, c>>
  BY Appended
<1>3. /\ Tail(<<a, b, c>>) = <<b, c>> /\ Tail(<<b, c>>) = <<c>> /\ Tail(<<d, c>>) = <<c>>
  OBVIOUS
<1>4. /\ Updating(m) = <<a, b, c>> /\ Tail(Updating(m)) = <<b, c>> /\ Tail(Tail(Updating(m))) = <<c>>
      /\ ModuleDeletion(m) \o Commits = <<d, c>> /\ Tail(ModuleDeletion(m) \o Commits) = <<c>>
  BY <1>1, <1>2, <1>3
<1> QED
  BY <1>4 DEF a, b, c, d

LEMMA UpdateBegins ==
    ASSUME NEW m \in Module, NEW rows, NEW holder
    PROVE  Installation(rows, NoVersions, Updating(m), holder)
<1> DEFINE a == [do |-> "owner"]
           b == [do |-> "list", module |-> m, then |-> "update"]
           c == [do |-> "commit"]
           todo == Updating(m)
<1>1. todo = <<a, b, c>>
  BY UpdatingIs
<1>2. /\ a \in Installing /\ b \in Installing /\ c \in Installing
      /\ a.do = "owner" /\ b.do = "list" /\ c.do = "commit"
  BY DEF Installing
<1> HIDE DEF a, b, c
<1>3. todo \in Seq(Installing) /\ todo[1] = a /\ todo \in Seq({a, b, c})
  BY <1>1, <1>2
<1>4. \A s \in ToSet(todo) : s \in {a, b, c}
  BY <1>3, SetOfSeq
<1>5. \A s \in ToSet(todo) : ~Ensures(s) /\ \A i : ~Changes(s, i)
  BY <1>2, <1>4 DEF Ensures, Changes
<1>6. Begins(todo[1])
  BY <1>2, <1>3 DEF Begins
<1> HIDE DEF todo
<1>7. Straight(todo)
  BY <1>3, <1>5, SetOfSeq DEF Straight
<1>8. Lists(todo) => \E n \in Module : todo = Updating(n)
  BY DEF todo
<1>9. \A i \in DOMAIN Catalogue :
        \E n \in Module \cup {None} :
          \A s \in ToSet(todo) : Ensures(s) /\ s.name \in CodesOf(i) => s.group = n
  BY <1>5
<1>10. Installation(rows, NoVersions, todo, holder)
  BY <1>3, <1>5, <1>6, <1>7, <1>8, <1>9, FreshInstallation
<1> QED
  BY <1>10 DEF todo

LEMMA DeletionBegins ==
    ASSUME NEW m \in Module, NEW rows
    PROVE  Deletion(rows, NoVersions, ModuleDeletion(m) \o Commits)
<1> DEFINE d == [do |-> "list", module |-> m, then |-> "delete"]
           c == [do |-> "commit"]
           todo == ModuleDeletion(m) \o Commits
<1>1. todo = <<d, c>>
  BY UpdatingIs
<1>2. d \in Deleting /\ c \in Deleting /\ d.do = "list" /\ c.do = "commit"
  BY DEF Deleting
<1> HIDE DEF d, c
<1>3. todo \in Seq(Deleting) /\ todo \in Seq({d, c}) /\ Len(todo) = 2 /\ todo[1] = d
  BY <1>1, <1>2
<1>4. \A s \in ToSet(todo) : s \in {d, c}
  BY <1>3, SetOfSeq
<1>5. \A s \in ToSet(todo) : \A i : ~Changes(s, i)
  BY <1>2, <1>4 DEF Ensures, Changes
<1>6. \A n \in 1..Len(todo) : todo[n].do = "commit" => n = Len(todo)
  BY <1>2, <1>3
<1> HIDE DEF todo
<1>7. Deletion(rows, NoVersions, todo)
  BY <1>3, <1>5, <1>6, NothingWritten DEF Deletion, Apart, todo
<1> QED
  BY <1>7 DEF todo
-----------------------------------------------------------------------------
(* Databases that grow.                                                    *)

Grown(rows, more) ==
    \A k \in Rows : Live(rows[k]) => Live(more[k]) /\ (k \in Entry => more[k] = rows[k])

LEMMA HasGrows ==
    ASSUME NEW rows, NEW more, Grown(rows, more)
    PROVE  /\ \A kind, n : Has(rows, kind, n, {}) => Has(more, kind, n, {})
           /\ \A i \in DOMAIN Catalogue : \A c \in CodesOf(i) :
                /\ Installed(rows, c) => Installed(more, c)
                /\ Absent(more, c) => Absent(rows, c)
           /\ \A h : IsOwner(rows, h) => IsOwner(more, h)
<1>1. \A e \in Entry : Live(rows[e]) => Live(more[e]) /\ more[e] = rows[e]
  BY RowFacts DEF Grown
<1>2. \A kind, n : Has(rows, kind, n, {}) => Has(more, kind, n, {})
  BY <1>1 DEF Has
<1>3. ASSUME NEW i \in DOMAIN Catalogue, NEW c \in CodesOf(i), Has(rows, "role", Owner, {c})
      PROVE  Has(more, "role", Owner, {c})
  <2>1. PICK e \in Entry : /\ KindOf[e] = "role" /\ Live(rows[e]) /\ rows[e].name = Owner
                           /\ Live(rows[<<e, c>>])
    BY <1>3 DEF Has
  <2>2. <<e, c>> \in Rows
    BY <2>1, CodeFacts DEF Roles
  <2>3. Live(more[e]) /\ more[e].name = Owner /\ Live(more[<<e, c>>])
    BY <1>1, <2>1, <2>2 DEF Grown
  <2> QED
    BY <2>1, <2>3 DEF Has
<1>4. \A h : IsOwner(rows, h) => IsOwner(more, h)
  BY <1>1 DEF IsOwner, Roles
<1> QED
  BY <1>2, <1>3, <1>4 DEF Installed, Absent

(* What an owner's grant and a privilege of the code make.                 *)
LEMMA OwnerHas ==
    ASSUME NEW rows, NEW h, IsOwner(rows, h), NEW c, Live(rows[<<h, c>>]), Has(rows, "privilege", c, {})
    PROVE  Installed(rows, c)
BY DEF IsOwner, Roles, Installed, Has

(* An installation goes on to its next step.                               *)
LEMMA InstallingOn ==
    ASSUME NEW rows, NEW more, Grown(rows, more), NEW todo \in Seq(Installing), todo # <<>>,
           NEW holder, NEW next, Straight(todo), Owned(rows, todo, holder),
           todo[1].do = "link" \/ Ensures(todo[1]) => next = holder,
           Ensures(todo[1]) => Has(more, "privilege", todo[1].name, {}),
           todo[1].do = "link" /\ <<holder, todo[1].name>> \in Rows => Live(more[<<holder, todo[1].name>>]),
           Begins(todo[1]) => IsOwner(more, next)
    PROVE  /\ Straight(Tail(todo)) /\ Owned(more, Tail(todo), next)
           /\ \A i \in DOMAIN Catalogue : \A c \in CodesOf(i) :
                Coming(rows, todo, holder, c) => Coming(more, Tail(todo), next, c)
<1> DEFINE rest == Tail(todo)
<1>1. /\ Len(todo) \in Nat /\ Len(todo) >= 1 /\ Len(rest) = Len(todo) - 1
      /\ \A n \in 1..Len(rest) : rest[n] = todo[n + 1]
      /\ rest \in Seq(Installing) /\ todo[1] \in ToSet(todo) /\ ToSet(rest) \subseteq ToSet(todo)
  BY SetOfTail
<1> HIDE DEF rest
(* Before a privilege that is still ahead come grants and privileges.      *)
<1>2. ASSUME NEW n \in 1..Len(rest), Ensures(rest[n])
      PROVE  /\ \A h \in 1..(n - 1) : rest[h].do = "link" \/ Ensures(rest[h])
             /\ todo[1].do = "link" \/ Ensures(todo[1]) \/ Begins(todo[1])
  <2>1. n + 1 \in 1..Len(todo) /\ Ensures(todo[n + 1])
    BY <1>1, <1>2
  <2>2. \A h \in 1..((n + 1) - 1) : todo[h].do = "link" \/ Ensures(todo[h]) \/ (h = 1 /\ Begins(todo[h]))
    BY <2>1 DEF Straight
  <2>3. ASSUME NEW h \in 1..(n - 1) PROVE rest[h].do = "link" \/ Ensures(rest[h])
    <3>1. n \in Nat /\ n <= Len(rest) /\ Len(rest) \in Nat /\ h \in Nat /\ h >= 1 /\ h <= n - 1
      BY <1>1
    <3>2. h \in 1..Len(rest) /\ h + 1 \in 1..((n + 1) - 1) /\ h + 1 # 1
      BY ONLY <3>1
    <3>3. rest[h] = todo[h + 1]
      BY <1>1, <3>2
    <3> QED
      BY <2>2, <3>2, <3>3
  <2>4. 1 \in 1..((n + 1) - 1)
    OBVIOUS
  <2> QED
    BY <2>2, <2>3, <2>4
<1>3. Straight(rest)
  BY <1>2 DEF Straight
<1>4. Owned(more, rest, next)
  <2> SUFFICES ASSUME NEW s \in ToSet(rest), Ensures(s) PROVE IsOwner(more, next)
    BY DEF Owned
  <2>1. PICK n \in 1..Len(rest) : Ensures(rest[n])
    <3>1. \E n \in 1..Len(rest) : s = rest[n]
      BY <1>1, SetOfSeq
    <3> QED
      BY <3>1
  <2>2. CASE Begins(todo[1])
    BY <2>2
  <2>3. CASE ~Begins(todo[1])
    <3>1. next = holder
      BY <1>2, <2>1, <2>3
    <3>2. IsOwner(rows, holder)
      BY <1>1, <2>3 DEF Owned
    <3> QED
      BY <3>1, <3>2, HasGrows
  <2> QED
    BY <2>2, <2>3
<1>5. ASSUME NEW i \in DOMAIN Catalogue, NEW c \in CodesOf(i), Coming(rows, todo, holder, c)
      PROVE  Coming(more, rest, next, c)
  <2>1. CASE Installed(rows, c)
    BY <2>1, HasGrows DEF Coming
  <2>2. CASE Ahead(todo, c)
    <3>1. PICK n \in 1..Len(todo) : /\ Ensures(todo[n]) /\ todo[n].name = c
                                    /\ n + 1 \in 1..Len(todo) /\ Grants(todo[n + 1], c)
      BY <2>2 DEF Ahead
    <3>2. CASE n = 1
      <4>1. Has(more, "privilege", c, {}) /\ next = holder
        BY <3>1, <3>2
      <4>2. ~Begins(todo[1])
        BY <3>1, <3>2 DEF Ensures, Begins
      <4>3. IsOwner(rows, holder)
        BY <1>1, <3>1, <3>2, <4>2 DEF Owned
      <4>4. IsOwner(more, next)
        BY <4>1, <4>3, HasGrows
      <4>5. 1 \in 1..Len(rest) /\ rest[1] = todo[1 + 1]
        BY <1>1, <3>1, <3>2
      <4>6. Grants(rest[1], c)
        BY <3>1, <3>2, <4>5
      <4> QED
        BY <4>1, <4>4, <4>6 DEF Coming
    <3>3. CASE n # 1
      <4>1. PICK h \in 1..Len(rest) : n = h + 1
        <5>1. n - 1 \in 1..Len(rest) /\ n = (n - 1) + 1
          BY <1>1, <3>3
        <5> QED
          BY <5>1
      <4>2. rest[h] = todo[n] /\ h + 1 \in 1..Len(rest)
        BY <1>1, <3>1, <4>1
      <4>3. rest[h + 1] = todo[n + 1]
        BY <1>1, <4>1, <4>2
      <4>4. Ahead(rest, c)
        BY <3>1, <4>2, <4>3 DEF Ahead
      <4> QED
        BY <4>4 DEF Coming
    <3> QED
      BY <3>2, <3>3
  <2>3. CASE Grants(todo[1], c) /\ Has(rows, "privilege", c, {}) /\ IsOwner(rows, holder)
    <3>1. Has(more, "privilege", c, {}) /\ IsOwner(more, holder)
      BY <2>3, HasGrows
    <3>2. <<holder, c>> \in Rows
      BY <2>3, CodeFacts DEF IsOwner
    <3>3. Live(more[<<holder, c>>])
      BY <2>3, <3>2 DEF Grants
    <3>4. Installed(more, c)
      BY <3>1, <3>3, OwnerHas
    <3> QED
      BY <3>4 DEF Coming
  <2> QED
    BY <1>5, <2>1, <2>2, <2>3 DEF Coming
<1> QED
  BY <1>3, <1>4, <1>5 DEF rest

LEMMA OverFacts ==
    ASSUME NEW rows, NEW p
    PROVE  /\ Over(rows, p) \in [Rows -> {Over(rows, p)[k] : k \in Rows}]
           /\ \A k \in Rows : Over(rows, p)[k] = IF p[k] # None THEN p[k] ELSE rows[k]
BY DEF Over

LEMMA OverWritten ==
    ASSUME NEW rows, NEW S, NEW p \in [Rows -> S], NEW k \in Rows, NEW x, x # None,
           NEW q, q = [p EXCEPT ![k] = x]
    PROVE  /\ \A o \in Rows : q[o] = IF o = k THEN x ELSE p[o]
           /\ \A o \in Rows : Over(rows, q)[o] = IF o = k THEN x ELSE Over(rows, p)[o]
BY DEF Over

LEMMA UpdatingShape ==
    ASSUME NEW m \in Module
    PROVE  /\ Updating(m)[1].do = "owner" /\ Tail(Updating(m))[1].do = "list"
           /\ Tail(Updating(m))[1] = [do |-> "list", module |-> m, then |-> "update"]
           /\ Tail(Tail(Updating(m))) = Commits
           /\ (ModuleDeletion(m) \o Commits)[1] = [do |-> "list", module |-> m, then |-> "delete"]
           /\ Tail(ModuleDeletion(m) \o Commits) = Commits
<1> DEFINE a == [do |-> "owner"]
           b == [do |-> "list", module |-> m, then |-> "update"]
           c == [do |-> "commit"]
           d == [do |-> "list", module |-> m, then |-> "delete"]
<1>1. a.do = "owner" /\ b.do = "list" /\ Commits = <<c>>
  BY DEF Commits
<1>2. /\ Updating(m) = <<a, b, c>> /\ Tail(Updating(m)) = <<b, c>> /\ Tail(Tail(Updating(m))) = <<c>>
      /\ ModuleDeletion(m) \o Commits = <<d, c>> /\ Tail(ModuleDeletion(m) \o Commits) = <<c>>
  BY UpdatingIs
<1> HIDE DEF a, b, c, d
<1>3. <<a, b, c>>[1] = a /\ <<b, c>>[1] = b /\ <<d, c>>[1] = d
  OBVIOUS
<1>4. /\ Updating(m)[1].do = "owner" /\ Tail(Updating(m))[1].do = "list" /\ Tail(Updating(m))[1] = b
      /\ Tail(Tail(Updating(m))) = Commits /\ (ModuleDeletion(m) \o Commits)[1] = d
      /\ Tail(ModuleDeletion(m) \o Commits) = Commits
  BY <1>1, <1>2, <1>3
<1> QED
  BY <1>4 DEF b, d

(* A list of what is filed under a module comes before anything is written. *)
LEMMA ListsComes ==
    ASSUME NEW rows, NEW p, NEW todo, NEW holder, Installation(rows, p, todo, holder), todo # <<>>,
           todo[1].do # "list", Lists(Tail(todo))
    PROVE  /\ \A k \in Rows : p[k] = None
           /\ \E m \in Module : Tail(todo) = Tail(Updating(m))
           /\ todo[1].do = "owner"
<1>1. todo \in Seq(Installing)
  BY DEF Installation
<1>2. Lists(todo)
  BY <1>1, SetOfTail DEF Lists
<1>3. PICK m \in Module : todo = Updating(m) \/ todo = Tail(Updating(m))
  BY <1>2 DEF Installation
<1>4. todo = Updating(m)
  BY <1>3, UpdatingShape
<1> QED
  BY <1>2, <1>4, UpdatingShape DEF Installation
-----------------------------------------------------------------------------
(* The steps of an installation.                                           *)

LEMMA ApartTail ==
    ASSUME NEW S, NEW todo \in Seq(S), todo # <<>>, NEW p, NEW i
    PROVE  /\ Apart(p, todo, i) => Apart(p, Tail(todo), i) /\ ~Changes(todo[1], i)
           /\ \A m : FiledAs(p, todo, i, m) => FiledAs(p, Tail(todo), i, m)
BY SetOfTail DEF Apart, FiledAs

(* It reads, and goes on.                                                  *)
LEMMA InstallationReads ==
    ASSUME NEW rows, NEW p, NEW todo, NEW holder, NEW next,
           Installation(rows, p, todo, holder), todo # <<>>, todo[1].do # "list",
           todo[1].do = "link" \/ Ensures(todo[1]) => next = holder,
           Ensures(todo[1]) => Has(Over(rows, p), "privilege", todo[1].name, {}),
           todo[1].do = "link" /\ <<holder, todo[1].name>> \in Rows =>
             Live(Over(rows, p)[<<holder, todo[1].name>>]),
           Begins(todo[1]) => IsOwner(Over(rows, p), next)
    PROVE  Installation(rows, p, Tail(todo), next)
<1> DEFINE view == Over(rows, p)
           rest == Tail(todo)
<1>1. todo \in Seq(Installing) /\ Straight(todo) /\ Owned(view, todo, holder)
  BY DEF Installation
<1>2. Grown(view, view)
  BY DEF Grown
<1>3. rest \in Seq(Installing)
  BY <1>1, SetOfTail
<1> HIDE DEF view, rest
<1>4. /\ Straight(rest) /\ Owned(view, rest, next)
      /\ \A i \in DOMAIN Catalogue : \A c \in CodesOf(i) :
           Coming(view, todo, holder, c) => Coming(view, rest, next, c)
  <2>1. /\ todo[1].do = "link" \/ Ensures(todo[1]) => next = holder
        /\ Ensures(todo[1]) => Has(view, "privilege", todo[1].name, {})
        /\ todo[1].do = "link" /\ <<holder, todo[1].name>> \in Rows => Live(view[<<holder, todo[1].name>>])
        /\ Begins(todo[1]) => IsOwner(view, next)
    BY DEF view
  <2> QED
    BY <1>1, <1>2, <2>1, InstallingOn DEF rest
<1>5. Lists(rest) => /\ \A k \in Rows : p[k] = None
                     /\ \E m \in Module : rest = Updating(m) \/ rest = Tail(Updating(m))
  BY ListsComes DEF rest
<1>6. ASSUME NEW i \in DOMAIN Catalogue
      PROVE  /\ Apart(p, rest, i) \/ \A c \in CodesOf(i) : Coming(view, rest, next, c)
             /\ First(rows, p, i) /\ \E m \in Module \cup {None} : FiledAs(p, rest, i, m)
  <2>1. /\ Apart(p, todo, i) \/ \A c \in CodesOf(i) : Coming(view, todo, holder, c)
        /\ First(rows, p, i) /\ \E m \in Module \cup {None} : FiledAs(p, todo, i, m)
    BY DEF Installation, view
  <2>2. /\ Apart(p, todo, i) => Apart(p, rest, i)
        /\ \A m : FiledAs(p, todo, i, m) => FiledAs(p, rest, i, m)
    BY <1>1, ApartTail DEF rest
  <2> QED
    BY <1>4, <2>1, <2>2
<1> QED
  BY <1>3, <1>4, <1>5, <1>6 DEF Installation, view, rest

(* It makes an entry that is not there yet.                                *)
LEMMA InstallationInserts ==
    ASSUME NEW rows, NEW S, NEW p \in [Rows -> S], NEW todo, NEW holder, NEW next,
           Installation(rows, p, todo, holder), todo # <<>>, todo[1].do = "ensure", Sound(rows),
           NEW e \in Entry, KindOf[e] = todo[1].kind, rows[e].state = "none", p[e] = None,
           NEW x, x # None, Live(x), x.name = todo[1].name, x.group = todo[1].group,
           \A o \in Entry : KindOf[o] = KindOf[e] /\ Live(Over(rows, p)[o]) => Over(rows, p)[o].name # x.name,
           next = IF e \in Holders THEN e ELSE holder,
           NEW q, q = [p EXCEPT ![e] = x]
    PROVE  Installation(rows, q, Tail(todo), next)
<1> DEFINE view == Over(rows, p)
           more == Over(rows, q)
           rest == Tail(todo)
<1>1. /\ todo \in Seq(Installing) /\ Straight(todo) /\ Owned(view, todo, holder)
      /\ \A k \in Rows : p[k] # None => Live(p[k])
      /\ \A o \in Entry : p[o] # None => rows[o].state = "none"
  BY DEF Installation
<1>2. e \in Rows /\ Entry \subseteq Rows
  BY RowFacts
<1>3. /\ \A o \in Rows : q[o] = IF o = e THEN x ELSE p[o]
      /\ \A o \in Rows : more[o] = IF o = e THEN x ELSE view[o]
  <2>1. \A o \in Rows : q[o] = IF o = e THEN x ELSE p[o]
    BY <1>2
  <2> QED
    BY <2>1 DEF Over
<1>4. view[e] = rows[e] /\ ~Live(view[e])
  BY <1>2, OverFacts DEF Live
<1>5. rest \in Seq(Installing)
  BY <1>1, SetOfTail
<1> HIDE DEF view, more, rest
<1>6. Grown(view, more)
  BY <1>3, <1>4 DEF Grown
<1>7. Has(more, todo[1].kind, todo[1].name, {})
  BY <1>2, <1>3 DEF Has
<1>8. Begins(todo[1]) => IsOwner(more, next)
  <2> SUFFICES ASSUME Begins(todo[1]) PROVE IsOwner(more, next)
    OBVIOUS
  <2>1. KindOf[e] = "role" /\ x.name = Owner
    BY DEF Begins
  <2>2. next = e
    BY <2>1 DEF Holders
  <2> QED
    BY <1>2, <1>3, <2>1, <2>2 DEF IsOwner, Roles
<1>9. Ensures(todo[1]) => next = holder /\ e \in PrivilegeRows
  BY DEF Ensures, Holders, PrivilegeRows
<1>10. /\ Straight(rest) /\ Owned(more, rest, next)
       /\ \A i \in DOMAIN Catalogue : \A c \in CodesOf(i) :
            Coming(view, todo, holder, c) => Coming(more, rest, next, c)
  <2>1. Ensures(todo[1]) => Has(more, "privilege", todo[1].name, {})
    BY <1>7 DEF Ensures
  <2> QED
    BY <1>1, <1>6, <1>8, <1>9, <2>1, InstallingOn DEF rest
<1>11. ~Lists(rest)
  BY ListsComes DEF rest
<1>12. ASSUME NEW i \in DOMAIN Catalogue
       PROVE  /\ Apart(q, rest, i) \/ \A c \in CodesOf(i) : Coming(more, rest, next, c)
              /\ First(rows, q, i) /\ \E m \in Module \cup {None} : FiledAs(q, rest, i, m)
  <2>1. /\ Apart(p, todo, i) \/ \A c \in CodesOf(i) : Coming(view, todo, holder, c)
        /\ First(rows, p, i) /\ \E m \in Module \cup {None} : FiledAs(p, todo, i, m)
    BY DEF Installation, view
  <2>2. ASSUME Apart(p, todo, i) PROVE Apart(q, rest, i)
    <3>1. Apart(p, rest, i) /\ ~Changes(todo[1], i)
      BY <1>1, <2>2, ApartTail DEF rest
    <3>2. e \notin Roles /\ (e \in PrivilegeRows => x.name \notin CodesOf(i)) /\ e \notin RoleLink
      <4>1. e \notin Roles
        BY <3>1 DEF Changes, Roles
      <4>2. e \in PrivilegeRows => x.name \notin CodesOf(i)
        BY <3>1 DEF Changes, Ensures, PrivilegeRows
      <4> QED
        BY <4>1, <4>2, RowFacts
    <3>3. Untouched(q, i)
      BY <1>3, <3>1, <3>2 DEF Apart, Untouched, PrivilegeRows
    <3> QED
      BY <3>1, <3>3 DEF Apart
  <2>3. First(rows, q, i)
    <3> SUFFICES ASSUME NEW a \in PrivilegeRows, NEW o \in PrivilegeRows,
                        q[a] # None, q[a].name \in CodesOf(i),
                        Live(rows[o]), rows[o].name \in CodesOf(i)
                 PROVE  FALSE
      BY DEF First
    <3>0. a \in Rows /\ o \in Rows /\ o \in Entry
      BY RowFacts DEF PrivilegeRows
    <3>1. CASE a # e
      <4>1. q[a] = p[a]
        BY <1>3, <3>0, <3>1
      <4> QED
        BY <2>1, <4>1 DEF First
    <3>2. CASE a = e
      <4> DEFINE c == x.name
      <4>1. c \in CodesOf(i) /\ KindOf[e] = "privilege"
        BY <1>2, <1>3, <3>2 DEF PrivilegeRows
      <4>2. ~Has(rows, "privilege", c, {})
        <5> SUFFICES ASSUME NEW b \in Entry, KindOf[b] = "privilege", Live(rows[b]), rows[b].name = c
                     PROVE  FALSE
          BY DEF Has
        <5>1. p[b] = None
          BY <1>1 DEF Live
        <5>2. view[b] = rows[b]
          BY <1>2, <5>1, OverFacts DEF view
        <5> QED
          BY <4>1, <5>2 DEF view
      <4> HIDE DEF c
      <4>3. \A d \in CodesOf(i) : Absent(rows, d)
        <5>1. ~Installed(rows, c)
          BY <4>2 DEF Installed
        <5> QED
          BY <4>1, <5>1 DEF Sound, WholeModules
      <4>4. Has(rows, "privilege", rows[o].name, {})
        BY <3>0 DEF Has, PrivilegeRows
      <4> QED
        BY <4>3, <4>4 DEF Absent
    <3> QED
      BY <3>1, <3>2
  <2>4. ASSUME NEW m, FiledAs(p, todo, i, m) PROVE FiledAs(q, rest, i, m)
    <3>1. FiledAs(p, rest, i, m)
      BY <1>1, <2>4, ApartTail DEF rest
    <3>2. e \in PrivilegeRows /\ x.name \in CodesOf(i) => x.group = m
      <4>1. todo[1] \in ToSet(todo)
        BY <1>1, SetOfTail
      <4>2. e \in PrivilegeRows => Ensures(todo[1])
        BY DEF PrivilegeRows, Ensures
      <4> QED
        BY <2>4, <4>1, <4>2 DEF FiledAs
    <3>3. PrivilegeRows \subseteq Rows
      BY RowFacts DEF PrivilegeRows
    <3> QED
      BY <1>3, <3>1, <3>2, <3>3 DEF FiledAs
  <2> QED
    BY <1>10, <2>1, <2>2, <2>3, <2>4
<1>13. /\ \A k \in Rows : q[k] # None => Live(q[k])
       /\ \A o \in Entry : q[o] # None => rows[o].state = "none"
  BY <1>1, <1>2, <1>3
<1> QED
  BY <1>5, <1>10, <1>11, <1>12, <1>13 DEF Installation, more, rest

(* It makes a link.                                                        *)
LEMMA InstallationAttaches ==
    ASSUME NEW rows, NEW S, NEW p \in [Rows -> S], NEW todo, NEW holder,
           Installation(rows, p, todo, holder), todo # <<>>, todo[1].do = "link",
           NEW k \in Rows, k = <<holder, todo[1].name>>, k \notin Entry,
           NEW x, x # None, Live(x),
           NEW q, q = [p EXCEPT ![k] = x]
    PROVE  Installation(rows, q, Tail(todo), holder)
<1> DEFINE view == Over(rows, p)
           more == Over(rows, q)
           rest == Tail(todo)
<1>1. /\ todo \in Seq(Installing) /\ Straight(todo) /\ Owned(view, todo, holder)
      /\ \A o \in Rows : p[o] # None => Live(p[o])
      /\ \A o \in Entry : p[o] # None => rows[o].state = "none"
  BY DEF Installation
<1>2. Entry \subseteq Rows /\ PrivilegeRows \subseteq Entry /\ Roles \subseteq Entry
  BY RowFacts DEF PrivilegeRows, Roles
<1>3. /\ \A o \in Rows : q[o] = IF o = k THEN x ELSE p[o]
      /\ \A o \in Rows : more[o] = IF o = k THEN x ELSE view[o]
  <2>1. \A o \in Rows : q[o] = IF o = k THEN x ELSE p[o]
    OBVIOUS
  <2> QED
    BY <2>1 DEF Over
<1>4. \A e \in Entry : q[e] = p[e] /\ more[e] = view[e]
  BY <1>2, <1>3
<1>5. rest \in Seq(Installing)
  BY <1>1, SetOfTail
<1> HIDE DEF view, more, rest
<1>6. Grown(view, more)
  BY <1>3 DEF Grown
<1>7. /\ Straight(rest) /\ Owned(more, rest, holder)
      /\ \A i \in DOMAIN Catalogue : \A c \in CodesOf(i) :
           Coming(view, todo, holder, c) => Coming(more, rest, holder, c)
  <2>1. Live(more[<<holder, todo[1].name>>])
    BY <1>3
  <2>2. ~Ensures(todo[1]) /\ ~Begins(todo[1])
    BY DEF Ensures, Begins
  <2> QED
    BY <1>1, <1>6, <2>1, <2>2, InstallingOn DEF rest
<1>8. ~Lists(rest)
  BY ListsComes DEF rest
<1>9. ASSUME NEW i \in DOMAIN Catalogue
      PROVE  /\ Apart(q, rest, i) \/ \A c \in CodesOf(i) : Coming(more, rest, holder, c)
             /\ First(rows, q, i) /\ \E m \in Module \cup {None} : FiledAs(q, rest, i, m)
  <2>1. /\ Apart(p, todo, i) \/ \A c \in CodesOf(i) : Coming(view, todo, holder, c)
        /\ First(rows, p, i) /\ \E m \in Module \cup {None} : FiledAs(p, todo, i, m)
    BY DEF Installation, view
  <2>2. /\ Apart(p, todo, i) => Apart(p, rest, i) /\ ~Changes(todo[1], i)
        /\ \A m : FiledAs(p, todo, i, m) => FiledAs(p, rest, i, m)
    BY <1>1, ApartTail DEF rest
  <2>3. ASSUME Apart(p, todo, i) PROVE Apart(q, rest, i)
    <3>1. todo[1].name \notin CodesOf(i)
      BY <2>2, <2>3 DEF Changes
    <3>2. k \notin Roles /\ k \notin PrivilegeRows /\ k[2] \notin CodesOf(i)
      BY <1>2, <3>1
    <3>3. Untouched(q, i)
      <4>1. Untouched(p, i)
        BY <2>3 DEF Apart
      <4> QED
        BY <1>3, <3>2, <4>1 DEF Untouched
    <3> QED
      BY <2>2, <2>3, <3>3 DEF Apart
  <2>4. First(rows, q, i) /\ \A m : FiledAs(p, rest, i, m) => FiledAs(q, rest, i, m)
    BY <1>2, <1>4, <2>1 DEF First, FiledAs
  <2> QED
    BY <1>7, <2>1, <2>2, <2>3, <2>4
<1>10. /\ \A o \in Rows : q[o] # None => Live(q[o])
       /\ \A o \in Entry : q[o] # None => rows[o].state = "none"
  BY <1>1, <1>3, <1>4
<1> QED
  BY <1>5, <1>7, <1>8, <1>9, <1>10 DEF Installation, more, rest
(* A flattened sequence is of what its pieces are, and has it all.         *)
LEMMA FlattenAll ==
    ASSUME NEW A, NEW n \in Nat, NEW seqs \in [1..n -> Seq(A)]
    PROVE  /\ FlattenSeq(seqs) \in Seq(A)
           /\ \A i \in 1..n : ToSet(seqs[i]) \subseteq ToSet(FlattenSeq(seqs))
<1> DEFINE T == Seq(A)
<1>1. <<>> \in T /\ \A s, t \in T : s \o t \in T
  OBVIOUS
<1>2. FlattenSeq(seqs) \in T
  <2>1. seqs \in [1..n -> T]
    OBVIOUS
  <2> HIDE DEF T
  <2> QED
    BY <1>1, <2>1, FlattenSeqIn
<1>3. ASSUME NEW i \in 1..n, NEW x \in ToSet(seqs[i]) PROVE x \in ToSet(FlattenSeq(seqs))
  <2> DEFINE U == {s \in Seq(A) : x \in ToSet(s)}
  <2>1. U \subseteq Seq(A) /\ seqs[i] \in U
    BY <1>3
  <2>2. \A s \in Seq(A), t \in Seq(A) : s \in U \/ t \in U => s \o t \in U
    <3> TAKE s \in Seq(A), t \in Seq(A)
    <3>1. s \o t \in Seq(A) /\ ToSet(s \o t) = ToSet(s) \cup ToSet(t)
      BY SetOfConcat
    <3> QED
      BY <3>1
  <2> HIDE DEF U
  <2>3. FlattenSeq(seqs) \in U
    BY <2>1, <2>2, FlattenHas
  <2> QED
    BY <2>3 DEF U
<1> QED
  BY <1>2, <1>3 DEF T

LEMMA PairOf ==
    ASSUME NEW A, NEW a \in A, NEW b \in A
    PROVE  <<a, b>> \in Seq(A) /\ a \in ToSet(<<a, b>>) /\ b \in ToSet(<<a, b>>)
<1> DEFINE t == <<a, b>>
<1>1. t \in Seq(A) /\ Len(t) = 2 /\ t[1] = a /\ t[2] = b /\ 1 \in 1..Len(t) /\ 2 \in 1..Len(t)
  OBVIOUS
<1> HIDE DEF t
<1>2. a \in ToSet(t) /\ b \in ToSet(t)
  BY <1>1, SetOfSeq
<1> QED
  BY <1>1, <1>2 DEF t

(* Two steps for each of some rows.                                        *)
LEMMA FlattenPairs ==
    ASSUME NEW A, NEW n \in Nat, NEW f \in [1..n -> A], NEW g \in [1..n -> A],
           NEW seqs, seqs = [i \in 1..n |-> <<f[i], g[i]>>]
    PROVE  seqs \in [1..n -> Seq(A)] /\ FlattenSeq(seqs) \in Seq(A)
<1>1. ASSUME NEW i \in 1..n PROVE seqs[i] \in Seq(A)
  <2> DEFINE a == f[i]
             b == g[i]
  <2>1. a \in A /\ b \in A /\ seqs[i] = <<a, b>>
    OBVIOUS
  <2> HIDE DEF a, b
  <2>2. <<a, b>> \in Seq(A)
    BY <2>1
  <2> QED
    BY <2>1, <2>2, Zenon
<1>2. seqs \in [1..n -> Seq(A)]
  BY <1>1
<1>3. FlattenSeq(seqs) \in Seq(A)
  BY <1>2, FlattenAll
<1> QED
  BY <1>1, <1>2, <1>3

(* What is filed under a module is listed and brought up to date.          *)
LEMMA InstallationLists ==
    ASSUME NEW rows, NEW p, NEW todo, NEW holder, Installation(rows, p, todo, holder), todo # <<>>,
           todo[1].do = "list", Sound(rows), \A e \in Entry : rows[e] \in EntryRow,
           NEW n \in Nat, NEW s \in [1..n -> Entry],
           \A i \in 1..n : s[i] \in PrivilegeRows /\ Live(Over(rows, p)[s[i]]),
           NEW seqs,
           seqs = [i \in 1..n |-> <<[do |-> "reload", row |-> s[i], name |-> Same, group |-> Same],
                                    Grant(Over(rows, p)[s[i]].name)>>]
    PROVE  /\ todo[1].then = "update"
           /\ Installation(rows, p, FlattenSeq(seqs) \o Tail(todo), holder)
<1> DEFINE A == {x \in Installing : /\ ~Ensures(x) /\ x.do # "list"
                                    /\ x.do = "link" => \E i \in 1..n : x.name = rows[s[i]].name
                                    /\ x.do \in {"link", "reload", "commit"}}
           flat == FlattenSeq(seqs)
           new == flat \o Tail(todo)
<1>1. todo \in Seq(Installing)
  BY DEF Installation
<1>2. Lists(todo)
  BY <1>1, SetOfTail DEF Lists
<1>3. PICK m \in Module : todo = Updating(m) \/ todo = Tail(Updating(m))
  BY <1>2 DEF Installation
<1>4. todo[1].then = "update" /\ Tail(todo) = Commits
  <2>1. /\ Updating(m)[1].do = "owner" /\ Tail(Tail(Updating(m))) = Commits
        /\ Tail(Updating(m))[1] = [do |-> "list", module |-> m, then |-> "update"]
    BY UpdatingShape
  <2>2. todo = Tail(Updating(m))
    BY <1>3, <2>1
  <2>3. todo[1] = [do |-> "list", module |-> m, then |-> "update"] /\ Tail(todo) = Commits
    BY <2>1, <2>2, Zenon
  <2> QED
    BY <2>3
<1>5. \A k \in Rows : p[k] = None
  BY <1>2 DEF Installation
<1>6. \A k \in Rows : Over(rows, p)[k] = rows[k]
  BY <1>5 DEF Over
<1>7. PrivilegeRows \subseteq Entry /\ Entry \subseteq Rows
  BY RowFacts DEF PrivilegeRows
<1>8. \A i \in 1..n : /\ s[i] \in PrivilegeRows /\ Live(rows[s[i]]) /\ rows[s[i]].name \in Name
                      /\ Over(rows, p)[s[i]].name = rows[s[i]].name
  BY <1>6, <1>7 DEF EntryRow
<1>9. flat \in Seq(A)
  <2> DEFINE f == [i \in 1..n |-> [do |-> "reload", row |-> s[i], name |-> Same, group |-> Same]]
             g == [i \in 1..n |-> Grant(rows[s[i]].name)]
  <2>1. ASSUME NEW i \in 1..n PROVE f[i] \in A
    BY DEF Installing, Ensures
  <2>2. ASSUME NEW i \in 1..n PROVE g[i] \in A
    BY <1>8 DEF Installing, Ensures, Grant
  <2>3. seqs = [i \in 1..n |-> <<f[i], g[i]>>]
    BY <1>8
  <2>4. f \in [1..n -> A] /\ g \in [1..n -> A]
    BY <2>1, <2>2
  <2> HIDE DEF f, g, A
  <2> QED
    BY ONLY n \in Nat, <2>3, <2>4, FlattenPairs
<1>10. Commits \in Seq(A)
  <2> DEFINE c == [do |-> "commit"]
  <2>1. c \in A /\ Commits = <<c>>
    BY DEF Commits, Installing, Ensures
  <2> HIDE DEF c, A
  <2> QED
    BY <2>1
<1>11. new \in Seq(A)
  <2> HIDE DEF flat, A
  <2>1. flat \o Commits \in Seq(A)
    BY <1>9, <1>10
  <2> QED
    BY <1>4, <2>1, Zenon
<1>12. \A x \in ToSet(new) : x \in A
  <2> HIDE DEF A, new
  <2> QED
    BY <1>11, SetOfSeq
<1>13. \A k \in 1..Len(new) : new[k] \in A
  <2> HIDE DEF A, new
  <2> QED
    BY <1>11
<1>14. new \in Seq(Installing)
  <2>1. A \subseteq Installing
    OBVIOUS
  <2> HIDE DEF A, new
  <2> QED
    BY <1>11, <2>1, SeqOfMore
<1> HIDE DEF new
<1>15. ~Lists(new) /\ \A x \in ToSet(new) : ~Ensures(x)
  BY <1>12 DEF Lists
<1>16. Straight(new) /\ Owned(Over(rows, p), new, holder)
  BY <1>13, <1>15 DEF Straight, Owned
<1>17. ASSUME NEW i \in DOMAIN Catalogue
       PROVE  /\ Apart(p, new, i) \/ \A c \in CodesOf(i) : Coming(Over(rows, p), new, holder, c)
              /\ First(rows, p, i) /\ \E k \in Module \cup {None} : FiledAs(p, new, i, k)
  <2>1. First(rows, p, i) /\ FiledAs(p, new, i, None)
    BY <1>5, <1>7, <1>15 DEF First, FiledAs
  <2>2. CASE \E e \in PrivilegeRows : Live(rows[e]) /\ rows[e].name \in CodesOf(i)
    <3>1. PICK e \in PrivilegeRows : Live(rows[e]) /\ rows[e].name \in CodesOf(i)
      BY <2>2
    <3>2. Has(rows, "privilege", rows[e].name, {})
      BY <3>1 DEF Has, PrivilegeRows
    <3>3. \A c \in CodesOf(i) : Installed(rows, c)
      BY <3>1, <3>2 DEF Sound, WholeModules, Absent
    <3>4. Grown(rows, Over(rows, p))
      BY <1>6, <1>7 DEF Grown
    <3>5. \A c \in CodesOf(i) : Installed(Over(rows, p), c)
      BY <3>3, <3>4, HasGrows
    <3> QED
      BY <2>1, <3>5 DEF Coming
  <2>3. CASE ~\E e \in PrivilegeRows : Live(rows[e]) /\ rows[e].name \in CodesOf(i)
    <3>1. \A k \in 1..n : rows[s[k]].name \notin CodesOf(i)
      BY <1>8, <2>3
    <3>2. \A x \in ToSet(new) : ~Changes(x, i)
      BY <1>12, <3>1 DEF Changes
    <3>3. Apart(p, new, i)
      BY <1>5, <3>2 DEF Apart, Untouched
    <3> QED
      BY <2>1, <3>3
  <2> QED
    BY <2>2, <2>3
<1>18. /\ \A k \in Rows : p[k] # None => Live(p[k])
       /\ \A e \in Entry : p[e] # None => rows[e].state = "none"
  BY DEF Installation
<1>19. Installation(rows, p, new, holder)
  BY <1>14, <1>15, <1>16, <1>17, <1>18 DEF Installation
<1> QED
  BY <1>4, <1>19 DEF new
-----------------------------------------------------------------------------
(* What a commit makes of modules.                                         *)

(* What a transaction does not concern itself with is as it was.           *)
LEMMA UntouchedSame ==
    ASSUME NEW rows, NEW p, NEW i \in DOMAIN Catalogue, Untouched(p, i),
           \A e \in PrivilegeRows : p[e] # None /\ Live(rows[e]) => p[e].name = rows[e].name
    PROVE  /\ \A c \in CodesOf(i) : /\ Installed(rows, c) => Installed(Over(rows, p), c)
                                    /\ Absent(rows, c) => Absent(Over(rows, p), c)
           /\ \A e \in PrivilegeRows : Live(rows[e]) /\ rows[e].name \in CodesOf(i) =>
                Over(rows, p)[e] = rows[e]
           /\ \A e \in PrivilegeRows : Live(Over(rows, p)[e]) /\ Over(rows, p)[e].name \in CodesOf(i) =>
                Over(rows, p)[e] = rows[e]
<1> DEFINE view == Over(rows, p)
<1>1. PrivilegeRows \subseteq Rows /\ Roles \subseteq Rows /\ Entry \subseteq Rows
  BY RowFacts DEF PrivilegeRows, Roles
<1>2. \A k \in Rows : view[k] = IF p[k] # None THEN p[k] ELSE rows[k]
  BY OverFacts
<1> HIDE DEF view
<1>3. \A h \in Roles : view[h] = rows[h]
  BY <1>1, <1>2 DEF Untouched
<1>4. \A h \in Roles : \A c \in CodesOf(i) : view[<<h, c>>] = rows[<<h, c>>]
  <2> TAKE h \in Roles
  <2> TAKE c \in CodesOf(i)
  <2>1. <<h, c>> \in RoleLink /\ <<h, c>> \in Rows /\ <<h, c>>[2] = c
    BY CodeFacts
  <2> QED
    BY <1>2, <2>1 DEF Untouched
<1>5. /\ \A e \in PrivilegeRows : Live(rows[e]) /\ rows[e].name \in CodesOf(i) => view[e] = rows[e]
      /\ \A e \in PrivilegeRows : Live(view[e]) /\ view[e].name \in CodesOf(i) => view[e] = rows[e]
  BY <1>1, <1>2 DEF Untouched
<1>6. ASSUME NEW c \in CodesOf(i)
      PROVE  /\ Has(rows, "privilege", c, {}) <=> Has(view, "privilege", c, {})
             /\ Has(rows, "role", Owner, {c}) <=> Has(view, "role", Owner, {c})
  <2>1. Has(rows, "privilege", c, {}) => Has(view, "privilege", c, {})
    BY <1>5 DEF Has, PrivilegeRows
  <2>2. Has(view, "privilege", c, {}) => Has(rows, "privilege", c, {})
    BY <1>5 DEF Has, PrivilegeRows
  <2>3. Has(rows, "role", Owner, {c}) <=> Has(view, "role", Owner, {c})
    BY <1>3, <1>4 DEF Has, Roles
  <2> QED
    BY <2>1, <2>2, <2>3
<1>7. \A c \in CodesOf(i) : (Installed(rows, c) => Installed(view, c)) /\ (Absent(rows, c) => Absent(view, c))
  BY <1>6 DEF Installed, Absent
<1> QED
  BY <1>5, <1>7 DEF view

(* An installation that is about to commit has done what it has begun.     *)
LEMMA CommittingHasInstalled ==
    ASSUME NEW rows, NEW p, NEW todo, NEW holder, Installation(rows, p, todo, holder), todo # <<>>,
           todo[1].do = "commit", NEW i \in DOMAIN Catalogue
    PROVE  Untouched(p, i) \/ \A c \in CodesOf(i) : Installed(Over(rows, p), c)
<1>1. todo \in Seq(Installing) /\ Straight(todo)
  BY DEF Installation
<1>2. ASSUME NEW c, Coming(Over(rows, p), todo, holder, c) PROVE Installed(Over(rows, p), c)
  <2>1. ~Grants(todo[1], c)
    BY DEF Grants
  <2>2. ~Ahead(todo, c)
    <3> SUFFICES ASSUME NEW n \in 1..Len(todo), Ensures(todo[n]) PROVE FALSE
      BY DEF Ahead
    <3>1. n # 1 /\ ~Ensures(todo[1]) /\ ~Begins(todo[1])
      BY DEF Ensures, Begins
    <3>2. 1 \in 1..(n - 1)
      BY <1>1, <3>1
    <3> QED
      BY <1>1, <3>1, <3>2 DEF Straight
  <2> QED
    BY <1>2, <2>1, <2>2 DEF Coming
<1>3. Apart(p, todo, i) \/ \A c \in CodesOf(i) : Coming(Over(rows, p), todo, holder, c)
  BY DEF Installation
<1> QED
  BY <1>2, <1>3 DEF Apart

LEMMA InstallationCommits ==
    ASSUME NEW rows, NEW p, NEW todo, NEW holder, Installation(rows, p, todo, holder), todo # <<>>,
           todo[1].do = "commit", Sound(rows), Unique(Over(rows, p))
    PROVE  Sound(Over(rows, p))
<1> DEFINE view == Over(rows, p)
<1>1. PrivilegeRows \subseteq Entry /\ PrivilegeRows \subseteq Rows
  BY RowFacts DEF PrivilegeRows
<1>2. \A e \in PrivilegeRows : p[e] # None /\ Live(rows[e]) => p[e].name = rows[e].name
  BY <1>1 DEF Installation, Live
<1>3. \A k \in Rows : view[k] = IF p[k] # None THEN p[k] ELSE rows[k]
  BY OverFacts
<1>4. ASSUME NEW i \in DOMAIN Catalogue
      PROVE  (\A c \in CodesOf(i) : Installed(view, c)) \/ (\A c \in CodesOf(i) : Absent(view, c))
  <2>1. CASE \A c \in CodesOf(i) : Installed(view, c)
    BY <2>1
  <2>2. CASE Untouched(p, i)
    BY <1>2, <2>2, UntouchedSame DEF Sound, WholeModules
  <2> QED
    BY <2>1, <2>2, CommittingHasInstalled
<1> HIDE DEF view
<1>5. ASSUME NEW i \in DOMAIN Catalogue PROVE Filed(view, i)
  <2> SUFFICES ASSUME NEW e \in PrivilegeRows, NEW o \in PrivilegeRows,
                      Live(view[e]), view[e].name \in CodesOf(i), Live(view[o]), view[o].name \in CodesOf(i)
               PROVE  view[e].group = view[o].group
    BY DEF Filed, PrivilegeRows
  <2>1. First(rows, p, i) /\ \E m \in Module \cup {None} : FiledAs(p, todo, i, m)
    BY DEF Installation
  <2>2. PICK m \in Module \cup {None} : FiledAs(p, todo, i, m)
    BY <2>1
  <2>3. CASE p[e] # None \/ p[o] # None
    <3>1. p[e] # None /\ p[o] # None
      BY <1>1, <1>3, <2>1, <2>3 DEF First
    <3> QED
      BY <1>1, <1>3, <2>2, <3>1 DEF FiledAs
  <2>4. CASE p[e] = None /\ p[o] = None
    <3>1. view[e] = rows[e] /\ view[o] = rows[o] /\ e \in Entry /\ o \in Entry
      BY <1>1, <1>3, <2>4
    <3>2. Filed(rows, i)
      BY DEF Sound
    <3> QED
      BY <3>1, <3>2 DEF Filed, PrivilegeRows
  <2> QED
    BY <2>3, <2>4
<1> QED
  BY <1>4, <1>5 DEF Sound, WholeModules, view

(* It goes on after the first of its transactions.                         *)
LEMMA InstallationAfterCommit ==
    ASSUME NEW rows, NEW p, NEW todo, NEW holder, Installation(rows, p, todo, holder), todo # <<>>,
           todo[1].do = "commit"
    PROVE  Installation(Over(rows, p), NoVersions, Tail(todo), holder)
<1> DEFINE view == Over(rows, p)
           rest == Tail(todo)
<1>1. todo \in Seq(Installing) /\ Straight(todo) /\ Owned(view, todo, holder)
  BY DEF Installation
<1>2. Over(view, NoVersions) = view
  BY NothingWritten DEF Over
<1>3. Grown(view, view)
  BY DEF Grown
<1>4. ~Ensures(todo[1]) /\ todo[1].do # "link" /\ ~Begins(todo[1])
  BY DEF Ensures, Begins
<1>5. ~Lists(rest)
  BY ListsComes
<1>6. rest \in Seq(Installing)
  BY <1>1, SetOfTail
<1> HIDE DEF view, rest
<1>7. /\ Straight(rest) /\ Owned(view, rest, holder)
      /\ \A i \in DOMAIN Catalogue : \A c \in CodesOf(i) :
           Coming(view, todo, holder, c) => Coming(view, rest, holder, c)
  BY <1>1, <1>3, <1>4, InstallingOn DEF rest
<1>8. ASSUME NEW i \in DOMAIN Catalogue
      PROVE  /\ Apart(NoVersions, rest, i) \/ \A c \in CodesOf(i) : Coming(view, rest, holder, c)
             /\ First(view, NoVersions, i) /\ \E m \in Module \cup {None} : FiledAs(NoVersions, rest, i, m)
  <2>1. Apart(p, todo, i) \/ \A c \in CodesOf(i) : Coming(view, todo, holder, c)
    BY DEF Installation, view
  <2>2. PICK m \in Module \cup {None} : FiledAs(p, todo, i, m)
    BY DEF Installation
  <2>3. FiledAs(NoVersions, rest, i, m)
    BY <1>1, <2>2, SetOfTail, NothingWritten DEF FiledAs, rest
  <2>4. Apart(p, todo, i) => Apart(NoVersions, rest, i)
    BY <1>1, SetOfTail, NothingWritten DEF Apart, rest
  <2> QED
    BY <1>7, <2>1, <2>3, <2>4, NothingWritten
<1> QED
  BY <1>2, <1>5, <1>6, <1>7, <1>8, NothingWritten DEF Installation, view, rest

(* The unique index holds for what two transactions have written.          *)
LEMMA UniqueBeside ==
    ASSUME NEW rows, NEW p, NEW q, Separate(p, q), Unique(Over(rows, p)), Unique(Over(rows, q))
    PROVE  Unique(Over(Over(rows, q), p))
<1> DEFINE one == Over(rows, p)
           other == Over(rows, q)
           both == Over(other, p)
<1>1. PrivilegeRows \subseteq Entry /\ PrivilegeRows \subseteq Rows
  BY RowFacts DEF PrivilegeRows
<1>2. /\ \A k \in Rows : one[k] = IF p[k] # None THEN p[k] ELSE rows[k]
      /\ \A k \in Rows : other[k] = IF q[k] # None THEN q[k] ELSE rows[k]
  BY OverFacts
<1> HIDE DEF one, other
<1>3. \A k \in Rows : both[k] = IF p[k] # None THEN p[k] ELSE other[k]
  BY OverFacts
<1> HIDE DEF both
<1>4. ASSUME NEW e \in PrivilegeRows, NEW o \in PrivilegeRows,
             Live(both[e]), Live(both[o]), both[e].name = both[o].name, p[e] # None
      PROVE  e = o
  <2>1. one[e] = both[e]
    BY <1>1, <1>2, <1>3, <1>4
  <2>2. CASE p[o] # None
    <3>1. one[o] = both[o]
      BY <1>1, <1>2, <1>3, <2>2
    <3> QED
      BY <1>4, <2>1, <3>1 DEF Unique, one
  <2>3. CASE p[o] = None /\ q[o] # None
    <3>1. both[o] = q[o] /\ both[e] = p[e]
      BY <1>1, <1>2, <1>3, <1>4, <2>3
    <3> QED
      BY <1>4, <2>3, <3>1 DEF Separate
  <2>4. CASE p[o] = None /\ q[o] = None
    <3>1. one[o] = both[o]
      BY <1>1, <1>2, <1>3, <2>4
    <3> QED
      BY <1>4, <2>1, <3>1 DEF Unique, one
  <2> QED
    BY <2>2, <2>3, <2>4
<1>5. ASSUME NEW e \in PrivilegeRows, NEW o \in PrivilegeRows,
             Live(both[e]), Live(both[o]), both[e].name = both[o].name, p[e] = None, p[o] = None
      PROVE  e = o
  <2>1. other[e] = both[e] /\ other[o] = both[o]
    BY <1>1, <1>3, <1>5
  <2> QED
    BY <1>5, <2>1 DEF Unique, other
<1> QED
  BY <1>4, <1>5 DEF Unique, both, other

(* Another installation commits.                                           *)
LEMMA InstallationBeside ==
    ASSUME NEW rows, NEW p, NEW todo, NEW holder, Installation(rows, p, todo, holder),
           NEW q, NEW agenda, NEW owner, Installation(rows, q, agenda, owner),
           agenda # <<>>, agenda[1].do = "commit", Separate(p, q)
    PROVE  Installation(Over(rows, q), p, todo, holder)
<1> DEFINE view == Over(rows, p)
           now == Over(rows, q)
           more == Over(now, p)
<1>1. PrivilegeRows \subseteq Entry /\ PrivilegeRows \subseteq Rows /\ Entry \subseteq Rows
  BY RowFacts DEF PrivilegeRows
<1>2. /\ \A k \in Rows : view[k] = IF p[k] # None THEN p[k] ELSE rows[k]
      /\ \A k \in Rows : now[k] = IF q[k] # None THEN q[k] ELSE rows[k]
  BY OverFacts
<1> HIDE DEF view, now
<1>3. \A k \in Rows : more[k] = IF p[k] # None THEN p[k] ELSE now[k]
  BY OverFacts
<1> HIDE DEF more
<1>4. /\ \A k \in Rows : q[k] # None => Live(q[k])
      /\ \A e \in Entry : q[e] # None => rows[e].state = "none"
      /\ \A k \in Rows : p[k] # None => Live(p[k])
      /\ \A e \in Entry : p[e] # None => rows[e].state = "none"
  BY DEF Installation
<1>5. Grown(view, more)
  BY <1>2, <1>3, <1>4 DEF Grown, Live
<1>6. \A e \in Entry : p[e] # None => now[e].state = "none"
  BY <1>1, <1>2, <1>4 DEF Separate
<1>7. Owned(view, todo, holder) => Owned(more, todo, holder)
  BY <1>5, HasGrows DEF Owned
<1>8. ASSUME NEW i \in DOMAIN Catalogue
      PROVE  /\ Apart(p, todo, i) \/ \A c \in CodesOf(i) : Coming(more, todo, holder, c)
             /\ First(now, p, i) /\ \E m \in Module \cup {None} : FiledAs(p, todo, i, m)
  <2>1. /\ Apart(p, todo, i) \/ \A c \in CodesOf(i) : Coming(view, todo, holder, c)
        /\ First(rows, p, i) /\ \E m \in Module \cup {None} : FiledAs(p, todo, i, m)
    BY DEF Installation, view
  <2>2. \A c \in CodesOf(i) : Coming(view, todo, holder, c) => Coming(more, todo, holder, c)
    BY <1>5, HasGrows DEF Coming
  <2>3. First(now, p, i)
    <3> SUFFICES ASSUME NEW e \in PrivilegeRows, NEW o \in PrivilegeRows,
                        p[e] # None, p[e].name \in CodesOf(i),
                        Live(now[o]), now[o].name \in CodesOf(i)
                 PROVE  FALSE
      BY DEF First
    <3>1. q[o] # None /\ now[o] = q[o]
      BY <1>1, <1>2, <2>1 DEF First
    <3>2. ~Untouched(q, i)
      BY <1>1, <3>1 DEF Untouched
    <3>3. Installed(now, p[e].name)
      BY <3>2, CommittingHasInstalled DEF now
    <3>4. PICK a \in PrivilegeRows : Live(now[a]) /\ now[a].name = p[e].name
      BY <3>3 DEF Installed, Has, PrivilegeRows
    <3>5. CASE q[a] # None
      BY <1>1, <1>2, <1>4, <3>4, <3>5 DEF Separate
    <3>6. CASE q[a] = None
      BY <1>1, <1>2, <2>1, <3>4, <3>6 DEF First
    <3> QED
      BY <3>5, <3>6
  <2> QED
    BY <2>1, <2>2, <2>3
<1> QED
  BY <1>4, <1>6, <1>7, <1>8 DEF Installation, view, now, more
-----------------------------------------------------------------------------
(* The steps of a deletion.                                                *)

(* It deletes a row, or finds nothing to delete, and goes on.              *)
LEMMA DeletionGoesOn ==
    ASSUME NEW rows, NEW p, NEW todo, Deletion(rows, p, todo), todo # <<>>,
           todo[1].do \notin {"list", "grants"}, NEW q,
           \A k \in Rows :
             \/ q[k] = p[k]
             \/ /\ q[k] # None /\ ~Live(q[k]) /\ (k \in Entry => q[k].name = Over(rows, p)[k].name)
                /\ \/ todo[1].do = "dropCode" /\ k \in PrivilegeRows /\ q[k].name = todo[1].code
                   \/ todo[1].do = "unlink" /\ k = todo[1].link,
           todo[1].do = "dropCode" => ~Has(Over(rows, q), "privilege", todo[1].code, {}),
           todo[1].do = "unlink" => ~Live(Over(rows, q)[todo[1].link])
    PROVE  Deletion(rows, q, Tail(todo))
<1> DEFINE view == Over(rows, p)
           more == Over(rows, q)
           rest == Tail(todo)
<1>1. /\ todo \in Seq(Deleting)
      /\ \A k \in Rows : p[k] # None => ~Live(p[k])
      /\ \A e \in Entry : p[e] # None => p[e].name = rows[e].name
      /\ \A n \in 1..Len(todo) : todo[n].do = "commit" => n = Len(todo)
  BY DEF Deletion
<1>2. PrivilegeRows \subseteq Entry /\ Entry \subseteq Rows /\ Roles \subseteq Entry
  BY RowFacts DEF PrivilegeRows, Roles
<1>3. /\ \A k \in Rows : view[k] = IF p[k] # None THEN p[k] ELSE rows[k]
      /\ \A k \in Rows : more[k] = IF q[k] # None THEN q[k] ELSE rows[k]
  BY OverFacts
<1>4. /\ rest \in Seq(Deleting) /\ ToSet(todo) = {todo[1]} \cup ToSet(rest)
      /\ Len(rest) = Len(todo) - 1 /\ Len(todo) \in Nat /\ \A n \in 1..Len(rest) : rest[n] = todo[n + 1]
      /\ todo[1] \in Deleting
  BY <1>1, SetOfTail
<1>5. ~Lists(rest)
  <2> SUFFICES ASSUME Lists(rest) PROVE FALSE
    OBVIOUS
  <2> HIDE DEF rest
  <2>1. Lists(todo)
    BY <1>4 DEF Lists
  <2>2. PICK m \in Module : todo = ModuleDeletion(m) \o Commits
    BY <2>1 DEF Deletion
  <2>3. (ModuleDeletion(m) \o Commits)[1] = [do |-> "list", module |-> m, then |-> "delete"]
    BY UpdatingShape
  <2>4. todo[1] = [do |-> "list", module |-> m, then |-> "delete"]
    BY <2>2, <2>3, Zenon
  <2> QED
    BY <2>4
<1> HIDE DEF view, more, rest
<1>6. \A k \in Rows : q[k] # None => ~Live(q[k])
  BY <1>1
<1>7. \A e \in Entry : q[e] # None => q[e].name = rows[e].name
  <2> TAKE e \in Entry
  <2>1. view[e].name = rows[e].name
    BY <1>1, <1>2, <1>3
  <2> QED
    BY <1>1, <1>2, <2>1 DEF view
<1>8. Grown(more, view)
  BY <1>1, <1>2, <1>3 DEF Grown
<1>9. \A n \in 1..Len(rest) : rest[n].do = "commit" => n = Len(rest)
  <2> TAKE n \in 1..Len(rest)
  <2>1. n + 1 \in 1..Len(todo)
    BY <1>4
  <2> QED
    BY <1>1, <1>4, <2>1
<1>10. todo[1].do = "unlink" => todo[1].link \in RoleLink
  BY <1>4 DEF Deleting
<1>11. ASSUME NEW i \in DOMAIN Catalogue
       PROVE  Apart(q, rest, i) \/ \A c \in CodesOf(i) : Going(more, rest, c)
  <2>1. CASE Apart(p, todo, i)
    <3>1. Untouched(p, i) /\ ~Changes(todo[1], i) /\ \A s \in ToSet(rest) : ~Changes(s, i)
      BY <1>4, <2>1 DEF Apart
    <3>2. ASSUME NEW k \in Rows, q[k] # None, q[k] # p[k]
          PROVE  /\ k \notin Roles
                 /\ k \in PrivilegeRows => q[k].name \notin CodesOf(i)
                 /\ k \in RoleLink => k[2] \notin CodesOf(i)
      <4>1. CASE todo[1].do = "dropCode" /\ k \in PrivilegeRows /\ q[k].name = todo[1].code
        <5>1. k \notin Roles /\ k \notin RoleLink
          BY <1>2, <4>1, RowFacts DEF PrivilegeRows, Roles
        <5> QED
          BY <3>1, <4>1, <5>1 DEF Changes
      <4>2. CASE todo[1].do = "unlink" /\ k = todo[1].link
        <5>1. k \notin Entry
          BY <1>10, <4>2, RowFacts
        <5> QED
          BY <1>2, <3>1, <4>2, <5>1 DEF Changes
      <4> QED
        BY <3>2, <4>1, <4>2
    <3>3. Untouched(q, i)
      BY <3>1, <3>2 DEF Untouched
    <3> QED
      BY <3>1, <3>3 DEF Apart
  <2>2. ASSUME NEW c \in CodesOf(i), Going(view, todo, c) PROVE Going(more, rest, c)
    <3>1. ~Has(more, "privilege", c, {}) \/ [do |-> "dropCode", code |-> c] \in ToSet(rest)
      <4>1. CASE ~Has(view, "privilege", c, {})
        BY <1>8, <4>1, HasGrows
      <4>2. CASE [do |-> "dropCode", code |-> c] = todo[1]
        <5>1. todo[1].do = "dropCode" /\ todo[1].code = c
          BY <4>2
        <5> QED
          BY <5>1 DEF more
      <4> QED
        BY <1>4, <2>2, <4>1, <4>2 DEF Going
    <3>2. CASE [do |-> "grants", code |-> c] \in ToSet(todo)
      <4>1. [do |-> "grants", code |-> c] # todo[1]
        OBVIOUS
      <4> QED
        BY <1>4, <3>1, <3>2, <4>1 DEF Going
    <3>3. CASE \A h \in Roles : Live(view[<<h, c>>]) => [do |-> "unlink", link |-> <<h, c>>] \in ToSet(todo)
      <4>1. ASSUME NEW h \in Roles, Live(more[<<h, c>>])
            PROVE  [do |-> "unlink", link |-> <<h, c>>] \in ToSet(rest)
        <5>1. <<h, c>> \in Rows
          BY CodeFacts
        <5>2. Live(view[<<h, c>>])
          BY <1>8, <4>1, <5>1 DEF Grown
        <5>3. ASSUME [do |-> "unlink", link |-> <<h, c>>] = todo[1] PROVE FALSE
          <6>1. todo[1].do = "unlink" /\ todo[1].link = <<h, c>>
            BY <5>3
          <6> QED
            BY <4>1, <6>1 DEF more
        <5> QED
          BY <1>4, <3>3, <5>2, <5>3
      <4> QED
        BY <3>1, <4>1 DEF Going
    <3> QED
      BY <2>2, <3>2, <3>3 DEF Going
  <2>3. Apart(p, todo, i) \/ \A c \in CodesOf(i) : Going(view, todo, c)
    BY DEF Deletion, view
  <2> QED
    BY <2>1, <2>2, <2>3
<1> QED
  BY <1>4, <1>5, <1>6, <1>7, <1>9, <1>11 DEF Deletion, more, rest

(* The privileges filed under the module are listed: if one of a resource  *)
(* is among them, all are.                                                 *)
LEMMA DeletionLists ==
    ASSUME NEW rows, NEW p, NEW todo, Deletion(rows, p, todo), todo # <<>>, todo[1].do = "list",
           Sound(rows), \A e \in Entry : rows[e] \in EntryRow,
           NEW n \in Nat, NEW s \in [1..n -> Entry],
           \A i \in 1..n : s[i] \in PrivilegeRows /\ Live(Over(rows, p)[s[i]])
                             /\ Over(rows, p)[s[i]].group = todo[1].module,
           \A e \in PrivilegeRows : Live(Over(rows, p)[e]) /\ Over(rows, p)[e].group = todo[1].module =>
             \E i \in 1..n : e = s[i],
           NEW seqs,
           seqs = [i \in 1..n |-> <<[do |-> "grants", code |-> Over(rows, p)[s[i]].name],
                                    [do |-> "dropCode", code |-> Over(rows, p)[s[i]].name]>>]
    PROVE  /\ todo[1].then = "delete"
           /\ Deletion(rows, p, FlattenSeq(seqs) \o Tail(todo))
<1> DEFINE A == {x \in Deleting : x.do \in {"grants", "dropCode"} /\ \E i \in 1..n : x.code = rows[s[i]].name}
           flat == FlattenSeq(seqs)
           new == flat \o Tail(todo)
           cm == [do |-> "commit"]
<1>1. todo \in Seq(Deleting)
  BY DEF Deletion
<1>2. Lists(todo)
  BY <1>1, SetOfTail DEF Lists
<1>3. PICK m \in Module : todo = ModuleDeletion(m) \o Commits
  BY <1>2 DEF Deletion
<1>4. todo[1].then = "delete" /\ Tail(todo) = Commits
  <2>1. /\ (ModuleDeletion(m) \o Commits)[1] = [do |-> "list", module |-> m, then |-> "delete"]
        /\ Tail(ModuleDeletion(m) \o Commits) = Commits
    BY UpdatingShape
  <2>2. todo[1] = [do |-> "list", module |-> m, then |-> "delete"] /\ Tail(todo) = Commits
    BY <1>3, <2>1, Zenon
  <2> QED
    BY <2>2
<1>5. \A k \in Rows : p[k] = None
  BY <1>2 DEF Deletion
<1>6. \A k \in Rows : Over(rows, p)[k] = rows[k]
  BY <1>5 DEF Over
<1>7. PrivilegeRows \subseteq Entry /\ Entry \subseteq Rows
  BY RowFacts DEF PrivilegeRows
<1>8. \A i \in 1..n : /\ s[i] \in PrivilegeRows /\ Live(rows[s[i]]) /\ rows[s[i]].name \in Name
                      /\ Over(rows, p)[s[i]].name = rows[s[i]].name /\ rows[s[i]].group = todo[1].module
  BY <1>6, <1>7 DEF EntryRow
<1>9. /\ flat \in Seq(A)
      /\ \A i \in 1..n : /\ [do |-> "grants", code |-> rows[s[i]].name] \in ToSet(flat)
                         /\ [do |-> "dropCode", code |-> rows[s[i]].name] \in ToSet(flat)
  <2> DEFINE f == [i \in 1..n |-> [do |-> "grants", code |-> rows[s[i]].name]]
             g == [i \in 1..n |-> [do |-> "dropCode", code |-> rows[s[i]].name]]
  <2>1. ASSUME NEW i \in 1..n PROVE f[i] \in A
    BY <1>8 DEF Deleting
  <2>2. ASSUME NEW i \in 1..n PROVE g[i] \in A
    BY <1>8 DEF Deleting
  <2>3. seqs = [i \in 1..n |-> <<f[i], g[i]>>]
    BY <1>8
  <2>4. f \in [1..n -> A] /\ g \in [1..n -> A]
    BY <2>1, <2>2
  <2>5. \A i \in 1..n : /\ f[i] = [do |-> "grants", code |-> rows[s[i]].name]
                        /\ g[i] = [do |-> "dropCode", code |-> rows[s[i]].name]
    OBVIOUS
  <2> HIDE DEF f, g, A, flat
  <2>6. FlattenSeq(seqs) \in Seq(A)
    <3>1. seqs \in [1..n -> Seq(A)]
      BY ONLY n \in Nat, <2>3, <2>4, FlattenPairs
    <3> QED
      BY ONLY n \in Nat, <3>1, FlattenAll
  <2>7. \A i \in 1..n : f[i] \in ToSet(FlattenSeq(seqs)) /\ g[i] \in ToSet(FlattenSeq(seqs))
    <3> TAKE i \in 1..n
    <3>1. seqs \in [1..n -> Seq(A)]
      BY ONLY n \in Nat, <2>3, <2>4, FlattenPairs
    <3>2. ToSet(seqs[i]) \subseteq ToSet(FlattenSeq(seqs))
      BY ONLY n \in Nat, i \in 1..n, <3>1, FlattenAll
    <3>3. f[i] \in A /\ g[i] \in A /\ seqs[i] = <<f[i], g[i]>>
      BY ONLY i \in 1..n, <2>3, <2>4
    <3>4. f[i] \in ToSet(<<f[i], g[i]>>) /\ g[i] \in ToSet(<<f[i], g[i]>>)
      BY ONLY <3>3, PairOf
    <3> QED
      BY <3>2, <3>3, <3>4, Zenon
  <2> QED
    BY <2>5, <2>6, <2>7 DEF flat
<1>10. Commits \in Seq(Deleting) /\ ToSet(Commits) = {cm} /\ Len(Commits) = 1 /\ Commits[1] = cm
  <2>1. cm \in Deleting /\ Commits = <<cm>>
    BY DEF Commits, Deleting
  <2> HIDE DEF cm
  <2> QED
    BY <2>1 DEF ToSet
<1>11. flat \in Seq(Deleting) /\ \A x \in ToSet(flat) : x \in A
  <2>1. A \subseteq Deleting
    OBVIOUS
  <2> HIDE DEF A, flat
  <2> QED
    BY <1>9, <2>1, SeqOfMore, SetOfSeq
<1> HIDE DEF flat, cm
<1>12. /\ new \in Seq(Deleting) /\ Len(new) = Len(flat) + 1 /\ ToSet(new) = ToSet(flat) \cup {cm}
       /\ \A k \in 1..Len(flat) : new[k] = flat[k]
  <2>1. /\ flat \o Commits \in Seq(Deleting) /\ Len(flat \o Commits) = Len(flat) + Len(Commits)
        /\ ToSet(flat \o Commits) = ToSet(flat) \cup ToSet(Commits)
        /\ \A k \in 1..Len(flat) : (flat \o Commits)[k] = flat[k]
    <3>1. flat \in Seq(Deleting) /\ Commits \in Seq(Deleting)
      BY <1>10, <1>11
    <3> QED
      BY ONLY <3>1, SetOfConcat
  <2>2. new = flat \o Commits
    BY <1>4, Zenon
  <2> HIDE DEF new
  <2> QED
    BY <1>10, <2>1, <2>2
<1> HIDE DEF new
<1>13. \A k \in 1..Len(new) : new[k].do = "commit" => k = Len(new)
  <2> SUFFICES ASSUME NEW k \in 1..Len(new), k # Len(new) PROVE new[k].do # "commit"
    OBVIOUS
  <2>1. Len(flat) \in Nat
    BY <1>11
  <2>2. k \in 1..Len(flat) /\ new[k] = flat[k]
    BY <1>12, <2>1
  <2>3. flat[k] \in A
    BY <1>11, <2>2, SetOfSeq
  <2> QED
    BY <2>2, <2>3
<1>14. /\ \A x \in ToSet(new) : /\ x.do \in {"grants", "dropCode", "commit"}
                                /\ x.do # "commit" => \E i \in 1..n : x.code = rows[s[i]].name
       /\ ~Lists(new)
  <2>1. cm.do = "commit"
    BY DEF cm
  <2>2. \A x \in ToSet(new) : x \in A \/ x = cm
    BY <1>11, <1>12
  <2>3. \A x \in A : x.do \in {"grants", "dropCode"} /\ \E i \in 1..n : x.code = rows[s[i]].name
    OBVIOUS
  <2> HIDE DEF A
  <2>4. \A x \in ToSet(new) : /\ x.do \in {"grants", "dropCode", "commit"}
                              /\ x.do # "commit" => \E i \in 1..n : x.code = rows[s[i]].name
    BY <2>1, <2>2, <2>3
  <2>5. ~Lists(new)
    BY ONLY <2>4 DEF Lists
  <2> QED
    BY ONLY <2>4, <2>5
<1>15. ASSUME NEW i \in DOMAIN Catalogue
       PROVE  Apart(p, new, i) \/ \A c \in CodesOf(i) : Going(Over(rows, p), new, c)
  <2>1. CASE \E k \in 1..n : rows[s[k]].name \in CodesOf(i)
    <3>1. PICK k \in 1..n : rows[s[k]].name \in CodesOf(i)
      BY <2>1
    <3>2. Has(rows, "privilege", rows[s[k]].name, {})
      BY <1>8 DEF Has, PrivilegeRows
    <3>3. \A c \in CodesOf(i) : Installed(rows, c)
      BY <3>1, <3>2 DEF Sound, WholeModules, Absent
    <3>4. ASSUME NEW c \in CodesOf(i) PROVE Going(Over(rows, p), new, c)
      <4>1. PICK e \in PrivilegeRows : Live(rows[e]) /\ rows[e].name = c
        BY <3>3 DEF Installed, Has, PrivilegeRows
      <4>2. Filed(rows, i)
        BY DEF Sound
      <4>3. rows[e].group = rows[s[k]].group
        BY <1>7, <1>8, <3>1, <4>1, <4>2 DEF Filed, PrivilegeRows
      <4>4. PICK j \in 1..n : e = s[j]
        BY <1>6, <1>7, <1>8, <4>1, <4>3
      <4>5. /\ [do |-> "grants", code |-> c] \in ToSet(new)
            /\ [do |-> "dropCode", code |-> c] \in ToSet(new)
        BY <1>9, <1>12, <4>1, <4>4
      <4> QED
        BY <4>5 DEF Going
    <3> QED
      BY <3>4
  <2>2. CASE ~\E k \in 1..n : rows[s[k]].name \in CodesOf(i)
    <3>1. \A x \in ToSet(new) : ~Changes(x, i)
      BY ONLY <1>14, <2>2 DEF Changes, Ensures
    <3> QED
      BY <1>5, <3>1 DEF Apart, Untouched
  <2> QED
    BY <2>1, <2>2
<1>16. Deletion(rows, p, new)
  BY <1>5, <1>7, <1>12, <1>13, <1>14, <1>15 DEF Deletion
<1> QED
  BY <1>4, <1>16 DEF new, flat

(* All grants of a code are listed.                                        *)
LEMMA DeletionGrants ==
    ASSUME NEW rows, NEW p, NEW todo, Deletion(rows, p, todo), todo # <<>>, todo[1].do = "grants",
           NEW n \in Nat, NEW s \in [1..n -> Roles],
           \A i \in 1..n : <<s[i], todo[1].code>> \in RoleLink,
           \A h \in Roles : <<h, todo[1].code>> \in Link /\ Live(Over(rows, p)[<<h, todo[1].code>>]) =>
             \E i \in 1..n : h = s[i],
           NEW seqs, seqs = [i \in 1..n |-> Ungrant(<<s[i], todo[1].code>>)]
    PROVE  Deletion(rows, p, FlattenSeq(seqs) \o Tail(todo))
<1> DEFINE code == todo[1].code
           A == [do : {"mapping", "unlink", "revoke"}, link : {l \in RoleLink : l[2] = code}]
           flat == FlattenSeq(seqs)
           rest == Tail(todo)
           new == flat \o rest
           view == Over(rows, p)
<1>1. todo \in Seq(Deleting) /\ \A k \in 1..Len(todo) : todo[k].do = "commit" => k = Len(todo)
  BY DEF Deletion
<1>2. /\ rest \in Seq(Deleting) /\ ToSet(todo) = {todo[1]} \cup ToSet(rest)
      /\ Len(rest) = Len(todo) - 1 /\ Len(todo) \in Nat /\ \A k \in 1..Len(rest) : rest[k] = todo[k + 1]
      /\ todo[1] \in Deleting
  BY <1>1, SetOfTail
<1>3. ASSUME NEW i \in 1..n
      PROVE  seqs[i] \in Seq(A) /\ [do |-> "unlink", link |-> <<s[i], code>>] \in ToSet(seqs[i])
  <2> DEFINE l == <<s[i], code>>
             a == [do |-> "mapping", link |-> l]
             b == [do |-> "unlink", link |-> l]
             d == [do |-> "revoke", link |-> l]
  <2>1. l \in RoleLink /\ l[2] = code /\ seqs[i] = <<a, b, d>>
    BY DEF Ungrant
  <2> HIDE DEF l
  <2>2. a \in A /\ b \in A /\ d \in A
    BY <2>1
  <2> HIDE DEF a, b, d, A
  <2> DEFINE t == <<a, b, d>>
  <2>3. t \in Seq(A) /\ Len(t) = 3 /\ t[2] = b
    BY <2>2
  <2>4. seqs[i] = t
    BY <2>1
  <2>5. b \in ToSet(t)
    <3>1. 2 \in 1..Len(t)
      BY <2>3
    <3> HIDE DEF t
    <3> QED
      BY <2>3, <3>1, SetOfSeq
  <2> HIDE DEF t
  <2> QED
    BY <2>3, <2>4, <2>5 DEF b, l
<1>4. /\ flat \in Seq(A)
      /\ \A i \in 1..n : [do |-> "unlink", link |-> <<s[i], code>>] \in ToSet(flat)
  <2>1. seqs \in [1..n -> Seq(A)]
    BY <1>3
  <2> HIDE DEF A
  <2>2. /\ FlattenSeq(seqs) \in Seq(A)
        /\ \A i \in 1..n : ToSet(seqs[i]) \subseteq ToSet(FlattenSeq(seqs))
    BY <2>1, FlattenAll
  <2> QED
    BY <1>3, <2>2
<1>5. flat \in Seq(Deleting) /\ \A x \in ToSet(flat) : x \in A
  <2>1. A \subseteq Deleting
    BY DEF Deleting
  <2> HIDE DEF A, flat
  <2> QED
    BY <1>4, <2>1, SeqOfMore, SetOfSeq
<1> HIDE DEF flat, rest
<1>6. /\ new \in Seq(Deleting) /\ Len(new) = Len(flat) + Len(rest)
      /\ ToSet(new) = ToSet(flat) \cup ToSet(rest)
      /\ \A k \in 1..Len(flat) : new[k] = flat[k]
      /\ \A k \in 1..Len(rest) : new[Len(flat) + k] = rest[k]
  <2>1. flat \in Seq(Deleting) /\ rest \in Seq(Deleting)
    BY <1>2, <1>5
  <2> QED
    BY ONLY <2>1, SetOfConcat
<1> HIDE DEF new
<1>7. ASSUME NEW k \in 1..Len(new), new[k].do = "commit" PROVE k = Len(new)
  <2>1. Len(flat) \in Nat /\ Len(rest) \in Nat
    BY <1>2, <1>5
  <2>2. k \notin 1..Len(flat)
    <3> SUFFICES ASSUME k \in 1..Len(flat) PROVE FALSE
      OBVIOUS
    <3>1. flat[k] \in A
      BY <1>5, SetOfSeq
    <3> QED
      BY <1>6, <1>7, <3>1
  <2>3. PICK j \in 1..Len(rest) : k = Len(flat) + j
    <3>1. k - Len(flat) \in 1..Len(rest) /\ k = Len(flat) + (k - Len(flat))
      BY <1>6, <2>1, <2>2
    <3> QED
      BY <3>1
  <2>4. j + 1 \in 1..Len(todo) /\ todo[j + 1].do = "commit"
    BY <1>2, <1>6, <1>7, <2>3
  <2> QED
    BY <1>1, <1>2, <1>6, <2>1, <2>3, <2>4
<1>8. ~Lists(new)
  <2>1. ~Lists(rest)
    <3> SUFFICES ASSUME Lists(rest) PROVE FALSE
      OBVIOUS
    <3>1. Lists(todo)
      BY <1>2 DEF Lists
    <3>2. PICK m \in Module : todo = ModuleDeletion(m) \o Commits
      BY <3>1 DEF Deletion
    <3>3. (ModuleDeletion(m) \o Commits)[1] = [do |-> "list", module |-> m, then |-> "delete"]
      BY UpdatingShape
    <3>4. todo[1] = [do |-> "list", module |-> m, then |-> "delete"]
      BY <3>2, <3>3, Zenon
    <3> QED
      BY <3>4
  <2> QED
    BY <1>5, <1>6, <2>1 DEF Lists
<1>9. todo[1] = [do |-> "grants", code |-> code] /\ code \in Name
  BY <1>2 DEF Deleting
<1> HIDE DEF code
<1>10. ASSUME NEW i \in DOMAIN Catalogue
       PROVE  Apart(p, new, i) \/ \A c \in CodesOf(i) : Going(view, new, c)
  <2>1. CASE Apart(p, todo, i)
    <3>1. Untouched(p, i) /\ ~Changes(todo[1], i) /\ \A x \in ToSet(rest) : ~Changes(x, i)
      BY <1>2, <2>1 DEF Apart
    <3>2. code \notin CodesOf(i)
      BY <1>9, <3>1 DEF Changes
    <3>3. \A x \in ToSet(flat) : ~Changes(x, i)
      BY <1>5, <3>2 DEF Changes, Ensures
    <3> QED
      BY <1>6, <3>1, <3>3 DEF Apart
  <2>2. ASSUME NEW c \in CodesOf(i), Going(view, todo, c) PROVE Going(view, new, c)
    <3>1. ~Has(view, "privilege", c, {}) \/ [do |-> "dropCode", code |-> c] \in ToSet(new)
      BY <1>2, <1>6, <2>2 DEF Going
    <3>2. CASE c # code
      <4>1. [do |-> "grants", code |-> c] # todo[1] /\ \A l : [do |-> "unlink", link |-> l] # todo[1]
        BY <1>9, <3>2
      <4> QED
        BY <1>2, <1>6, <2>2, <3>1, <4>1 DEF Going
    <3>3. CASE c = code
      <4>1. ASSUME NEW h \in Roles, Live(view[<<h, c>>])
            PROVE  [do |-> "unlink", link |-> <<h, c>>] \in ToSet(new)
        <5>1. <<h, c>> \in Link
          BY CodeFacts DEF RoleLink
        <5>2. \E k \in 1..n : h = s[k]
          BY <3>3, <4>1, <5>1 DEF code
        <5> QED
          BY <1>4, <1>6, <3>3, <5>2
      <4> QED
        BY <3>1, <4>1 DEF Going
    <3> QED
      BY <3>2, <3>3
  <2>3. Apart(p, todo, i) \/ \A c \in CodesOf(i) : Going(view, todo, c)
    BY DEF Deletion
  <2> QED
    BY <2>1, <2>2, <2>3
<1>11. Deletion(rows, p, new)
  BY <1>6, <1>7, <1>8, <1>10 DEF Deletion
<1> QED
  BY <1>11 DEF new, flat, rest

(* What it has begun is gone when it commits.                              *)
LEMMA DeletionCommits ==
    ASSUME NEW rows, NEW p, NEW todo, Deletion(rows, p, todo), todo # <<>>, todo[1].do = "commit",
           Sound(rows), Unique(Over(rows, p))
    PROVE  Sound(Over(rows, p))
<1> DEFINE view == Over(rows, p)
<1>1. todo \in Seq(Deleting) /\ \A n \in 1..Len(todo) : todo[n].do = "commit" => n = Len(todo)
  BY DEF Deletion
<1>2. Len(todo) = 1
  <2>1. Len(todo) \in Nat /\ Len(todo) >= 1
    BY <1>1, SetOfTail
  <2>2. 1 \in 1..Len(todo)
    BY <2>1
  <2>3. todo[1].do = "commit"
    OBVIOUS
  <2> QED
    BY ONLY <1>1, <2>2, <2>3
<1>3. \A x \in ToSet(todo) : x = todo[1]
  <2> TAKE x \in ToSet(todo)
  <2>1. \E n \in 1..Len(todo) : x = todo[n]
    BY <1>1, SetOfSeq
  <2> QED
    BY <1>2, <2>1
<1>4. PrivilegeRows \subseteq Entry /\ PrivilegeRows \subseteq Rows
  BY RowFacts DEF PrivilegeRows
<1>5. \A k \in Rows : view[k] = IF p[k] # None THEN p[k] ELSE rows[k]
  BY OverFacts
<1>6. \A e \in PrivilegeRows : p[e] # None => ~Live(p[e]) /\ p[e].name = rows[e].name
  BY <1>4 DEF Deletion
<1>7. ASSUME NEW i \in DOMAIN Catalogue
      PROVE  (\A c \in CodesOf(i) : Installed(view, c)) \/ (\A c \in CodesOf(i) : Absent(view, c))
  <2>1. CASE Untouched(p, i)
    BY <1>6, <2>1, UntouchedSame DEF Sound, WholeModules
  <2>2. ASSUME NEW c \in CodesOf(i), Going(view, todo, c) PROVE Absent(view, c)
    <3>1. ~Has(view, "privilege", c, {})
      <4>1. [do |-> "dropCode", code |-> c] \notin ToSet(todo)
        BY <1>3
      <4> QED
        BY <2>2, <4>1 DEF Going
    <3>2. \A h \in Roles : ~Live(view[<<h, c>>])
      <4>1. [do |-> "grants", code |-> c] \notin ToSet(todo)
        BY <1>3
      <4>2. \A h : [do |-> "unlink", link |-> <<h, c>>] \notin ToSet(todo)
        BY <1>3
      <4> QED
        BY <2>2, <4>1, <4>2 DEF Going
    <3> QED
      BY <3>1, <3>2 DEF Absent, Has, Roles
  <2>3. Apart(p, todo, i) \/ \A c \in CodesOf(i) : Going(view, todo, c)
    BY DEF Deletion
  <2> QED
    BY <2>1, <2>2, <2>3 DEF Apart
<1> HIDE DEF view
<1>8. ASSUME NEW i \in DOMAIN Catalogue PROVE Filed(view, i)
  <2>1. Filed(rows, i)
    BY DEF Sound
  <2>2. \A e \in PrivilegeRows : Live(view[e]) => view[e] = rows[e]
    BY <1>4, <1>5, <1>6
  <2> QED
    BY <1>4, <2>1, <2>2 DEF Filed, PrivilegeRows
<1> QED
  BY <1>7, <1>8 DEF Sound, WholeModules, view

(* Another deletion commits.                                               *)
LEMMA DeletionBeside ==
    ASSUME NEW rows, NEW p, NEW todo, Deletion(rows, p, todo),
           NEW q, NEW agenda, Deletion(rows, q, agenda), Separate(p, q)
    PROVE  Deletion(Over(rows, q), p, todo)
<1> DEFINE view == Over(rows, p)
           now == Over(rows, q)
           more == Over(now, p)
<1>1. Entry \subseteq Rows
  BY RowFacts
<1>2. /\ \A k \in Rows : view[k] = IF p[k] # None THEN p[k] ELSE rows[k]
      /\ \A k \in Rows : now[k] = IF q[k] # None THEN q[k] ELSE rows[k]
  BY OverFacts
<1> HIDE DEF view, now
<1>3. \A k \in Rows : more[k] = IF p[k] # None THEN p[k] ELSE now[k]
  BY OverFacts
<1> HIDE DEF more
<1>4. /\ \A k \in Rows : q[k] # None => ~Live(q[k])
      /\ \A e \in Entry : q[e] # None => q[e].name = rows[e].name
      /\ \A k \in Rows : p[k] # None => ~Live(p[k])
      /\ \A e \in Entry : p[e] # None => p[e].name = rows[e].name
  BY DEF Deletion
<1>5. Grown(more, view)
  BY <1>1, <1>2, <1>3, <1>4 DEF Grown
<1>6. \A e \in Entry : p[e] # None => p[e].name = now[e].name
  BY <1>1, <1>2, <1>4
<1>7. ASSUME NEW i \in DOMAIN Catalogue
      PROVE  Apart(p, todo, i) \/ \A c \in CodesOf(i) : Going(more, todo, c)
  <2>1. \A c \in CodesOf(i) : \A h \in Roles : Live(more[<<h, c>>]) => Live(view[<<h, c>>])
    BY <1>5, CodeFacts DEF Grown
  <2>2. \A c \in CodesOf(i) : Has(more, "privilege", c, {}) => Has(view, "privilege", c, {})
    BY <1>5, HasGrows
  <2>3. \A c \in CodesOf(i) : Going(view, todo, c) => Going(more, todo, c)
    BY <2>1, <2>2 DEF Going
  <2>4. Apart(p, todo, i) \/ \A c \in CodesOf(i) : Going(view, todo, c)
    BY DEF Deletion, view
  <2> QED
    BY <2>3, <2>4
<1> QED
  BY <1>4, <1>6, <1>7 DEF Deletion, view, now, more
-----------------------------------------------------------------------------
(* What the two invariants give of one transaction.                        *)

LEMMA VersionFacts ==
    ASSUME PrivilegesInv, NEW r \in Request
    PROVE  /\ Row = Rows /\ NoWrites = NoVersions
           /\ pend[r] \in [Rows -> AnyRow \cup {None}]
           /\ \A k \in Rows : View(r, k) = Over(db, pend[r])[k]
           /\ \A e \in Entry : e \in Rows /\ db[e] \in EntryRow /\ View(r, e) \in EntryRow
           /\ None \notin AnyRow
           /\ HoldsNothing(r) => pend[r] = NoVersions
           /\ ~Running(r) \/ job[r].op = "switch" => HoldsNothing(r)
<1>1. Row = Rows /\ pend[r] \in [Rows -> AnyRow \cup {None}] /\ Mine(r)
  BY DEF PrivilegesInv, Row
<1>2. NoWrites = NoVersions
  BY <1>1 DEF NoWrites, NoVersions
<1>3. \A k \in Rows : View(r, k) = Over(db, pend[r])[k]
  BY DEF View, Over
<1>4. \A e \in Entry : e \in Rows /\ db[e] \in EntryRow /\ View(r, e) \in EntryRow
  BY RowFacts, ViewTyped DEF PrivilegesInv
<1>5. None \notin AnyRow
  BY PrivilegesAssumption DEF AnyRow
<1>6. HoldsNothing(r) => pend[r] = NoVersions
  BY <1>1 DEF HoldsNothing, Holds, NoVersions
<1> QED
  BY <1>1, <1>2, <1>3, <1>4, <1>5, <1>6 DEF Mine

(* An entry is found by name if the transaction sees it.                   *)
LEMMA FoundByName ==
    ASSUME PrivilegesInv, NEW r \in Request, NEW kind, NEW name
    PROVE  /\ \A e \in Named(r, kind, name) :
                /\ e \in Entry /\ KindOf[e] = kind /\ View(r, e).name = name /\ Live(View(r, e))
                /\ Has(Over(db, pend[r]), kind, name, {})
           /\ \A e \in Entry :
                KindOf[e] = kind /\ Live(Over(db, pend[r])[e]) /\ Over(db, pend[r])[e].name = name =>
                e \in Named(r, kind, name)
<1>1. \A e \in Entry : View(r, e) = Over(db, pend[r])[e]
  BY VersionFacts, RowFacts
<1> QED
  BY <1>1 DEF Named, Has

LEMMA SeparateEither ==
    ASSUME NEW p, NEW q, Separate(p, q)
    PROVE  Separate(q, p)
BY DEF Separate

(* What a transaction that changes modules as a whole is at.               *)
LEMMA WholeItem ==
    ASSUME PrivilegesInv, WholeInv, tidy, NEW r \in Request, Running(r)
    PROVE  LET op == job[r].op
               todo == seen[r].todo
           IN  /\ todo # <<>> /\ Item(r) = todo[1] /\ Wholly(db, r)
               /\ op \in Installers \/ op = "deleteModule" \/ op = "switch"
               /\ op \in Installers =>
                    /\ Installation(db, pend[r], todo, seen[r].holder) /\ Item(r) \in Installing
                    /\ Item(r).do \in {"ensure", "link", "owner", "commit", "list", "reload"}
               /\ op = "deleteModule" =>
                    /\ Deletion(db, pend[r], todo) /\ Item(r) \in Deleting
                    /\ Item(r).do \in {"list", "grants", "dropCode", "mapping", "unlink", "revoke", "commit"}
               /\ op = "switch" => Item(r).do \in {"codes", "commit"}
<1> DEFINE op == job[r].op
           todo == seen[r].todo
<1>1. /\ todo # <<>> /\ todo \in Todo(op) /\ Item(r) = Head(todo) /\ Item(r) \in StepsOf(op)
  BY OnItem DEF Item
<1>2. Wholly(db, r)
  BY DEF WholeInv
<1>3. op \in Installers \/ op = "deleteModule" \/ op = "switch"
  BY <1>2 DEF Wholly, Whole
<1>4. Item(r) = todo[1]
  <2>1. todo \in Seq(StepsOf(op))
    BY <1>1 DEF Todo
  <2> HIDE DEF todo, op
  <2> QED
    BY <1>1, <2>1
<1>5. ASSUME op \in Installers
      PROVE  /\ Installation(db, pend[r], todo, seen[r].holder) /\ todo[1] \in Installing
             /\ todo[1].do \in {"ensure", "link", "owner", "commit", "list", "reload"}
  <2>1. Installation(db, pend[r], todo, seen[r].holder)
    BY <1>2, <1>5 DEF Wholly
  <2>2. todo \in Seq(Installing)
    BY <2>1 DEF Installation
  <2> HIDE DEF todo, op
  <2>3. todo[1] \in Installing
    BY <1>1, <2>2, SetOfTail
  <2> QED
    BY <2>1, <2>3 DEF Installing
<1>6. ASSUME op = "deleteModule"
      PROVE  /\ Deletion(db, pend[r], todo) /\ todo[1] \in Deleting
             /\ todo[1].do \in {"list", "grants", "dropCode", "mapping", "unlink", "revoke", "commit"}
  <2>1. Deletion(db, pend[r], todo)
    BY <1>2, <1>6 DEF Wholly
  <2>2. todo \in Seq(Deleting)
    BY <2>1 DEF Deletion
  <2> HIDE DEF todo, op
  <2>3. todo[1] \in Deleting
    BY <1>1, <2>2, SetOfTail
  <2> QED
    BY <2>1, <2>3 DEF Deleting
<1>7. op = "switch" => Item(r).do \in {"codes", "commit"}
  BY <1>1 DEF StepsOf, Removers, Reading
<1> QED
  BY <1>1, <1>2, <1>3, <1>4, <1>5, <1>6, <1>7

(* A step of r keeps the invariant if what r has made of a module, and     *)
(* what it still has to do, is an installation or deletion, and its rows   *)
(* are other rows than everybody else's.                                   *)
LEMMA WholeStep ==
    ASSUME PrivilegesInv, WholeInv, tidy, NEW r \in Request, Running(r), Running(r)',
           db' = db, job' = job,
           \A s \in Request \ {r} : pend'[s] = pend[s] /\ seen'[s] = seen[s] /\ pc'[s] = pc[s],
           job[r].op \in Installers => Installation(db, pend'[r], seen'[r].todo, seen'[r].holder),
           job[r].op = "deleteModule" => Deletion(db, pend'[r], seen'[r].todo),
           Unique(Over(db, pend'[r])), \A s \in Request \ {r} : Separate(pend'[r], pend[s])
    PROVE  WholeInv'
<1>1. /\ Sound(db)
      /\ \A s \in Request : Unique(Over(db, pend[s])) /\ (Running(s) => Wholly(db, s))
      /\ \A s, t \in Request : s # t =>
           /\ Separate(pend[s], pend[t])
           /\ Running(s) /\ Running(t) => ~(job[s].op \in Installers /\ job[t].op = "deleteModule")
  BY DEF WholeInv
<1>2. \A s \in Request : Running(s)' <=> Running(s)
  BY DEF Running
<1>3. Sound(db)'
  BY <1>1
<1>4. ASSUME NEW s \in Request PROVE Unique(Over(db, pend[s]))' /\ (Running(s)' => Wholly(db, s)')
  <2>1. CASE s = r
    <3>1. job[r].op \in Whole
      BY <1>1 DEF Wholly
    <3> QED
      BY <2>1, <3>1 DEF Wholly
  <2>2. CASE s # r
    <3>1. pend'[s] = pend[s] /\ seen'[s] = seen[s]
      BY <2>2
    <3>2. Unique(Over(db', pend'[s]))
      BY <1>1, <3>1
    <3>3. Wholly(db, s)' <=> Wholly(db, s)
      BY <3>1 DEF Wholly
    <3> QED
      BY <1>1, <1>2, <3>2, <3>3
  <2> QED
    BY <2>1, <2>2
<1>5. ASSUME NEW s \in Request, NEW t \in Request, s # t
      PROVE  /\ Separate(pend'[s], pend'[t])
             /\ Running(s)' /\ Running(t)' => ~(job'[s].op \in Installers /\ job'[t].op = "deleteModule")
  <2>1. CASE s = r
    BY <1>1, <1>2, <1>5, <2>1
  <2>2. CASE t = r
    <3>1. Separate(pend'[r], pend[s])
      BY <1>5, <2>2
    <3> QED
      BY <1>1, <1>2, <1>5, <2>2, <3>1, SeparateEither
  <2>3. CASE s # r /\ t # r
    BY <1>1, <1>2, <1>5, <2>3
  <2> QED
    BY <2>1, <2>2, <2>3
<1> QED
  BY <1>3, <1>4, <1>5 DEF WholeInv

(* On to the next step.                                                    *)
LEMMA WholeGoesOn ==
    ASSUME PrivilegesInv, WholeInv, tidy, NEW r \in Request, Running(r), Item(r).do # "commit",
           NEW steps \in Todo(job[r].op), NEW holder \in Entry \cup {None}, Insertion(r, steps, holder),
           db' = db, \A s \in Request \ {r} : pend'[s] = pend[s],
           job[r].op \in Installers =>
             Installation(db, pend'[r], steps \o Tail(seen[r].todo), holder),
           job[r].op = "deleteModule" => Deletion(db, pend'[r], steps \o Tail(seen[r].todo)),
           Unique(Over(db, pend'[r])), \A s \in Request \ {r} : Separate(pend'[r], pend[s])
    PROVE  WholeInv'
<1>1. /\ job' = job /\ Running(r)' /\ \A s \in Request \ {r} : pc'[s] = pc[s] /\ seen'[s] = seen[s]
  BY Advance
<1>2. seen[r] \in Work /\ seen \in [Request -> Seen]
  BY OnItem DEF PrivilegesInv
<1>3. seen' = [seen EXCEPT ![r] = [seen[r] EXCEPT !.todo = steps \o Tail(seen[r].todo), !.holder = holder]]
  BY DEF Insertion, Keep
<1>4. seen'[r].todo = steps \o Tail(seen[r].todo) /\ seen'[r].holder = holder
  BY <1>2, <1>3 DEF Work
<1> QED
  BY <1>1, <1>4, WholeStep

(* Reading makes nothing of a module.                                      *)
LEMMA WholeReads ==
    ASSUME PrivilegesInv, WholeInv, tidy, NEW r \in Request, Running(r), Item(r).do # "commit",
           NEW steps \in Todo(job[r].op), NEW holder \in Entry \cup {None}, Insertion(r, steps, holder),
           Unwritten,
           job[r].op \in Installers =>
             Installation(db, pend[r], steps \o Tail(seen[r].todo), holder),
           job[r].op = "deleteModule" => Deletion(db, pend[r], steps \o Tail(seen[r].todo))
    PROVE  WholeInv'
<1>1. db' = db /\ pend' = pend
  BY DEF Unwritten
<1>2. Unique(Over(db, pend[r])) /\ \A s \in Request \ {r} : Separate(pend[r], pend[s])
  BY DEF WholeInv
<1> QED
  BY <1>1, <1>2, WholeGoesOn

LEMMA NoMoreSteps ==
    ASSUME PrivilegesInv, NEW r \in Request, Running(r)
    PROVE  <<>> \in Todo(job[r].op) /\ <<>> \o Tail(seen[r].todo) = Tail(seen[r].todo)
<1>1. Tail(seen[r].todo) \in Seq(StepsOf(job[r].op))
  BY OnItem DEF Todo
<1> QED
  BY <1>1, NothingToDo

(* The second half of a step.                                              *)
LEMMA WholeContinues ==
    ASSUME PrivilegesInv, WholeInv, tidy, NEW r \in Request, Running(r), NEW label,
           label \in {"insert", "attach"}, Continue(r, label)
    PROVE  WholeInv'
<1>1. /\ pc' = [pc EXCEPT ![r] = label] /\ db' = db /\ pend' = pend /\ job' = job /\ seen' = seen
      /\ pc \in [Request -> Label]
  BY DEF Continue, Goto, PrivilegesInv
<1>2. Running(r)' /\ \A s \in Request \ {r} : pc'[s] = pc[s]
  BY <1>1 DEF Running
<1>3. /\ Unique(Over(db, pend[r])) /\ \A s \in Request \ {r} : Separate(pend[r], pend[s])
      /\ Wholly(db, r)
  BY DEF WholeInv
<1>4. /\ job[r].op \in Installers => Installation(db, pend'[r], seen'[r].todo, seen'[r].holder)
      /\ job[r].op = "deleteModule" => Deletion(db, pend'[r], seen'[r].todo)
  BY <1>1, <1>3 DEF Wholly
<1> QED
  BY <1>1, <1>2, <1>3, <1>4, WholeStep
-----------------------------------------------------------------------------
(* Beginnings and ends of transactions.                                    *)

LEMMA NothingHeld ==
    ASSUME NEW rows
    PROVE  /\ \A k \in Rows : Over(rows, NoVersions)[k] = rows[k]
           /\ Unique(rows) => Unique(Over(rows, NoVersions))
           /\ \A q : Separate(NoVersions, q) /\ Separate(q, NoVersions)
<1>1. \A k \in Rows : Over(rows, NoVersions)[k] = rows[k]
  BY DEF Over, NoVersions
<1>2. Unique(rows) => Unique(Over(rows, NoVersions))
  BY <1>1, NothingWritten DEF Unique
<1>3. ASSUME NEW q PROVE Separate(NoVersions, q) /\ Separate(q, NoVersions)
  BY NothingWritten DEF Separate
<1> QED
  BY <1>1, <1>2, <1>3

(* r holds nothing any more, or not yet.                                   *)
LEMMA WholeAnew ==
    ASSUME PrivilegesInv, WholeInv, tidy, NEW r \in Request, Sound(db'), pend'[r] = NoVersions,
           \A s \in Request \ {r} :
             /\ pend'[s] = pend[s] /\ pc'[s] = pc[s] /\ job'[s] = job[s]
             /\ Unique(Over(db', pend[s])) /\ (Running(s) => Wholly(db, s)'),
           Running(r)' =>
             /\ Wholly(db, r)'
             /\ \A s \in Request \ {r} : Running(s) =>
                  /\ ~(job'[r].op \in Installers /\ job[s].op = "deleteModule")
                  /\ ~(job[s].op \in Installers /\ job'[r].op = "deleteModule")
    PROVE  WholeInv'
<1>1. \A s, t \in Request : s # t =>
        /\ Separate(pend[s], pend[t])
        /\ Running(s) /\ Running(t) => ~(job[s].op \in Installers /\ job[t].op = "deleteModule")
  BY DEF WholeInv
<1>2. \A s \in Request \ {r} : Running(s)' <=> Running(s)
  BY DEF Running
<1>3. Unique(Over(db', NoVersions))
  BY NothingHeld DEF Sound
<1>4. ASSUME NEW s \in Request PROVE Unique(Over(db', pend'[s])) /\ (Running(s)' => Wholly(db, s)')
  <2>1. CASE s = r
    BY <1>3, <2>1
  <2>2. CASE s # r
    <3>1. pend'[s] = pend[s] /\ Unique(Over(db', pend[s]))
      BY <2>2
    <3>2. Running(s)' => Wholly(db, s)'
      BY <1>2, <2>2
    <3> QED
      BY <3>1, <3>2
  <2> QED
    BY <2>1, <2>2
<1>5. ASSUME NEW s \in Request, NEW t \in Request, s # t PROVE Separate(pend'[s], pend'[t])
  <2>1. CASE s = r \/ t = r
    BY <2>1, NothingHeld
  <2>2. CASE s # r /\ t # r
    <3>1. pend'[s] = pend[s] /\ pend'[t] = pend[t]
      BY <2>2
    <3> QED
      BY <1>1, <1>5, <3>1
  <2> QED
    BY <2>1, <2>2
<1>6. ASSUME NEW s \in Request, NEW t \in Request, s # t, Running(s)', Running(t)'
      PROVE  ~(job'[s].op \in Installers /\ job'[t].op = "deleteModule")
  <2>1. CASE s = r
    BY <1>2, <1>6, <2>1
  <2>2. CASE t = r
    BY <1>2, <1>6, <2>2
  <2>3. CASE s # r /\ t # r
    BY <1>1, <1>2, <1>6, <2>3
  <2> QED
    BY <2>1, <2>2, <2>3
<1> QED
  BY <1>4, <1>5, <1>6 DEF WholeInv

LEMMA WholeAbandons ==
    ASSUME PrivilegesInv, WholeInv, tidy, NEW r \in Request, Running(r), Abandon(r)
    PROVE  WholeInv'
<1>1. /\ db' = db /\ pend' = [pend EXCEPT ![r] = NoWrites] /\ pc' = [pc EXCEPT ![r] = "failed"]
      /\ job' = [job EXCEPT ![r] = NoJob] /\ seen' = [seen EXCEPT ![r] = None]
  BY DEF Abandon, Fail, DiscardWrites, End, Goto
<1>2. /\ pend \in [Request -> [Rows -> AnyRow \cup {None}]] /\ pc \in [Request -> Label]
  BY DEF PrivilegesInv
<1>3. pend'[r] = NoVersions /\ ~Running(r)'
  BY <1>1, <1>2, VersionFacts DEF Running
<1>4. ASSUME NEW s \in Request \ {r}
      PROVE  /\ pend'[s] = pend[s] /\ pc'[s] = pc[s] /\ job'[s] = job[s]
             /\ Unique(Over(db', pend[s])) /\ (Running(s) => Wholly(db, s)')
  <2>1. pend'[s] = pend[s] /\ pc'[s] = pc[s] /\ job'[s] = job[s] /\ seen'[s] = seen[s]
    BY <1>1
  <2>2. Unique(Over(db, pend[s])) /\ (Running(s) => Wholly(db, s))
    BY DEF WholeInv
  <2>3. Wholly(db, s)' <=> Wholly(db, s)
    BY <1>1, <2>1 DEF Wholly
  <2> QED
    BY <1>1, <2>1, <2>2, <2>3
<1>5. Sound(db')
  BY <1>1 DEF WholeInv
<1> QED
  BY <1>3, <1>4, <1>5, WholeAnew

(* What a commit makes of the modules, and of the others' transactions.    *)
LEMMA WholeCommitted ==
    ASSUME PrivilegesInv, WholeInv, tidy, NEW r \in Request, pc[r] = "commit", CommitWrites(r)
    PROVE  /\ db' = Over(db, pend[r]) /\ Sound(db')
           /\ pend'[r] = NoVersions /\ \A s \in Request \ {r} : pend'[s] = pend[s]
           /\ \A s \in Request \ {r} :
                /\ Unique(Over(db', pend[s]))
                /\ Running(s) /\ job[s].op \in Installers =>
                     Installation(db', pend[s], seen[s].todo, seen[s].holder)
                /\ Running(s) /\ job[s].op = "deleteModule" => Deletion(db', pend[s], seen[s].todo)
<1> DEFINE p == pend[r]
           todo == seen[r].todo
<1>1. Running(r) /\ Item(r).do = "commit"
  BY AtStep
<1>2. /\ todo # <<>> /\ todo[1].do = "commit"
      /\ job[r].op \in Installers \/ job[r].op = "deleteModule" \/ job[r].op = "switch"
      /\ job[r].op \in Installers => Installation(db, p, todo, seen[r].holder)
      /\ job[r].op = "deleteModule" => Deletion(db, p, todo)
  BY <1>1, WholeItem
<1>3. db' = Over(db, p)
  BY VersionFacts DEF CommitWrites, Over
<1>4. pend'[r] = NoVersions /\ \A s \in Request \ {r} : pend'[s] = pend[s]
  BY VersionFacts DEF CommitWrites, PrivilegesInv
<1>5. Sound(db) /\ Unique(Over(db, p))
  BY DEF WholeInv
<1>6. job[r].op = "switch" => db' = db
  <2> SUFFICES ASSUME job[r].op = "switch" PROVE db' = db
    OBVIOUS
  <2>1. p = NoVersions
    BY VersionFacts
  <2>2. db \in [Rows -> AnyRow]
    BY DEF PrivilegesInv
  <2>3. Over(db, p) = [k \in Rows |-> db[k]]
    BY <2>1 DEF Over, NoVersions
  <2> QED
    BY <1>3, <2>2, <2>3
<1> HIDE DEF p, todo
<1>7. Sound(db')
  <2>1. CASE job[r].op \in Installers
    BY <1>2, <1>3, <1>5, <2>1, InstallationCommits
  <2>2. CASE job[r].op = "deleteModule"
    BY <1>2, <1>3, <1>5, <2>2, DeletionCommits
  <2> QED
    BY <1>2, <1>5, <1>6, <2>1, <2>2
<1>8. ASSUME NEW s \in Request \ {r}
      PROVE  /\ Unique(Over(db', pend[s]))
             /\ Running(s) /\ job[s].op \in Installers =>
                  Installation(db', pend[s], seen[s].todo, seen[s].holder)
             /\ Running(s) /\ job[s].op = "deleteModule" => Deletion(db', pend[s], seen[s].todo)
  <2>1. /\ Separate(pend[s], p) /\ Unique(Over(db, pend[s]))
        /\ Running(s) => Wholly(db, s)
        /\ Running(s) => ~(job[s].op \in Installers /\ job[r].op = "deleteModule")
        /\ Running(s) => ~(job[r].op \in Installers /\ job[s].op = "deleteModule")
    BY <1>1 DEF WholeInv, p
  <2>2. Unique(Over(Over(db, p), pend[s]))
    BY <1>5, <2>1, UniqueBeside
  <2>3. ASSUME Running(s), job[s].op \in Installers
        PROVE  Installation(db', pend[s], seen[s].todo, seen[s].holder)
    <3>1. Installation(db, pend[s], seen[s].todo, seen[s].holder)
      BY <2>1, <2>3 DEF Wholly
    <3>2. CASE job[r].op \in Installers
      BY <1>2, <1>3, <2>1, <3>1, <3>2, InstallationBeside
    <3> QED
      BY <1>2, <1>6, <2>1, <2>3, <3>1, <3>2
  <2>4. ASSUME Running(s), job[s].op = "deleteModule" PROVE Deletion(db', pend[s], seen[s].todo)
    <3>1. Deletion(db, pend[s], seen[s].todo)
      BY <2>1, <2>4 DEF Wholly
    <3>2. CASE job[r].op = "deleteModule"
      BY <1>2, <1>3, <2>1, <3>1, <3>2, DeletionBeside
    <3> QED
      BY <1>2, <1>6, <2>1, <2>4, <3>1, <3>2
  <2> QED
    BY <1>3, <2>2, <2>3, <2>4
<1> QED
  BY <1>3, <1>4, <1>7, <1>8 DEF p

(* The last step of an agenda is the only one of a deletion that commits.  *)
LEMMA DeletionCommitsLast ==
    ASSUME NEW rows, NEW p, NEW todo, Deletion(rows, p, todo), todo # <<>>, todo[1].do = "commit"
    PROVE  Tail(todo) = <<>>
<1>1. todo \in Seq(Deleting) /\ \A n \in 1..Len(todo) : todo[n].do = "commit" => n = Len(todo)
  BY DEF Deletion
<1>2. /\ Len(todo) \in Nat /\ Len(todo) >= 1 /\ Tail(todo) \in Seq(Deleting)
      /\ Len(Tail(todo)) = Len(todo) - 1
  BY <1>1, SetOfTail
<1>3. Len(todo) = 1
  <2>1. 1 \in 1..Len(todo)
    BY <1>2
  <2> QED
    BY <1>1, <2>1
<1>4. Len(Tail(todo)) = 0
  BY <1>2, <1>3
<1> DEFINE t == Tail(todo)
<1> HIDE DEF t
<1>5. t \in Seq(Deleting) /\ Len(t) = 0 => t = <<>>
  OBVIOUS
<1> QED
  BY <1>2, <1>4, <1>5 DEF t

LEMMA WholeCommits ==
    ASSUME PrivilegesInv, WholeInv, tidy, NEW r \in Request, Commit(r)
    PROVE  WholeInv'
<1> DEFINE todo == seen[r].todo
<1>1. pc[r] = "commit" /\ CommitWrites(r)
  BY DEF Commit, Finish
<1>2. Running(r) /\ Item(r).do = "commit" /\ seen[r] \in Work /\ seen \in [Request -> Seen]
  BY <1>1, AtStep, OnItem DEF PrivilegesInv
<1>3. /\ db' = Over(db, pend[r]) /\ Sound(db')
      /\ pend'[r] = NoVersions /\ \A s \in Request \ {r} : pend'[s] = pend[s]
      /\ \A s \in Request \ {r} :
           /\ Unique(Over(db', pend[s]))
           /\ Running(s) /\ job[s].op \in Installers =>
                Installation(db', pend[s], seen[s].todo, seen[s].holder)
           /\ Running(s) /\ job[s].op = "deleteModule" => Deletion(db', pend[s], seen[s].todo)
  BY <1>1, WholeCommitted
<1>4. \A s \in Request \ {r} : pc'[s] = pc[s] /\ seen'[s] = seen[s] /\ job'[s] = job[s]
  <2>1. CASE Tail(todo) = <<>>
    BY <2>1 DEF Commit, Finish, End, Goto, PrivilegesInv
  <2>2. CASE Tail(todo) # <<>>
    BY <2>2 DEF Commit, Proceed, Insertion, Keep, Goto, PrivilegesInv
  <2> QED
    BY <2>1, <2>2
<1>5. ASSUME NEW s \in Request \ {r}
      PROVE  /\ pend'[s] = pend[s] /\ pc'[s] = pc[s] /\ job'[s] = job[s]
             /\ Unique(Over(db', pend[s])) /\ (Running(s) => Wholly(db, s)')
  <2>1. Running(s) => job[s].op \in Whole
    BY DEF WholeInv, Wholly
  <2>2. Running(s) => Wholly(db, s)'
    BY <1>3, <1>4, <2>1 DEF Wholly
  <2> QED
    BY <1>3, <1>4, <2>2
<1>6. CASE Tail(todo) = <<>>
  <2>1. pc' = [pc EXCEPT ![r] = "done"]
    BY <1>6 DEF Commit, Finish, End, Goto
  <2>2. ~Running(r)'
    BY <2>1 DEF Running, PrivilegesInv
  <2> QED
    BY <1>3, <1>5, <2>2, WholeAnew
<1>7. CASE Tail(todo) # <<>>
  <2>1. Insertion(r, <<>>, seen[r].holder)
    BY <1>7 DEF Commit, Proceed
  <2>2. <<>> \in Todo(job[r].op) /\ <<>> \o Tail(todo) = Tail(todo)
    BY <1>2, NoMoreSteps
  <2>3. seen' = [seen EXCEPT ![r] = [seen[r] EXCEPT !.todo = <<>> \o Tail(seen[r].todo),
                                                    !.holder = seen[r].holder]]
    BY <2>1 DEF Insertion, Keep
  <2>4. seen'[r].todo = Tail(todo) /\ seen'[r].holder = seen[r].holder
    BY <1>2, <2>2, <2>3 DEF Work
  <2>5. job' = job
    BY <2>1 DEF Insertion
  <2>6. /\ todo # <<>> /\ todo[1].do = "commit" /\ Wholly(db, r)
        /\ job[r].op \in Installers => Installation(db, pend[r], todo, seen[r].holder)
        /\ job[r].op = "deleteModule" => Deletion(db, pend[r], todo)
    BY <1>2, WholeItem
  <2> HIDE DEF todo
  <2>7. job[r].op \in Installers => Installation(db', NoVersions, Tail(todo), seen[r].holder)
    BY <1>3, <2>6, InstallationAfterCommit
  <2>8. job[r].op # "deleteModule"
    BY <1>7, <2>6, DeletionCommitsLast
  <2>9. Wholly(db, r)'
    BY <1>3, <2>4, <2>5, <2>6, <2>7, <2>8 DEF Wholly
  <2>10. \A s \in Request \ {r} : Running(s) =>
           /\ ~(job'[r].op \in Installers /\ job[s].op = "deleteModule")
           /\ ~(job[s].op \in Installers /\ job'[r].op = "deleteModule")
    BY <1>2, <2>5 DEF WholeInv
  <2> QED
    BY <1>3, <1>5, <2>9, <2>10, WholeAnew
<1> QED
  BY <1>6, <1>7
LEMMA WholeArrives ==
    ASSUME PrivilegesInv, WholeInv, NEW r \in Request, Arrive(r)
    PROVE  WholeInv'
<1> DEFINE others == {s \in Request \ {r} : Running(s)}
<1>1. PICK j \in Asked[r] :
        /\ job' = [job EXCEPT ![r] = j]
        /\ Keep(r, [todo |-> Agenda(j), holder |-> IF j.op = "grant" THEN j.holder ELSE None, codes |-> {}])
        /\ Goto(r, Head(Agenda(j)).do)
        /\ tidy' = (/\ tidy /\ j.op \in Whole
                    /\ ~(/\ "deleteModule" \in {job[s].op : s \in others} \cup {j.op}
                         /\ ({job[s].op : s \in others} \cup {j.op}) \cap Installers # {}))
  BY DEF Arrive
<1> SUFFICES ASSUME tidy, j.op \in Whole,
                    ~(/\ "deleteModule" \in {job[s].op : s \in others} \cup {j.op}
                      /\ ({job[s].op : s \in others} \cup {j.op}) \cap Installers # {})
             PROVE  WholeInv'
  BY <1>1 DEF WholeInv
<1>2. pc[r] = "new" /\ db' = db /\ pend' = pend
  BY DEF Arrive
<1>3. /\ pend'[r] = NoVersions /\ Sound(db')
  <2>1. ~Running(r)
    BY <1>2 DEF Running
  <2> QED
    BY <1>2, <2>1, VersionFacts DEF WholeInv
<1> DEFINE todo == Agenda(j)
           holder == IF j.op = "grant" THEN j.holder ELSE None
<1>4. /\ seen' = [seen EXCEPT ![r] = [todo |-> todo, holder |-> holder, codes |-> {}]]
      /\ pc' = [pc EXCEPT ![r] = Head(Agenda(j)).do]
      /\ pc \in [Request -> Label] /\ seen \in [Request -> Seen] /\ job \in [Request -> Job \cup {NoJob}]
  BY <1>1 DEF Keep, Goto, PrivilegesInv
<1>5. job'[r] = j /\ seen'[r].todo = todo /\ seen'[r].holder = holder
  BY <1>1, <1>4
<1>6. ASSUME NEW s \in Request \ {r}
      PROVE  /\ pend'[s] = pend[s] /\ pc'[s] = pc[s] /\ job'[s] = job[s]
             /\ Unique(Over(db', pend[s])) /\ (Running(s) => Wholly(db, s)')
  <2>1. pend'[s] = pend[s] /\ pc'[s] = pc[s] /\ job'[s] = job[s] /\ seen'[s] = seen[s]
    BY <1>1, <1>2, <1>4
  <2>2. Unique(Over(db, pend[s])) /\ (Running(s) => Wholly(db, s))
    BY DEF WholeInv
  <2>3. Wholly(db, s)' <=> Wholly(db, s)
    BY <1>2, <2>1 DEF Wholly
  <2> QED
    BY <1>2, <2>1, <2>2, <2>3
<1>7. \A s \in Request \ {r} : Running(s) =>
        /\ ~(job'[r].op \in Installers /\ job[s].op = "deleteModule")
        /\ ~(job[s].op \in Installers /\ job'[r].op = "deleteModule")
  <2> TAKE s \in Request \ {r}
  <2>1. Running(s) => job[s].op \in {job[t].op : t \in others}
    OBVIOUS
  <2> QED
    BY <1>5, <2>1
<1>8. j.op \in {"createModule", "updateModule", "deleteModule"} => j.module \in Module
  <2>1. j \in Job
    BY PrivilegesAssumption
  <2> QED
    BY <2>1 DEF Job, CreateRole, CreatePrivilege, CreatePlatform, Rename, DropJob, GrantJob, UngrantJob,
           SetLinkJob, ModuleJob, SwitchJob, SeedJob
<1>9. /\ j.op = "seed" => todo = Seed
      /\ j.op = "createModule" => todo = ModuleCreation(j.module) \o Commits
      /\ j.op = "updateModule" => todo = Updating(j.module)
      /\ j.op = "deleteModule" => todo = ModuleDeletion(j.module) \o Commits
  BY DEF Agenda, Updating
<1> HIDE DEF todo, holder
<1>10. j.op \in Installers => Installation(db, NoVersions, todo, holder)
  <2>1. CASE j.op = "seed"
    BY <1>9, <2>1, SeedBegins
  <2>2. CASE j.op = "createModule"
    BY <1>8, <1>9, <2>2, CreationBegins
  <2>3. CASE j.op = "updateModule"
    BY <1>8, <1>9, <2>3, UpdateBegins
  <2> QED
    BY <2>1, <2>2, <2>3 DEF Installers
<1>11. j.op = "deleteModule" => Deletion(db, NoVersions, todo)
  BY <1>8, <1>9, DeletionBegins
<1>12. Wholly(db, r)'
  BY <1>2, <1>3, <1>5, <1>10, <1>11 DEF Wholly
<1> QED
  BY <1>3, <1>6, <1>7, <1>12, WholeAnew

LEMMA InitIsWhole == Init => WholeInv
<1> SUFFICES ASSUME Init, tidy PROVE WholeInv
  BY DEF WholeInv
<1>1. PICK start \in Starts : db = [k \in Rows |-> InitialRow(start, k)]
  BY DEF Init
<1>2. ASSUME NEW e \in PrivilegeRows, Live(db[e])
      PROVE  e \in DOMAIN start.entries /\ db[e] = start.entries[e]
  <2>1. e \in Entry /\ e \in Rows
    BY RowFacts DEF PrivilegeRows
  <2>2. db[e] = InitialRow(start, e)
    BY <1>1, <2>1
  <2> QED
    BY <1>2, <2>1, <2>2 DEF InitialRow, Live
<1>3. Unique(db)
  <2> SUFFICES ASSUME NEW e \in PrivilegeRows, NEW o \in PrivilegeRows,
                      Live(db[e]), Live(db[o]), db[e].name = db[o].name
               PROVE  e = o
    BY DEF Unique
  <2>1. KindOf[e] = KindOf[o]
    BY DEF PrivilegeRows
  <2> QED
    BY <1>2, <2>1, CatalogueAssumption
<1>4. Sound(db)
  BY <1>3 DEF Init, Sound
<1>5. \A r \in Request : pend[r] = NoVersions /\ ~Running(r)
  <2>1. PrivilegesInv
    BY InitHolds
  <2>2. \A r \in Request : ~Running(r)
    BY DEF Init, HandlersInit, Running
  <2> QED
    BY <2>1, <2>2, VersionFacts
<1>6. \A r \in Request : Unique(Over(db, pend[r]))
  BY <1>3, <1>5, NothingHeld
<1>7. \A r, s \in Request : Separate(pend[r], pend[s])
  BY <1>5, NothingHeld
<1> QED
  BY <1>4, <1>5, <1>6, <1>7 DEF WholeInv
-----------------------------------------------------------------------------
(* Steps that read.                                                        *)

LEMMA WholeFindsOwner ==
    ASSUME PrivilegesInv, WholeInv, tidy, NEW r \in Request, FindOwner(r)
    PROVE  WholeInv'
<1> DEFINE todo == seen[r].todo
<1>1. pc[r] = "owner" /\ Running(r) /\ Item(r).do = "owner"
  BY AtStep DEF FindOwner
<1>2. /\ todo # <<>> /\ todo[1].do = "owner" /\ job[r].op \notin {"deleteModule", "switch"}
      /\ job[r].op \in Installers => Installation(db, pend[r], todo, seen[r].holder)
  BY <1>1, WholeItem
<1>3. CASE Abandon(r)
  BY <1>1, <1>3, WholeAbandons
<1>4. CASE ~Abandon(r)
  <2>1. PICK e \in Named(r, "role", Owner) : Insertion(r, <<>>, e) /\ Unwritten
    BY <1>4 DEF FindOwner
  <2>2. IsOwner(Over(db, pend[r]), e) /\ e \in Entry
    BY FoundByName, VersionFacts, RowFacts DEF IsOwner, Roles
  <2>3. ~Ensures(todo[1]) /\ todo[1].do # "link" /\ todo[1].do # "list"
    BY <1>2 DEF Ensures
  <2> HIDE DEF todo
  <2>4. job[r].op \in Installers => Installation(db, pend[r], Tail(todo), e)
    BY <1>2, <2>2, <2>3, InstallationReads
  <2>5. <<>> \in Todo(job[r].op) /\ <<>> \o Tail(todo) = Tail(todo)
    BY <1>1, NoMoreSteps DEF todo
  <2> QED
    BY <1>1, <1>2, <2>1, <2>2, <2>4, <2>5, WholeReads DEF todo
<1> QED
  BY <1>3, <1>4

LEMMA WholeEnsures ==
    ASSUME PrivilegesInv, WholeInv, tidy, NEW r \in Request, EnsureEntry(r)
    PROVE  WholeInv'
<1> DEFINE todo == seen[r].todo
           view == Over(db, pend[r])
<1>1. pc[r] = "ensure" /\ Running(r) /\ Item(r).do = "ensure"
  BY AtStep DEF EnsureEntry
<1>2. /\ todo # <<>> /\ todo[1].do = "ensure" /\ Item(r) = todo[1]
      /\ job[r].op \notin {"deleteModule", "switch"}
      /\ job[r].op \in Installers => Installation(db, pend[r], todo, seen[r].holder)
  BY <1>1, WholeItem
<1>3. CASE Continue(r, "insert") /\ Calm
  BY <1>1, <1>3, WholeContinues
<1>4. CASE ~(Continue(r, "insert") /\ Calm)
  <2>1. PICK e \in Named(r, todo[1].kind, todo[1].name) : Insertion(r, <<>>, HolderAfter(r, e)) /\ Unwritten
    BY <1>2, <1>4 DEF EnsureEntry
  <2>2. /\ e \in Entry /\ KindOf[e] = todo[1].kind /\ view[e].name = todo[1].name /\ Live(view[e])
        /\ Has(view, todo[1].kind, todo[1].name, {})
    BY FoundByName, VersionFacts
  <2> DEFINE next == HolderAfter(r, e)
  <2>3. Ensures(todo[1]) => next = seen[r].holder /\ Has(view, "privilege", todo[1].name, {})
    BY <2>2 DEF Ensures, HolderAfter, Holders
  <2>4. Begins(todo[1]) => IsOwner(view, next)
    BY <1>2, <2>2 DEF Begins, HolderAfter, Holders, IsOwner, Roles
  <2>5. next \in Entry \cup {None}
    BY <1>1, HolderTyped
  <2>6. todo[1].do # "link" /\ todo[1].do # "list"
    BY <1>2
  <2> HIDE DEF todo, view, next
  <2>7. job[r].op \in Installers => Installation(db, pend[r], Tail(todo), next)
    BY <1>2, <2>3, <2>4, <2>6, InstallationReads DEF view
  <2>8. <<>> \in Todo(job[r].op) /\ <<>> \o Tail(todo) = Tail(todo)
    BY <1>1, NoMoreSteps DEF todo
  <2> QED
    BY <1>1, <1>2, <2>1, <2>5, <2>7, <2>8, WholeReads DEF todo, next
<1> QED
  BY <1>3, <1>4

LEMMA WholeLooksForLink ==
    ASSUME PrivilegesInv, WholeInv, tidy, NEW r \in Request, LookForLink(r)
    PROVE  WholeInv'
<1> DEFINE todo == seen[r].todo
           holder == seen[r].holder
<1>1. pc[r] = "link" /\ Running(r) /\ Item(r).do = "link"
  BY AtStep DEF LookForLink
<1>2. /\ todo # <<>> /\ todo[1].do = "link" /\ Item(r) = todo[1]
      /\ job[r].op \notin {"deleteModule", "switch"}
      /\ job[r].op \in Installers => Installation(db, pend[r], todo, holder)
  BY <1>1, WholeItem
<1>3. CASE Continue(r, "attach") /\ Calm
  BY <1>1, <1>3, WholeContinues
<1>4. CASE Abandon(r)
  BY <1>1, <1>4, WholeAbandons
<1>5. CASE ~(Continue(r, "attach") /\ Calm) /\ ~Abandon(r)
  <2>1. Live(View(r, <<holder, todo[1].name>>)) /\ Proceed(r) /\ Unwritten
    BY <1>2, <1>5 DEF LookForLink, HeldLink
  <2>2. <<holder, todo[1].name>> \in Rows => Live(Over(db, pend[r])[<<holder, todo[1].name>>])
    BY <2>1, VersionFacts
  <2>3. ~Ensures(todo[1]) /\ ~Begins(todo[1]) /\ todo[1].do # "list"
    BY <1>2 DEF Ensures, Begins
  <2>4. Insertion(r, <<>>, holder) /\ holder \in Entry \cup {None}
    BY <1>1, <2>1, HolderTyped DEF Proceed
  <2> HIDE DEF todo, holder
  <2>5. job[r].op \in Installers => Installation(db, pend[r], Tail(todo), holder)
    BY <1>2, <2>2, <2>3, InstallationReads
  <2>6. <<>> \in Todo(job[r].op) /\ <<>> \o Tail(todo) = Tail(todo)
    BY <1>1, NoMoreSteps DEF todo
  <2> QED
    BY <1>1, <1>2, <2>1, <2>4, <2>5, <2>6, WholeReads DEF todo
<1> QED
  BY <1>3, <1>4, <1>5

(* An update of a module leaves the name and the module of its privileges  *)
(* as they are, so that there is nothing to write.                         *)
LEMMA WholeReloads ==
    ASSUME PrivilegesInv, WholeInv, tidy, NEW r \in Request, ReloadEntry(r)
    PROVE  WholeInv'
<1> DEFINE todo == seen[r].todo
           holder == seen[r].holder
<1>1. pc[r] = "reload" /\ Running(r) /\ Item(r).do = "reload"
  BY AtStep DEF ReloadEntry
<1>2. /\ todo # <<>> /\ todo[1].do = "reload" /\ Item(r) = todo[1]
      /\ job[r].op \notin {"deleteModule", "switch"}
      /\ job[r].op \in Installers => /\ Installation(db, pend[r], todo, holder)
                                     /\ Item(r) \in Installing
      /\ job[r].op \in Installers
  BY <1>1, WholeItem
<1>3. CASE Abandon(r)
  BY <1>1, <1>3, WholeAbandons
<1>4. CASE ~Abandon(r)
  <2>1. Item(r).name = Same /\ Item(r).group = Same
    BY <1>1, <1>2 DEF Installing
  <2>2. Insertion(r, <<>>, holder) /\ Unwritten
    BY <1>4, <2>1 DEF ReloadEntry
  <2>3. ~Ensures(todo[1]) /\ ~Begins(todo[1]) /\ todo[1].do # "list" /\ todo[1].do # "link"
    BY <1>2 DEF Ensures, Begins
  <2>4. holder \in Entry \cup {None}
    BY <1>1, HolderTyped
  <2> HIDE DEF todo, holder
  <2>5. job[r].op \in Installers => Installation(db, pend[r], Tail(todo), holder)
    BY <1>2, <2>3, InstallationReads
  <2>6. <<>> \in Todo(job[r].op) /\ <<>> \o Tail(todo) = Tail(todo)
    BY <1>1, NoMoreSteps DEF todo
  <2> QED
    BY <1>1, <1>2, <2>2, <2>4, <2>5, <2>6, WholeReads DEF todo, holder
<1> QED
  BY <1>3, <1>4

(* Steps of a deletion that find nothing to write.                         *)
LEMMA WholeDeletionReads ==
    ASSUME PrivilegesInv, WholeInv, tidy, NEW r \in Request, Running(r),
           Item(r).do \in {"mapping", "revoke", "dropCode"},
           Item(r).do = "dropCode" => ~Has(Over(db, pend[r]), "privilege", Item(r).code, {})
    PROVE  /\ job[r].op = "deleteModule"
           /\ Deletion(db, pend[r], Tail(seen[r].todo))
<1> DEFINE todo == seen[r].todo
           p == pend[r]
<1>1. /\ todo # <<>> /\ todo[1] = Item(r) /\ Deletion(db, p, todo) /\ job[r].op = "deleteModule"
  BY WholeItem
<1>2. /\ todo[1].do \notin {"list", "grants"} /\ todo[1].do # "unlink"
      /\ todo[1].do = "dropCode" => ~Has(Over(db, p), "privilege", todo[1].code, {})
  BY <1>1
<1>3. \A k \in Rows :
        \/ p[k] = p[k]
        \/ /\ p[k] # None /\ ~Live(p[k]) /\ (k \in Entry => p[k].name = Over(db, p)[k].name)
           /\ \/ todo[1].do = "dropCode" /\ k \in PrivilegeRows /\ p[k].name = todo[1].code
              \/ todo[1].do = "unlink" /\ k = todo[1].link
  OBVIOUS
<1> HIDE DEF todo, p
<1>4. Deletion(db, p, Tail(todo))
  BY <1>1, <1>2, <1>3, DeletionGoesOn
<1> QED
  BY <1>1, <1>4 DEF todo, p

LEMMA WholeFindsMapping ==
    ASSUME PrivilegesInv, WholeInv, tidy, NEW r \in Request, FindMapping(r)
    PROVE  WholeInv'
<1>1. pc[r] = "mapping" /\ Running(r) /\ Item(r).do = "mapping"
  BY AtStep DEF FindMapping
<1>2. CASE Abandon(r)
  BY <1>1, <1>2, WholeAbandons
<1>3. CASE ~Abandon(r)
  <2>1. Insertion(r, <<>>, seen[r].holder) /\ Unwritten /\ seen[r].holder \in Entry \cup {None}
    BY <1>1, <1>3, HolderTyped DEF FindMapping, Proceed
  <2>2. job[r].op = "deleteModule" /\ Deletion(db, pend[r], Tail(seen[r].todo))
    BY <1>1, WholeDeletionReads
  <2>3. <<>> \in Todo(job[r].op) /\ <<>> \o Tail(seen[r].todo) = Tail(seen[r].todo)
    BY <1>1, NoMoreSteps
  <2> QED
    BY <1>1, <2>1, <2>2, <2>3, WholeReads DEF Installers
<1> QED
  BY <1>2, <1>3

(* The token store says nothing of modules.                                *)
LEMMA WholeStoresTokens ==
    ASSUME PrivilegesInv, WholeInv, tidy, NEW r \in Request, RevokeSessions(r) \/ IssueToken(r)
    PROVE  WholeInv'
<1> DEFINE todo == seen[r].todo
<1>1. /\ Running(r) /\ \/ Item(r).do = "revoke"
                       \/ Item(r).do = "codes"
  BY AtStep DEF RevokeSessions, IssueToken
<1>2. /\ db' = db /\ pend' = pend /\ job' = job
      /\ Keep(r, [seen[r] EXCEPT !.todo = Tail(todo)]) /\ Goto(r, Head(Tail(todo)).do)
  BY DEF RevokeSessions, IssueToken
<1>3. /\ Running(r)' /\ \A s \in Request \ {r} : pc'[s] = pc[s] /\ seen'[s] = seen[s]
  BY <1>1, <1>2, NextItem
<1>4. /\ Unique(Over(db, pend[r])) /\ \A s \in Request \ {r} : Separate(pend[r], pend[s])
      /\ seen[r] \in Work /\ seen \in [Request -> Seen]
  BY <1>1, OnItem DEF WholeInv, PrivilegesInv
<1>5. seen'[r].todo = Tail(todo)
  BY <1>2, <1>4 DEF Keep, Work
<1>6. job[r].op \notin Installers
  BY <1>1, WholeItem
<1>7. job[r].op = "deleteModule" => Deletion(db, pend[r], Tail(todo))
  <2>1. job[r].op = "deleteModule" => Item(r).do = "revoke"
    BY <1>1, WholeItem
  <2> QED
    BY <1>1, <2>1, WholeDeletionReads
<1> QED
  BY <1>1, <1>2, <1>3, <1>4, <1>5, <1>6, <1>7, WholeStep

LEMMA WholeReadsCodes ==
    ASSUME PrivilegesInv, WholeInv, tidy, NEW r \in Request, ReadCodes(r)
    PROVE  WholeInv'
<1>1. pc[r] = "codes" /\ Running(r) /\ Item(r).do = "codes"
  BY AtStep DEF ReadCodes
<1>2. job[r].op = "switch"
  BY <1>1, WholeItem
<1>3. /\ db' = db /\ pend' = pend /\ job' = job /\ pc' = [pc EXCEPT ![r] = "issue"]
      /\ \A s \in Request \ {r} : seen'[s] = seen[s]
      /\ pc \in [Request -> Label]
  BY DEF ReadCodes, Read, Keep, Goto, PrivilegesInv
<1>4. Running(r)' /\ \A s \in Request \ {r} : pc'[s] = pc[s]
  BY <1>3 DEF Running
<1>5. Unique(Over(db, pend[r])) /\ \A s \in Request \ {r} : Separate(pend[r], pend[s])
  BY DEF WholeInv
<1> QED
  BY <1>1, <1>2, <1>3, <1>4, <1>5, WholeStep DEF Installers
-----------------------------------------------------------------------------
(* Steps that put new steps in front.                                      *)

LEMMA OrderHasAll ==
    ASSUME NEW S, S \subseteq Entry, NEW s \in SetToSeqs(S)
    PROVE  /\ Cardinality(S) \in Nat /\ s \in [1..Cardinality(S) -> S]
           /\ \A e \in S : \E i \in 1..Cardinality(S) : e = s[i]
<1> DEFINE n == Cardinality(S)
<1>1. IsFiniteSet(S) /\ n \in Nat
  BY PrivilegesAssumption, FS_Subset, FS_CardinalityType
<1>2. s \in [1..n -> S] /\ \A i, j \in 1..n : i # j => s[i] # s[j]
  BY DEF SetToSeqs
<1>3. ASSUME NEW e \in S, \A i \in 1..n : e # s[i] PROVE FALSE
  <2>1. IsFiniteSet(S \ {e}) /\ Cardinality(S \ {e}) = n - 1
    BY <1>1, FS_RemoveElement
  <2>2. IsFiniteSet(1..n) /\ Cardinality(1..n) = n
    <3>1. 1 \in Int /\ n \in Int /\ (1 > n => n = 0)
      BY <1>1
    <3> HIDE DEF n
    <3>2. IsFiniteSet(1..n) /\ Cardinality(1..n) = IF 1 > n THEN 0 ELSE n - 1 + 1
      BY <3>1, FS_Interval
    <3> QED
      BY <1>1, <3>1, <3>2
  <2>3. s \in [1..n -> S \ {e}]
    BY <1>2, <1>3
  <2> DEFINE places == 1..n
             rest == S \ {e}
  <2>4. Cardinality(rest) < Cardinality(places)
    <3> HIDE DEF n
    <3> QED
      BY <1>1, <2>1, <2>2
  <2>5. IsFiniteSet(places) /\ IsFiniteSet(rest) /\ s \in [places -> rest]
    BY <2>1, <2>2, <2>3
  <2> HIDE DEF places, rest
  <2>6. \E i, j \in places : i # j /\ s[i] = s[j]
    BY <2>4, <2>5, FS_PigeonHole
  <2> USE DEF places
  <2> QED
    BY <1>2, <2>6
<1> QED
  BY <1>1, <1>2, <1>3

LEMMA WholeListsModule ==
    ASSUME PrivilegesInv, WholeInv, tidy, NEW r \in Request, ListModule(r)
    PROVE  WholeInv'
<1> DEFINE todo == seen[r].todo
           holder == seen[r].holder
           p == pend[r]
           rows == OfModule(r, Item(r).module)
<1>1. pc[r] = "list" /\ Running(r) /\ Item(r).do = "list"
  BY AtStep DEF ListModule
<1>2. /\ todo # <<>> /\ todo[1].do = "list" /\ Item(r) = todo[1] /\ job[r].op # "switch"
      /\ job[r].op \in Installers \/ job[r].op = "deleteModule"
      /\ job[r].op \in Installers => Installation(db, p, todo, holder)
      /\ job[r].op = "deleteModule" => Deletion(db, p, todo)
  BY <1>1, WholeItem
<1>3. CASE Abandon(r)
  BY <1>1, <1>3, WholeAbandons
<1>4. CASE ~Abandon(r)
  <2>1. PICK s \in SetToSeqs(rows) :
          /\ Insertion(r, FlattenSeq([i \in DOMAIN s |-> StepsFor(r, s[i], Item(r).then)]), seen[r].holder)
          /\ Unwritten
    BY <1>4 DEF ListModule
  <2> DEFINE n == Cardinality(rows)
             seqs == [i \in DOMAIN s |-> StepsFor(r, s[i], Item(r).then)]
  <2>2. \A e \in rows : /\ e \in PrivilegeRows /\ e \in Entry
                        /\ Live(Over(db, p)[e]) /\ Over(db, p)[e].group = todo[1].module
                        /\ View(r, e) = Over(db, p)[e]
    BY <1>2, VersionFacts DEF OfModule, PrivilegeRows
  <2>3. \A e \in PrivilegeRows : Live(Over(db, p)[e]) /\ Over(db, p)[e].group = todo[1].module => e \in rows
    BY <1>2, VersionFacts DEF OfModule, PrivilegeRows
  <2>4. rows \subseteq Entry
    BY <2>2
  <2>5. Insertion(r, FlattenSeq(seqs), holder) /\ Unwritten
    BY <2>1
  <2>6. Sound(db) /\ \A e \in Entry : db[e] \in EntryRow
    BY VersionFacts DEF WholeInv
  <2>7. /\ n \in Nat /\ s \in [1..n -> rows] /\ DOMAIN s = 1..n
        /\ \A e \in rows : \E i \in 1..n : e = s[i]
    <3> HIDE DEF rows
    <3> QED
      BY <2>4, OrderHasAll
  <2>8. job[r].op # "switch" /\ (Item(r).then = "update" \/ job[r].op \in Removers)
    BY <1>1, ItemShape
  <2>9. /\ \A i \in 1..n : StepsFor(r, s[i], Item(r).then) \in Todo(job[r].op)
        /\ s \in [1..n -> Entry]
        /\ \A i \in 1..n : /\ s[i] \in PrivilegeRows /\ Live(Over(db, p)[s[i]])
                           /\ Over(db, p)[s[i]].group = todo[1].module
                           /\ View(r, s[i]).name = Over(db, p)[s[i]].name
    <3> HIDE DEF rows, n, todo, p
    <3>1. \A i \in 1..n : s[i] \in rows /\ s[i] \in Entry
      BY <2>4, <2>7
    <3> QED
      BY <2>2, <2>4, <2>7, <2>8, <3>1, StepsForTodo
  <2>10. seqs = [i \in 1..n |-> StepsFor(r, s[i], Item(r).then)]
    BY <2>7
  <2> HIDE DEF n, rows
  <2>11. seqs \in [1..n -> Todo(job[r].op)]
    BY <2>9, <2>10
  <2> HIDE DEF seqs
  <2>12. FlattenSeq(seqs) \in Todo(job[r].op)
    BY <2>7, <2>11, TodoFlattened
  <2>13. ASSUME job[r].op \in Installers PROVE Installation(db, p, FlattenSeq(seqs) \o Tail(todo), holder)
    <3>1. Item(r) \in Installing
      BY <1>1, <2>13, WholeItem
    <3>2. todo[1].then = "update"
      BY <1>2, <3>1 DEF Installing
    <3>3. seqs = [i \in 1..n |-> <<[do |-> "reload", row |-> s[i], name |-> Same, group |-> Same],
                                   Grant(Over(db, p)[s[i]].name)>>]
      BY <1>2, <2>9, <2>10, <3>2 DEF StepsFor
    <3> HIDE DEF todo, p, holder
    <3> QED
      BY <1>2, <2>6, <2>7, <2>9, <2>13, <3>3, InstallationLists
  <2>14. ASSUME job[r].op = "deleteModule" PROVE Deletion(db, p, FlattenSeq(seqs) \o Tail(todo))
    <3>1. \A e \in PrivilegeRows : Live(Over(db, p)[e]) /\ Over(db, p)[e].group = todo[1].module =>
            \E i \in 1..n : e = s[i]
      BY <2>3, <2>7
    <3>2. Item(r) \in Deleting
      BY <1>1, <2>14, WholeItem
    <3>3. todo[1].then = "delete"
      BY <1>2, <3>2 DEF Deleting
    <3>4. seqs = [i \in 1..n |-> <<[do |-> "grants", code |-> Over(db, p)[s[i]].name],
                                   [do |-> "dropCode", code |-> Over(db, p)[s[i]].name]>>]
      BY <1>2, <2>9, <2>10, <3>3 DEF StepsFor
    <3> HIDE DEF todo, p, holder
    <3> QED
      BY <1>2, <2>6, <2>7, <2>9, <2>14, <3>1, <3>4, DeletionLists
  <2> QED
    BY <1>1, <2>5, <2>12, <2>13, <2>14, HolderTyped, WholeReads DEF todo, p, holder
<1> QED
  BY <1>3, <1>4

LEMMA WholeListsGrants ==
    ASSUME PrivilegesInv, WholeInv, tidy, NEW r \in Request, ListGrants(r)
    PROVE  WholeInv'
<1> DEFINE todo == seen[r].todo
           p == pend[r]
           code == Item(r).code
           holders == GrantsOf(r, code)
<1>1. pc[r] = "grants" /\ Running(r) /\ Item(r).do = "grants"
  BY AtStep DEF ListGrants
<1>2. /\ todo # <<>> /\ todo[1].do = "grants" /\ Item(r) = todo[1]
      /\ job[r].op = "deleteModule" /\ Deletion(db, p, todo)
  BY <1>1, WholeItem
<1>3. PICK s \in SetToSeqs(holders) : Insertion(r, UngrantEach(r, s, code), seen[r].holder)
  BY DEF ListGrants
<1>4. Unwritten
  BY DEF ListGrants
<1> DEFINE n == Cardinality(holders)
           seqs == [i \in DOMAIN s |-> Ungrant(<<s[i], code>>)]
<1>5. holders \subseteq Entry /\ \A h \in holders : h \in Roles /\ <<h, code>> \in RoleLink
  BY DEF GrantsOf, Roles, RoleLink
<1>6. \A h \in Roles : <<h, code>> \in Link /\ Live(Over(db, p)[<<h, code>>]) => h \in holders
  BY VersionFacts, RowFacts DEF GrantsOf
<1>7. UngrantEach(r, s, code) = FlattenSeq(seqs)
  BY DEF UngrantEach
<1>8. /\ n \in Nat /\ s \in [1..n -> holders] /\ DOMAIN s = 1..n
      /\ \A h \in holders : \E i \in 1..n : h = s[i]
  <2> HIDE DEF holders
  <2> QED
    BY <1>5, OrderHasAll
<1>9. seqs = [i \in 1..n |-> Ungrant(<<s[i], code>>)]
  BY <1>8
<1> HIDE DEF n, holders, seqs, p, todo
<1>10. s \in [1..n -> Roles] /\ \A i \in 1..n : <<s[i], code>> \in RoleLink
  <2>1. \A i \in 1..n : s[i] \in holders
    BY <1>8
  <2> QED
    BY <1>5, <1>8, <2>1
<1>11. job[r].op \in Removers
  BY <1>2 DEF Removers
<1>12. seqs \in [1..n -> Todo(job[r].op)]
  <2>1. \A i \in 1..n : Ungrant(<<s[i], code>>) \in Todo(job[r].op)
    BY <1>10, <1>11, UngrantIsTodo
  <2> HIDE DEF code
  <2> QED
    BY <1>9, <2>1
<1>13. FlattenSeq(seqs) \in Todo(job[r].op)
  BY <1>8, <1>12, TodoFlattened
<1>14. Deletion(db, p, FlattenSeq(seqs) \o Tail(todo))
  <2>1. \A h \in Roles : <<h, todo[1].code>> \in Link /\ Live(Over(db, p)[<<h, todo[1].code>>]) =>
          \E i \in 1..n : h = s[i]
    BY <1>2, <1>6, <1>8
  <2>2. /\ \A i \in 1..n : <<s[i], todo[1].code>> \in RoleLink
        /\ seqs = [i \in 1..n |-> Ungrant(<<s[i], todo[1].code>>)]
    BY <1>2, <1>9, <1>10
  <2> QED
    BY <1>2, <1>8, <1>10, <2>1, <2>2, DeletionGrants
<1>15. job[r].op \notin Installers
  BY <1>2 DEF Installers
<1> QED
  BY <1>1, <1>3, <1>4, <1>7, <1>13, <1>14, <1>15, HolderTyped, WholeReads DEF todo, p
-----------------------------------------------------------------------------
(* Steps that write.                                                       *)

LEMMA OneMoreVersion ==
    ASSUME NEW rows, NEW S, NEW p \in [Rows -> S], Unique(Over(rows, p)),
           NEW k \in Rows, NEW x, x # None, NEW q, q = [p EXCEPT ![k] = x],
           k \in PrivilegeRows /\ Live(x) =>
             \A o \in PrivilegeRows : Live(Over(rows, p)[o]) /\ Over(rows, p)[o].name = x.name => o = k
    PROVE  Unique(Over(rows, q))
<1>1. \A o \in Rows : Over(rows, q)[o] = IF o = k THEN x ELSE Over(rows, p)[o]
  <2>1. \A o \in Rows : q[o] = IF o = k THEN x ELSE p[o]
    OBVIOUS
  <2> QED
    BY <2>1 DEF Over
<1>2. PrivilegeRows \subseteq Rows
  BY NothingWritten
<1> SUFFICES ASSUME NEW e \in PrivilegeRows, NEW o \in PrivilegeRows,
                    Live(Over(rows, q)[e]), Live(Over(rows, q)[o]),
                    Over(rows, q)[e].name = Over(rows, q)[o].name
             PROVE  e = o
  BY DEF Unique
<1>3. CASE e = k \/ o = k
  BY <1>1, <1>2, <1>3
<1>4. CASE e # k /\ o # k
  BY <1>1, <1>2, <1>4 DEF Unique
<1> QED
  BY <1>3, <1>4

LEMMA SeparateWritten ==
    ASSUME NEW S, NEW p \in [Rows -> S], NEW v, Separate(p, v),
           NEW k \in Rows, NEW x, NEW q, q = [p EXCEPT ![k] = x],
           k \in Entry => v[k] = None,
           k \in PrivilegeRows /\ Live(x) =>
             \A o \in PrivilegeRows : v[o] # None /\ Live(v[o]) => v[o].name # x.name
    PROVE  Separate(q, v)
<1>1. \A o \in Rows : q[o] = IF o = k THEN x ELSE p[o]
  OBVIOUS
<1>2. PrivilegeRows \subseteq Rows /\ Entry \subseteq Rows
  BY NothingWritten
<1>3. \A e \in Entry : q[e] = None \/ v[e] = None
  BY <1>1, <1>2 DEF Separate
<1>4. ASSUME NEW e \in PrivilegeRows, NEW o \in PrivilegeRows,
             q[e] # None, Live(q[e]), v[o] # None, Live(v[o])
      PROVE  q[e].name # v[o].name
  BY <1>1, <1>2, <1>4 DEF Separate
<1> QED
  BY <1>3, <1>4 DEF Separate

(* The next step, after a version x of a row that nobody else holds has    *)
(* been written.                                                           *)
LEMMA WholeWrites ==
    ASSUME PrivilegesInv, WholeInv, tidy, NEW r \in Request, Running(r), Item(r).do # "commit",
           NEW holder \in Entry \cup {None}, Insertion(r, <<>>, holder),
           NEW k \in Rows, NEW x \in AnyRow, db' = db, pend' = [pend EXCEPT ![r][k] = x],
           k \in Entry => \A s \in Request \ {r} : ~Holds(s, k),
           k \in PrivilegeRows /\ Live(x) =>
             /\ \A o \in PrivilegeRows :
                  Live(Over(db, pend[r])[o]) /\ Over(db, pend[r])[o].name = x.name => o = k
             /\ \A s \in Request \ {r}, o \in PrivilegeRows :
                  Holds(s, o) /\ Live(pend[s][o]) => pend[s][o].name # x.name,
           job[r].op \in Installers =>
             Installation(db, [pend[r] EXCEPT ![k] = x], Tail(seen[r].todo), holder),
           job[r].op = "deleteModule" => Deletion(db, [pend[r] EXCEPT ![k] = x], Tail(seen[r].todo))
    PROVE  WholeInv'
<1> DEFINE p == pend[r]
           q == [pend[r] EXCEPT ![k] = x]
<1>1. pend'[r] = q /\ \A s \in Request \ {r} : pend'[s] = pend[s]
  BY DEF PrivilegesInv
<1>2. p \in [Rows -> AnyRow \cup {None}] /\ q = [p EXCEPT ![k] = x] /\ x # None
  BY VersionFacts
<1>3. Unique(Over(db, p)) /\ \A s \in Request \ {r} : Separate(p, pend[s])
  BY DEF WholeInv
<1>4. k \in PrivilegeRows /\ Live(x) =>
        \A o \in PrivilegeRows : Live(Over(db, p)[o]) /\ Over(db, p)[o].name = x.name => o = k
  OBVIOUS
<1>5. /\ job[r].op \in Installers => Installation(db, q, Tail(seen[r].todo), holder)
      /\ job[r].op = "deleteModule" => Deletion(db, q, Tail(seen[r].todo))
  OBVIOUS
<1> HIDE DEF p, q
<1>6. Unique(Over(db, q))
  BY <1>2, <1>3, <1>4, OneMoreVersion
<1>7. ASSUME NEW s \in Request \ {r} PROVE Separate(q, pend[s])
  <2> DEFINE v == pend[s]
  <2>1. /\ k \in Entry => v[k] = None
        /\ k \in PrivilegeRows /\ Live(x) =>
             \A o \in PrivilegeRows : v[o] # None /\ Live(v[o]) => v[o].name # x.name
    BY DEF Holds
  <2>2. Separate(p, v)
    BY <1>3
  <2> HIDE DEF v
  <2>3. Separate(q, v)
    BY <1>2, <2>1, <2>2, SeparateWritten
  <2> QED
    BY <2>3 DEF v
<1>8. <<>> \in Todo(job[r].op) /\ <<>> \o Tail(seen[r].todo) = Tail(seen[r].todo)
  BY NoMoreSteps
<1> QED
  BY <1>1, <1>5, <1>6, <1>7, <1>8, WholeGoesOn

LEMMA WholeInserts ==
    ASSUME PrivilegesInv, WholeInv, tidy, NEW r \in Request, InsertEntry(r)
    PROVE  WholeInv'
<1> DEFINE todo == seen[r].todo
           holder == seen[r].holder
           p == pend[r]
<1>1. pc[r] = "insert" /\ Running(r) /\ Item(r).do \in {"ensure", "insert"} /\ Fresh(Item(r).kind) # {}
  BY AtStep DEF InsertEntry
<1>2. /\ todo # <<>> /\ todo[1].do = "ensure" /\ Item(r) = todo[1]
      /\ job[r].op \notin {"deleteModule", "switch"} /\ job[r].op \in Installers
      /\ Installation(db, p, todo, holder)
  BY <1>1, WholeItem
<1>3. CASE Abandon(r)
  BY <1>1, <1>3, WholeAbandons
<1>4. CASE ~Abandon(r)
  <2> DEFINE e == CHOOSE k \in Fresh(Item(r).kind) : TRUE
             x == [state |-> "live", name |-> Item(r).name, group |-> Item(r).group]
  <2>1. /\ e \in Entry /\ KindOf[e] = Item(r).kind /\ db[e].state = "none"
        /\ \A s \in Request : ~Holds(s, e)
    BY <1>1 DEF Fresh
  <2>2. /\ ~Taken(r, e, Item(r).name) /\ Store(r, e, x) /\ Insertion(r, <<>>, HolderAfter(r, e))
    BY <1>4 DEF InsertEntry
  <2>3. x \in EntryRow
    BY <1>1, ItemShape DEF EntryRow, State
  <2>4. x.name = Item(r).name /\ x.group = Item(r).group /\ Live(x)
    BY DEF Live
  <2> DEFINE next == HolderAfter(r, e)
  <2> HIDE DEF e, x
  <2>5. db' = db /\ pend' = [pend EXCEPT ![r][e] = x] /\ ~Undecided(r, e, x.name)
    BY <2>2 DEF Store
  <2>6. e \in Rows /\ x \in AnyRow /\ x # None /\ p \in [Rows -> AnyRow \cup {None}]
    BY <2>1, <2>3, VersionFacts DEF AnyRow
  <2>7. p[e] = None /\ Over(db, p)[e] = db[e]
    BY <2>1, <2>6 DEF Holds, Over
  <2>8. \A o \in Entry : KindOf[o] = KindOf[e] /\ Live(Over(db, p)[o]) => Over(db, p)[o].name # x.name
    <3> SUFFICES ASSUME NEW o \in Entry, KindOf[o] = KindOf[e], Live(Over(db, p)[o]),
                        Over(db, p)[o].name = x.name
                 PROVE  FALSE
      OBVIOUS
    <3>1. o \in Named(r, KindOf[e], Item(r).name)
      BY <2>4, FoundByName
    <3>2. o = e
      BY <2>2, <3>1 DEF Taken
    <3> QED
      BY <2>1, <2>7, <3>2 DEF Live
  <2>9. e \in PrivilegeRows =>
          /\ \A o \in PrivilegeRows : Live(Over(db, p)[o]) /\ Over(db, p)[o].name = x.name => o = e
          /\ \A s \in Request \ {r}, o \in PrivilegeRows :
               Holds(s, o) /\ Live(pend[s][o]) => pend[s][o].name # x.name
    <3>1. e \in PrivilegeRows =>
            \A o \in PrivilegeRows : Live(Over(db, p)[o]) /\ Over(db, p)[o].name = x.name => o = e
      BY <2>8 DEF PrivilegeRows
    <3>2. e \in PrivilegeRows => \A s \in Request \ {r}, o \in PrivilegeRows :
            Holds(s, o) /\ Live(pend[s][o]) => pend[s][o].name # x.name
      BY <2>5 DEF Undecided, PrivilegeRows
    <3> QED
      BY <3>1, <3>2
  <2>10. next = (IF e \in Holders THEN e ELSE holder) /\ next \in Entry \cup {None}
    BY <1>1, HolderTyped DEF HolderAfter
  <2> DEFINE q == [p EXCEPT ![e] = x]
  <2>11. q = [p EXCEPT ![e] = x]
    OBVIOUS
  <2>12. Sound(db)
    BY DEF WholeInv
  <2>13. KindOf[e] = todo[1].kind /\ x.name = todo[1].name /\ x.group = todo[1].group
    BY <1>2, <2>1, <2>4
  <2> HIDE DEF todo, holder, next, q, p
  <2>14. Installation(db, q, Tail(todo), next)
    BY <1>2, <2>1, <2>4, <2>6, <2>7, <2>8, <2>10, <2>11, <2>12, <2>13, InstallationInserts
  <2>15. Insertion(r, <<>>, next)
    BY <2>2 DEF next
  <2> QED
    BY <1>1, <1>2, <2>1, <2>5, <2>6, <2>9, <2>10, <2>14, <2>15, WholeWrites DEF todo, p, q
<1> QED
  BY <1>3, <1>4

LEMMA WholeAttaches ==
    ASSUME PrivilegesInv, WholeInv, tidy, NEW r \in Request, Attach(r)
    PROVE  WholeInv'
<1> DEFINE todo == seen[r].todo
           holder == seen[r].holder
           p == pend[r]
           k == HeldLink(r)
           x == [state |-> "live", by |-> r]
<1>1. pc[r] = "attach" /\ Running(r) /\ Item(r).do = "link"
  BY AtStep DEF Attach
<1>2. /\ todo # <<>> /\ todo[1].do = "link" /\ Item(r) = todo[1]
      /\ job[r].op \notin {"deleteModule", "switch"} /\ job[r].op \in Installers
      /\ Installation(db, p, todo, holder)
  BY <1>1, WholeItem
<1>3. CASE Abandon(r)
  BY <1>1, <1>3, WholeAbandons
<1>4. CASE ~Abandon(r)
  <2>1. WriteRow(r, k, x) /\ Proceed(r)
    BY <1>4 DEF Attach
  <2>2. db' = db /\ pend' = [pend EXCEPT ![r][k] = x]
    BY <2>1 DEF WriteRow
  <2>3. Insertion(r, <<>>, holder) /\ holder \in Entry \cup {None}
    BY <1>1, <2>1, HolderTyped DEF Proceed
  <2>4. x \in AnyRow /\ x # None /\ Live(x)
    <3>1. x \in LinkRow
      BY DEF LinkRow, State
    <3> QED
      BY <3>1, VersionFacts DEF AnyRow, Live
  <2>5. k = <<holder, todo[1].name>> /\ k \notin Entry
    <3>1. Item(r).name \in Name
      BY <1>1, ItemShape
    <3> QED
      BY <1>2, <2>3, <3>1, RowFacts DEF HeldLink
  <2>6. p \in [Rows -> AnyRow \cup {None}]
    BY VersionFacts
  <2>7. CASE k \in Rows
    <3> DEFINE q == [p EXCEPT ![k] = x]
    <3>1. q = [p EXCEPT ![k] = x]
      OBVIOUS
    <3>2. k \notin PrivilegeRows
      BY <2>5 DEF PrivilegeRows
    <3> HIDE DEF todo, holder, q, p, k, x
    <3>3. Installation(db, q, Tail(todo), holder)
      BY <1>2, <2>4, <2>5, <2>6, <2>7, <3>1, InstallationAttaches
    <3> QED
      BY <1>1, <1>2, <2>2, <2>3, <2>4, <2>5, <2>7, <3>2, <3>3, WholeWrites DEF todo, p, q
  <2>8. CASE k \notin Rows
    <3>1. pend'[r] = p /\ \A s \in Request \ {r} : pend'[s] = pend[s]
      <4> HIDE DEF k, x
      <4> QED
        BY <2>2, <2>6, <2>8 DEF PrivilegesInv
    <3>2. ~Ensures(todo[1]) /\ ~Begins(todo[1]) /\ todo[1].do # "list"
      BY <1>2 DEF Ensures, Begins
    <3>3. <<holder, todo[1].name>> \notin Rows
      BY <2>5, <2>8
    <3>4. Unique(Over(db, p)) /\ \A s \in Request \ {r} : Separate(p, pend[s])
      BY DEF WholeInv
    <3>5. <<>> \in Todo(job[r].op) /\ <<>> \o Tail(todo) = Tail(todo)
      BY <1>1, NoMoreSteps
    <3> HIDE DEF todo, holder, p, k, x
    <3>6. Installation(db, p, Tail(todo), holder)
      BY <1>2, <3>2, <3>3, InstallationReads
    <3> QED
      BY <1>1, <1>2, <2>2, <2>3, <3>1, <3>4, <3>5, <3>6, WholeGoesOn DEF todo
  <2> QED
    BY <2>7, <2>8
<1> QED
  BY <1>3, <1>4

LEMMA WholeUnlinks ==
    ASSUME PrivilegesInv, WholeInv, tidy, NEW r \in Request, DeleteMapping(r)
    PROVE  WholeInv'
<1> DEFINE todo == seen[r].todo
           p == pend[r]
           k == Item(r).link
           x == [View(r, k) EXCEPT !.state = "deleted"]
<1>1. pc[r] = "unlink" /\ Running(r) /\ Item(r).do = "unlink"
  BY AtStep DEF DeleteMapping
<1>2. /\ todo # <<>> /\ todo[1].do = "unlink" /\ Item(r) = todo[1]
      /\ job[r].op = "deleteModule" /\ Deletion(db, p, todo)
  BY <1>1, WholeItem
<1>3. CASE Abandon(r)
  BY <1>1, <1>3, WholeAbandons
<1>4. CASE ~Abandon(r)
  <2>1. WriteRow(r, k, x) /\ Proceed(r)
    BY <1>4 DEF DeleteMapping
  <2>2. db' = db /\ pend' = [pend EXCEPT ![r][k] = x]
    BY <2>1 DEF WriteRow
  <2>3. Insertion(r, <<>>, seen[r].holder) /\ seen[r].holder \in Entry \cup {None}
    BY <1>1, <2>1, HolderTyped DEF Proceed
  <2>4. k \in RoleLink
    BY <1>1, ItemShape
  <2>5. k \in Rows /\ k \notin Entry /\ k \notin PrivilegeRows /\ RowType(k) = LinkRow
    BY <2>4, RowFacts DEF PrivilegeRows
  <2>6. View(r, k) \in LinkRow
    BY <2>5, ViewTyped
  <2>7. x \in LinkRow /\ x.state = "deleted"
    <3> DEFINE y == View(r, k)
    <3>1. y \in LinkRow
      BY <2>6
    <3> HIDE DEF y
    <3>2. [y EXCEPT !.state = "deleted"] \in LinkRow /\ [y EXCEPT !.state = "deleted"].state = "deleted"
      BY <3>1 DEF LinkRow, State
    <3> QED
      BY <3>2 DEF y
  <2>8. x \in AnyRow /\ x # None /\ ~Live(x) /\ p \in [Rows -> AnyRow \cup {None}]
    BY <2>7, VersionFacts DEF AnyRow, Live
  <2> DEFINE q == [p EXCEPT ![k] = x]
  <2>9. q = [p EXCEPT ![k] = x] /\ k = todo[1].link
    BY <1>2
  <2> HIDE DEF todo, p, k, x, q
  <2>10. /\ \A o \in Rows : q[o] = IF o = k THEN x ELSE p[o]
         /\ \A o \in Rows : Over(db, q)[o] = IF o = k THEN x ELSE Over(db, p)[o]
    <3>1. \A o \in Rows : q[o] = IF o = k THEN x ELSE p[o]
      BY <2>5, <2>8, <2>9
    <3> QED
      BY <3>1, <2>8 DEF Over
  <2>11. \A o \in Rows :
           \/ q[o] = p[o]
           \/ /\ q[o] # None /\ ~Live(q[o]) /\ (o \in Entry => q[o].name = Over(db, p)[o].name)
              /\ \/ todo[1].do = "dropCode" /\ o \in PrivilegeRows /\ q[o].name = todo[1].code
                 \/ todo[1].do = "unlink" /\ o = todo[1].link
    BY <1>2, <2>5, <2>8, <2>9, <2>10
  <2>12. /\ todo[1].do \notin {"list", "grants"} /\ todo[1].do # "dropCode"
         /\ ~Live(Over(db, q)[todo[1].link])
    BY <1>2, <2>5, <2>8, <2>9, <2>10
  <2>13. Deletion(db, q, Tail(todo))
    BY <1>2, <2>11, <2>12, DeletionGoesOn
  <2> QED
    BY <1>1, <1>2, <2>2, <2>3, <2>5, <2>8, <2>13, WholeWrites DEF todo, p, q, Installers
<1> QED
  BY <1>3, <1>4

LEMMA WholeDropsCode ==
    ASSUME PrivilegesInv, WholeInv, tidy, NEW r \in Request, DropCode(r)
    PROVE  WholeInv'
<1> DEFINE todo == seen[r].todo
           p == pend[r]
           found == Named(r, "privilege", Item(r).code)
<1>1. /\ pc[r] = "dropCode" /\ Running(r) /\ Item(r).do = "dropCode"
      /\ Insertion(r, <<>>, seen[r].holder)
  BY AtStep DEF DropCode, Proceed
<1>2. /\ todo # <<>> /\ todo[1].do = "dropCode" /\ Item(r) = todo[1]
      /\ job[r].op = "deleteModule" /\ Deletion(db, p, todo)
  BY <1>1, WholeItem
<1>3. seen[r].holder \in Entry \cup {None}
  BY <1>1, HolderTyped
<1>4. CASE found = {} /\ Unwritten
  <2>1. ~Has(Over(db, p), "privilege", Item(r).code, {})
    BY <1>4, FoundByName DEF Has
  <2>2. Deletion(db, p, Tail(todo))
    BY <1>1, <2>1, WholeDeletionReads
  <2>3. <<>> \in Todo(job[r].op) /\ <<>> \o Tail(todo) = Tail(todo)
    BY <1>1, NoMoreSteps
  <2> QED
    BY <1>1, <1>2, <1>3, <1>4, <2>2, <2>3, WholeReads DEF Installers
<1>5. CASE ~(found = {} /\ Unwritten)
  <2>1. PICK e \in found : WriteRow(r, e, [View(r, e) EXCEPT !.state = "deleted"])
    BY <1>5 DEF DropCode
  <2> DEFINE x == [View(r, e) EXCEPT !.state = "deleted"]
  <2>2. db' = db /\ pend' = [pend EXCEPT ![r][e] = x] /\ ~HeldByOther(r, e)
    BY <2>1 DEF WriteRow
  <2>3. /\ e \in Entry /\ KindOf[e] = "privilege" /\ View(r, e).name = todo[1].code
        /\ Live(View(r, e)) /\ View(r, e) = Over(db, p)[e] /\ e \in Rows /\ View(r, e) \in EntryRow
    BY <1>2, FoundByName, VersionFacts
  <2>4. x \in EntryRow /\ x.state = "deleted" /\ x.name = View(r, e).name
    <3> DEFINE y == View(r, e)
    <3>1. y \in EntryRow
      BY <2>3
    <3> HIDE DEF y
    <3>2. [y EXCEPT !.state = "deleted"] \in EntryRow
      BY <3>1, DeletedTyped
    <3>3. [y EXCEPT !.state = "deleted"].state = "deleted" /\ [y EXCEPT !.state = "deleted"].name = y.name
      BY <3>1 DEF EntryRow
    <3> QED
      BY <3>2, <3>3 DEF y
  <2>5. x \in AnyRow /\ x # None /\ ~Live(x) /\ p \in [Rows -> AnyRow \cup {None}]
    BY <2>4, VersionFacts DEF AnyRow, Live
  <2>6. \A s \in Request \ {r} : ~Holds(s, e)
    BY <2>2 DEF HeldByOther
  <2> DEFINE q == [p EXCEPT ![e] = x]
  <2>7. q = [p EXCEPT ![e] = x] /\ x.name = todo[1].code /\ Unique(Over(db, p))
        /\ Over(db, p)[e].name = x.name
        /\ Live(Over(db, p)[e])
    BY <2>3, <2>4 DEF WholeInv
  <2> HIDE DEF todo, p, x, q, found
  <2>8. /\ \A o \in Rows : q[o] = IF o = e THEN x ELSE p[o]
        /\ \A o \in Rows : Over(db, q)[o] = IF o = e THEN x ELSE Over(db, p)[o]
    <3>1. \A o \in Rows : q[o] = IF o = e THEN x ELSE p[o]
      BY <2>3, <2>5, <2>7
    <3> QED
      BY <3>1, <2>5 DEF Over
  <2>9. e \in PrivilegeRows
    BY <2>3 DEF PrivilegeRows
  <2>10. \A o \in Rows :
           \/ q[o] = p[o]
           \/ /\ q[o] # None /\ ~Live(q[o]) /\ (o \in Entry => q[o].name = Over(db, p)[o].name)
              /\ \/ todo[1].do = "dropCode" /\ o \in PrivilegeRows /\ q[o].name = todo[1].code
                 \/ todo[1].do = "unlink" /\ o = todo[1].link
    BY <1>2, <2>3, <2>5, <2>7, <2>8, <2>9
  <2>11. ~Has(Over(db, q), "privilege", todo[1].code, {})
    <3> SUFFICES ASSUME NEW o \in Entry, KindOf[o] = "privilege", Live(Over(db, q)[o]),
                        Over(db, q)[o].name = todo[1].code
                 PROVE  FALSE
      BY DEF Has
    <3>1. o \in PrivilegeRows /\ o \in Rows
      BY VersionFacts DEF PrivilegeRows
    <3>2. o # e /\ Over(db, p)[o] = Over(db, q)[o]
      BY <2>5, <2>8, <3>1
    <3> QED
      BY <2>7, <2>9, <3>1, <3>2 DEF Unique
  <2>12. todo[1].do \notin {"list", "grants"} /\ todo[1].do # "unlink"
    BY <1>2
  <2>13. Deletion(db, q, Tail(todo))
    BY <1>2, <2>10, <2>11, <2>12, DeletionGoesOn
  <2> QED
    BY <1>1, <1>2, <1>3, <2>2, <2>3, <2>5, <2>6, <2>13, WholeWrites DEF todo, p, q, Installers
<1> QED
  BY <1>4, <1>5
-----------------------------------------------------------------------------

(* Once something else has been changed, this is never forgotten.          *)
LEMMA TidyNoMore ==
    ASSUME NEW r, tidy',
           \/ Arrive(r) \/ FindOwner(r) \/ EnsureEntry(r) \/ RefuseTaken(r) \/ InsertEntry(r)
           \/ ReloadEntry(r) \/ EditEntry(r) \/ DropEntry(r)
           \/ LookForLink(r) \/ Attach(r) \/ FindMapping(r) \/ DeleteMapping(r) \/ RevokeSessions(r)
           \/ FindSetRow(r) \/ TouchSetRow(r) \/ DropSetRow(r)
           \/ ListModule(r) \/ ListGrants(r) \/ DropCode(r) \/ ReadCodes(r) \/ IssueToken(r)
           \/ Commit(r) \/ ConnectionLost(r)
    PROVE  tidy
<1>1. CASE Arrive(r)
  BY <1>1 DEF Arrive
<1>2. CASE FindOwner(r) \/ EnsureEntry(r) \/ RefuseTaken(r) \/ InsertEntry(r)
  BY <1>2 DEF FindOwner, EnsureEntry, RefuseTaken, InsertEntry, Proceed, Insertion, Abandon, Forget, Calm
<1>3. CASE ReloadEntry(r) \/ EditEntry(r) \/ DropEntry(r)
  BY <1>3 DEF ReloadEntry, EditEntry, DropEntry, Proceed, Insertion, Abandon, Forget, Calm
<1>4. CASE LookForLink(r) \/ Attach(r) \/ FindMapping(r) \/ DeleteMapping(r) \/ RevokeSessions(r)
  BY <1>4 DEF LookForLink, Attach, FindMapping, DeleteMapping, RevokeSessions, Proceed, Insertion, Abandon,
         Forget, Calm
<1>5. CASE FindSetRow(r) \/ TouchSetRow(r) \/ DropSetRow(r)
  BY <1>5 DEF FindSetRow, TouchSetRow, DropSetRow, Proceed, Insertion, Abandon, Forget, Calm
<1>6. CASE ListModule(r) \/ ListGrants(r) \/ DropCode(r) \/ ReadCodes(r) \/ IssueToken(r)
  BY <1>6 DEF ListModule, ListGrants, DropCode, ReadCodes, IssueToken, Proceed, Insertion, Abandon,
              Forget, Calm
<1>7. CASE Commit(r) \/ ConnectionLost(r)
  BY <1>7 DEF Commit, ConnectionLost, Proceed, Insertion, Abandon, Forget, Calm
<1> QED
  BY <1>1, <1>2, <1>3, <1>4, <1>5, <1>6, <1>7

(* What endpoints that change modules as a whole never do.                 *)
LEMMA NeverWhole ==
    ASSUME PrivilegesInv, WholeInv, tidy, NEW r \in Request,
           \/ RefuseTaken(r) \/ EditEntry(r) \/ DropEntry(r)
           \/ FindSetRow(r) \/ TouchSetRow(r) \/ DropSetRow(r)
    PROVE  FALSE
<1>1. pc[r] \in {"clash", "edit", "drop", "mappingRow", "touch", "unlinkRow"}
  BY DEF RefuseTaken, EditEntry, DropEntry, FindSetRow, TouchSetRow, DropSetRow
<1>2. Running(r) /\ Item(r).do = pc[r]
  BY <1>1, AtStep
<1>3. /\ job[r].op \in Installers \/ job[r].op = "deleteModule" \/ job[r].op = "switch"
      /\ job[r].op \in Installers => Item(r).do \in {"ensure", "link", "owner", "commit", "list", "reload"}
      /\ job[r].op = "deleteModule" =>
           Item(r).do \in {"list", "grants", "dropCode", "mapping", "unlink", "revoke", "commit"}
      /\ job[r].op = "switch" => Item(r).do \in {"codes", "commit"}
  BY <1>2, WholeItem
<1> QED
  BY <1>1, <1>2, <1>3

LEMMA WholeSteps == PrivilegesInv /\ WholeInv /\ [Next]_vars => WholeInv'
<1> SUFFICES ASSUME PrivilegesInv, WholeInv, [Next]_vars, tidy' PROVE WholeInv'
  BY DEF WholeInv
<1>1. CASE UNCHANGED vars
  <2>1. /\ db' = db /\ pend' = pend /\ pc' = pc /\ job' = job /\ seen' = seen /\ tidy' = tidy
    BY <1>1 DEF vars
  <2>2. \A r : (Wholly(db, r)' <=> Wholly(db, r)) /\ (Running(r)' <=> Running(r))
    BY <2>1 DEF Wholly, Running
  <2> QED
    BY <2>1, <2>2 DEF WholeInv
<1>2. CASE Next
  <2>1. PICK r \in Request :
          \/ Arrive(r) \/ FindOwner(r) \/ EnsureEntry(r) \/ RefuseTaken(r) \/ InsertEntry(r)
          \/ ReloadEntry(r) \/ EditEntry(r) \/ DropEntry(r)
          \/ LookForLink(r) \/ Attach(r) \/ FindMapping(r) \/ DeleteMapping(r) \/ RevokeSessions(r)
          \/ FindSetRow(r) \/ TouchSetRow(r) \/ DropSetRow(r)
          \/ ListModule(r) \/ ListGrants(r) \/ DropCode(r) \/ ReadCodes(r) \/ IssueToken(r)
          \/ Commit(r) \/ ConnectionLost(r)
    BY <1>2 DEF Next
  <2>2. tidy
    BY <2>1, TidyNoMore
  <2>3. ConnectionLost(r) => Running(r) /\ Abandon(r)
    BY DEF ConnectionLost
  <2> QED
    BY <2>1, <2>2, <2>3, WholeArrives, WholeFindsOwner, WholeEnsures, WholeInserts, WholeReloads,
       WholeLooksForLink, WholeAttaches, WholeFindsMapping, WholeUnlinks, WholeStoresTokens, WholeListsModule,
       WholeListsGrants, WholeDropsCode, WholeReadsCodes, WholeCommits, WholeAbandons, NeverWhole
<1> QED
  BY <1>1, <1>2

(* WholeInv is an inductive invariant beside PrivilegesInv.                *)
THEOREM WholeHolds == Spec => []WholeInv
<1>1. Init => WholeInv
  BY InitIsWhole
<1>2. PrivilegesInv /\ WholeInv /\ [Next]_vars => WholeInv'
  BY WholeSteps
<1> QED
  BY <1>1, <1>2, AgendasHold, PTL DEF Spec

(* No module is ever half installed or half deleted, for any catalogue and *)
(* any number of requests that create, seed, update and delete modules at  *)
(* once, fail and try again, as long as nothing else changes privileges    *)
(* and no module is deleted while some are installed (NoHalfModule).       *)
THEOREM ModulesStayWhole == Spec => []NoHalfModule
<1>1. WholeInv => NoHalfModule
  BY DEF WholeInv, Sound, NoHalfModule
<1> QED
  BY <1>1, WholeHolds, PTL
-----------------------------------------------------------------------------
(* The deletion of a module beside which nothing is changed.               *)

Leaves(rows, todo, c) ==
    /\ ~Has(rows, "privilege", c, {}) \/ [do |-> "dropCode", code |-> c] \in ToSet(todo)
    /\ \/ [do |-> "grants", code |-> c] \in ToSet(todo)
       \/ \A l \in RoleLink : l[2] = c /\ Live(rows[l]) => [do |-> "unlink", link |-> l] \in ToSet(todo)

(* What the deletion of the module m has written, and has still to do.     *)
Disposal(rows, p, todo, m) ==
    /\ todo \in Seq(Deleting)
    /\ \A n \in 1..Len(todo) : todo[n].do = "commit" => n = Len(todo)
    /\ \A e \in Entry : p[e] # None => ~Live(p[e]) /\ p[e].name = rows[e].name
    /\ Lists(todo) => (\A k \in Rows : p[k] = None) /\ todo = ModuleDeletion(m) \o Commits
    /\ ~Lists(todo) => \A e \in PrivilegeRows :
         Live(rows[e]) /\ rows[e].group = m => Leaves(Over(rows, p), todo, rows[e].name)

LEMMA DisposalBegins ==
    ASSUME NEW rows, NEW m \in Module
    PROVE  Disposal(rows, NoVersions, ModuleDeletion(m) \o Commits, m)
<1> DEFINE d == [do |-> "list", module |-> m, then |-> "delete"]
           c == [do |-> "commit"]
           todo == ModuleDeletion(m) \o Commits
<1>1. todo = <<d, c>>
  BY UpdatingIs
<1>2. d \in Deleting /\ c \in Deleting /\ d.do = "list" /\ c.do = "commit"
  BY DEF Deleting
<1> HIDE DEF d, c
<1>3. todo \in Seq(Deleting) /\ Len(todo) = 2 /\ todo[1] = d
  BY <1>1, <1>2
<1>4. \A n \in 1..Len(todo) : todo[n].do = "commit" => n = Len(todo)
  BY <1>2, <1>3
<1>5. 1 \in 1..Len(todo)
  BY <1>3
<1> HIDE DEF todo
<1>6. Lists(todo)
  BY <1>2, <1>3, <1>5, SetOfSeq DEF Lists
<1>7. \A k \in Rows \cup Entry : NoVersions[k] = None
  BY RowFacts DEF NoVersions
<1> QED
  BY <1>3, <1>4, <1>6, <1>7 DEF Disposal, todo

(* It deletes a row, or finds nothing to delete, and goes on.              *)
LEMMA DisposalGoesOn ==
    ASSUME NEW rows, NEW p, NEW todo, NEW m \in Module, Disposal(rows, p, todo, m), todo # <<>>,
           todo[1].do \notin {"list", "grants"}, NEW q,
           \A k \in Rows :
             \/ q[k] = p[k]
             \/ /\ q[k] # None /\ ~Live(q[k]) /\ (k \in Entry => q[k].name = Over(rows, p)[k].name),
           todo[1].do = "dropCode" => ~Has(Over(rows, q), "privilege", todo[1].code, {}),
           todo[1].do = "unlink" => ~Live(Over(rows, q)[todo[1].link])
    PROVE  Disposal(rows, q, Tail(todo), m)
<1> DEFINE view == Over(rows, p)
           more == Over(rows, q)
           rest == Tail(todo)
<1>1. /\ todo \in Seq(Deleting)
      /\ \A e \in Entry : p[e] # None => ~Live(p[e]) /\ p[e].name = rows[e].name
      /\ \A n \in 1..Len(todo) : todo[n].do = "commit" => n = Len(todo)
  BY DEF Disposal
<1>2. PrivilegeRows \subseteq Entry /\ Entry \subseteq Rows /\ RoleLink \subseteq Rows
  BY RowFacts DEF PrivilegeRows, Rows
<1>3. /\ \A k \in Rows : view[k] = IF p[k] # None THEN p[k] ELSE rows[k]
      /\ \A k \in Rows : more[k] = IF q[k] # None THEN q[k] ELSE rows[k]
  BY OverFacts
<1>4. /\ rest \in Seq(Deleting) /\ ToSet(todo) = {todo[1]} \cup ToSet(rest)
      /\ Len(rest) = Len(todo) - 1 /\ Len(todo) \in Nat /\ \A n \in 1..Len(rest) : rest[n] = todo[n + 1]
      /\ todo[1] \in Deleting
  BY <1>1, SetOfTail
<1>5. ~Lists(todo)
  <2> SUFFICES ASSUME Lists(todo) PROVE FALSE
    OBVIOUS
  <2>1. todo = ModuleDeletion(m) \o Commits
    BY DEF Disposal
  <2>2. (ModuleDeletion(m) \o Commits)[1] = [do |-> "list", module |-> m, then |-> "delete"]
    BY UpdatingShape
  <2>3. todo[1] = [do |-> "list", module |-> m, then |-> "delete"]
    BY <2>1, <2>2, Zenon
  <2> QED
    BY <2>3
<1> HIDE DEF view, more, rest
<1>6. ~Lists(rest)
  BY <1>4, <1>5 DEF Lists
<1>7. \A e \in Entry : q[e] # None => ~Live(q[e]) /\ q[e].name = rows[e].name
  <2> TAKE e \in Entry
  <2>1. view[e].name = rows[e].name
    BY <1>1, <1>2, <1>3
  <2> QED
    BY <1>1, <1>2, <2>1 DEF view
<1>8. \A n \in 1..Len(rest) : rest[n].do = "commit" => n = Len(rest)
  <2> TAKE n \in 1..Len(rest)
  <2>1. n + 1 \in 1..Len(todo)
    BY <1>4
  <2> QED
    BY <1>1, <1>4, <2>1
<1>9. \A k \in Rows : more[k] = view[k] \/ ~Live(more[k])
  BY <1>3
<1>10. ASSUME NEW c, Leaves(view, todo, c) PROVE Leaves(more, rest, c)
  <2>1. ~Has(more, "privilege", c, {}) \/ [do |-> "dropCode", code |-> c] \in ToSet(rest)
    <3>1. CASE ~Has(view, "privilege", c, {})
      BY <1>2, <1>9, <3>1 DEF Has
    <3>2. CASE [do |-> "dropCode", code |-> c] = todo[1]
      <4>1. todo[1].do = "dropCode" /\ todo[1].code = c
        BY <3>2
      <4> QED
        BY <4>1 DEF more
    <3> QED
      BY <1>4, <1>10, <3>1, <3>2 DEF Leaves
  <2>2. CASE [do |-> "grants", code |-> c] \in ToSet(todo)
    <3>1. [do |-> "grants", code |-> c] # todo[1]
      OBVIOUS
    <3> QED
      BY <1>4, <2>1, <2>2, <3>1 DEF Leaves
  <2>3. CASE \A l \in RoleLink : l[2] = c /\ Live(view[l]) => [do |-> "unlink", link |-> l] \in ToSet(todo)
    <3>1. ASSUME NEW l \in RoleLink, l[2] = c, Live(more[l])
          PROVE  [do |-> "unlink", link |-> l] \in ToSet(rest)
      <4>1. Live(view[l])
        BY <1>2, <1>9, <3>1
      <4>2. ASSUME [do |-> "unlink", link |-> l] = todo[1] PROVE FALSE
        <5>1. todo[1].do = "unlink" /\ todo[1].link = l
          BY <4>2
        <5> QED
          BY <3>1, <5>1 DEF more
      <4> QED
        BY <1>4, <2>3, <3>1, <4>1, <4>2
    <3> QED
      BY <2>1, <3>1 DEF Leaves
  <2> QED
    BY <1>10, <2>2, <2>3 DEF Leaves
<1>11. \A e \in PrivilegeRows : Live(rows[e]) /\ rows[e].group = m => Leaves(more, rest, rows[e].name)
  BY <1>5, <1>10 DEF Disposal, view
<1> QED
  BY <1>4, <1>6, <1>7, <1>8, <1>11 DEF Disposal, more, rest

(* What it has begun is gone when it commits.                              *)
LEMMA DisposalCommits ==
    ASSUME NEW rows, NEW p, NEW todo, NEW m \in Module, Disposal(rows, p, todo, m),
           todo # <<>>, todo[1].do = "commit",
           NEW e \in PrivilegeRows, rows[e].group = m
    PROVE  /\ ~Live(Over(rows, p)[e])
           /\ Live(rows[e]) => \A l \in RoleLink : l[2] = rows[e].name => ~Live(Over(rows, p)[l])
<1> DEFINE view == Over(rows, p)
<1>1. todo \in Seq(Deleting) /\ \A n \in 1..Len(todo) : todo[n].do = "commit" => n = Len(todo)
  BY DEF Disposal
<1>2. Len(todo) = 1
  <2>1. Len(todo) \in Nat /\ Len(todo) >= 1
    BY <1>1, SetOfTail
  <2>2. 1 \in 1..Len(todo)
    BY <2>1
  <2>3. todo[1].do = "commit"
    OBVIOUS
  <2> QED
    BY ONLY <1>1, <2>2, <2>3
<1>3. \A x \in ToSet(todo) : x = todo[1]
  <2> TAKE x \in ToSet(todo)
  <2>1. \E n \in 1..Len(todo) : x = todo[n]
    BY <1>1, SetOfSeq
  <2> QED
    BY <1>2, <2>1
<1>4. e \in Entry /\ e \in Rows /\ KindOf[e] = "privilege"
  BY RowFacts DEF PrivilegeRows
<1>5. \A k \in Rows : view[k] = IF p[k] # None THEN p[k] ELSE rows[k]
  BY OverFacts
<1>6. ~Lists(todo)
  BY <1>3 DEF Lists
<1>7. p[e] # None => ~Live(p[e]) /\ p[e].name = rows[e].name
  BY <1>4 DEF Disposal
<1>8. Live(rows[e]) => Leaves(view, todo, rows[e].name)
  BY <1>6 DEF Disposal
<1> HIDE DEF view
<1>9. Live(rows[e]) => /\ ~Has(view, "privilege", rows[e].name, {})
                       /\ \A l \in RoleLink : l[2] = rows[e].name => ~Live(view[l])
  <2>1. \A c : [do |-> "dropCode", code |-> c] \notin ToSet(todo)
    BY <1>3
  <2>2. \A c : [do |-> "grants", code |-> c] \notin ToSet(todo)
    BY <1>3
  <2>3. \A l : [do |-> "unlink", link |-> l] \notin ToSet(todo)
    BY <1>3
  <2> QED
    BY <1>8, <2>1, <2>2, <2>3 DEF Leaves
<1>10. ~Live(view[e])
  <2> SUFFICES ASSUME Live(view[e]) PROVE FALSE
    OBVIOUS
  <2>1. p[e] = None /\ view[e] = rows[e]
    BY <1>4, <1>5, <1>7
  <2> QED
    BY <1>4, <1>9, <2>1 DEF Has
<1> QED
  BY <1>9, <1>10 DEF view

(* The privileges filed under the module are listed.                       *)
LEMMA DisposalLists ==
    ASSUME NEW rows, NEW p, NEW todo, NEW m \in Module, Disposal(rows, p, todo, m),
           todo # <<>>, todo[1].do = "list", \A e \in Entry : rows[e] \in EntryRow,
           NEW n \in Nat, NEW s \in [1..n -> Entry],
           \A e \in PrivilegeRows : Live(Over(rows, p)[e]) /\ Over(rows, p)[e].group = todo[1].module =>
             \E i \in 1..n : e = s[i],
           NEW seqs,
           seqs = [i \in 1..n |-> <<[do |-> "grants", code |-> Over(rows, p)[s[i]].name],
                                    [do |-> "dropCode", code |-> Over(rows, p)[s[i]].name]>>]
    PROVE  /\ todo[1].then = "delete"
           /\ Disposal(rows, p, FlattenSeq(seqs) \o Tail(todo), m)
<1> DEFINE A == {x \in Deleting : x.do \in {"grants", "dropCode"}}
           flat == FlattenSeq(seqs)
           new == flat \o Tail(todo)
           cm == [do |-> "commit"]
<1>1. todo \in Seq(Deleting)
  BY DEF Disposal
<1>2. Lists(todo)
  BY <1>1, SetOfTail DEF Lists
<1>3. todo = ModuleDeletion(m) \o Commits
  BY <1>2 DEF Disposal
<1>4. todo[1].then = "delete" /\ todo[1].module = m /\ Tail(todo) = Commits
  <2>1. /\ (ModuleDeletion(m) \o Commits)[1] = [do |-> "list", module |-> m, then |-> "delete"]
        /\ Tail(ModuleDeletion(m) \o Commits) = Commits
    BY UpdatingShape
  <2>2. todo[1] = [do |-> "list", module |-> m, then |-> "delete"] /\ Tail(todo) = Commits
    BY <1>3, <2>1, Zenon
  <2> QED
    BY <2>2
<1>5. \A k \in Rows : p[k] = None
  BY <1>2 DEF Disposal
<1>6. \A k \in Rows : Over(rows, p)[k] = rows[k]
  BY <1>5 DEF Over
<1>7. PrivilegeRows \subseteq Entry /\ Entry \subseteq Rows
  BY RowFacts DEF PrivilegeRows
<1>8. \A i \in 1..n : rows[s[i]].name \in Name /\ Over(rows, p)[s[i]].name = rows[s[i]].name
  BY <1>6, <1>7 DEF EntryRow
<1>9. /\ flat \in Seq(A)
      /\ \A i \in 1..n : /\ [do |-> "grants", code |-> rows[s[i]].name] \in ToSet(flat)
                         /\ [do |-> "dropCode", code |-> rows[s[i]].name] \in ToSet(flat)
  <2> DEFINE f == [i \in 1..n |-> [do |-> "grants", code |-> rows[s[i]].name]]
             g == [i \in 1..n |-> [do |-> "dropCode", code |-> rows[s[i]].name]]
  <2>1. ASSUME NEW i \in 1..n PROVE f[i] \in A
    BY <1>8 DEF Deleting
  <2>2. ASSUME NEW i \in 1..n PROVE g[i] \in A
    BY <1>8 DEF Deleting
  <2>3. seqs = [i \in 1..n |-> <<f[i], g[i]>>]
    BY <1>8
  <2>4. f \in [1..n -> A] /\ g \in [1..n -> A]
    BY <2>1, <2>2
  <2>5. \A i \in 1..n : /\ f[i] = [do |-> "grants", code |-> rows[s[i]].name]
                        /\ g[i] = [do |-> "dropCode", code |-> rows[s[i]].name]
    OBVIOUS
  <2> HIDE DEF f, g, A, flat
  <2>6. FlattenSeq(seqs) \in Seq(A)
    <3>1. seqs \in [1..n -> Seq(A)]
      BY ONLY n \in Nat, <2>3, <2>4, FlattenPairs
    <3> QED
      BY ONLY n \in Nat, <3>1, FlattenAll
  <2>7. \A i \in 1..n : f[i] \in ToSet(FlattenSeq(seqs)) /\ g[i] \in ToSet(FlattenSeq(seqs))
    <3> TAKE i \in 1..n
    <3>1. seqs \in [1..n -> Seq(A)]
      BY ONLY n \in Nat, <2>3, <2>4, FlattenPairs
    <3>2. ToSet(seqs[i]) \subseteq ToSet(FlattenSeq(seqs))
      BY ONLY n \in Nat, i \in 1..n, <3>1, FlattenAll
    <3>3. f[i] \in A /\ g[i] \in A /\ seqs[i] = <<f[i], g[i]>>
      BY ONLY i \in 1..n, <2>3, <2>4
    <3>4. f[i] \in ToSet(<<f[i], g[i]>>) /\ g[i] \in ToSet(<<f[i], g[i]>>)
      BY ONLY <3>3, PairOf
    <3> QED
      BY <3>2, <3>3, <3>4, Zenon
  <2> QED
    BY <2>5, <2>6, <2>7 DEF flat
<1>10. Commits \in Seq(Deleting) /\ ToSet(Commits) = {cm} /\ Len(Commits) = 1 /\ Commits[1] = cm
  <2>1. cm \in Deleting /\ Commits = <<cm>>
    BY DEF Commits, Deleting
  <2> HIDE DEF cm
  <2> QED
    BY <2>1 DEF ToSet
<1>11. flat \in Seq(Deleting) /\ \A x \in ToSet(flat) : x \in A
  <2>1. A \subseteq Deleting
    OBVIOUS
  <2> HIDE DEF A, flat
  <2> QED
    BY <1>9, <2>1, SeqOfMore, SetOfSeq
<1> HIDE DEF flat, cm
<1>12. /\ new \in Seq(Deleting) /\ Len(new) = Len(flat) + 1 /\ ToSet(new) = ToSet(flat) \cup {cm}
       /\ \A k \in 1..Len(flat) : new[k] = flat[k]
  <2>1. /\ flat \o Commits \in Seq(Deleting) /\ Len(flat \o Commits) = Len(flat) + Len(Commits)
        /\ ToSet(flat \o Commits) = ToSet(flat) \cup ToSet(Commits)
        /\ \A k \in 1..Len(flat) : (flat \o Commits)[k] = flat[k]
    <3>1. flat \in Seq(Deleting) /\ Commits \in Seq(Deleting)
      BY <1>10, <1>11
    <3> QED
      BY ONLY <3>1, SetOfConcat
  <2>2. new = flat \o Commits
    BY <1>4, Zenon
  <2> HIDE DEF new
  <2> QED
    BY <1>10, <2>1, <2>2
<1> HIDE DEF new
<1>13. \A k \in 1..Len(new) : new[k].do = "commit" => k = Len(new)
  <2> SUFFICES ASSUME NEW k \in 1..Len(new), k # Len(new) PROVE new[k].do # "commit"
    OBVIOUS
  <2>1. Len(flat) \in Nat
    BY <1>11
  <2>2. k \in 1..Len(flat) /\ new[k] = flat[k]
    BY <1>12, <2>1
  <2>3. flat[k] \in A
    BY <1>11, <2>2, SetOfSeq
  <2> QED
    BY <2>2, <2>3
<1>14. ~Lists(new)
  BY <1>11, <1>12 DEF Lists, cm
<1>15. ASSUME NEW e \in PrivilegeRows, Live(rows[e]), rows[e].group = m
       PROVE  Leaves(Over(rows, p), new, rows[e].name)
  <2>1. PICK i \in 1..n : e = s[i]
    BY <1>4, <1>6, <1>7, <1>15
  <2> QED
    BY <1>9, <1>12, <2>1 DEF Leaves
<1>16. \A e \in Entry : p[e] = None
  BY <1>5, <1>7
<1>17. Disposal(rows, p, new, m)
  BY <1>12, <1>13, <1>14, <1>15, <1>16 DEF Disposal
<1> QED
  BY <1>4, <1>17 DEF new, flat

(* All grants of a code are listed.                                        *)
LEMMA DisposalGrants ==
    ASSUME NEW rows, NEW p, NEW todo, NEW m \in Module, Disposal(rows, p, todo, m),
           todo # <<>>, todo[1].do = "grants",
           NEW n \in Nat, NEW s \in [1..n -> Roles],
           \A i \in 1..n : <<s[i], todo[1].code>> \in RoleLink,
           \A h \in Roles : <<h, todo[1].code>> \in Link /\ Live(Over(rows, p)[<<h, todo[1].code>>]) =>
             \E i \in 1..n : h = s[i],
           NEW seqs, seqs = [i \in 1..n |-> Ungrant(<<s[i], todo[1].code>>)]
    PROVE  Disposal(rows, p, FlattenSeq(seqs) \o Tail(todo), m)
<1> DEFINE code == todo[1].code
           A == [do : {"mapping", "unlink", "revoke"}, link : {l \in RoleLink : l[2] = code}]
           flat == FlattenSeq(seqs)
           rest == Tail(todo)
           new == flat \o rest
           view == Over(rows, p)
<1>1. todo \in Seq(Deleting) /\ \A k \in 1..Len(todo) : todo[k].do = "commit" => k = Len(todo)
  BY DEF Disposal
<1>2. /\ rest \in Seq(Deleting) /\ ToSet(todo) = {todo[1]} \cup ToSet(rest)
      /\ Len(rest) = Len(todo) - 1 /\ Len(todo) \in Nat /\ \A k \in 1..Len(rest) : rest[k] = todo[k + 1]
      /\ todo[1] \in Deleting
  BY <1>1, SetOfTail
<1>3. ASSUME NEW i \in 1..n
      PROVE  seqs[i] \in Seq(A) /\ [do |-> "unlink", link |-> <<s[i], code>>] \in ToSet(seqs[i])
  <2> DEFINE l == <<s[i], code>>
             a == [do |-> "mapping", link |-> l]
             b == [do |-> "unlink", link |-> l]
             d == [do |-> "revoke", link |-> l]
  <2>1. l \in RoleLink /\ l[2] = code /\ seqs[i] = <<a, b, d>>
    BY DEF Ungrant
  <2> HIDE DEF l
  <2>2. a \in A /\ b \in A /\ d \in A
    BY <2>1
  <2> HIDE DEF a, b, d, A
  <2> DEFINE t == <<a, b, d>>
  <2>3. t \in Seq(A) /\ Len(t) = 3 /\ t[2] = b
    BY <2>2
  <2>4. seqs[i] = t
    BY <2>1
  <2>5. b \in ToSet(t)
    <3>1. 2 \in 1..Len(t)
      BY <2>3
    <3> HIDE DEF t
    <3> QED
      BY <2>3, <3>1, SetOfSeq
  <2> HIDE DEF t
  <2> QED
    BY <2>3, <2>4, <2>5 DEF b, l
<1>4. /\ flat \in Seq(A)
      /\ \A i \in 1..n : [do |-> "unlink", link |-> <<s[i], code>>] \in ToSet(flat)
  <2>1. seqs \in [1..n -> Seq(A)]
    BY <1>3
  <2> HIDE DEF A
  <2>2. /\ FlattenSeq(seqs) \in Seq(A)
        /\ \A i \in 1..n : ToSet(seqs[i]) \subseteq ToSet(FlattenSeq(seqs))
    BY <2>1, FlattenAll
  <2> QED
    BY <1>3, <2>2
<1>5. flat \in Seq(Deleting) /\ \A x \in ToSet(flat) : x \in A
  <2>1. A \subseteq Deleting
    BY DEF Deleting
  <2> HIDE DEF A, flat
  <2> QED
    BY <1>4, <2>1, SeqOfMore, SetOfSeq
<1> HIDE DEF flat, rest
<1>6. /\ new \in Seq(Deleting) /\ Len(new) = Len(flat) + Len(rest)
      /\ ToSet(new) = ToSet(flat) \cup ToSet(rest)
      /\ \A k \in 1..Len(flat) : new[k] = flat[k]
      /\ \A k \in 1..Len(rest) : new[Len(flat) + k] = rest[k]
  <2>1. flat \in Seq(Deleting) /\ rest \in Seq(Deleting)
    BY <1>2, <1>5
  <2> QED
    BY ONLY <2>1, SetOfConcat
<1> HIDE DEF new
<1>7. ASSUME NEW k \in 1..Len(new), new[k].do = "commit" PROVE k = Len(new)
  <2>1. Len(flat) \in Nat /\ Len(rest) \in Nat
    BY <1>2, <1>5
  <2>2. k \notin 1..Len(flat)
    <3> SUFFICES ASSUME k \in 1..Len(flat) PROVE FALSE
      OBVIOUS
    <3>1. flat[k] \in A
      BY <1>5, SetOfSeq
    <3> QED
      BY <1>6, <1>7, <3>1
  <2>3. PICK j \in 1..Len(rest) : k = Len(flat) + j
    <3>1. k - Len(flat) \in 1..Len(rest) /\ k = Len(flat) + (k - Len(flat))
      BY <1>6, <2>1, <2>2
    <3> QED
      BY <3>1
  <2>4. j + 1 \in 1..Len(todo) /\ todo[j + 1].do = "commit"
    BY <1>2, <1>6, <1>7, <2>3
  <2> QED
    BY <1>1, <1>2, <1>6, <2>1, <2>3, <2>4
<1>8. ~Lists(todo) /\ ~Lists(new)
  <2>1. ~Lists(todo)
    <3> SUFFICES ASSUME Lists(todo) PROVE FALSE
      OBVIOUS
    <3>1. todo = ModuleDeletion(m) \o Commits
      BY DEF Disposal
    <3>2. (ModuleDeletion(m) \o Commits)[1] = [do |-> "list", module |-> m, then |-> "delete"]
      BY UpdatingShape
    <3>3. todo[1] = [do |-> "list", module |-> m, then |-> "delete"]
      BY <3>1, <3>2, Zenon
    <3> QED
      BY <3>3
  <2> QED
    BY <1>2, <1>5, <1>6, <2>1 DEF Lists
<1>9. todo[1] = [do |-> "grants", code |-> code] /\ code \in Name
  BY <1>2 DEF Deleting
<1> HIDE DEF code
<1>10. ASSUME NEW c, Leaves(view, todo, c) PROVE Leaves(view, new, c)
  <2>1. ~Has(view, "privilege", c, {}) \/ [do |-> "dropCode", code |-> c] \in ToSet(new)
    BY <1>2, <1>6, <1>10 DEF Leaves
  <2>2. CASE c # code
    <3>1. [do |-> "grants", code |-> c] # todo[1] /\ \A l : [do |-> "unlink", link |-> l] # todo[1]
      BY <1>9, <2>2
    <3> QED
      BY <1>2, <1>6, <1>10, <2>1, <3>1 DEF Leaves
  <2>3. CASE c = code
    <3>1. ASSUME NEW l \in RoleLink, l[2] = c, Live(view[l])
          PROVE  [do |-> "unlink", link |-> l] \in ToSet(new)
      <4>1. l \in Link /\ l = <<l[1], c>> /\ l[1] \in Roles
        BY <3>1, RowFacts DEF RoleLink
      <4>2. PICK k \in 1..n : l[1] = s[k]
        BY <2>3, <3>1, <4>1 DEF code
      <4> QED
        BY <1>4, <1>6, <2>3, <4>1, <4>2
    <3> QED
      BY <2>1, <3>1 DEF Leaves
  <2> QED
    BY <2>2, <2>3
<1>11. \A e \in PrivilegeRows : Live(rows[e]) /\ rows[e].group = m => Leaves(view, new, rows[e].name)
  BY <1>8, <1>10 DEF Disposal, view
<1>12. \A e \in Entry : p[e] # None => ~Live(p[e]) /\ p[e].name = rows[e].name
  BY DEF Disposal
<1>13. Disposal(rows, p, new, m)
  BY <1>6, <1>7, <1>8, <1>11, <1>12 DEF Disposal, view
<1> QED
  BY <1>13 DEF new, flat, rest
-----------------------------------------------------------------------------
(* The unique index of privileges, whatever the requests do.               *)

Indexed ==
    /\ Unique(db) /\ \A r \in Request : Unique(Over(db, pend[r]))
    /\ \A r, s \in Request : r # s => Separate(pend[r], pend[s])

LEMMA IndexedSame ==
    ASSUME Indexed, db' = db, pend' = pend
    PROVE  Indexed'
BY DEF Indexed

(* r holds nothing any more.                                               *)
LEMMA IndexedAnew ==
    ASSUME PrivilegesInv, Indexed, NEW r \in Request, Unique(db'),
           pend' = [pend EXCEPT ![r] = NoWrites],
           \A s \in Request \ {r} : Unique(Over(db', pend[s]))
    PROVE  Indexed'
<1>1. pend'[r] = NoVersions /\ \A s \in Request \ {r} : pend'[s] = pend[s]
  BY VersionFacts DEF PrivilegesInv
<1>2. ASSUME NEW s \in Request PROVE Unique(Over(db', pend'[s]))
  <2>1. CASE s = r
    <3>1. Unique(Over(db', NoVersions))
      BY NothingHeld
    <3> QED
      BY <1>1, <2>1, <3>1
  <2>2. CASE s # r
    <3>1. pend'[s] = pend[s] /\ Unique(Over(db', pend[s]))
      BY <1>1, <2>2
    <3> QED
      BY <3>1
  <2> QED
    BY <2>1, <2>2
<1>3. ASSUME NEW s \in Request, NEW t \in Request, s # t PROVE Separate(pend'[s], pend'[t])
  <2>1. CASE s = r \/ t = r
    BY <1>1, <2>1, NothingHeld
  <2>2. CASE s # r /\ t # r
    <3>1. pend'[s] = pend[s] /\ pend'[t] = pend[t]
      BY <1>1, <2>2
    <3> QED
      BY <1>3, <3>1 DEF Indexed
  <2> QED
    BY <2>1, <2>2
<1> QED
  BY <1>2, <1>3 DEF Indexed

LEMMA IndexedAbandoned ==
    ASSUME PrivilegesInv, Indexed, NEW r \in Request, Abandon(r)
    PROVE  Indexed'
<1>1. db' = db /\ pend' = [pend EXCEPT ![r] = NoWrites]
  BY DEF Abandon, Fail, DiscardWrites
<1>2. Unique(db') /\ \A s \in Request \ {r} : Unique(Over(db', pend[s]))
  BY <1>1 DEF Indexed
<1> QED
  BY <1>1, <1>2, IndexedAnew

LEMMA IndexedCommitted ==
    ASSUME PrivilegesInv, Indexed, NEW r \in Request, CommitWrites(r)
    PROVE  Indexed' /\ db' = Over(db, pend[r])
<1>1. db' = Over(db, pend[r])
  BY VersionFacts DEF CommitWrites, Over
<1>2. pend' = [pend EXCEPT ![r] = NoWrites]
  BY DEF CommitWrites
<1>3. Unique(db')
  BY <1>1 DEF Indexed
<1>4. ASSUME NEW s \in Request \ {r} PROVE Unique(Over(db', pend[s]))
  <2>1. Separate(pend[s], pend[r]) /\ Unique(Over(db, pend[s])) /\ Unique(Over(db, pend[r]))
    BY DEF Indexed
  <2>2. Unique(Over(Over(db, pend[r]), pend[s]))
    BY <2>1, UniqueBeside
  <2> QED
    BY <1>1, <2>2
<1> QED
  BY <1>1, <1>2, <1>3, <1>4, IndexedAnew

(* A version x of a row that nobody else holds is written, or of a pair.   *)
LEMMA IndexedWritten ==
    ASSUME PrivilegesInv, Indexed, NEW r \in Request,
           NEW k, NEW x, x # None, db' = db, pend' = [pend EXCEPT ![r][k] = x],
           k \in Entry => \A s \in Request \ {r} : ~Holds(s, k),
           k \in PrivilegeRows /\ Live(x) =>
             /\ \A o \in PrivilegeRows :
                  Live(Over(db, pend[r])[o]) /\ Over(db, pend[r])[o].name = x.name => o = k
             /\ \A s \in Request \ {r}, o \in PrivilegeRows :
                  Holds(s, o) /\ Live(pend[s][o]) => pend[s][o].name # x.name
    PROVE  Indexed'
<1> DEFINE p == pend[r]
           q == [pend[r] EXCEPT ![k] = x]
<1>1. pend'[r] = q /\ (\A s \in Request \ {r} : pend'[s] = pend[s])
      /\ DOMAIN pend' = Request /\ pend \in [Request -> [Rows -> AnyRow \cup {None}]]
  BY DEF PrivilegesInv
<1>2. p \in [Rows -> AnyRow \cup {None}] /\ q = [p EXCEPT ![k] = x]
  BY <1>1
<1>3. Unique(Over(db, p)) /\ \A s \in Request \ {r} : Separate(p, pend[s])
  BY DEF Indexed
<1>4. k \in PrivilegeRows /\ Live(x) =>
        \A o \in PrivilegeRows : Live(Over(db, p)[o]) /\ Over(db, p)[o].name = x.name => o = k
  OBVIOUS
<1> HIDE DEF p, q
<1>5. k \notin Rows => q = p
  BY <1>2
<1>6. Unique(Over(db, q))
  <2>1. CASE k \in Rows
    BY <1>2, <1>3, <1>4, <2>1, OneMoreVersion
  <2>2. CASE k \notin Rows
    BY <1>3, <1>5, <2>2
  <2> QED
    BY <2>1, <2>2
<1>7. ASSUME NEW s \in Request \ {r} PROVE Separate(q, pend[s])
  <2> DEFINE v == pend[s]
  <2>1. /\ k \in Entry => v[k] = None
        /\ k \in PrivilegeRows /\ Live(x) =>
             \A o \in PrivilegeRows : v[o] # None /\ Live(v[o]) => v[o].name # x.name
    BY DEF Holds
  <2>2. Separate(p, v)
    BY <1>3
  <2> HIDE DEF v
  <2>3. CASE k \in Rows
    <3>1. Separate(q, v)
      BY <1>2, <2>1, <2>2, <2>3, SeparateWritten
    <3> QED
      BY <3>1 DEF v
  <2>4. CASE k \notin Rows
    BY <1>5, <2>2, <2>4 DEF v
  <2> QED
    BY <2>3, <2>4
<1>8. ASSUME NEW s \in Request PROVE Unique(Over(db', pend'[s]))
  <2>1. CASE s = r
    BY <1>1, <1>6, <2>1
  <2>2. CASE s # r
    <3>1. pend'[s] = pend[s] /\ Unique(Over(db, pend[s]))
      BY <1>1, <2>2 DEF Indexed
    <3> QED
      BY <3>1
  <2> QED
    BY <2>1, <2>2
<1>9. ASSUME NEW s \in Request, NEW t \in Request, s # t PROVE Separate(pend'[s], pend'[t])
  <2>1. CASE s = r
    <3>1. pend'[s] = q /\ pend'[t] = pend[t] /\ Separate(q, pend[t])
      BY <1>1, <1>7, <1>9, <2>1
    <3> QED
      BY <3>1
  <2>2. CASE t = r
    <3>1. pend'[t] = q /\ pend'[s] = pend[s] /\ Separate(q, pend[s])
      BY <1>1, <1>7, <1>9, <2>2
    <3>2. Separate(pend[s], q)
      BY <3>1, SeparateEither
    <3> QED
      BY <3>1, <3>2
  <2>3. CASE s # r /\ t # r
    <3>1. pend'[s] = pend[s] /\ pend'[t] = pend[t] /\ Separate(pend[s], pend[t])
      BY <1>1, <1>9, <2>3 DEF Indexed
    <3> QED
      BY <3>1
  <2> QED
    BY <2>1, <2>2, <2>3
<1> QED
  BY <1>8, <1>9 DEF Indexed

LEMMA IndexedStored ==
    ASSUME PrivilegesInv, Indexed, NEW r \in Request, NEW e \in Entry, NEW x \in EntryRow, Store(r, e, x),
           ~(Live(x) /\ Taken(r, e, x.name))
    PROVE  Indexed'
<1>1. ~Undecided(r, e, x.name) /\ db' = db /\ pend' = [pend EXCEPT ![r][e] = x]
  BY DEF Store
<1>2. x # None
  BY PrivilegesAssumption
<1>3. \A s \in Request \ {r} : ~Holds(s, e)
  BY <1>1 DEF Undecided
<1>4. ASSUME e \in PrivilegeRows, Live(x)
      PROVE  /\ \A o \in PrivilegeRows :
                  Live(Over(db, pend[r])[o]) /\ Over(db, pend[r])[o].name = x.name => o = e
             /\ \A s \in Request \ {r}, o \in PrivilegeRows :
                  Holds(s, o) /\ Live(pend[s][o]) => pend[s][o].name # x.name
  <2>1. \A o \in Entry : KindOf[o] = KindOf[e] /\ Live(Over(db, pend[r])[o])
                           /\ Over(db, pend[r])[o].name = x.name => o \in Named(r, KindOf[e], x.name)
    BY FoundByName
  <2>2. \A o \in Named(r, KindOf[e], x.name) : o = e
    BY <1>4 DEF Taken
  <2>3. \A s \in Request \ {r}, o \in PrivilegeRows :
          Holds(s, o) /\ Live(pend[s][o]) => pend[s][o].name # x.name
    BY <1>1, <1>4 DEF Undecided, PrivilegeRows
  <2> QED
    BY <1>4, <2>1, <2>2, <2>3 DEF PrivilegeRows
<1> QED
  BY <1>1, <1>2, <1>3, <1>4, IndexedWritten

(* What is deleted is under the index no more, and no pair ever is.        *)
LEMMA IndexedMarked ==
    ASSUME PrivilegesInv, Indexed, NEW r \in Request, NEW k, NEW x, WriteRow(r, k, x), x # None,
           k \notin Entry \/ ~Live(x)
    PROVE  Indexed'
<1>1. ~HeldByOther(r, k) /\ db' = db /\ pend' = [pend EXCEPT ![r][k] = x]
  BY DEF WriteRow
<1>2. \A s \in Request \ {r} : ~Holds(s, k)
  BY <1>1 DEF HeldByOther
<1>3. ~(k \in PrivilegeRows /\ Live(x))
  BY DEF PrivilegeRows
<1> QED
  BY <1>1, <1>2, <1>3, IndexedWritten

(* What reads, and a connection that is lost, leaves both as they are.     *)
LEMMA IndexedReads ==
    ASSUME PrivilegesInv, Indexed, NEW r \in Request,
           \/ Arrive(r) \/ FindOwner(r) \/ EnsureEntry(r) \/ RefuseTaken(r) \/ ReloadEntry(r)
           \/ LookForLink(r) \/ FindMapping(r) \/ RevokeSessions(r) \/ FindSetRow(r)
           \/ ListModule(r) \/ ListGrants(r) \/ ReadCodes(r) \/ IssueToken(r) \/ ConnectionLost(r)
    PROVE  Indexed'
<1>1. CASE Arrive(r) \/ FindOwner(r) \/ EnsureEntry(r) \/ RefuseTaken(r)
  <2>1. (db' = db /\ pend' = pend) \/ Abandon(r)
    BY <1>1 DEF Arrive, FindOwner, EnsureEntry, RefuseTaken, Unwritten, Continue
  <2> QED
    BY <2>1, IndexedSame, IndexedAbandoned
<1>2. CASE ReloadEntry(r) \/ LookForLink(r) \/ FindMapping(r) \/ RevokeSessions(r) \/ FindSetRow(r)
  <2>1. (db' = db /\ pend' = pend) \/ Abandon(r)
    BY <1>2 DEF ReloadEntry, LookForLink, FindMapping, RevokeSessions, FindSetRow, Unwritten, Continue
  <2> QED
    BY <2>1, IndexedSame, IndexedAbandoned
<1>3. CASE ListModule(r) \/ ListGrants(r) \/ ReadCodes(r) \/ IssueToken(r) \/ ConnectionLost(r)
  <2>1. (db' = db /\ pend' = pend) \/ Abandon(r)
    BY <1>3 DEF ListModule, ListGrants, ReadCodes, IssueToken, ConnectionLost, Unwritten, Read
  <2> QED
    BY <2>1, IndexedSame, IndexedAbandoned
<1> QED
  BY <1>1, <1>2, <1>3

(* A row that is marked as deleted.                                        *)
LEMMA MarkedDeleted ==
    ASSUME PrivilegesInv, NEW r \in Request, NEW k \in Rows
    PROVE  /\ [View(r, k) EXCEPT !.state = "deleted"] \in AnyRow
           /\ [View(r, k) EXCEPT !.state = "deleted"] # None
           /\ ~Live([View(r, k) EXCEPT !.state = "deleted"])
           /\ k \in Entry => [View(r, k) EXCEPT !.state = "deleted"].name = View(r, k).name
<1> DEFINE y == View(r, k)
           x == [y EXCEPT !.state = "deleted"]
<1>1. y \in EntryRow \/ y \in LinkRow
  BY ViewTyped DEF RowType
<1>2. k \in Entry => y \in EntryRow
  BY ViewTyped, RowFacts
<1> HIDE DEF y
<1>3. x \in AnyRow
  BY <1>1, DeletedTyped DEF AnyRow
<1>4. x.state = "deleted"
  BY <1>1 DEF EntryRow, LinkRow
<1>5. k \in Entry => x.name = y.name
  BY <1>2 DEF EntryRow
<1>6. None \notin AnyRow
  BY PrivilegesAssumption DEF AnyRow
<1> HIDE DEF x
<1>7. x # None /\ ~Live(x)
  BY <1>3, <1>4, <1>6 DEF Live
<1> QED
  BY <1>3, <1>5, <1>7 DEF x, y

LEMMA IndexedEntries ==
    ASSUME PrivilegesInv, Indexed, NEW r \in Request, InsertEntry(r) \/ EditEntry(r) \/ DropEntry(r)
    PROVE  Indexed'
<1>1. CASE Abandon(r)
  BY <1>1, IndexedAbandoned
<1>2. CASE InsertEntry(r) /\ ~Abandon(r)
  <2> DEFINE e == CHOOSE k \in Fresh(Item(r).kind) : TRUE
             x == [state |-> "live", name |-> Item(r).name, group |-> Item(r).group]
  <2>1. pc[r] = "insert" /\ Running(r) /\ Item(r).do \in {"ensure", "insert"} /\ Fresh(Item(r).kind) # {}
    BY <1>2, AtStep DEF InsertEntry
  <2>2. e \in Entry
    BY <2>1 DEF Fresh
  <2>3. ~Taken(r, e, Item(r).name) /\ Store(r, e, x)
    BY <1>2 DEF InsertEntry
  <2>4. x \in EntryRow /\ x.name = Item(r).name
    BY <2>1, ItemShape DEF EntryRow, State
  <2> HIDE DEF e, x
  <2> QED
    BY <2>2, <2>3, <2>4, IndexedStored
<1>3. CASE EditEntry(r) /\ ~Abandon(r)
  <2> DEFINE i == Item(r)
             x == View(r, i.row)
             y == [x EXCEPT !.name = IF i.name = Same THEN @ ELSE i.name,
                            !.group = IF i.group = Same THEN @ ELSE i.group]
  <2>1. pc[r] = "edit" /\ Running(r) /\ Item(r).do = "edit"
    BY <1>3, AtStep DEF EditEntry
  <2>2. Store(r, i.row, y) /\ ~(Live(y) /\ Taken(r, i.row, y.name))
    BY <1>3 DEF EditEntry
  <2>3. i.row \in Entry /\ i.name \in Name \cup {Same} /\ i.group \in Module \cup {Same}
    BY <2>1, ItemShape
  <2>4. x \in EntryRow
    BY <2>3, RowFacts, ViewTyped
  <2>5. y \in EntryRow
    <3> HIDE DEF x, i
    <3>1. [x EXCEPT !.name = IF i.name = Same THEN x.name ELSE i.name,
                    !.group = IF i.group = Same THEN x.group ELSE i.group] \in EntryRow
      BY <2>3, <2>4 DEF EntryRow
    <3> QED
      BY <3>1
  <2> HIDE DEF y, x, i
  <2> QED
    BY <2>2, <2>3, <2>5, IndexedStored
<1>4. CASE DropEntry(r) /\ ~Abandon(r)
  <2> DEFINE e == Item(r).row
             x == [View(r, e) EXCEPT !.state = "deleted"]
  <2>1. pc[r] = "drop" /\ Running(r) /\ Item(r).do = "drop"
    BY <1>4, AtStep DEF DropEntry
  <2>2. e \in Entry /\ e \in Rows
    BY <2>1, ItemShape, RowFacts
  <2>3. WriteRow(r, e, x)
    BY <1>4 DEF DropEntry
  <2>4. x # None /\ ~Live(x)
    <3> HIDE DEF e
    <3> QED
      BY <2>2, MarkedDeleted
  <2> HIDE DEF e, x
  <2> QED
    BY <2>3, <2>4, IndexedMarked
<1> QED
  BY <1>1, <1>2, <1>3, <1>4

LEMMA IndexedPairs ==
    ASSUME PrivilegesInv, Indexed, NEW r \in Request,
           Attach(r) \/ DeleteMapping(r) \/ TouchSetRow(r) \/ DropSetRow(r)
    PROVE  Indexed'
<1>1. CASE Abandon(r)
  BY <1>1, IndexedAbandoned
<1>2. CASE Attach(r) /\ ~Abandon(r)
  <2> DEFINE k == HeldLink(r)
             x == [state |-> "live", by |-> r]
  <2>1. pc[r] = "attach" /\ Running(r) /\ Item(r).do = "link"
    BY <1>2, AtStep DEF Attach
  <2>2. k \notin Entry
    BY <2>1, ItemShape, HolderTyped, RowFacts DEF HeldLink
  <2>3. WriteRow(r, k, x)
    BY <1>2 DEF Attach
  <2>4. x # None
    BY PrivilegesAssumption DEF LinkRow, State
  <2> HIDE DEF k, x
  <2> QED
    BY <2>2, <2>3, <2>4, IndexedMarked
<1>3. CASE (DeleteMapping(r) \/ DropSetRow(r)) /\ ~Abandon(r)
  <2> DEFINE k == Item(r).link
             x == [View(r, k) EXCEPT !.state = "deleted"]
  <2>1. Running(r) /\ Item(r).do \in {"unlink", "unlinkRow"}
    BY <1>3, AtStep DEF DeleteMapping, DropSetRow
  <2>2. k \in Rows
    BY <2>1, ItemShape, RowFacts
  <2>3. WriteRow(r, k, x)
    BY <1>3 DEF DeleteMapping, DropSetRow
  <2>4. x # None /\ ~Live(x)
    <3> HIDE DEF k
    <3> QED
      BY <2>2, MarkedDeleted
  <2> HIDE DEF k, x
  <2> QED
    BY <2>3, <2>4, IndexedMarked
<1>4. CASE TouchSetRow(r)
  <2> DEFINE k == Item(r).link
             x == View(r, k)
  <2>1. pc[r] = "touch" /\ Running(r) /\ Item(r).do = "touch"
    BY <1>4, AtStep DEF TouchSetRow
  <2>2. k \in Link /\ k \in Rows /\ k \notin Entry
    BY <2>1, ItemShape, RowFacts
  <2>3. WriteRow(r, k, x) \/ (db' = db /\ pend' = pend)
    BY <1>4 DEF TouchSetRow, Unwritten
  <2>4. x # None
    <3> HIDE DEF k
    <3>1. x \in AnyRow
      BY <2>2, ViewTyped, RowFacts
    <3> QED
      BY <3>1, VersionFacts
  <2> HIDE DEF k, x
  <2> QED
    BY <2>2, <2>3, <2>4, IndexedMarked, IndexedSame
<1> QED
  BY <1>1, <1>2, <1>3, <1>4

LEMMA IndexedDropsCode ==
    ASSUME PrivilegesInv, Indexed, NEW r \in Request, DropCode(r)
    PROVE  Indexed'
<1> DEFINE found == Named(r, "privilege", Item(r).code)
<1>1. CASE db' = db /\ pend' = pend
  BY <1>1, IndexedSame
<1>2. CASE ~(db' = db /\ pend' = pend)
  <2>1. PICK e \in found : WriteRow(r, e, [View(r, e) EXCEPT !.state = "deleted"])
    BY <1>2 DEF DropCode, Unwritten
  <2>2. e \in Rows
    BY RowFacts DEF Named
  <2> DEFINE x == [View(r, e) EXCEPT !.state = "deleted"]
  <2>3. x # None /\ ~Live(x)
    BY <2>2, MarkedDeleted
  <2> HIDE DEF x, found
  <2> QED
    BY <2>1, <2>3, IndexedMarked DEF x
<1> QED
  BY <1>1, <1>2

LEMMA IndexedSteps == PrivilegesInv /\ Indexed /\ [Next]_vars => Indexed'
<1> SUFFICES ASSUME PrivilegesInv, Indexed, [Next]_vars PROVE Indexed'
  OBVIOUS
<1>1. CASE UNCHANGED vars
  BY <1>1, IndexedSame DEF vars
<1>2. CASE Next
  <2>1. ASSUME NEW r \in Request, Commit(r) PROVE Indexed'
    <3>1. CommitWrites(r)
      BY <2>1 DEF Commit, Finish
    <3> QED
      BY <3>1, IndexedCommitted
  <2> QED
    BY <1>2, <2>1, IndexedReads, IndexedEntries, IndexedPairs, IndexedDropsCode DEF Next
<1> QED
  BY <1>1, <1>2

LEMMA InitIsIndexed == Init => Indexed
<1> SUFFICES ASSUME Init PROVE Indexed
  OBVIOUS
<1>1. PICK start \in Starts : db = [k \in Rows |-> InitialRow(start, k)]
  BY DEF Init
<1>2. ASSUME NEW e \in PrivilegeRows, Live(db[e])
      PROVE  e \in DOMAIN start.entries /\ db[e] = start.entries[e]
  <2>1. e \in Entry /\ e \in Rows
    BY RowFacts DEF PrivilegeRows
  <2>2. db[e] = InitialRow(start, e)
    BY <1>1, <2>1
  <2> QED
    BY <1>2, <2>1, <2>2 DEF InitialRow, Live
<1>3. Unique(db)
  <2> SUFFICES ASSUME NEW e \in PrivilegeRows, NEW o \in PrivilegeRows,
                      Live(db[e]), Live(db[o]), db[e].name = db[o].name
               PROVE  e = o
    BY DEF Unique
  <2>1. KindOf[e] = KindOf[o]
    BY DEF PrivilegeRows
  <2> QED
    BY <1>2, <2>1, CatalogueAssumption
<1>4. \A r \in Request : pend[r] = NoVersions
  <2>1. PrivilegesInv
    BY InitHolds
  <2>2. \A r \in Request : ~Running(r)
    BY DEF Init, HandlersInit, Running
  <2> QED
    BY <2>1, <2>2, VersionFacts
<1>5. \A r \in Request : Unique(Over(db, pend[r]))
  BY <1>3, <1>4, NothingHeld
<1>6. \A r, s \in Request : Separate(pend[r], pend[s])
  BY <1>4, NothingHeld
<1> QED
  BY <1>3, <1>5, <1>6 DEF Indexed
-----------------------------------------------------------------------------
(* A deletion beside which roles' members switch and nothing is changed.   *)
Disposing(r) == Running(r) /\ job[r].op = "deleteModule" /\ beside[r] \subseteq {"switch"}

Alone ==
    \A r \in Request : Disposing(r) =>
        job[r].module \in Module /\ Disposal(db, pend[r], seen[r].todo, job[r].module)

Acts(r) ==
    \/ Arrive(r) \/ FindOwner(r) \/ EnsureEntry(r) \/ RefuseTaken(r) \/ InsertEntry(r)
    \/ ReloadEntry(r) \/ EditEntry(r) \/ DropEntry(r)
    \/ LookForLink(r) \/ Attach(r) \/ FindMapping(r) \/ DeleteMapping(r) \/ RevokeSessions(r)
    \/ FindSetRow(r) \/ TouchSetRow(r) \/ DropSetRow(r)
    \/ ListModule(r) \/ ListGrants(r) \/ DropCode(r) \/ ReadCodes(r) \/ IssueToken(r)
    \/ Commit(r) \/ ConnectionLost(r)

(* What a step of s leaves of another request.                             *)
Leaving(s) ==
    \A r \in Request \ {s} :
        /\ pend'[r] = pend[r] /\ seen'[r] = seen[r] /\ pc'[r] = pc[r] /\ job'[r] = job[r]
        /\ Running(r) => beside[r] \subseteq beside'[r]

LEMMA AbandonLeaves ==
    ASSUME PrivilegesInv, NEW s \in Request, Abandon(s)
    PROVE  Leaving(s) /\ db' = db /\ pc'[s] = "failed"
BY DEF Abandon, Fail, DiscardWrites, End, Goto, Forget, Leaving, PrivilegesInv

LEMMA InsertionLeaves ==
    ASSUME PrivilegesInv, NEW s \in Request, NEW steps, NEW holder, Insertion(s, steps, holder),
           \A r \in Request \ {s} : pend'[r] = pend[r]
    PROVE  Leaving(s) /\ job' = job /\ beside' = beside
BY DEF Insertion, Keep, Goto, Calm, Leaving, PrivilegesInv

LEMMA ContinueLeaves ==
    ASSUME PrivilegesInv, NEW s \in Request, NEW label, Continue(s, label), Calm
    PROVE  Leaving(s) /\ job' = job /\ beside' = beside /\ db' = db
BY DEF Continue, Goto, Calm, Leaving, PrivilegesInv

LEMMA WriteLeaves ==
    ASSUME PrivilegesInv, NEW s \in Request, NEW k, NEW x,
           WriteRow(s, k, x) \/ Store(s, k, x) \/ Unwritten
    PROVE  db' = db /\ \A r \in Request \ {s} : pend'[r] = pend[r]
BY DEF WriteRow, Store, Unwritten, PrivilegesInv

LEMMA ArriveLeaves ==
    ASSUME PrivilegesInv, NEW s \in Request, Arrive(s)
    PROVE  Leaving(s) /\ db' = db
<1> DEFINE others == {r \in Request \ {s} : Running(r)}
<1>1. PICK j \in Asked[s] :
        /\ job' = [job EXCEPT ![s] = j]
        /\ Keep(s, [todo |-> Agenda(j), holder |-> IF j.op = "grant" THEN j.holder ELSE None, codes |-> {}])
        /\ Goto(s, Head(Agenda(j)).do)
        /\ beside' = [r \in Request |-> IF r = s THEN {job[t].op : t \in others}
                                        ELSE IF r \in others THEN beside[r] \cup {j.op} ELSE {}]
  BY DEF Arrive
<1>2. db' = db /\ pend' = pend
  BY DEF Arrive
<1> QED
  BY <1>1, <1>2 DEF Keep, Goto, Leaving, PrivilegesInv

LEMMA CommitLeaves ==
    ASSUME PrivilegesInv, NEW s \in Request, Commit(s)
    PROVE  Leaving(s) /\ CommitWrites(s) /\ pc[s] = "commit"
<1>1. CommitWrites(s) /\ pc[s] = "commit"
  BY DEF Commit, Finish
<1>2. \A r \in Request \ {s} : pend'[r] = pend[r]
  BY <1>1 DEF CommitWrites, PrivilegesInv
<1>3. CASE Tail(seen[s].todo) = <<>>
  BY <1>1, <1>2, <1>3 DEF Commit, Finish, End, Goto, Forget, Leaving, PrivilegesInv
<1>4. CASE Tail(seen[s].todo) # <<>>
  BY <1>1, <1>2, <1>4, InsertionLeaves DEF Commit, Proceed
<1> QED
  BY <1>1, <1>3, <1>4

LEMMA ActLeaves ==
    ASSUME PrivilegesInv, NEW s \in Request, Acts(s)
    PROVE  /\ Leaving(s) /\ (db' = db \/ Commit(s))
           /\ Arrive(s) \/ Commit(s) \/ Abandon(s) \/ (job' = job /\ beside' = beside)
<1>1. CASE Abandon(s)
  BY <1>1, AbandonLeaves
<1>2. CASE Arrive(s)
  BY <1>2, ArriveLeaves
<1>3. CASE Commit(s)
  BY <1>3, CommitLeaves
<1>4. CASE ~Abandon(s) /\ (FindOwner(s) \/ EnsureEntry(s) \/ RefuseTaken(s) \/ InsertEntry(s))
  <2>1. \/ \E h : Insertion(s, <<>>, h) /\ (Unwritten \/ \E k, x : Store(s, k, x))
        \/ Continue(s, "insert") /\ Calm
    BY <1>4 DEF FindOwner, EnsureEntry, RefuseTaken, InsertEntry, Proceed
  <2> QED
    BY <2>1, InsertionLeaves, ContinueLeaves, WriteLeaves
<1>5. CASE ~Abandon(s) /\ (ReloadEntry(s) \/ EditEntry(s) \/ DropEntry(s))
  <2>1. \E steps, h : /\ Insertion(s, steps, h)
                      /\ Unwritten \/ \E k, x : Store(s, k, x) \/ WriteRow(s, k, x)
    BY <1>5 DEF ReloadEntry, EditEntry, DropEntry, Proceed
  <2> QED
    BY <2>1, InsertionLeaves, WriteLeaves
<1>6. CASE ~Abandon(s) /\ (LookForLink(s) \/ Attach(s) \/ FindMapping(s) \/ DeleteMapping(s))
  <2>1. \/ \E h : Insertion(s, <<>>, h) /\ (Unwritten \/ \E k, x : WriteRow(s, k, x))
        \/ Continue(s, "attach") /\ Calm
    BY <1>6 DEF LookForLink, Attach, FindMapping, DeleteMapping, Proceed
  <2> QED
    BY <2>1, InsertionLeaves, ContinueLeaves, WriteLeaves
<1>7. CASE ~Abandon(s) /\ (FindSetRow(s) \/ TouchSetRow(s) \/ DropSetRow(s))
  <2>1. \E h : Insertion(s, <<>>, h) /\ (Unwritten \/ \E k, x : WriteRow(s, k, x))
    BY <1>7 DEF FindSetRow, TouchSetRow, DropSetRow, Proceed
  <2> QED
    BY <2>1, InsertionLeaves, WriteLeaves
<1>8. CASE ~Abandon(s) /\ (ListModule(s) \/ ListGrants(s) \/ DropCode(s))
  <2>1. \E steps, h : Insertion(s, steps, h) /\ (Unwritten \/ \E k, x : WriteRow(s, k, x))
    BY <1>8 DEF ListModule, ListGrants, DropCode, Proceed
  <2> QED
    BY <2>1, InsertionLeaves, WriteLeaves
<1>9. CASE RevokeSessions(s) \/ IssueToken(s)
  BY <1>9 DEF RevokeSessions, IssueToken, Keep, Goto, Leaving, PrivilegesInv
<1>10. CASE ReadCodes(s)
  BY <1>10 DEF ReadCodes, Read, Keep, Goto, Calm, Leaving, PrivilegesInv
<1>11. CASE ConnectionLost(s)
  BY <1>1, <1>11 DEF ConnectionLost
<1> QED
  BY <1>1, <1>2, <1>3, <1>4, <1>5, <1>6, <1>7, <1>8, <1>9, <1>10, <1>11 DEF Acts

(* Another request's step leaves it alone.                                 *)
LEMMA AloneBeside ==
    ASSUME PrivilegesInv, Alone, NEW s \in Request, Acts(s), NEW r \in Request \ {s}, Disposing(r)'
    PROVE  job'[r].module \in Module /\ Disposal(db', pend'[r], seen'[r].todo, job'[r].module)
<1>1. /\ pend'[r] = pend[r] /\ seen'[r] = seen[r] /\ pc'[r] = pc[r] /\ job'[r] = job[r]
      /\ Running(r) => beside[r] \subseteq beside'[r]
  BY ActLeaves DEF Leaving
<1>2. Disposing(r) /\ Running(r)
  BY <1>1 DEF Disposing, Running
<1>3. db' = db
  <2> SUFFICES ASSUME Commit(s) PROVE db' = db
    BY ActLeaves
  <2>1. Running(s) /\ CommitWrites(s)
    BY CommitLeaves DEF Running
  <2>2. job[s].op \in beside[r]
    BY <1>2, <2>1 DEF PrivilegesInv
  <2>3. job[s].op = "switch"
    BY <1>2, <2>2 DEF Disposing
  <2>4. pend[s] = NoVersions
    BY <2>3, VersionFacts
  <2>5. db \in [Rows -> AnyRow] /\ Row = Rows
    BY VersionFacts DEF PrivilegesInv
  <2>6. \A k \in Rows : View(s, k) = db[k]
    BY <2>4 DEF View, NoVersions
  <2> QED
    BY <2>1, <2>5, <2>6 DEF CommitWrites
<1> QED
  BY <1>1, <1>2, <1>3 DEF Alone

(* Its own steps.                                                          *)

LEMMA DisposingItem ==
    ASSUME PrivilegesInv, Alone, NEW r \in Request, Disposing(r)
    PROVE  LET todo == seen[r].todo IN
           /\ job[r].module \in Module /\ Disposal(db, pend[r], todo, job[r].module)
           /\ todo # <<>> /\ todo[1] = Item(r) /\ Item(r) \in Deleting
           /\ Item(r).do \in {"list", "grants", "dropCode", "mapping", "unlink", "revoke", "commit"}
           /\ Item(r).do = pc[r]
           /\ Item(r).do = "commit" => Tail(todo) = <<>>
<1> DEFINE todo == seen[r].todo
           m == job[r].module
<1>1. Running(r) /\ m \in Module /\ Disposal(db, pend[r], todo, m)
  BY DEF Alone, Disposing
<1>2. /\ todo # <<>> /\ todo \in Todo(job[r].op)
      /\ \/ pc[r] = Item(r).do
         \/ <<Item(r).do, pc[r]>> \in {<<"ensure", "insert">>, <<"link", "attach">>, <<"codes", "issue">>}
  BY <1>1, OnItem
<1>3. /\ todo \in Seq(Deleting)
      /\ \A n \in 1..Len(todo) : todo[n].do = "commit" => n = Len(todo)
  BY <1>1 DEF Disposal
<1>4. /\ Len(todo) \in Nat /\ Len(todo) >= 1 /\ Tail(todo) \in Seq(Deleting)
      /\ Len(Tail(todo)) = Len(todo) - 1 /\ todo[1] \in Deleting /\ Item(r) = todo[1]
  BY <1>2, <1>3, SetOfTail DEF Item
<1>5. Item(r).do \in {"list", "grants", "dropCode", "mapping", "unlink", "revoke", "commit"}
  BY <1>4 DEF Deleting
<1>6. ASSUME Item(r).do = "commit" PROVE Tail(todo) = <<>>
  <2>1. 1 \in 1..Len(todo)
    BY <1>4
  <2>2. Len(todo) = 1
    BY <1>3, <1>4, <1>6, <2>1
  <2> DEFINE t == Tail(todo)
  <2>3. t \in Seq(Deleting) /\ Len(t) = 0
    BY <1>4, <2>2
  <2> HIDE DEF t
  <2>4. t = <<>>
    BY <2>3
  <2> QED
    BY <2>4 DEF t
<1> QED
  BY <1>1, <1>2, <1>4, <1>5, <1>6

(* What it has still to do, and has written.                               *)
LEMMA DisposingInserts ==
    ASSUME PrivilegesInv, NEW r \in Request, Running(r), Item(r).do # "commit", NEW steps, NEW holder,
           Insertion(r, steps, holder)
    PROVE  seen'[r].todo = steps \o Tail(seen[r].todo) /\ job' = job
<1>1. seen[r] \in Work /\ seen \in [Request -> Seen]
  BY OnItem DEF PrivilegesInv
<1>2. seen' = [seen EXCEPT ![r] = [seen[r] EXCEPT !.todo = steps \o Tail(seen[r].todo), !.holder = holder]]
  BY DEF Insertion, Keep
<1> QED
  BY <1>1, <1>2 DEF Work, Insertion

LEMMA AloneReads ==
    ASSUME PrivilegesInv, Alone, NEW r \in Request, Disposing(r), ~Abandon(r),
           FindMapping(r) \/ RevokeSessions(r)
    PROVE  Disposal(db', pend'[r], seen'[r].todo, job[r].module)
<1> DEFINE todo == seen[r].todo
           p == pend[r]
           m == job[r].module
<1>1. Running(r) /\ m \in Module /\ Disposal(db, p, todo, m) /\ todo # <<>> /\ todo[1] = Item(r)
  BY DisposingItem DEF Disposing
<1>2. Item(r).do \in {"mapping", "revoke"}
  BY AtStep DEF FindMapping, RevokeSessions
<1>3. db' = db /\ pend' = pend
  BY DEF FindMapping, RevokeSessions, Unwritten
<1>4. seen'[r].todo = Tail(todo)
  <2>1. CASE FindMapping(r)
    <3>1. Insertion(r, <<>>, seen[r].holder)
      BY <2>1 DEF FindMapping, Proceed
    <3> QED
      BY <1>1, <1>2, <3>1, DisposingInserts, NoMoreSteps
  <2>2. CASE RevokeSessions(r)
    <3>1. seen[r] \in Work /\ seen \in [Request -> Seen]
      BY <1>1, OnItem DEF PrivilegesInv
    <3> QED
      BY <2>2, <3>1 DEF RevokeSessions, Keep, Work
  <2> QED
    BY <2>1, <2>2
<1> HIDE DEF todo, p, m
<1>5. Disposal(db, p, Tail(todo), m)
  <2>1. \A k \in Rows :
          \/ p[k] = p[k]
          \/ /\ p[k] # None /\ ~Live(p[k]) /\ (k \in Entry => p[k].name = Over(db, p)[k].name)
    OBVIOUS
  <2> QED
    BY <1>1, <1>2, <2>1, DisposalGoesOn
<1> QED
  BY <1>3, <1>4, <1>5 DEF p, m

LEMMA AloneLists ==
    ASSUME PrivilegesInv, Alone, NEW r \in Request, Disposing(r), ListModule(r), ~Abandon(r)
    PROVE  Disposal(db', pend'[r], seen'[r].todo, job[r].module)
<1> DEFINE todo == seen[r].todo
           p == pend[r]
           m == job[r].module
           rows == OfModule(r, Item(r).module)
<1>1. /\ Running(r) /\ m \in Module /\ Disposal(db, p, todo, m) /\ todo # <<>> /\ todo[1] = Item(r)
      /\ Item(r) \in Deleting
  BY DisposingItem DEF Disposing
<1>2. Item(r).do = "list"
  BY AtStep DEF ListModule
<1>3. PICK s \in SetToSeqs(rows) :
        /\ Insertion(r, FlattenSeq([i \in DOMAIN s |-> StepsFor(r, s[i], Item(r).then)]), seen[r].holder)
        /\ Unwritten
  BY DEF ListModule
<1>4. todo[1].then = "delete"
  BY <1>1, <1>2 DEF Deleting
<1> DEFINE n == Cardinality(rows)
           seqs == [i \in DOMAIN s |-> StepsFor(r, s[i], Item(r).then)]
<1>5. \A e \in rows : e \in Entry /\ View(r, e) = Over(db, p)[e]
  BY VersionFacts DEF OfModule
<1>6. \A e \in PrivilegeRows : Live(Over(db, p)[e]) /\ Over(db, p)[e].group = todo[1].module => e \in rows
  BY <1>1, VersionFacts DEF OfModule, PrivilegeRows
<1>7. rows \subseteq Entry
  BY <1>5
<1>8. /\ n \in Nat /\ s \in [1..n -> rows] /\ DOMAIN s = 1..n
      /\ \A e \in rows : \E i \in 1..n : e = s[i]
  <2> HIDE DEF rows
  <2> QED
    BY <1>7, OrderHasAll
<1>9. seen'[r].todo = FlattenSeq(seqs) \o Tail(todo) /\ db' = db /\ pend' = pend
  <2> DEFINE flat == FlattenSeq(seqs)
  <2>1. Insertion(r, flat, seen[r].holder) /\ Unwritten
    BY <1>3
  <2> HIDE DEF flat
  <2> QED
    BY <1>1, <1>2, <2>1, DisposingInserts DEF Unwritten, flat
<1> HIDE DEF n, rows
<1>10. s \in [1..n -> Entry] /\ \A i \in 1..n : View(r, s[i]) = Over(db, p)[s[i]]
  <2>1. \A i \in 1..n : s[i] \in rows
    BY <1>8
  <2> QED
    BY <1>5, <1>7, <1>8, <2>1
<1>11. seqs = [i \in 1..n |-> <<[do |-> "grants", code |-> Over(db, p)[s[i]].name],
                                [do |-> "dropCode", code |-> Over(db, p)[s[i]].name]>>]
  BY <1>1, <1>4, <1>8, <1>10 DEF StepsFor
<1>12. \A e \in PrivilegeRows : Live(Over(db, p)[e]) /\ Over(db, p)[e].group = todo[1].module =>
         \E i \in 1..n : e = s[i]
  BY <1>6, <1>8
<1>13. \A e \in Entry : db[e] \in EntryRow
  BY VersionFacts
<1> HIDE DEF seqs, todo, p, m
<1>14. Disposal(db, p, FlattenSeq(seqs) \o Tail(todo), m)
  BY <1>1, <1>2, <1>8, <1>10, <1>11, <1>12, <1>13, DisposalLists
<1> QED
  BY <1>9, <1>14 DEF p, m

LEMMA AloneListsGrants ==
    ASSUME PrivilegesInv, Alone, NEW r \in Request, Disposing(r), ListGrants(r)
    PROVE  Disposal(db', pend'[r], seen'[r].todo, job[r].module)
<1> DEFINE todo == seen[r].todo
           p == pend[r]
           m == job[r].module
           code == Item(r).code
           holders == GrantsOf(r, code)
<1>1. /\ Running(r) /\ m \in Module /\ Disposal(db, p, todo, m) /\ todo # <<>> /\ todo[1] = Item(r)
  BY DisposingItem DEF Disposing
<1>2. Item(r).do = "grants"
  BY AtStep DEF ListGrants
<1>3. PICK s \in SetToSeqs(holders) : Insertion(r, UngrantEach(r, s, code), seen[r].holder)
  BY DEF ListGrants
<1> DEFINE n == Cardinality(holders)
           seqs == [i \in DOMAIN s |-> Ungrant(<<s[i], code>>)]
<1>4. holders \subseteq Entry /\ \A h \in holders : h \in Roles /\ <<h, code>> \in RoleLink
  BY DEF GrantsOf, Roles, RoleLink
<1>5. \A h \in Roles : <<h, code>> \in Link /\ Live(Over(db, p)[<<h, code>>]) => h \in holders
  BY VersionFacts, RowFacts DEF GrantsOf
<1>6. /\ n \in Nat /\ s \in [1..n -> holders] /\ DOMAIN s = 1..n
      /\ \A h \in holders : \E i \in 1..n : h = s[i]
  <2> HIDE DEF holders
  <2> QED
    BY <1>4, OrderHasAll
<1>7. seen'[r].todo = FlattenSeq(seqs) \o Tail(todo) /\ db' = db /\ pend' = pend
  <2>1. UngrantEach(r, s, code) = FlattenSeq(seqs)
    BY DEF UngrantEach
  <2> DEFINE flat == FlattenSeq(seqs)
  <2>2. Insertion(r, flat, seen[r].holder) /\ Unwritten
    BY <1>3, <2>1 DEF ListGrants
  <2> HIDE DEF flat
  <2> QED
    BY <1>1, <1>2, <2>2, DisposingInserts DEF Unwritten, flat
<1>8. seqs = [i \in 1..n |-> Ungrant(<<s[i], code>>)]
  BY <1>6
<1> HIDE DEF n, holders, seqs, p, todo, m
<1>9. s \in [1..n -> Roles] /\ \A i \in 1..n : <<s[i], code>> \in RoleLink
  <2>1. \A i \in 1..n : s[i] \in holders
    BY <1>6
  <2> QED
    BY <1>4, <1>6, <2>1
<1>10. \A h \in Roles : <<h, todo[1].code>> \in Link /\ Live(Over(db, p)[<<h, todo[1].code>>]) =>
         \E i \in 1..n : h = s[i]
  BY <1>1, <1>5, <1>6
<1>11. /\ \A i \in 1..n : <<s[i], todo[1].code>> \in RoleLink
       /\ seqs = [i \in 1..n |-> Ungrant(<<s[i], todo[1].code>>)]
  BY <1>1, <1>8, <1>9
<1>12. Disposal(db, p, FlattenSeq(seqs) \o Tail(todo), m)
  BY <1>1, <1>2, <1>6, <1>9, <1>10, <1>11, DisposalGrants
<1> QED
  BY <1>7, <1>12 DEF p, m

LEMMA AloneUnlinks ==
    ASSUME PrivilegesInv, Alone, NEW r \in Request, Disposing(r), DeleteMapping(r), ~Abandon(r)
    PROVE  Disposal(db', pend'[r], seen'[r].todo, job[r].module)
<1> DEFINE todo == seen[r].todo
           p == pend[r]
           m == job[r].module
           k == Item(r).link
           x == [View(r, k) EXCEPT !.state = "deleted"]
           q == [p EXCEPT ![k] = x]
<1>1. /\ Running(r) /\ m \in Module /\ Disposal(db, p, todo, m) /\ todo # <<>> /\ todo[1] = Item(r)
  BY DisposingItem DEF Disposing
<1>2. Item(r).do = "unlink"
  BY AtStep DEF DeleteMapping
<1>3. WriteRow(r, k, x) /\ Insertion(r, <<>>, seen[r].holder)
  BY DEF DeleteMapping, Proceed
<1>4. k \in Rows /\ k \notin Entry
  BY <1>1, <1>2, ItemShape, RowFacts
<1>5. x # None /\ ~Live(x)
  <2> HIDE DEF k
  <2> QED
    BY <1>4, MarkedDeleted
<1>6. p \in [Rows -> AnyRow \cup {None}] /\ q = [p EXCEPT ![k] = x]
  BY VersionFacts
<1>7. db' = db /\ pend'[r] = q
  BY <1>3 DEF WriteRow, PrivilegesInv
<1>8. seen'[r].todo = Tail(todo)
  BY <1>1, <1>2, <1>3, DisposingInserts, NoMoreSteps
<1>9. k = todo[1].link
  BY <1>1
<1> HIDE DEF todo, p, m, k, x, q
<1>10. /\ \A o \in Rows : q[o] = IF o = k THEN x ELSE p[o]
       /\ \A o \in Rows : Over(db, q)[o] = IF o = k THEN x ELSE Over(db, p)[o]
  <2>1. \A o \in Rows : q[o] = IF o = k THEN x ELSE p[o]
    BY <1>4, <1>6
  <2> QED
    BY <1>5, <2>1 DEF Over
<1>11. \A o \in Rows :
         \/ q[o] = p[o]
         \/ /\ q[o] # None /\ ~Live(q[o]) /\ (o \in Entry => q[o].name = Over(db, p)[o].name)
  BY <1>4, <1>5, <1>10
<1>12. /\ todo[1].do \notin {"list", "grants"} /\ todo[1].do # "dropCode"
       /\ ~Live(Over(db, q)[todo[1].link])
  BY <1>1, <1>2, <1>4, <1>5, <1>9, <1>10
<1>13. Disposal(db, q, Tail(todo), m)
  BY <1>1, <1>11, <1>12, DisposalGoesOn
<1> QED
  BY <1>7, <1>8, <1>13 DEF m

LEMMA AloneDropsCode ==
    ASSUME PrivilegesInv, Indexed, Alone, NEW r \in Request, Disposing(r), DropCode(r)
    PROVE  Disposal(db', pend'[r], seen'[r].todo, job[r].module)
<1> DEFINE todo == seen[r].todo
           p == pend[r]
           m == job[r].module
           code == Item(r).code
           found == Named(r, "privilege", code)
<1>1. /\ Running(r) /\ m \in Module /\ Disposal(db, p, todo, m) /\ todo # <<>> /\ todo[1] = Item(r)
  BY DisposingItem DEF Disposing
<1>2. Item(r).do = "dropCode"
  BY AtStep DEF DropCode
<1>3. Insertion(r, <<>>, seen[r].holder)
  BY DEF DropCode, Proceed
<1>4. seen'[r].todo = Tail(todo)
  BY <1>1, <1>2, <1>3, DisposingInserts, NoMoreSteps
<1>5. /\ todo[1].do \notin {"list", "grants"} /\ todo[1].do # "unlink" /\ todo[1].code = code
  BY <1>1, <1>2
<1>6. CASE found = {} /\ Unwritten
  <2>1. ~Has(Over(db, p), "privilege", code, {})
    BY <1>6, FoundByName DEF Has
  <2>2. db' = db /\ pend'[r] = p
    BY <1>6 DEF Unwritten
  <2> HIDE DEF todo, p, m, code, found
  <2>3. \A o \in Rows :
          \/ p[o] = p[o]
          \/ /\ p[o] # None /\ ~Live(p[o]) /\ (o \in Entry => p[o].name = Over(db, p)[o].name)
    OBVIOUS
  <2>4. Disposal(db, p, Tail(todo), m)
    BY <1>1, <1>5, <2>1, <2>3, DisposalGoesOn
  <2> QED
    BY <1>4, <2>2, <2>4 DEF m
<1>7. CASE ~(found = {} /\ Unwritten)
  <2>1. PICK e \in found : WriteRow(r, e, [View(r, e) EXCEPT !.state = "deleted"])
    BY <1>7 DEF DropCode
  <2> DEFINE x == [View(r, e) EXCEPT !.state = "deleted"]
             q == [p EXCEPT ![e] = x]
  <2>2. /\ e \in PrivilegeRows /\ e \in Entry /\ e \in Rows /\ View(r, e).name = code
        /\ View(r, e) = Over(db, p)[e] /\ Live(Over(db, p)[e])
    BY FoundByName, VersionFacts DEF PrivilegeRows
  <2>3. x # None /\ ~Live(x) /\ x.name = View(r, e).name
    BY <2>2, MarkedDeleted
  <2>4. p \in [Rows -> AnyRow \cup {None}] /\ q = [p EXCEPT ![e] = x] /\ Unique(Over(db, p))
    BY VersionFacts DEF Indexed
  <2>5. db' = db /\ pend'[r] = q
    BY <2>1 DEF WriteRow, PrivilegesInv
  <2> HIDE DEF todo, p, m, code, found, x, q
  <2>6. /\ \A o \in Rows : q[o] = IF o = e THEN x ELSE p[o]
        /\ \A o \in Rows : Over(db, q)[o] = IF o = e THEN x ELSE Over(db, p)[o]
    <3>1. \A o \in Rows : q[o] = IF o = e THEN x ELSE p[o]
      BY <2>2, <2>4
    <3> QED
      BY <2>3, <3>1 DEF Over
  <2>7. \A o \in Rows :
          \/ q[o] = p[o]
          \/ /\ q[o] # None /\ ~Live(q[o]) /\ (o \in Entry => q[o].name = Over(db, p)[o].name)
    BY <2>2, <2>3, <2>6
  <2>8. ~Has(Over(db, q), "privilege", code, {})
    <3> SUFFICES ASSUME NEW o \in Entry, KindOf[o] = "privilege", Live(Over(db, q)[o]),
                        Over(db, q)[o].name = code
                 PROVE  FALSE
      BY DEF Has
    <3>1. o \in PrivilegeRows /\ o \in Rows
      BY RowFacts DEF PrivilegeRows
    <3>2. o # e /\ Over(db, p)[o] = Over(db, q)[o]
      BY <2>3, <2>6, <3>1
    <3> QED
      BY <2>2, <2>4, <3>1, <3>2 DEF Unique
  <2>9. Disposal(db, q, Tail(todo), m)
    BY <1>1, <1>5, <2>7, <2>8, DisposalGoesOn
  <2> QED
    BY <1>4, <2>5, <2>9 DEF m
<1> QED
  BY <1>6, <1>7

LEMMA AloneArrives ==
    ASSUME PrivilegesInv, NEW r \in Request, Arrive(r), Disposing(r)'
    PROVE  job'[r].module \in Module /\ Disposal(db', pend'[r], seen'[r].todo, job'[r].module)
<1>1. PICK j \in Asked[r] :
        /\ job' = [job EXCEPT ![r] = j]
        /\ Keep(r, [todo |-> Agenda(j), holder |-> IF j.op = "grant" THEN j.holder ELSE None, codes |-> {}])
  BY DEF Arrive
<1>2. pc[r] = "new" /\ db' = db /\ pend' = pend
  BY DEF Arrive
<1>3. pend'[r] = NoVersions
  <2>1. ~Running(r)
    BY <1>2 DEF Running
  <2> QED
    BY <1>2, <2>1, VersionFacts
<1>4. job'[r] = j /\ seen'[r].todo = Agenda(j)
  BY <1>1 DEF Keep, PrivilegesInv
<1>5. j.op = "deleteModule"
  BY <1>4 DEF Disposing
<1>6. j.module \in Module
  <2>1. j \in Job
    BY PrivilegesAssumption
  <2> QED
    BY <1>5, <2>1 DEF Job, CreateRole, CreatePrivilege, CreatePlatform, Rename, DropJob, GrantJob,
                      UngrantJob, SetLinkJob, ModuleJob, SwitchJob, SeedJob
<1>7. Agenda(j) = ModuleDeletion(j.module) \o Commits
  BY <1>5 DEF Agenda
<1>8. Disposal(db, NoVersions, Agenda(j), j.module)
  BY <1>6, <1>7, DisposalBegins
<1> QED
  BY <1>2, <1>3, <1>4, <1>6, <1>8

(* The request's own steps that a deletion never takes.                    *)
LEMMA DisposingActs ==
    ASSUME PrivilegesInv, Alone, NEW r \in Request, Disposing(r), Acts(r), ~Abandon(r)
    PROVE  \/ ListModule(r) \/ ListGrants(r) \/ DropCode(r) \/ FindMapping(r) \/ DeleteMapping(r)
           \/ RevokeSessions(r) \/ Commit(r)
<1>1. pc[r] \in {"list", "grants", "dropCode", "mapping", "unlink", "revoke", "commit"}
  BY DisposingItem
<1>2. ~(Arrive(r) \/ FindOwner(r) \/ EnsureEntry(r) \/ RefuseTaken(r) \/ InsertEntry(r))
  BY <1>1 DEF Arrive, FindOwner, EnsureEntry, RefuseTaken, InsertEntry
<1>3. ~(ReloadEntry(r) \/ EditEntry(r) \/ DropEntry(r) \/ LookForLink(r) \/ Attach(r))
  BY <1>1 DEF ReloadEntry, EditEntry, DropEntry, LookForLink, Attach
<1>4. ~(\/ FindSetRow(r) \/ TouchSetRow(r) \/ DropSetRow(r) \/ ReadCodes(r) \/ IssueToken(r)
        \/ ConnectionLost(r))
  BY <1>1 DEF FindSetRow, TouchSetRow, DropSetRow, ReadCodes, IssueToken, ConnectionLost
<1> QED
  BY <1>2, <1>3, <1>4 DEF Acts

(* It has committed all at once when it commits.                           *)
LEMMA DisposingCommits ==
    ASSUME PrivilegesInv, Alone, NEW r \in Request, Disposing(r), Commit(r)
    PROVE  CommitWrites(r) /\ pc'[r] = "done"
<1>1. Tail(seen[r].todo) = <<>>
  BY DisposingItem DEF Commit
<1> QED
  BY <1>1 DEF Commit, Finish, End, Goto, PrivilegesInv

LEMMA AloneSteps == PrivilegesInv /\ Indexed /\ Alone /\ [Next]_vars => Alone'
<1> SUFFICES ASSUME PrivilegesInv, Indexed, Alone, [Next]_vars, NEW r \in Request, Disposing(r)'
             PROVE  job'[r].module \in Module /\ Disposal(db', pend'[r], seen'[r].todo, job'[r].module)
  BY DEF Alone
<1>1. CASE UNCHANGED vars
  <2>1. db' = db /\ pend' = pend /\ pc' = pc /\ job' = job /\ seen' = seen /\ beside' = beside
    BY <1>1 DEF vars
  <2>2. Disposing(r)
    BY <2>1 DEF Disposing, Running
  <2> QED
    BY <2>1, <2>2 DEF Alone
<1>2. CASE Next
  <2>1. PICK s \in Request : Acts(s)
    BY <1>2 DEF Next, Acts
  <2>2. CASE s # r
    BY <2>1, <2>2, AloneBeside
  <2>3. CASE s = r /\ Arrive(r)
    BY <2>3, AloneArrives
  <2>4. CASE s = r /\ ~Arrive(r)
    <3>1. ~Abandon(r)
      BY AbandonLeaves DEF Disposing, Running
    <3>2. Running(r)
      <4>1. \/ FindOwner(r) \/ EnsureEntry(r) \/ RefuseTaken(r) \/ InsertEntry(r)
            \/ ReloadEntry(r) \/ EditEntry(r) \/ DropEntry(r)
            \/ LookForLink(r) \/ Attach(r) \/ FindMapping(r) \/ DeleteMapping(r) \/ RevokeSessions(r)
            \/ FindSetRow(r) \/ TouchSetRow(r) \/ DropSetRow(r)
            \/ ListModule(r) \/ ListGrants(r) \/ DropCode(r) \/ ReadCodes(r) \/ IssueToken(r)
            \/ Commit(r) \/ ConnectionLost(r)
        BY <2>1, <2>4 DEF Acts
      <4>2. pc[r] \notin {"new", "done", "failed"}
        BY <4>1 DEF FindOwner, EnsureEntry, RefuseTaken, InsertEntry, ReloadEntry, EditEntry, DropEntry,
                    LookForLink, Attach, FindMapping, DeleteMapping, RevokeSessions, FindSetRow, TouchSetRow,
                    DropSetRow, ListModule, ListGrants, DropCode, ReadCodes, IssueToken, Commit,
                    ConnectionLost, Running
      <4> QED
        BY <4>2 DEF Running
    <3>3. CASE Commit(r)
      <4>1. pc[r] = "commit" /\ (pc'[r] = "done" \/ Insertion(r, <<>>, seen[r].holder))
        BY <3>3 DEF Commit, Finish, End, Goto, Proceed, PrivilegesInv
      <4>2. Insertion(r, <<>>, seen[r].holder)
        BY <4>1 DEF Disposing, Running
      <4>3. job' = job /\ beside' = beside
        BY <4>2 DEF Insertion, Calm
      <4>4. Disposing(r)
        BY <3>2, <4>3 DEF Disposing
      <4>5. pc'[r] = "done"
        BY <3>3, <4>4, DisposingCommits
      <4> QED
        BY <4>5 DEF Disposing, Running
    <3>4. CASE ~Commit(r)
      <4>1. job' = job /\ beside' = beside
        BY <2>1, <2>4, <3>1, <3>4, ActLeaves
      <4>2. Disposing(r)
        BY <3>2, <4>1 DEF Disposing
      <4>3. job[r].module \in Module
        BY <4>2 DEF Alone
      <4>4. Disposal(db', pend'[r], seen'[r].todo, job[r].module)
        BY <2>1, <2>4, <3>1, <3>4, <4>2, DisposingActs, AloneReads, AloneLists, AloneListsGrants,
           AloneUnlinks, AloneDropsCode
      <4> QED
        BY <4>1, <4>3, <4>4
    <3> QED
      BY <3>3, <3>4
  <2> QED
    BY <2>2, <2>3, <2>4
<1> QED
  BY <1>1, <1>2

LEMMA InitIsAlone == Init => Alone
BY DEF Init, HandlersInit, Alone, Disposing, Running

LEMMA GoneAtCommit ==
    PrivilegesInv /\ Alone /\ [Next]_vars =>
      \A r \in Request :
         /\ pc[r] = "commit" /\ pc'[r] = "done"
         /\ job[r].op = "deleteModule" /\ beside[r] \subseteq {"switch"}
         => \A e \in Entry : KindOf[e] = "privilege" /\ db[e].group = job[r].module /\ db[e].state # "none" =>
              /\ ~Live(db'[e])
              /\ Live(db[e]) => \A l \in RoleLink : l[2] = db[e].name => ~Live(db'[l])
<1> SUFFICES ASSUME PrivilegesInv, Alone, [Next]_vars, NEW r \in Request, pc[r] = "commit", pc'[r] = "done",
                    job[r].op = "deleteModule", beside[r] \subseteq {"switch"},
                    NEW e \in Entry, KindOf[e] = "privilege", db[e].group = job[r].module
             PROVE  /\ ~Live(db'[e])
                    /\ Live(db[e]) => \A l \in RoleLink : l[2] = db[e].name => ~Live(db'[l])
  OBVIOUS
<1> DEFINE todo == seen[r].todo
           m == job[r].module
<1>1. Disposing(r)
  BY DEF Disposing, Running
<1>2. /\ m \in Module /\ Disposal(db, pend[r], todo, m) /\ todo # <<>> /\ todo[1].do = "commit"
  BY <1>1, DisposingItem
<1>3. PICK s \in Request : Acts(s)
  BY DEF Next, Acts, vars
<1>4. s = r
  BY <1>3, ActLeaves DEF Leaving
<1>5. ~Abandon(r)
  BY AbandonLeaves
<1>6. Commit(r)
  <2>1. /\ ~ListModule(r) /\ ~ListGrants(r) /\ ~DropCode(r) /\ ~FindMapping(r) /\ ~DeleteMapping(r)
        /\ ~RevokeSessions(r)
    BY DEF ListModule, ListGrants, DropCode, FindMapping, DeleteMapping, RevokeSessions
  <2> QED
    BY <1>1, <1>3, <1>4, <1>5, <2>1, DisposingActs
<1>7. db' = Over(db, pend[r])
  BY <1>6, VersionFacts DEF Commit, Finish, CommitWrites, Over
<1>8. e \in PrivilegeRows
  BY DEF PrivilegeRows
<1> HIDE DEF todo, m
<1>9. /\ ~Live(Over(db, pend[r])[e])
      /\ Live(db[e]) => \A l \in RoleLink : l[2] = db[e].name => ~Live(Over(db, pend[r])[l])
  BY <1>2, <1>8, DisposalCommits DEF m
<1> QED
  BY <1>7, <1>9

(* A module that is deleted while nobody else changes anything is gone     *)
(* with every grant of its privileges, for any module, any order in which  *)
(* they are found and any number of members that switch meanwhile          *)
(* (ModuleGone).                                                           *)
THEOREM ModulesGo == Spec => ModuleGone
<1>1. Init => Indexed /\ Alone
  BY InitIsIndexed, InitIsAlone
<1>2. PrivilegesInv /\ Indexed /\ Alone /\ [Next]_vars => Indexed' /\ Alone'
  BY IndexedSteps, AloneSteps
<1>3. PrivilegesInv /\ Alone /\ [Next]_vars =>
        [\A r \in Request :
           /\ pc[r] = "commit" /\ pc'[r] = "done"
           /\ job[r].op = "deleteModule" /\ beside[r] \subseteq {"switch"}
           => \A e \in Entry :
                KindOf[e] = "privilege" /\ db[e].group = job[r].module /\ db[e].state # "none" =>
                /\ ~Live(db'[e])
                /\ Live(db[e]) => \A l \in RoleLink : l[2] = db[e].name => ~Live(db'[l])]_vars
  BY GoneAtCommit
<1> QED
  BY <1>1, <1>2, <1>3, AgendasHold, PTL DEF Spec, ModuleGone
=============================================================================
