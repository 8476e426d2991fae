-------------------------- MODULE OrderHistoryProofs --------------------------
(***************************************************************************)
(* Theorems about OrderHistory, for every set of requests, customers,      *)
(* variants and sellers, every price and every size of page: the pages of  *)
(* orders that customers and sellers walk add up, miss nothing that stood  *)
(* while they were walked, and a retried checkout places no second order.  *)
(*                                                                         *)
(* The argument is one inductive invariant, HistoryInv, in three parts:    *)
(* the tables are typed and what is committed adds up; what each request   *)
(* has read and written is what its next statement needs (Buyer, Writer    *)
(* and Reader, told apart by the statement); and the uncommitted writes of *)
(* two requests are apart.  Every step is shown to keep the claim of the   *)
(* request that takes it, and the others' because of what it commits.      *)
(*                                                                         *)
(* Totals are sums over the lines of an order, so the module begins with   *)
(* how SumFunction of the community modules behaves, which is defined by   *)
(* recursion over a finite set.                                            *)
(***************************************************************************)
EXTENDS OrderHistory, Functions, FiniteSetTheorems, SequenceTheorems, WellFoundedInduction, TLAPS

-----------------------------------------------------------------------------
(* Sums over finite sets, proved by taking a smallest counterexample.      *)

(* A set of numbers that has 0, and the successor of each of its members,  *)
(* has them all.                                                           *)
LEMMA SetInduction ==
    ASSUME NEW T, 0 \in T, \A n \in Nat : n \in T => n + 1 \in T
    PROVE  \A n \in Nat : n \in T
<1> SUFFICES ASSUME NEW m \in Nat, m \notin T PROVE FALSE
  OBVIOUS
<1> DEFINE Outside == {n \in Nat : n \notin T}
<1>1. Outside \subseteq Nat /\ Outside # {}
  OBVIOUS
<1>2. PICK n \in Outside : \A k \in Outside : <<k, n>> \notin OpToRel(<, Nat)
  <2> HIDE DEF Outside
  <2> QED
    BY <1>1, NatLessThanWellFounded, WFMin
<1>3. \A k \in Outside : ~(k < n)
  BY <1>2 DEF OpToRel
<1>4. n # 0 /\ n - 1 \in Nat /\ n - 1 < n
  OBVIOUS
<1>5. n - 1 \in T
  BY <1>3, <1>4
<1> QED
  BY <1>4, <1>5

-----------------------------------------------------------------------------
(* The sums of the parts of f, as SumFunctionOnSet defines them.           *)
First(s) == CHOOSE x \in s : TRUE

IsSums(iter, f, S) ==
    iter = [s \in SUBSET S |-> IF s = {} THEN 0 ELSE f[First(s)] + iter[s \ {First(s)}]]

Sums(f, S) == CHOOSE iter : IsSums(iter, f, S)

LEMMA SumIsSums ==
    ASSUME NEW f, NEW S
    PROVE  SumFunctionOnSet(f, S) = Sums(f, S)[S]
BY DEF SumFunctionOnSet, FoldFunctionOnSet, MapThenFoldSet, Sums, IsSums, First

LEMMA FirstMember ==
    ASSUME NEW s, s # {}
    PROVE  First(s) \in s
BY DEF First

(* They exist.                                                             *)
LEMMA SumsExist ==
    ASSUME NEW S, IsFiniteSet(S), NEW f \in [S -> Int]
    PROVE  IsSums(Sums(f, S), f, S)
<1> DEFINE Sum(iter, s) == IF s = {} THEN 0 ELSE f[First(s)] + iter[s \ {First(s)}]
           UpTo(n) == {s \in SUBSET S : Cardinality(s) <= n}
           Reached == {n \in Nat : \E g \in [SUBSET S -> Int] : \A s \in UpTo(n) : g[s] = Sum(g, s)}
<1>1. \A s \in SUBSET S : IsFiniteSet(s) /\ Cardinality(s) \in Nat /\ Cardinality(s) <= Cardinality(S)
  BY FS_Subset, FS_CardinalityType
<1>2. 0 \in Reached
  <2> DEFINE g == [s \in SUBSET S |-> 0]
  <2>1. g \in [SUBSET S -> Int]
    OBVIOUS
  <2>2. \A s \in UpTo(0) : s = {}
    BY <1>1, FS_EmptySet
  <2>3. \A s \in UpTo(0) : g[s] = Sum(g, s)
    BY <2>2
  <2> HIDE DEF g
  <2> QED
    BY <2>1, <2>3
<1>3. ASSUME NEW n \in Nat, n \in Reached PROVE n + 1 \in Reached
  <2>1. PICK g \in [SUBSET S -> Int] : \A s \in UpTo(n) : g[s] = Sum(g, s)
    BY <1>3
  <2> DEFINE h == [s \in SUBSET S |-> IF s \in UpTo(n) THEN g[s] ELSE Sum(g, s)]
  <2>2. ASSUME NEW s \in SUBSET S, s # {}
        PROVE  /\ First(s) \in S /\ f[First(s)] \in Int
               /\ s \ {First(s)} \in SUBSET S
               /\ Cardinality(s \ {First(s)}) = Cardinality(s) - 1
    BY <1>1, <2>2, FirstMember, FS_RemoveElement
  <2>3. h \in [SUBSET S -> Int]
    <3>1. ASSUME NEW s \in SUBSET S PROVE Sum(g, s) \in Int
      <4>1. CASE s = {}
        BY <4>1
      <4>2. CASE s # {}
        <5> DEFINE t == s \ {First(s)}
        <5>1. f[First(s)] \in Int /\ t \in SUBSET S
          BY <2>2, <4>2
        <5> HIDE DEF t
        <5>2. g[t] \in Int
          BY <5>1
        <5>3. f[First(s)] + g[t] \in Int
          BY <5>1, <5>2
        <5> QED
          BY <4>2, <5>3 DEF t
      <4> QED
        BY <4>1, <4>2
    <3> HIDE DEF Sum, UpTo
    <3> QED
      BY <3>1
  <2>4. ASSUME NEW s \in UpTo(n + 1) PROVE h[s] = Sum(h, s)
    <3>1. CASE s = {}
      <4>1. s \in UpTo(n) /\ s \in SUBSET S
        BY <3>1, FS_EmptySet
      <4>2. h[s] = g[s] /\ g[s] = Sum(g, s)
        BY <2>1, <4>1
      <4>3. Sum(g, s) = 0 /\ Sum(h, s) = 0
        BY <3>1
      <4> QED
        BY <4>2, <4>3
    <3>2. CASE s # {}
      <4> DEFINE t == s \ {First(s)}
      <4>1. /\ t \in UpTo(n)
            /\ h[t] = g[t]
        BY <1>1, <2>2, <3>2
      <4>2. h[s] = Sum(g, s)
        BY <2>1
      <4>3. Sum(g, s) = f[First(s)] + g[t] /\ Sum(h, s) = f[First(s)] + h[t]
        BY <3>2
      <4> QED
        BY <4>1, <4>2, <4>3
    <3> QED
      BY <3>1, <3>2
  <2> HIDE DEF h, Sum, UpTo
  <2> QED
    BY <2>3, <2>4
<1>4. Cardinality(S) \in Reached
  <2> HIDE DEF Reached
  <2> QED
    BY <1>2, <1>3, SetInduction, FS_CardinalityType
<1>5. PICK g \in [SUBSET S -> Int] : \A s \in UpTo(Cardinality(S)) : g[s] = Sum(g, s)
  BY <1>4
<1>6. UpTo(Cardinality(S)) = SUBSET S
  BY <1>1
<1>7. IsSums(g, f, S)
  BY <1>5, <1>6 DEF IsSums
<1> QED
  BY <1>7 DEF Sums

(* The sum of a part that is not empty: that of its first member and of    *)
(* the rest.                                                               *)
LEMMA SumOfPart ==
    ASSUME NEW S, IsFiniteSet(S), NEW f \in [S -> Int], NEW s \in SUBSET S, s # {}
    PROVE  /\ First(s) \in s
           /\ s \ {First(s)} \in SUBSET S
           /\ Cardinality(s) \in Nat \ {0}
           /\ Cardinality(s \ {First(s)}) = Cardinality(s) - 1
           /\ Sums(f, S)[s] = f[First(s)] + Sums(f, S)[s \ {First(s)}]
<1>1. IsFiniteSet(s) /\ Cardinality(s) \in Nat /\ Cardinality(s) # 0
  BY FS_Subset, FS_CardinalityType, FS_EmptySet
<1>2. First(s) \in s
  BY FirstMember
<1>3. Cardinality(s \ {First(s)}) = Cardinality(s) - 1
  BY <1>1, <1>2, FS_RemoveElement
<1>4. Sums(f, S)[s] = f[First(s)] + Sums(f, S)[s \ {First(s)}]
  <2> DEFINE iter == Sums(f, S)
  <2>1. IsSums(iter, f, S)
    BY SumsExist
  <2> HIDE DEF iter
  <2>2. iter[s] = f[First(s)] + iter[s \ {First(s)}]
    BY <2>1 DEF IsSums
  <2> QED
    BY <2>2 DEF iter
<1> QED
  BY <1>1, <1>2, <1>3, <1>4

LEMMA SumOfNothing ==
    ASSUME NEW S, IsFiniteSet(S), NEW f \in [S -> Int]
    PROVE  Sums(f, S)[{}] = 0
BY SumsExist DEF IsSums

(* What holds of the empty part, and of a part when it holds of a smaller  *)
(* one, holds of all.                                                      *)
LEMMA PartInduction ==
    ASSUME NEW S, IsFiniteSet(S), NEW T, {} \in T,
           \A s \in SUBSET S : s # {} /\ s \ {First(s)} \in T => s \in T
    PROVE  S \in T
<1> DEFINE Reached == {n \in Nat : \A s \in SUBSET S : Cardinality(s) = n => s \in T}
<1>1. \A s \in SUBSET S : IsFiniteSet(s)
  BY FS_Subset
<1>2. 0 \in Reached
  BY <1>1, FS_EmptySet
<1>3. ASSUME NEW n \in Nat, n \in Reached PROVE n + 1 \in Reached
  <2> SUFFICES ASSUME NEW s \in SUBSET S, Cardinality(s) = n + 1 PROVE s \in T
    OBVIOUS
  <2>1. s # {}
    BY FS_EmptySet
  <2>2. First(s) \in s
    BY <2>1, FirstMember
  <2>3. s \ {First(s)} \in SUBSET S /\ Cardinality(s \ {First(s)}) = n
    <3>1. Cardinality(s \ {First(s)})
            = IF First(s) \in s THEN Cardinality(s) - 1 ELSE Cardinality(s)
      BY <1>1, FS_RemoveElement
    <3> QED
      BY <2>2, <3>1
  <2>4. s \ {First(s)} \in T
    BY <1>3, <2>3
  <2> QED
    BY <2>1, <2>4
<1>4. Cardinality(S) \in Reached
  <2> HIDE DEF Reached
  <2> QED
    BY <1>2, <1>3, SetInduction, FS_CardinalityType
<1> QED
  BY <1>4

LEMMA SumType ==
    ASSUME NEW S, IsFiniteSet(S), NEW f \in [S -> Int]
    PROVE  SumFunctionOnSet(f, S) \in Int
<1> DEFINE T == {s \in SUBSET S : Sums(f, S)[s] \in Int}
<1>1. {} \in T
  BY SumOfNothing
<1>2. ASSUME NEW s \in SUBSET S, s # {}, s \ {First(s)} \in T PROVE s \in T
  <2>1. /\ First(s) \in s
        /\ s \ {First(s)} \in SUBSET S
        /\ Sums(f, S)[s] = f[First(s)] + Sums(f, S)[s \ {First(s)}]
    BY <1>2, SumOfPart
  <2>2. Sums(f, S)[s \ {First(s)}] \in Int
    BY <1>2
  <2> QED
    BY <2>1, <2>2
<1>3. S \in T
  <2> HIDE DEF T
  <2> QED
    BY <1>1, <1>2, PartInduction
<1> QED
  BY <1>3, SumIsSums

(* The same, for several functions at once.                                *)
LEMMA NextSum ==
    ASSUME NEW S, IsFiniteSet(S)
    PROVE  \A f \in [S -> Int], s \in SUBSET S :
             s # {} => Sums(f, S)[s] = f[First(s)] + Sums(f, S)[s \ {First(s)}]
BY SumOfPart

-----------------------------------------------------------------------------
(* Sums of a part of the terms.                                            *)
Over(f, s) == SumFunction([x \in s |-> f[x]])

LEMMA OverIsPart ==
    ASSUME NEW S, IsFiniteSet(S), NEW f \in [S -> Int], NEW s \in SUBSET S
    PROVE  Over(f, s) = Sums(f, S)[s]
<1> DEFINE g == [x \in s |-> f[x]]
           T == {t \in SUBSET s : Sums(g, s)[t] = Sums(f, S)[t]}
<1>1. IsFiniteSet(s) /\ g \in [s -> Int] /\ \A x \in s : g[x] = f[x]
  BY FS_Subset
<1>2. {} \in T
  <2>1. Sums(g, s)[{}] = 0 /\ Sums(f, S)[{}] = 0
    <3> HIDE DEF g
    <3> QED
      BY <1>1, SumOfNothing
  <2> QED
    BY <2>1
<1>3. ASSUME NEW t \in SUBSET s, t # {}, t \ {First(t)} \in T PROVE t \in T
  <2> HIDE DEF g
  <2>1. t # {} /\ t \in SUBSET S /\ Sums(g, s)[t \ {First(t)}] = Sums(f, S)[t \ {First(t)}]
    BY <1>3
  <2> HIDE DEF T
  <2>2. First(t) \in t
    BY <2>1, FirstMember
  <2>3. Sums(g, s)[t] = g[First(t)] + Sums(g, s)[t \ {First(t)}]
    BY <1>1, <2>1, NextSum
  <2>4. Sums(f, S)[t] = f[First(t)] + Sums(f, S)[t \ {First(t)}]
    BY <2>1, NextSum
  <2>5. Sums(g, s)[t] = Sums(f, S)[t]
    BY <1>1, <2>1, <2>2, <2>3, <2>4
  <2> QED
    BY <2>5 DEF T
<1>4. s \in T
  <2> HIDE DEF T
  <2> QED
    BY <1>1, <1>2, <1>3, PartInduction
<1>5. Over(f, s) = SumFunctionOnSet(g, s)
  BY DEF Over, SumFunction
<1>6. SumFunctionOnSet(g, s) = Sums(g, s)[s]
  BY SumIsSums
<1> QED
  BY <1>4, <1>5, <1>6

LEMMA PartIsInt ==
    ASSUME NEW S, IsFiniteSet(S), NEW f \in [S -> Int]
    PROVE  \A s \in SUBSET S : Sums(f, S)[s] \in Int
<1> SUFFICES ASSUME NEW s \in SUBSET S PROVE Sums(f, S)[s] \in Int
  OBVIOUS
<1> DEFINE g == [x \in s |-> f[x]]
<1>1. IsFiniteSet(s) /\ g \in [s -> Int]
  BY FS_Subset
<1>2. Over(f, s) = SumFunctionOnSet(g, s)
  BY DEF Over, SumFunction
<1> HIDE DEF g
<1>3. SumFunctionOnSet(g, s) \in Int
  BY <1>1, SumType
<1> QED
  BY <1>2, <1>3, OverIsPart

(* It does not matter which term is added last.                            *)
LEMMA SumWithout ==
    ASSUME NEW S, IsFiniteSet(S), NEW f \in [S -> Int]
    PROVE  \A s \in SUBSET S : \A a \in s :
             /\ Sums(f, S)[s] \in Int /\ Sums(f, S)[s \ {a}] \in Int
             /\ Sums(f, S)[s] = f[a] + Sums(f, S)[s \ {a}]
<1> DEFINE Good(s) == /\ Sums(f, S)[s] \in Int
                      /\ \A a \in s : Sums(f, S)[s] = f[a] + Sums(f, S)[s \ {a}]
           Reached == {n \in Nat : \A s \in SUBSET S : Cardinality(s) = n => Good(s)}
<1>1. \A s \in SUBSET S : IsFiniteSet(s) /\ Cardinality(s) \in Nat
  BY FS_Subset, FS_CardinalityType
<1>2. 0 \in Reached
  <2> SUFFICES ASSUME NEW s \in SUBSET S, Cardinality(s) = 0 PROVE Good(s)
    OBVIOUS
  <2>1. s = {}
    BY <1>1, FS_EmptySet
  <2>2. Sums(f, S)[s] = 0
    BY <2>1, SumOfNothing
  <2> QED
    BY <2>1, <2>2
<1>3. ASSUME NEW n \in Nat, n \in Reached PROVE n + 1 \in Reached
  <2> SUFFICES ASSUME NEW s \in SUBSET S, Cardinality(s) = n + 1 PROVE Good(s)
    OBVIOUS
  <2> DEFINE F == First(s)
  <2>1. s # {}
    BY FS_EmptySet
  <2>2. F \in s /\ Sums(f, S)[s] = f[F] + Sums(f, S)[s \ {F}]
    <3> HIDE DEF Good, Reached
    <3> QED
      BY <2>1, FirstMember, NextSum
  <2>3. \A a \in s : /\ s \ {a} \in SUBSET S /\ Cardinality(s \ {a}) = n
                      /\ f[a] \in Int
    <3> SUFFICES ASSUME NEW a \in s
                 PROVE  s \ {a} \in SUBSET S /\ Cardinality(s \ {a}) = n /\ f[a] \in Int
      OBVIOUS
    <3>1. Cardinality(s \ {a}) = IF a \in s THEN Cardinality(s) - 1 ELSE Cardinality(s)
      BY ONLY <1>1, FS_RemoveElement, s \in SUBSET S
    <3> QED
      BY <3>1
  <2>4. \A a \in s : Good(s \ {a})
    BY <1>3, <2>3
  <2> HIDE DEF F
  <2>5. Sums(f, S)[s] \in Int
    BY <2>2, <2>3, <2>4
  <2>6. ASSUME NEW a \in s, a # F PROVE Sums(f, S)[s] = f[a] + Sums(f, S)[s \ {a}]
    <3> DEFINE t == s \ {F, a}
    <3>1. (s \ {F}) \ {a} = t /\ (s \ {a}) \ {F} = t /\ a \in s \ {F} /\ F \in s \ {a}
      BY <2>2, <2>6
    <3> HIDE DEF t
    <3>2. Sums(f, S)[s \ {F}] = f[a] + Sums(f, S)[t]
      BY <2>2, <2>4, <3>1
    <3>3. Sums(f, S)[s \ {a}] = f[F] + Sums(f, S)[t]
      BY <2>4, <3>1
    <3>4. Sums(f, S)[s \ {F}] \in Int /\ Sums(f, S)[s \ {a}] \in Int /\ f[a] \in Int /\ f[F] \in Int
      BY <2>2, <2>3, <2>4
    <3>5. Sums(f, S)[t] \in Int
      BY PartIsInt DEF t
    <3> QED
      BY <2>2, <3>2, <3>3, <3>4, <3>5
  <2> QED
    BY <2>2, <2>5, <2>6
<1>4. \A n \in Nat : n \in Reached
  <2> HIDE DEF Reached
  <2> QED
    BY <1>2, <1>3, SetInduction
<1>5. \A s \in SUBSET S : Good(s)
  BY <1>1, <1>4
<1> QED
  BY <1>5

(* What holds of the empty part, and of a part with one term more when it  *)
(* holds of the part, holds of all.                                        *)
LEMMA AddingInduction ==
    ASSUME NEW S, IsFiniteSet(S), NEW T, {} \in T,
           \A s \in SUBSET S : \A a \in S \ s : s \in T => s \cup {a} \in T
    PROVE  S \in T
<1>1. ASSUME NEW s \in SUBSET S, s # {}, s \ {First(s)} \in T PROVE s \in T
  <2> DEFINE t == s \ {First(s)}
  <2>1. First(s) \in s
    BY <1>1, FirstMember
  <2>2. t \in SUBSET S /\ First(s) \in S \ t /\ t \cup {First(s)} = s
    BY <2>1
  <2>3. t \in T
    BY <1>1
  <2> HIDE DEF t
  <2> QED
    BY <2>2, <2>3
<1> QED
  BY <1>1, PartInduction

LEMMA OverNothing ==
    ASSUME NEW S, IsFiniteSet(S), NEW f \in [S -> Int]
    PROVE  Over(f, {}) = 0
BY OverIsPart, SumOfNothing

LEMMA OverIsInt ==
    ASSUME NEW S, IsFiniteSet(S), NEW f \in [S -> Int], NEW s \in SUBSET S
    PROVE  Over(f, s) \in Int
BY OverIsPart, PartIsInt

LEMMA OverAdd ==
    ASSUME NEW S, IsFiniteSet(S), NEW f \in [S -> Int], NEW s \in SUBSET S, NEW a \in S \ s
    PROVE  Over(f, s \cup {a}) = Over(f, s) + f[a]
<1> DEFINE t == s \cup {a}
<1>1. t \in SUBSET S /\ a \in t /\ t \ {a} = s
  OBVIOUS
<1> HIDE DEF t
<1>2. Sums(f, S)[t] = f[a] + Sums(f, S)[s] /\ Sums(f, S)[s] \in Int
  <2>1. \A u \in SUBSET S : \A b \in u :
          /\ Sums(f, S)[u] \in Int /\ Sums(f, S)[u \ {b}] \in Int
          /\ Sums(f, S)[u] = f[b] + Sums(f, S)[u \ {b}]
    BY SumWithout
  <2>2. Sums(f, S)[t] = f[a] + Sums(f, S)[t \ {a}] /\ Sums(f, S)[t \ {a}] \in Int
    BY ONLY <1>1, <2>1
  <2> QED
    BY <1>1, <2>2
<1>3. f[a] \in Int
  OBVIOUS
<1>4. Over(f, t) = Sums(f, S)[t] /\ Over(f, s) = Sums(f, S)[s]
  BY <1>1, OverIsPart
<1>5. Over(f, t) = Over(f, s) + f[a]
  BY <1>2, <1>3, <1>4
<1> QED
  BY <1>5 DEF t

LEMMA OverAll ==
    ASSUME NEW S, NEW f, f = [x \in S |-> f[x]]
    PROVE  Over(f, S) = SumFunction(f)
BY DEF Over

LEMMA OverDisjoint ==
    ASSUME NEW S, IsFiniteSet(S), NEW f \in [S -> Int], NEW s \in SUBSET S, NEW t \in SUBSET S,
           s \cap t = {}
    PROVE  Over(f, s \cup t) = Over(f, s) + Over(f, t)
<1> DEFINE T == {u \in SUBSET s : Over(f, u \cup t) = Over(f, u) + Over(f, t)}
<1>1. {} \in T
  <2>1. {} \cup t = t /\ Over(f, {}) = 0 /\ Over(f, t) \in Int
    BY OverNothing, OverIsInt
  <2> QED
    BY <2>1
<1>2. ASSUME NEW u \in SUBSET s, NEW a \in s \ u, u \in T PROVE u \cup {a} \in T
  <2>0. Over(f, u \cup t) = Over(f, u) + Over(f, t)
    BY <1>2
  <2> HIDE DEF T
  <2> DEFINE both == u \cup t
             more == u \cup {a}
             all == both \cup {a}
  <2>1. u \in SUBSET S /\ both \in SUBSET S /\ a \in S \ u /\ a \in S \ both
    OBVIOUS
  <2>2. Over(f, more) = Over(f, u) + f[a]
    BY <2>1, OverAdd
  <2>3. Over(f, all) = Over(f, both) + f[a]
    <3> HIDE DEF both
    <3> QED
      BY <2>1, OverAdd
  <2>4. all = more \cup t
    OBVIOUS
  <2>5. Over(f, u) \in Int /\ Over(f, t) \in Int /\ f[a] \in Int
    BY <2>1, OverIsInt
  <2> HIDE DEF all, more
  <2>6. Over(f, all) = Over(f, more) + Over(f, t)
    BY <2>0, <2>2, <2>3, <2>5
  <2>7. Over(f, more \cup t) = Over(f, more) + Over(f, t)
    BY <2>4, <2>6
  <2> QED
    BY <2>7 DEF T, more
<1>3. IsFiniteSet(s)
  BY FS_Subset
<1>4. s \in T
  <2> HIDE DEF T
  <2> QED
    BY <1>1, <1>2, <1>3, AddingInduction
<1> QED
  BY <1>4

LEMMA OverPositive ==
    ASSUME NEW S, IsFiniteSet(S), NEW f \in [S -> Int], NEW s \in SUBSET S,
           \A x \in s : f[x] >= 0
    PROVE  Over(f, s) >= 0
<1> DEFINE T == {u \in SUBSET s : Over(f, u) >= 0}
<1>1. {} \in T
  BY OverNothing
<1>2. ASSUME NEW u \in SUBSET s, NEW a \in s \ u, u \in T PROVE u \cup {a} \in T
  <2>0. Over(f, u) >= 0
    BY <1>2
  <2> HIDE DEF T
  <2>1. u \in SUBSET S /\ a \in S \ u /\ f[a] \in Int /\ f[a] >= 0
    OBVIOUS
  <2>2. Over(f, u \cup {a}) = Over(f, u) + f[a] /\ Over(f, u) \in Int
    BY <2>1, OverAdd, OverIsInt
  <2>3. Over(f, u \cup {a}) >= 0
    BY <2>0, <2>1, <2>2
  <2> QED
    BY <2>3 DEF T
<1>3. IsFiniteSet(s)
  BY FS_Subset
<1>4. s \in T
  <2> HIDE DEF T
  <2> QED
    BY <1>1, <1>2, <1>3, AddingInduction
<1> QED
  BY <1>4

(* More terms that are not negative, no smaller a sum.                     *)
LEMMA OverMore ==
    ASSUME NEW S, IsFiniteSet(S), NEW f \in [S -> Int], NEW s \in SUBSET S, NEW t \in SUBSET s,
           \A x \in s : f[x] >= 0
    PROVE  Over(f, t) <= Over(f, s)
<1> DEFINE u == s \ t
<1>1. t \in SUBSET S /\ u \in SUBSET S /\ t \cap u = {} /\ t \cup u = s /\ \A x \in u : f[x] >= 0
  OBVIOUS
<1> HIDE DEF u
<1>2. Over(f, t \cup u) = Over(f, t) + Over(f, u)
  BY <1>1, OverDisjoint
<1>3. Over(f, u) >= 0
  BY <1>1, OverPositive
<1>4. Over(f, t) \in Int /\ Over(f, u) \in Int
  BY <1>1, OverIsInt
<1>5. Over(f, s) = Over(f, t) + Over(f, u)
  BY <1>1, <1>2
<1> QED
  BY ONLY <1>3, <1>4, <1>5

(* A common factor.                                                        *)
LEMMA OverMultiple ==
    ASSUME NEW S, IsFiniteSet(S), NEW f \in [S -> Int], NEW g \in [S -> Int], NEW c \in Int,
           NEW s \in SUBSET S, \A x \in s : g[x] = c * f[x]
    PROVE  Over(g, s) = c * Over(f, s)
<1> DEFINE T == {u \in SUBSET s : Over(g, u) = c * Over(f, u)}
<1>1. {} \in T
  BY OverNothing
<1>2. ASSUME NEW u \in SUBSET s, NEW a \in s \ u, u \in T PROVE u \cup {a} \in T
  <2>0. Over(g, u) = c * Over(f, u)
    BY <1>2
  <2> HIDE DEF T
  <2>1. u \in SUBSET S /\ a \in S \ u /\ f[a] \in Int /\ g[a] = c * f[a]
    OBVIOUS
  <2>2. Over(f, u \cup {a}) = Over(f, u) + f[a] /\ Over(f, u) \in Int
    BY <2>1, OverAdd, OverIsInt
  <2>3. Over(g, u \cup {a}) = Over(g, u) + g[a]
    BY <2>1, OverAdd
  <2>4. \A x, y \in Int : c * (x + y) = c * x + c * y
    OBVIOUS
  <2>5. Over(g, u \cup {a}) = c * Over(f, u \cup {a})
    BY <2>0, <2>1, <2>2, <2>3, <2>4
  <2> QED
    BY <2>5 DEF T
<1>3. IsFiniteSet(s)
  BY FS_Subset
<1>4. s \in T
  <2> HIDE DEF T
  <2> QED
    BY <1>1, <1>2, <1>3, AddingInduction
<1> QED
  BY <1>4

(* The terms may be numbered differently.                                  *)
Pairs(o, D) == {o} \X D

LEMMA OverPairs ==
    ASSUME NEW S, IsFiniteSet(S), NEW f \in [S -> Int], NEW o, NEW D, IsFiniteSet(D),
           \A d \in D : <<o, d>> \in S, NEW g \in [D -> Int], \A d \in D : f[<<o, d>>] = g[d]
    PROVE  Over(f, Pairs(o, D)) = Over(g, D)
<1> USE DEF Pairs
<1> DEFINE T == {u \in SUBSET D : Over(f, {o} \X u) = Over(g, u)}
<1>1. {} \in T
  <2>1. {o} \X {} = {}
    OBVIOUS
  <2>2. Over(f, {}) = 0
    BY OverNothing
  <2>3. Over(g, {}) = 0
    BY OverNothing
  <2> QED
    BY <2>1, <2>2, <2>3
<1>2. ASSUME NEW u \in SUBSET D, NEW a \in D \ u, u \in T PROVE u \cup {a} \in T
  <2>0. Over(f, {o} \X u) = Over(g, u)
    BY <1>2
  <2> HIDE DEF T
  <2> DEFINE v == {o} \X u
             p == <<o, a>>
  <2>1. v \in SUBSET S /\ p \in S \ v /\ {o} \X (u \cup {a}) = v \cup {p} /\ f[p] = g[a]
    OBVIOUS
  <2> HIDE DEF v, p
  <2>2. Over(f, v \cup {p}) = Over(f, v) + f[p]
    BY <2>1, OverAdd
  <2>3. Over(g, u \cup {a}) = Over(g, u) + g[a]
    BY OverAdd
  <2>4. Over(f, {o} \X (u \cup {a})) = Over(g, u \cup {a})
    BY <2>0, <2>1, <2>2, <2>3 DEF v
  <2> QED
    BY <2>4 DEF T
<1>3. D \in T
  <2> HIDE DEF T
  <2> QED
    BY <1>1, <1>2, AddingInduction
<1> QED
  BY <1>3

-----------------------------------------------------------------------------
(* The inductive invariant.  It says of each request apart what it works   *)
(* on: rows is the database it runs over, now the clock, p its uncommitted *)
(* writes, label its next statement, j its job, x what it has read, and s, *)
(* t and l what history keeps of it (since, start and lost).               *)

Label ==
    {"new", "done", "failed", "lines", "resolve", "quote", "outOfDate", "insert", "items", "commit",
     "item", "delete", "variant", "reprice", "drop", "count", "list", "counts", "previews", "totals",
     "keyError", "served", "order", "belongs", "lineup", "total"}

(* The endpoints whose handlers pass a statement.                          *)
OpsAt(label) ==
    CASE label \in {"new", "done", "failed"} -> {"none"}
      [] label \in {"lines", "resolve", "quote", "outOfDate", "insert", "items"} -> {"checkout"}
      [] label \in {"item", "delete"} -> {"deleteItem"}
      [] label \in {"variant", "reprice"} -> {"reprice"}
      [] label = "drop" -> {"drop"}
      [] label = "commit" -> {"checkout", "deleteItem", "reprice", "drop"}
      [] label \in {"count", "list"} -> Walkers
      [] label \in {"counts", "previews"} -> {"customerPages"}
      [] label \in {"totals", "keyError"} -> {"sellerPages"}
      [] label \in {"belongs", "total"} -> {"sellerOrder"}
      [] label \in {"order", "lineup"} -> {"customerOrder", "sellerOrder"}
      [] OTHER -> Readers

RowType(k) == IF k \in Variant THEN VariantRow ELSE IF k \in Order THEN OrderRow ELSE ItemRow

Typed ==
    /\ db = [k \in Rows |-> db[k]] /\ \A k \in Rows : db[k] \in RowType(k)
    /\ DOMAIN pend = Request
    /\ \A r \in Request : /\ DOMAIN pend[r] = Rows
                           /\ \A k \in Rows : pend[r][k] \in {None} \cup RowType(k)
    /\ pc \in [Request -> Label] /\ job \in [Request -> Job \cup {NoJob}]
    /\ \A r \in Request : job[r].op \in OpsAt(pc[r])
    /\ DOMAIN seen = Request /\ clock \in Nat
    /\ since \in [Request -> SUBSET Rows]
    /\ start \in [Request -> SUBSET Order] /\ lost \in [Request -> SUBSET Order]

(* The committed rows.                                                     *)
Exists(rows, o) == rows[o].state # "none"

Committed(rows, now) ==
    /\ \A o \in Order : IF Exists(rows, o) THEN AddsUp(rows, o) /\ rows[o].at < now
                        ELSE Inserted(rows, o) = {}
    /\ \A o, p \in Order : Exists(rows, o) /\ Exists(rows, p) /\ rows[o].at = rows[p].at => o = p
    /\ \A o, p \in Order : Live(rows[o]) /\ Live(rows[p]) /\ rows[o].ref = rows[p].ref => o = p

-----------------------------------------------------------------------------
(* Checkouts.                                                              *)
BoughtRow == [variant : Variant, quantity : Nat, unit : Nat]
Pricing == {"resolve", "quote", "outOfDate", "insert"}
Storing == {"items", "commit"}

Cart(j) == [FirstLines(j.lines) -> BoughtRow]

Orderable(j) == j.lines # <<>> /\ \A i \in DOMAIN j.lines : j.lines[i].quantity > 0

AsOrdered(j, bought) ==
    /\ bought \in Cart(j)
    /\ \A i \in FirstLines(j.lines) :
         bought[i].variant = j.lines[i].variant
           /\ bought[i].quantity = Quantity(j.lines, j.lines[i].variant)

OfOneSeller(bought, S) == \A i \in S : SellerOf[bought[i].variant] = SellerOf[bought[1].variant]

(* What is priced is priced as the variant is, or the variant has changed. *)
Pricer(rows, label, j, x, s) ==
    /\ x \in [at : Nat, left : SUBSET FirstLines(j.lines), bought : Cart(j)]
    /\ label = "resolve" <=> x.left # {}
    /\ LET priced == FirstLines(j.lines) \ x.left IN
       /\ OfOneSeller(x.bought, priced)
       /\ \A i \in priced : \/ j.lines[i].variant \in s
                            \/ x.bought[i].unit = UnitPrice(rows[j.lines[i].variant])
    /\ label = "outOfDate" => Cost(x.bought) # j.quote

NewOrder(j, x, at) ==
    [state |-> "live", by |-> j.by, seller |-> SellerOf[x.bought[1].variant],
     ref |-> j.ref, total |-> Cost(x.bought), at |-> at]

ItemOf(x, n) ==
    [state |-> "live", variant |-> x.bought[n].variant,
     quantity |-> x.bought[n].quantity, unit |-> x.bought[n].unit]

ItemsOf(j, x) == {x.order} \X FirstLines(j.lines)

Storer(rows, p, label, j, x) ==
    /\ x \in [order : Order, bought : Cart(j)] /\ OfOneSeller(x.bought, FirstLines(j.lines))
    /\ ~Exists(rows, x.order)
    /\ p[x.order] # None /\ p[x.order] = NewOrder(j, x, p[x.order].at)
    /\ \A o \in Order : Live(rows[o]) => rows[o].ref # j.ref
    /\ label = "commit" => \A n \in FirstLines(j.lines) : p[<<x.order, n>>] = ItemOf(x, n)

Stamp(p, label, x) == IF label \in Pricing THEN x.at ELSE p[x.order].at

Buying(label, j) == j.op = "checkout" /\ label \in Pricing \cup Storing

Buyer(rows, now, p, label, j, x, s) ==
    Buying(label, j) =>
      /\ Orderable(j) /\ AsOrdered(j, x.bought)
      /\ label \in Pricing => Pricer(rows, label, j, x, s)
      /\ label \in Storing => Storer(rows, p, label, j, x)
      /\ Stamp(p, label, x) \in Nat /\ Stamp(p, label, x) < now
      /\ \A o \in Order : Exists(rows, o) => rows[o].at # Stamp(p, label, x)

-----------------------------------------------------------------------------
(* What a request has written.                                             *)
Writes(label, j, x) ==
    CASE label = "items" -> {x.order}
      [] label = "commit" /\ j.op = "checkout" -> {x.order} \cup ItemsOf(j, x)
      [] label = "commit" /\ j.op = "deleteItem" -> {j.item}
      [] label = "commit" /\ j.op \in {"reprice", "drop"} -> {j.variant}
      [] OTHER -> {}

Writer(rows, p, label, j, x) ==
    /\ \A k \in Rows : p[k] # None => k \in Writes(label, j, x)
    /\ label = "commit" /\ j.op = "deleteItem" =>
         Live(rows[j.item]) /\ p[j.item] = [rows[j.item] EXCEPT !.state = "deleted"]

-----------------------------------------------------------------------------
(* Readers.                                                                *)
Gone(rows, s, o) == {i \in s : i \in Inserted(rows, o) /\ rows[i].state = "deleted"}

OfJob(rows, j, o) ==
    /\ Live(rows[o])
    /\ j.op \in {"sellerPages", "sellerOrder"} => rows[o].seller = j.seller

Listing == {"counts", "previews", "totals", "keyError", "served"}

(* An order on a page.                                                     *)
Shown(rows, j, s, o) ==
    /\ o \in Order /\ OfJob(rows, j, o)
    /\ j.op \in {"sellerPages", "sellerOrder"} => Lines(rows, o) # {} \/ Gone(rows, s, o) # {}

Told(rows, j, s, o, told) ==
    /\ told \in [count : Nat, total : Int]
    /\ told.count \in Cardinality(Lines(rows, o))..Cardinality(Lines(rows, o) \cup Gone(rows, s, o))
    /\ IF j.op \in {"customerPages", "customerOrder"}
         THEN told.total = Value(rows, Inserted(rows, o))
         ELSE told.total \in Value(rows, Lines(rows, o))..Value(rows, Lines(rows, o) \cup Gone(rows, s, o))

Previewed(rows, o, told, n) ==
    /\ n \in Nat /\ n >= Min({PreviewLimit, Cardinality(Lines(rows, o))})
    /\ n <= Min({PreviewLimit, told.count})

Answer(rows, label, j, x, s) ==
    /\ x.rows \in Seq(Order) /\ {"rows", "summary", "preview"} \subseteq DOMAIN x
    /\ label # "served" => x.preview = <<>>
    /\ \A n \in DOMAIN x.rows : Shown(rows, j, s, x.rows[n])
    /\ label \in {"previews", "served"} =>
         /\ DOMAIN x.summary = DOMAIN x.rows
         /\ \A n \in DOMAIN x.rows : Told(rows, j, s, x.rows[n], x.summary[n])
    /\ label = "served" /\ x.preview # <<>> =>
         \A n \in DOMAIN x.rows : Previewed(rows, x.rows[n], x.summary[n], x.preview[n])
    /\ label = "keyError" =>
         \E n \in DOMAIN x.rows : Lines(rows, x.rows[n]) = {} /\ Gone(rows, s, x.rows[n]) # {}

Passed(label, x, size) == IF label = "list" THEN Offset(x.page, size) ELSE x.page * size

(* Of the orders that were there when the walk began those that have not   *)
(* been shown are still to come.                                           *)
ToCome(rows, label, j, x, t) ==
    /\ t \subseteq Listed(rows, j)
    /\ \A o \in t \ x.shown :
         Cardinality(Newer(rows, Listed(rows, j), o)) >= Passed(label, x, j.size)
    /\ label \in Listing /\ Len(x.rows) < j.size => t \subseteq x.shown

Walk(rows, label, j, x, s, t, l) ==
    /\ x.page \in Nat \ {0} /\ x.shown \in SUBSET Order
    /\ label # "count" => x.results \in Nat
    /\ label \in Listing => {"page", "results", "shown"} \subseteq DOMAIN x
    /\ j.op = "customerPages" => l = {}
    /\ l = {} => ToCome(rows, label, j, x, t)
    /\ s \cap (Order \cup Item) = {} =>
         /\ label = "list" => x.results = Cardinality(Listed(rows, j))
         /\ label \in Listing => (x.rows # <<>> <=> x.page <= TotalPages(x.results, j.size))

Reader(rows, label, j, x, s, t, l) ==
    /\ j.op \in Walkers =>
         \/ label = "count" /\ x = None
         \/ Walk(rows, label, j, x, s, t, l)
    /\ label = "lineup" => OfJob(rows, j, j.order) /\ (j.op = "sellerOrder" => Shown(rows, j, s, j.order))
    /\ label = "belongs" => Live(rows[j.order])
    /\ label \in Listing \cup {"total"} => Answer(rows, label, j, x, s)
    /\ label \in {"total", "served"} /\ j.op \in {"customerOrder", "sellerOrder"} => x.rows = <<j.order>>
    /\ label = "count" /\ x # None => x = [page |-> x.page, shown |-> x.shown]

Own(rows, now, p, label, j, x, s, t, l) ==
    /\ Buyer(rows, now, p, label, j, x, s)
    /\ Writer(rows, p, label, j, x)
    /\ Reader(rows, label, j, x, s, t, l)
    /\ label = "lines" => FirstLines(j.lines) \subseteq 1..MaxLines
    /\ label \in {"new", "lines", "item", "variant", "drop", "order"} => x = None

Sound(r) == Own(db, clock, pend[r], pc[r], job[r], seen[r], since[r], start[r], lost[r])

Fits(j) == j.op = "checkout" => FirstLines(j.lines) \subseteq 1..MaxLines

(* Two requests.                                                           *)
Apart(r, s) ==
    /\ \A k \in Rows : ~(Holds(r, k) /\ Holds(s, k))
    /\ Buying(pc[r], job[r]) /\ Buying(pc[s], job[s]) =>
         Stamp(pend[r], pc[r], seen[r]) # Stamp(pend[s], pc[s], seen[s])
    /\ \A o, q \in Order : Holds(r, o) /\ Holds(s, q) => pend[r][o].ref # pend[s][q].ref

HistoryInv ==
    /\ Typed
    /\ Committed(db, clock)
    /\ \A r \in Request : Sound(r) /\ Fits(job[r])
    /\ \A r, s \in Request : r # s => Apart(r, s)
-----------------------------------------------------------------------------
(* The tables, prices and carts.                                           *)

LEMMA Tables ==
    /\ Variant \cap Order = {} /\ Variant \cap Item = {} /\ Order \cap Item = {}
    /\ \A k \in Rows : None \notin RowType(k)
    /\ None \notin Nat /\ MaxLines \in Nat /\ PreviewLimit \in Nat
    /\ SellerOf \in [Variant -> Seller] /\ IsFiniteSet(Order)
BY OrderHistoryAssumption DEF RowType, Rows

LEMMA UnitPriceIsNat ==
    ASSUME NEW x \in VariantRow
    PROVE  UnitPrice(x) \in Nat
<1>1. \A n \in Nat : RoundHalfEven(n, 100) \in Nat
  BY DEF RoundHalfEven
<1>2. x.price \in Nat /\ (x.off = None \/ x.off \in 0..100)
  BY DEF VariantRow
<1>3. CASE x.off = None
  BY <1>2, <1>3 DEF UnitPrice
<1>4. CASE x.off # None
  <2>1. x.price * (100 - x.off) \in Nat
    BY <1>2, <1>4
  <2> QED
    BY <1>1, <1>4, <2>1 DEF UnitPrice
<1> QED
  BY <1>3, <1>4

(* The first of the lines with a variant.                                  *)
LEMMA FirstOfVariant ==
    ASSUME NEW lines \in Seq(Line)
    PROVE  /\ FirstLines(lines) \subseteq DOMAIN lines /\ DOMAIN lines \subseteq Nat
           /\ IsFiniteSet(DOMAIN lines) /\ IsFiniteSet(FirstLines(lines))
           /\ \A h \in DOMAIN lines : \E i \in FirstLines(lines) : lines[i].variant = lines[h].variant
           /\ \A h, i \in FirstLines(lines) : lines[h].variant = lines[i].variant => h = i
           /\ lines # <<>> => 1 \in FirstLines(lines)
<1>1. DOMAIN lines = 1..Len(lines) /\ Len(lines) \in Nat
  OBVIOUS
<1>2. IsFiniteSet(DOMAIN lines) /\ IsFiniteSet(FirstLines(lines))
  <2>1. IsFiniteSet(1..Len(lines))
    BY <1>1, FS_Interval
  <2>2. FirstLines(lines) \in SUBSET DOMAIN lines
    BY DEF FirstLines
  <2> QED
    BY <1>1, <2>1, <2>2, FS_Subset
<1>3. ASSUME NEW h \in DOMAIN lines
      PROVE  \E i \in FirstLines(lines) : lines[i].variant = lines[h].variant
  <2> DEFINE Same0 == {i \in DOMAIN lines : lines[i].variant = lines[h].variant}
             Least == {n \in Nat : n \in Same0}
  <2>1. PICK i \in Same0 : \A k \in Same0 : i <= k
    <3> DEFINE T == {n \in Nat : \A m \in Same0 : m <= n => \E i \in Same0 : \A k \in Same0 : i <= k}
    <3>1. 0 \in T
      BY <1>1
    <3>2. ASSUME NEW n \in Nat, n \in T PROVE n + 1 \in T
      <4> SUFFICES ASSUME NEW m \in Same0, m <= n + 1
                   PROVE  \E i \in Same0 : \A k \in Same0 : i <= k
        OBVIOUS
      <4>1. CASE \E k \in Same0 : k <= n
        BY <3>2, <4>1
      <4>2. CASE \A k \in Same0 : ~(k <= n)
        <5>1. \A k \in Same0 : m <= k
          BY <1>1, <4>2
        <5> QED
          BY <5>1
      <4> QED
        BY <4>1, <4>2
    <3>3. \A n \in Nat : n \in T
      <4> HIDE DEF T
      <4> QED
        BY <3>1, <3>2, SetInduction
    <3>4. h \in T /\ h \in Same0 /\ h <= h
      BY <1>1, <3>3
    <3> QED
      BY <3>4
  <2>2. \A g \in 1..(i - 1) : lines[g].variant # lines[i].variant
    <3> SUFFICES ASSUME NEW g \in 1..(i - 1), lines[g].variant = lines[i].variant PROVE FALSE
      OBVIOUS
    <3>1. g \in DOMAIN lines /\ g < i /\ i \in Nat
      BY <1>1
    <3>2. g \in Same0
      BY <3>1
    <3> QED
      BY <1>1, <2>1, <3>1, <3>2
  <2>3. i \in FirstLines(lines) /\ lines[i].variant = lines[h].variant
    BY <2>2 DEF FirstLines
  <2> QED
    BY <2>3
<1>4. \A h, i \in FirstLines(lines) : lines[h].variant = lines[i].variant => h = i
  BY <1>1 DEF FirstLines
<1>5. lines # <<>> => 1 \in FirstLines(lines)
  BY <1>1 DEF FirstLines
<1>6. FirstLines(lines) \subseteq DOMAIN lines
  BY DEF FirstLines
<1> QED
  BY <1>1, <1>2, <1>3, <1>4, <1>5, <1>6

LEMMA QuantityIsNat ==
    ASSUME NEW lines \in Seq(Line), NEW v, \A i \in DOMAIN lines : lines[i].quantity > 0
    PROVE  Quantity(lines, v) \in Nat
<1> DEFINE D == DOMAIN lines
           f == [i \in D |-> lines[i].quantity]
           s == {i \in D : lines[i].variant = v}
<1>1. IsFiniteSet(D)
  BY FirstOfVariant
<1>2. f \in [D -> Int] /\ s \in SUBSET D /\ \A x \in s : f[x] >= 0
  <2>1. \A i \in D : lines[i] \in Line
    OBVIOUS
  <2>2. \A i \in D : lines[i].quantity \in Int
    BY <2>1 DEF Line
  <2> QED
    BY <2>2
<1>3. Quantity(lines, v) = Over(f, s)
  <2>1. [i \in s |-> f[i]] = [i \in s |-> lines[i].quantity]
    OBVIOUS
  <2> HIDE DEF f
  <2> QED
    BY <2>1 DEF Quantity, Over
<1>4. Over(f, s) \in Int /\ Over(f, s) >= 0
  <2> HIDE DEF D, f, s
  <2> QED
    BY <1>1, <1>2, OverIsInt, OverPositive
<1> QED
  BY <1>3, <1>4

LEMMA QuantityIsOver ==
    ASSUME NEW lines \in Seq(Line), NEW v
    PROVE  Quantity(lines, v)
             = Over([i \in DOMAIN lines |-> lines[i].quantity], {i \in DOMAIN lines : lines[i].variant = v})
<1> DEFINE f == [i \in DOMAIN lines |-> lines[i].quantity]
           s == {i \in DOMAIN lines : lines[i].variant = v}
<1>1. [i \in s |-> f[i]] = [i \in s |-> lines[i].quantity]
  OBVIOUS
<1> HIDE DEF f
<1>2. Quantity(lines, v) = Over(f, s)
  BY <1>1 DEF Quantity, Over
<1> QED
  BY <1>2 DEF f

LEMMA CostIsNat ==
    ASSUME NEW bought, IsFiniteSet(DOMAIN bought),
           \A i \in DOMAIN bought : bought[i].unit \in Nat /\ bought[i].quantity \in Nat
    PROVE  Cost(bought) \in Nat
<1> DEFINE D == DOMAIN bought
           g == [i \in D |-> bought[i].unit * bought[i].quantity]
<1>1. \A x, y \in Nat : x * y \in Int /\ x * y >= 0
  OBVIOUS
<1>2. g \in [D -> Int] /\ \A i \in D : g[i] >= 0
  BY <1>1
<1>3. Cost(bought) = Over(g, D)
  <2>1. g = [i \in D |-> g[i]]
    OBVIOUS
  <2>2. Over(g, D) = SumFunction(g)
    BY <2>1, OverAll
  <2> QED
    BY <2>2 DEF Cost
<1> HIDE DEF g
<1>4. IsFiniteSet(D) /\ D \in SUBSET D
  OBVIOUS
<1> HIDE DEF D
<1>5. Over(g, D) \in Int /\ Over(g, D) >= 0
  BY <1>2, <1>4, OverIsInt, OverPositive
<1> QED
  BY <1>3, <1>5

(* What a cart comes to at the variants' prices is what is due for its     *)
(* lines one by one, although a line may repeat a variant.                 *)
LEMMA CostIsDue ==
    ASSUME NEW rows, NEW j, NEW bought, j.lines \in Seq(Line),
           \A v \in Variant : rows[v] \in VariantRow,
           AsOrdered(j, bought),
           \A i \in FirstLines(j.lines) : bought[i].unit = UnitPrice(rows[j.lines[i].variant])
    PROVE  Cost(bought) = Due(rows, j.lines)
<1> DEFINE lines == j.lines
           D == DOMAIN lines
           FL == FirstLines(lines)
           P(i) == UnitPrice(rows[lines[i].variant])
           q == [i \in D |-> lines[i].quantity]
           f == [i \in D |-> P(i) * lines[i].quantity]
           g == [i \in FL |-> bought[i].unit * bought[i].quantity]
           Class(t) == {h \in D : \E i \in t : lines[i].variant = lines[h].variant}
           T == {t \in SUBSET FL : Over(g, t) = Over(f, Class(t))}
<1>1. /\ FL \subseteq D /\ IsFiniteSet(D) /\ IsFiniteSet(FL)
      /\ \A h \in D : \E i \in FL : lines[i].variant = lines[h].variant
      /\ \A h, i \in FL : lines[h].variant = lines[i].variant => h = i
  BY FirstOfVariant
<1>2. \A i \in D : lines[i].variant \in Variant /\ lines[i].quantity \in Int
  <2>1. \A i \in D : lines[i] \in Line
    OBVIOUS
  <2> QED
    BY <2>1 DEF Line
<1>3. \A i \in D : P(i) \in Nat
  <2> SUFFICES ASSUME NEW i \in D PROVE P(i) \in Nat
    OBVIOUS
  <2>1. rows[lines[i].variant] \in VariantRow
    BY <1>2
  <2> QED
    BY <2>1, UnitPriceIsNat
<1>4. q \in [D -> Int] /\ f \in [D -> Int]
  <2>1. \A i \in D : P(i) * lines[i].quantity \in Int
    BY <1>2, <1>3
  <2> QED
    BY <1>2, <2>1
<1>5. \A i \in FL : /\ bought[i].unit = P(i) /\ bought[i].unit \in Nat
                    /\ bought[i].quantity = Quantity(lines, lines[i].variant)
                    /\ bought[i].quantity \in Nat
  BY <1>1, <1>3 DEF AsOrdered, Cart, BoughtRow
<1>6. g \in [FL -> Int] /\ \A i \in FL : g[i] = P(i) * Quantity(lines, lines[i].variant)
  BY <1>5
<1>7. {} \in T
  <2>1. Class({}) = {}
    OBVIOUS
  <2>2. Over(g, {}) = 0
    <3> HIDE DEF g, FL
    <3> QED
      BY <1>1, <1>6, OverNothing
  <2>3. Over(f, {}) = 0
    <3> HIDE DEF f, D
    <3> QED
      BY <1>1, <1>4, OverNothing
  <2> HIDE DEF g, f, Class
  <2> QED
    BY <2>1, <2>2, <2>3
<1>8. ASSUME NEW t \in SUBSET FL, NEW a \in FL \ t, t \in T PROVE t \cup {a} \in T
  <2> DEFINE s == Class(t)
             c == {h \in D : lines[h].variant = lines[a].variant}
  <2>1. Over(g, t) = Over(f, s)
    BY <1>8
  <2>2. s \in SUBSET D /\ c \in SUBSET D /\ s \cap c = {} /\ Class(t \cup {a}) = s \cup c
    BY <1>1
  <2>3. \A h \in c : f[h] = P(a) * q[h]
    <3> SUFFICES ASSUME NEW h \in c PROVE f[h] = P(a) * q[h]
      OBVIOUS
    <3>1. h \in D /\ P(h) = P(a)
      OBVIOUS
    <3> QED
      BY <3>1
  <2>4. Quantity(lines, lines[a].variant) = Over(q, c)
    BY QuantityIsOver
  <2>5. g[a] = P(a) * Quantity(lines, lines[a].variant) /\ P(a) \in Int
    BY <1>1, <1>3, <1>6
  <2> HIDE DEF g, f, q, s, c, P, D, FL, Class, T
  <2>6. Over(f, c) = P(a) * Over(q, c)
    <3>1. IsFiniteSet(D) /\ c \in SUBSET D /\ P(a) \in Int
      BY <1>1, <2>2, <2>5
    <3> QED
      BY ONLY <1>4, <2>3, <3>1, OverMultiple
  <2>7. Over(f, s \cup c) = Over(f, s) + Over(f, c)
    <3>1. IsFiniteSet(D) /\ s \in SUBSET D /\ c \in SUBSET D /\ s \cap c = {}
      BY <1>1, <2>2
    <3> QED
      BY ONLY <1>4, <3>1, OverDisjoint
  <2>8. Over(g, t \cup {a}) = Over(g, t) + g[a]
    BY <1>1, <1>6, OverAdd
  <2>9. Over(g, t \cup {a}) = Over(f, s \cup c)
    BY <2>1, <2>4, <2>5, <2>6, <2>7, <2>8
  <2> QED
    BY <2>2, <2>9 DEF T
<1>9. FL \in T
  <2> HIDE DEF T, FL
  <2> QED
    BY <1>1, <1>7, <1>8, AddingInduction
<1>10. Class(FL) = D
  BY <1>1
<1>11. Due(rows, lines) = Over(f, D)
  <2>1. f = [i \in D |-> f[i]]
    OBVIOUS
  <2>2. Over(f, D) = SumFunction(f)
    BY <2>1, OverAll
  <2> QED
    BY <2>2 DEF Due
<1>12. Cost(bought) = Over(g, FL)
  <2>1. g = [i \in FL |-> g[i]]
    OBVIOUS
  <2>2. Over(g, FL) = SumFunction(g)
    BY <2>1, OverAll
  <2>3. DOMAIN bought = FL
    BY DEF AsOrdered, Cart
  <2> QED
    BY <2>2, <2>3 DEF Cost
<1>13. Over(g, FL) = Over(f, Class(FL))
  BY <1>9
<1> HIDE DEF f, g, Class, FL, D
<1> QED
  BY <1>10, <1>11, <1>12, <1>13

-----------------------------------------------------------------------------
(* What the lines of an order come to.                                     *)
Slots(o) == {o} \X (1..MaxLines)
Terms(rows, o) == [i \in Slots(o) |-> rows[i].unit * rows[i].quantity]
ItemsTyped(rows) == \A i \in Item : rows[i] \in ItemRow

LEMMA SlotsFinite ==
    ASSUME NEW o
    PROVE  IsFiniteSet(Slots(o)) /\ (o \in Order => Slots(o) \subseteq Item)
<1>1. IsFiniteSet({o}) /\ IsFiniteSet(1..MaxLines)
  <2>1. IsFiniteSet({o})
    BY FS_Singleton
  <2>2. MaxLines \in Int /\ 1 \in Int
    BY Tables
  <2>3. IsFiniteSet(1..MaxLines)
    BY <2>2, FS_Interval
  <2> QED
    BY <2>1, <2>3
<1>2. IsFiniteSet({o} \X (1..MaxLines))
  BY <1>1, FS_Product
<1> QED
  BY <1>2 DEF Slots, Item

LEMMA TermsTyped ==
    ASSUME NEW rows, ItemsTyped(rows), NEW o \in Order
    PROVE  Terms(rows, o) \in [Slots(o) -> Int] /\ \A i \in Slots(o) : Terms(rows, o)[i] >= 0
<1>1. \A i \in Slots(o) : rows[i].unit \in Nat /\ rows[i].quantity \in Nat
  BY SlotsFinite DEF ItemsTyped, ItemRow
<1>2. \A x, y \in Nat : x * y \in Int /\ x * y >= 0
  OBVIOUS
<1> QED
  BY <1>1, <1>2 DEF Terms

LEMMA ValueIsOver ==
    ASSUME NEW rows, NEW o, NEW items \in SUBSET Slots(o)
    PROVE  Value(rows, items) = Over(Terms(rows, o), items)
<1> DEFINE b == [i \in items |-> rows[i]]
           f == [i \in items |-> rows[i].unit * rows[i].quantity]
<1>1. [i \in DOMAIN b |-> b[i].unit * b[i].quantity] = f
  OBVIOUS
<1>2. [i \in items |-> Terms(rows, o)[i]] = f
  BY DEF Terms
<1>3. Value(rows, items) = SumFunction(f)
  BY <1>1 DEF Value, Cost
<1>4. Over(Terms(rows, o), items) = SumFunction(f)
  BY <1>2 DEF Over
<1> QED
  BY <1>3, <1>4

LEMMA ValueMore ==
    ASSUME NEW rows, ItemsTyped(rows), NEW o \in Order,
           NEW s \in SUBSET Slots(o), NEW t \in SUBSET s
    PROVE  /\ Value(rows, s) \in Int /\ Value(rows, t) \in Int
           /\ Value(rows, t) <= Value(rows, s)
           /\ Value(rows, s) = Value(rows, t) + Value(rows, s \ t)
<1> DEFINE f == Terms(rows, o)
           S == Slots(o)
           u == s \ t
<1>1. f \in [S -> Int] /\ \A i \in S : f[i] >= 0
  BY TermsTyped
<1>2. IsFiniteSet(S) /\ u \in SUBSET S /\ t \in SUBSET S /\ t \cap u = {} /\ t \cup u = s
  BY SlotsFinite
<1>3. Value(rows, s) = Over(f, s) /\ Value(rows, t) = Over(f, t) /\ Value(rows, u) = Over(f, u)
  BY <1>2, ValueIsOver
<1> HIDE DEF f, u, S
<1>4. s \in SUBSET S
  BY <1>2
<1>5. Over(f, s) \in Int /\ Over(f, t) \in Int
  BY ONLY <1>1, <1>2, <1>4, OverIsInt
<1>6. Over(f, t) <= Over(f, s)
  <2>1. t \in SUBSET s /\ \A i \in s : f[i] >= 0
    BY <1>1, <1>4
  <2> QED
    BY ONLY <1>1, <1>2, <1>4, <2>1, OverMore
<1>7. Over(f, t \cup u) = Over(f, t) + Over(f, u)
  BY ONLY <1>1, <1>2, OverDisjoint
<1>8. Value(rows, s) = Value(rows, t) + Value(rows, u)
  BY <1>2, <1>3, <1>7
<1> QED
  BY <1>3, <1>5, <1>6, <1>8 DEF u

LEMMA ValueSame ==
    ASSUME NEW rows, NEW rows2, NEW items,
           \A i \in items : rows2[i].unit = rows[i].unit /\ rows2[i].quantity = rows[i].quantity
    PROVE  Value(rows2, items) = Value(rows, items)
<1> DEFINE b == [i \in items |-> rows[i]]
           c == [i \in items |-> rows2[i]]
           f == [i \in items |-> rows[i].unit * rows[i].quantity]
<1>1. [i \in DOMAIN b |-> b[i].unit * b[i].quantity] = f
  OBVIOUS
<1>2. [i \in DOMAIN c |-> c[i].unit * c[i].quantity] = f
  OBVIOUS
<1> QED
  BY <1>1, <1>2 DEF Value, Cost

(* The lines a checkout stores come to what its cart does.                 *)
LEMMA ValueOfCart ==
    ASSUME NEW rows, ItemsTyped(rows), NEW o \in Order, NEW bought,
           DOMAIN bought \subseteq 1..MaxLines,
           \A n \in DOMAIN bought : /\ rows[<<o, n>>].unit = bought[n].unit
                                    /\ rows[<<o, n>>].quantity = bought[n].quantity
    PROVE  Value(rows, {o} \X DOMAIN bought) = Cost(bought)
<1> DEFINE D == DOMAIN bought
           g == [i \in D |-> bought[i].unit * bought[i].quantity]
           f == Terms(rows, o)
           S == Slots(o)
           s == Pairs(o, D)
<1>1. f \in [S -> Int] /\ IsFiniteSet(S) /\ {o} \X D \subseteq S
  BY TermsTyped, SlotsFinite DEF Slots
<1>2. IsFiniteSet(D)
  <2>1. IsFiniteSet(1..MaxLines)
    BY FS_Interval, Tables
  <2> QED
    BY <2>1, FS_Subset
<1>3. \A d \in D : f[<<o, d>>] = g[d]
  BY DEF Terms, Slots
<1>4. \A d \in D : <<o, d>> \in S
  BY DEF Slots
<1>5. g \in [D -> Int]
  <2>1. \A d \in D : g[d] \in Int
    BY <1>1, <1>3, <1>4
  <2> QED
    BY <2>1
<1>6. Cost(bought) = Over(g, D)
  <2>1. g = [i \in D |-> g[i]]
    OBVIOUS
  <2>2. Over(g, D) = SumFunction(g)
    BY <2>1, OverAll
  <2> QED
    BY <2>2 DEF Cost
<1>7. Value(rows, {o} \X D) = Over(f, {o} \X D)
  BY <1>1, ValueIsOver
<1> HIDE DEF f, g, D, S
<1>8. Over(f, s) = Over(g, D)
  <2>1. f \in [S -> Int] /\ IsFiniteSet(S)
    BY <1>1
  <2>2. \A d \in D : <<o, d>> \in S
    BY <1>4
  <2> QED
    BY ONLY <2>1, <2>2, <1>2, <1>3, <1>5, OverPairs DEF s
<1>9. Value(rows, {o} \X D) = Cost(bought)
  BY <1>6, <1>7, <1>8 DEF s, Pairs
<1> QED
  BY <1>9 DEF D

-----------------------------------------------------------------------------
(* Orders, newest first, and their pages.                                  *)
Rank(rows, S, o) == Cardinality(Newer(rows, S, o))
Dated(rows, S) ==
    /\ S \subseteq Order /\ \A o \in S : rows[o].at \in Nat
    /\ \A o, p \in S : rows[o].at = rows[p].at => o = p

LEMMA NewerFinite ==
    ASSUME NEW rows, NEW S, Dated(rows, S), NEW o \in S
    PROVE  /\ IsFiniteSet(S) /\ Newer(rows, S, o) \in SUBSET (S \ {o})
           /\ IsFiniteSet(Newer(rows, S, o)) /\ Rank(rows, S, o) \in 0..(Cardinality(S) - 1)
           /\ Cardinality(S) \in Nat
<1>1. IsFiniteSet(S) /\ Cardinality(S) \in Nat
  <2>1. IsFiniteSet(Order) /\ S \in SUBSET Order
    BY Tables DEF Dated
  <2> QED
    BY <2>1, FS_Subset, FS_CardinalityType
<1>2. Newer(rows, S, o) \in SUBSET (S \ {o})
  BY DEF Newer, Dated
<1>3. IsFiniteSet(S \ {o}) /\ Cardinality(S \ {o}) = Cardinality(S) - 1
  BY <1>1, FS_RemoveElement
<1> DEFINE N == Newer(rows, S, o)
           T == S \ {o}
<1>4. IsFiniteSet(N) /\ Cardinality(N) <= Cardinality(T)
  <2> HIDE DEF N, T
  <2>1. N \in SUBSET T /\ IsFiniteSet(T)
    BY <1>2, <1>3 DEF N, T
  <2> QED
    BY <2>1, FS_Subset
<1>5. Cardinality(N) \in Nat
  BY <1>4, FS_CardinalityType
<1> QED
  BY <1>1, <1>2, <1>3, <1>4, <1>5 DEF Rank

LEMMA RanksDiffer ==
    ASSUME NEW rows, NEW S, Dated(rows, S), NEW o \in S, NEW p \in S, o # p
    PROVE  Rank(rows, S, o) # Rank(rows, S, p)
<1>1. ASSUME NEW x \in S, NEW y \in S, rows[x].at > rows[y].at PROVE Rank(rows, S, x) < Rank(rows, S, y)
  <2> DEFINE N == Newer(rows, S, x)
             M == Newer(rows, S, y)
             T == M \ {x}
  <2>1. IsFiniteSet(M) /\ Cardinality(M) \in Nat
    BY NewerFinite DEF Rank
  <2>2. x \in M /\ N \in SUBSET T
    BY <1>1 DEF Newer, Dated
  <2>3. IsFiniteSet(T) /\ Cardinality(T) = Cardinality(M) - 1
    <3> HIDE DEF M
    <3> QED
      BY <2>1, <2>2, FS_RemoveElement
  <2>4. Cardinality(N) <= Cardinality(T)
    <3> HIDE DEF N, T
    <3> QED
      BY <2>2, <2>3, FS_Subset
  <2>5. Cardinality(N) \in Nat
    BY NewerFinite DEF Rank
  <2> QED
    BY <2>1, <2>3, <2>4, <2>5 DEF Rank
<1>2. rows[o].at > rows[p].at \/ rows[p].at > rows[o].at
  BY DEF Dated
<1>3. Rank(rows, S, o) \in Int /\ Rank(rows, S, p) \in Int
  BY NewerFinite
<1> QED
  BY <1>1, <1>2, <1>3

LEMMA RanksCover ==
    ASSUME NEW rows, NEW S, Dated(rows, S), NEW n \in 0..(Cardinality(S) - 1)
    PROVE  \E o \in S : Rank(rows, S, o) = n
<1> DEFINE I == 0..(Cardinality(S) - 1)
           f == [o \in S |-> Rank(rows, S, o)]
<1>1. IsFiniteSet(S) /\ Cardinality(S) \in Nat
  <2>1. IsFiniteSet(Order) /\ S \in SUBSET Order
    BY Tables DEF Dated
  <2> QED
    BY <2>1, FS_Subset, FS_CardinalityType
<1>2. IsFiniteSet(I) /\ Cardinality(I) = Cardinality(S)
  <2>1. Cardinality(S) - 1 \in Int /\ 0 \in Int
    BY <1>1
  <2>2. IsFiniteSet(I) /\ Cardinality(I) = IF 0 > Cardinality(S) - 1 THEN 0 ELSE (Cardinality(S) - 1) - 0 + 1
    BY <2>1, FS_Interval
  <2> QED
    BY <1>1, <2>2
<1>3. f \in Injection(S, I)
  <2>1. f \in [S -> I]
    BY NewerFinite
  <2>2. \A a, b \in S : f[a] = f[b] => a = b
    BY RanksDiffer
  <2> HIDE DEF f, I
  <2> QED
    BY <2>1, <2>2 DEF Injection, IsInjective
<1>4. f \in Surjection(S, I)
  <2> HIDE DEF f, I
  <2> QED
    BY <1>1, <1>2, <1>3, FS_Injection
<1>5. PICK o \in S : f[o] = n
  <2> HIDE DEF f
  <2> QED
    BY <1>4 DEF Surjection
<1> QED
  BY <1>5

(* The list holds each order at its rank.                                  *)
LEMMA NewestFirstIs ==
    ASSUME NEW rows, NEW S, Dated(rows, S)
    PROVE  LET s == NewestFirst(rows, S) IN
           /\ s \in Seq(S) /\ Len(s) = Cardinality(S) /\ Cardinality(S) \in Nat
           /\ \A n \in 1..Cardinality(S) : s[n] \in S /\ Rank(rows, S, s[n]) = n - 1
           /\ \A o \in S : Rank(rows, S, o) + 1 \in 1..Cardinality(S) /\ s[Rank(rows, S, o) + 1] = o
<1> DEFINE s == NewestFirst(rows, S)
           C == Cardinality(S)
<1>1. C \in Nat
  <2>1. IsFiniteSet(Order) /\ S \in SUBSET Order
    BY Tables DEF Dated
  <2> QED
    BY <2>1, FS_Subset, FS_CardinalityType
<1>2. s = [n \in 1..C |-> CHOOSE o \in S : Rank(rows, S, o) = n - 1]
  BY DEF NewestFirst, Rank
<1>3. ASSUME NEW n \in 1..C PROVE s[n] \in S /\ Rank(rows, S, s[n]) = n - 1
  <2>1. n - 1 \in 0..(C - 1)
    BY <1>1
  <2>2. \E o \in S : Rank(rows, S, o) = n - 1
    BY <2>1, RanksCover
  <2>3. s[n] = CHOOSE o \in S : Rank(rows, S, o) = n - 1
    BY <1>2
  <2> QED
    BY <2>2, <2>3
<1>4. s \in [1..C -> S]
  <2>1. DOMAIN s = 1..C /\ s = [n \in 1..C |-> s[n]]
    BY <1>2
  <2> HIDE DEF s
  <2> QED
    BY <1>3, <2>1
<1>5. s \in Seq(S) /\ Len(s) = C
  <2> HIDE DEF s
  <2> QED
    BY <1>1, <1>4
<1>6. ASSUME NEW o \in S PROVE Rank(rows, S, o) + 1 \in 1..C /\ s[Rank(rows, S, o) + 1] = o
  <2>1. Rank(rows, S, o) \in 0..(C - 1)
    BY NewerFinite
  <2>2. PICK n : n = Rank(rows, S, o) + 1
    OBVIOUS
  <2>3. n \in 1..C /\ n - 1 = Rank(rows, S, o)
    BY <1>1, <2>1, <2>2
  <2>4. s[n] \in S /\ Rank(rows, S, s[n]) = Rank(rows, S, o)
    BY <1>3, <2>3
  <2>5. s[n] = o
    BY <2>4, RanksDiffer
  <2> QED
    BY <2>2, <2>3, <2>5
<1> QED
  BY <1>1, <1>3, <1>5, <1>6

LEMMA MinOfTwo ==
    ASSUME NEW a \in Int, NEW b \in Int
    PROVE  Min({a, b}) = IF a <= b THEN a ELSE b
<1>1. PICK m : m \in {a, b} /\ \A y \in {a, b} : m <= y
  OBVIOUS
<1>2. /\ Min({a, b}) \in {a, b} /\ \A y \in {a, b} : Min({a, b}) <= y
  BY <1>1 DEF Min
<1> QED
  BY <1>2

LEMMA Offsets ==
    ASSUME NEW page \in Nat \ {0}, NEW size \in 1..100
    PROVE  /\ Offset(page, size) \in Nat /\ Offset(page, size) + size = page * size
           /\ Offset(page + 1, size) = page * size /\ Offset(1, size) = 0
<1>1. page * size \in Nat /\ (page - 1) * size = page * size - size /\ (page - 1) * size \in Nat
  OBVIOUS
<1>2. (page + 1 - 1) * size = page * size /\ (1 - 1) * size = 0
  OBVIOUS
<1> QED
  BY <1>1, <1>2 DEF Offset

(* The number of pages is that of the offsets below the number of results. *)
LEMMA PagesCount ==
    ASSUME NEW page \in Nat \ {0}, NEW size \in 1..100, NEW results \in Nat
    PROVE  Offset(page, size) < results <=> page <= TotalPages(results, size)
<1> DEFINE n == results + size - 1
           q == n \div size
           m == n % size
<1>1. n \in Nat /\ size \in Nat \ {0}
  OBVIOUS
<1>2. q \in Nat /\ m \in 0..(size - 1) /\ n = size * q + m
  <2> HIDE DEF n
  <2> QED
    BY <1>1
<1> HIDE DEF q, m
<1>3. page <= q => size * page <= size * q
  BY <1>1, <1>2
<1>4. q <= page - 1 => size * q <= size * (page - 1)
  BY <1>1, <1>2
<1>5. size * (page - 1) = Offset(page, size) /\ size * page = Offset(page, size) + size
      /\ Offset(page, size) \in Nat /\ size * q \in Nat
  BY <1>2 DEF Offset
<1>6. page <= q \/ q <= page - 1
  BY <1>2
<1>7. TotalPages(results, size) = q
  BY DEF TotalPages, q
<1>8. ASSUME page <= q PROVE Offset(page, size) < results
  BY <1>2, <1>3, <1>5, <1>8
<1>9. ASSUME q <= page - 1 PROVE ~(Offset(page, size) < results)
  BY <1>2, <1>4, <1>5, <1>9
<1>10. q <= page - 1 => ~(page <= q)
  BY <1>2
<1> QED
  BY <1>6, <1>7, <1>8, <1>9, <1>10

LEMMA PageIs ==
    ASSUME NEW rows, NEW S, Dated(rows, S), NEW page \in Nat \ {0}, NEW size \in 1..100
    PROVE  LET p == Slice(NewestFirst(rows, S), page, size)
               from == Offset(page, size)
           IN  /\ p \in Seq(S) /\ (p # <<>> <=> from < Cardinality(S))
               /\ \A o \in S : Rank(rows, S, o) >= from /\ Rank(rows, S, o) < from + size => o \in ToSet(p)
               /\ Len(p) < size => \A o \in S : Rank(rows, S, o) >= from => o \in ToSet(p)
               /\ ToSet(p) \subseteq S
<1> DEFINE s == NewestFirst(rows, S)
           C == Cardinality(S)
           from == Offset(page, size)
           upto == Min({from + size, Len(s)})
           p == Slice(s, page, size)
<1>1. /\ s \in Seq(S) /\ Len(s) = C /\ C \in Nat
      /\ \A o \in S : Rank(rows, S, o) + 1 \in 1..C /\ s[Rank(rows, S, o) + 1] = o
      /\ \A n \in 1..C : s[n] \in S
  BY NewestFirstIs
<1>2. from \in Nat
  BY Offsets
<1>3. upto = IF from + size <= C THEN from + size ELSE C
  <2>1. from + size \in Int /\ C \in Int
    BY <1>1, <1>2
  <2> QED
    BY <1>1, <2>1, MinOfTwo
<1>4. \A o \in S : Rank(rows, S, o) \in Nat
  BY NewerFinite
<1>5. p = SubSeq(s, from + 1, upto)
  BY DEF Slice
<1> HIDE DEF s, C, from, upto, p
<1>6. \A i \in (from + 1)..upto : s[i] \in S
  BY <1>1, <1>2, <1>3
<1>7. /\ p \in Seq(S) /\ Len(p) = IF from + 1 <= upto THEN upto - (from + 1) + 1 ELSE 0
      /\ \A i \in 1..(upto - (from + 1) + 1) : p[i] = s[from + 1 + i - 1]
  <2>1. from + 1 \in Int /\ upto \in Int
    BY <1>1, <1>2, <1>3
  <2> QED
    BY <1>5, <1>6, <2>1, SubSeqProperties
<1>8. p # <<>> <=> from < C
  <2>1. p # <<>> <=> Len(p) > 0
    BY <1>7
  <2> QED
    BY <1>1, <1>2, <1>3, <1>7, <2>1
<1>9. ASSUME NEW o \in S, Rank(rows, S, o) >= from, Rank(rows, S, o) + 1 <= upto
      PROVE  o \in ToSet(p)
  <2>0. PICK k : k = Rank(rows, S, o)
    OBVIOUS
  <2>1. PICK i : i = k - from + 1
    OBVIOUS
  <2>2. i \in 1..(upto - (from + 1) + 1) /\ i \in 1..Len(p) /\ from + 1 + i - 1 = Rank(rows, S, o) + 1
    <3>1. k \in Nat /\ k >= from /\ k + 1 <= upto
      BY <1>4, <1>9, <2>0
    <3>2. upto \in Int
      BY <1>1, <1>2, <1>3
    <3>3. Len(p) = upto - (from + 1) + 1
      BY <1>2, <1>7, <3>1, <3>2
    <3> QED
      BY <1>2, <2>0, <2>1, <3>1, <3>2, <3>3
  <2>3. p[i] = o
    BY <1>1, <1>7, <2>2
  <2>4. i \in DOMAIN p
    BY <1>7, <2>2
  <2> QED
    BY <2>3, <2>4 DEF ToSet
<1>10. \A o \in S : Rank(rows, S, o) >= from /\ Rank(rows, S, o) < from + size => o \in ToSet(p)
  <2> SUFFICES ASSUME NEW o \in S, Rank(rows, S, o) >= from, Rank(rows, S, o) < from + size
               PROVE  o \in ToSet(p)
    OBVIOUS
  <2>1. Rank(rows, S, o) + 1 <= upto
    BY <1>1, <1>2, <1>3, <1>4
  <2> QED
    BY <1>9, <2>1
<1>11. Len(p) < size => \A o \in S : Rank(rows, S, o) >= from => o \in ToSet(p)
  <2> SUFFICES ASSUME NEW o \in S, Rank(rows, S, o) >= from, Len(p) < size
               PROVE  o \in ToSet(p)
    OBVIOUS
  <2>1. upto = C
    BY <1>1, <1>2, <1>3, <1>7
  <2>2. Rank(rows, S, o) + 1 <= upto
    BY <1>1, <1>2, <1>4, <2>1
  <2> QED
    BY <1>9, <2>2
<1>12. ToSet(p) \subseteq S
  BY <1>7 DEF ToSet
<1> QED
  BY <1>7, <1>8, <1>10, <1>11, <1>12 DEF p, from, s, C

-----------------------------------------------------------------------------
(* What other requests do to the tables while one runs.                    *)
TablesTyped(rows) == \A k \in Rows : rows[k] \in RowType(k)
Changed(rows, later) == {k \in Rows : later[k] # rows[k]}

(* Orders that exist stay as they are; their lines may be deleted, and     *)
(* none is added.                                                          *)
Later(rows, later) ==
    /\ \A o \in Order : Exists(rows, o) => later[o] = rows[o]
    /\ \A i \in Item : rows[i].state # "none" =>
         \/ later[i] = rows[i]
         \/ Live(rows[i]) /\ later[i] = [rows[i] EXCEPT !.state = "deleted"]
    /\ \A i \in Item : rows[i].state = "none" /\ Exists(rows, i[1]) => later[i].state = "none"

LEMMA RowsAre ==
    /\ \A o \in Order : o \in Rows /\ RowType(o) = OrderRow
    /\ \A i \in Item : i \in Rows /\ RowType(i) = ItemRow
    /\ \A v \in Variant : v \in Rows /\ RowType(v) = VariantRow
    /\ \A o \in Order, n \in 1..MaxLines : <<o, n>> \in Item
    /\ \A i \in Item : i[1] \in Order /\ i[2] \in 1..MaxLines /\ i = <<i[1], i[2]>>
BY Tables DEF RowType, Rows, Item

LEMMA TablesAre ==
    ASSUME NEW rows, TablesTyped(rows)
    PROVE  /\ \A o \in Order : rows[o] \in OrderRow
           /\ \A v \in Variant : rows[v] \in VariantRow
           /\ \A i \in Item : rows[i] \in ItemRow
           /\ ItemsTyped(rows)
BY RowsAre DEF TablesTyped, ItemsTyped

LEMMA PartsOf ==
    ASSUME NEW rows, NEW o \in Order, NEW s
    PROVE  /\ Inserted(rows, o) \in SUBSET Slots(o) /\ Lines(rows, o) \in SUBSET Inserted(rows, o)
           /\ Gone(rows, s, o) \in SUBSET Inserted(rows, o)
           /\ Lines(rows, o) \cup Gone(rows, s, o) \in SUBSET Inserted(rows, o)
           /\ Lines(rows, o) \cap Gone(rows, s, o) = {}
           /\ \A X \in SUBSET Slots(o) : IsFiniteSet(X) /\ Cardinality(X) \in Nat
           /\ Slots(o) \subseteq Item
<1>1. \A X \in SUBSET Slots(o) : IsFiniteSet(X) /\ Cardinality(X) \in Nat
  BY SlotsFinite, FS_Subset, FS_CardinalityType
<1>2. Slots(o) \subseteq Item
  BY SlotsFinite
<1> QED
  BY <1>1, <1>2 DEF Inserted, Slots, Lines, Gone, Live

LEMMA LinesLater ==
    ASSUME NEW rows, NEW later, TablesTyped(rows), TablesTyped(later), Later(rows, later),
           NEW o \in Order, Exists(rows, o), NEW s, NEW t, s \cup Changed(rows, later) \subseteq t
    PROVE  /\ Inserted(later, o) = Inserted(rows, o)
           /\ Lines(later, o) \subseteq Lines(rows, o)
           /\ Gone(rows, s, o) \subseteq Gone(later, t, o)
           /\ Lines(rows, o) \subseteq Lines(later, o) \cup Gone(later, t, o)
           /\ \A X \in SUBSET Inserted(rows, o) : Value(later, X) = Value(rows, X)
<1>1. /\ \A i \in Slots(o) : i \in Item /\ i \in Rows /\ i[1] = o
      /\ \A i \in Item : rows[i] \in ItemRow /\ later[i] \in ItemRow
  BY TablesAre, RowsAre, SlotsFinite DEF Slots
<1>2. ASSUME NEW i \in Slots(o)
      PROVE  /\ rows[i].state = "none" <=> later[i].state = "none"
             /\ Live(later[i]) => Live(rows[i])
             /\ Live(rows[i]) => Live(later[i]) \/ (later[i].state = "deleted" /\ i \in t)
             /\ rows[i].state = "deleted" => later[i].state = "deleted"
             /\ rows[i].state # "none" =>
                  later[i].unit = rows[i].unit /\ later[i].quantity = rows[i].quantity
  <2>1. i \in Item /\ i \in Rows /\ i[1] = o /\ rows[i] \in ItemRow
    BY <1>1
  <2>2. CASE rows[i].state = "none"
    <3>1. later[i].state = "none"
      BY <2>1, <2>2 DEF Later
    <3> QED
      BY <2>2, <3>1 DEF Live
  <2>3. CASE rows[i].state # "none" /\ later[i] = rows[i]
    BY <2>3 DEF Live
  <2>4. CASE Live(rows[i]) /\ later[i] = [rows[i] EXCEPT !.state = "deleted"]
    <3>1. later[i].state = "deleted" /\ later[i].unit = rows[i].unit /\ later[i].quantity = rows[i].quantity
      BY <2>1, <2>4 DEF ItemRow
    <3>2. i \in t
      BY <2>1, <2>4, <3>1 DEF Changed, Live
    <3> QED
      BY <2>4, <3>1, <3>2 DEF Live
  <2> QED
    BY <2>1, <2>2, <2>3, <2>4 DEF Later
<1>3. Inserted(later, o) = Inserted(rows, o)
  BY <1>2 DEF Inserted, Slots
<1>4. Lines(later, o) \subseteq Lines(rows, o)
  BY <1>2 DEF Lines, Slots
<1>5. Gone(rows, s, o) \subseteq Gone(later, t, o)
  BY <1>2, <1>3 DEF Gone, Inserted, Slots
<1>6. Lines(rows, o) \subseteq Lines(later, o) \cup Gone(later, t, o)
  BY <1>2, <1>3 DEF Gone, Inserted, Slots, Lines, Live
<1>7. ASSUME NEW X \in SUBSET Inserted(rows, o) PROVE Value(later, X) = Value(rows, X)
  <2>1. \A i \in X : later[i].unit = rows[i].unit /\ later[i].quantity = rows[i].quantity
    BY <1>2 DEF Inserted, Slots
  <2> QED
    BY <2>1, ValueSame
<1> QED
  BY <1>3, <1>4, <1>5, <1>6, <1>7

LEMMA ToldLater ==
    ASSUME NEW rows, NEW later, TablesTyped(rows), TablesTyped(later), Later(rows, later),
           NEW o \in Order, Exists(rows, o), NEW s, NEW t, s \cup Changed(rows, later) \subseteq t,
           NEW j, NEW told, Told(rows, j, s, o, told)
    PROVE  Told(later, j, t, o, told)
<1> DEFINE L == Lines(rows, o)
           L2 == Lines(later, o)
           U == Lines(rows, o) \cup Gone(rows, s, o)
           U2 == Lines(later, o) \cup Gone(later, t, o)
           I == Inserted(rows, o)
           V(X) == Value(rows, X)
<1>1. /\ Inserted(later, o) = I /\ L2 \subseteq L /\ U \subseteq U2
      /\ \A X \in SUBSET I : Value(later, X) = V(X)
  BY LinesLater
<1>2. /\ L \in SUBSET I /\ U \in SUBSET I /\ I \in SUBSET Slots(o)
  BY PartsOf
<1>3. L2 \in SUBSET I /\ U2 \in SUBSET I
  BY <1>1, PartsOf
<1>4. \A X \in SUBSET Slots(o) : IsFiniteSet(X) /\ Cardinality(X) \in Nat
  BY PartsOf
<1>5. ItemsTyped(rows)
  BY TablesAre
<1> HIDE DEF L, L2, U, U2, I, V
<1>6. Cardinality(L2) <= Cardinality(L) /\ Cardinality(U) <= Cardinality(U2)
  BY <1>1, <1>2, <1>3, <1>4, FS_Subset
<1>7. /\ V(L2) <= V(L) /\ V(U) <= V(U2)
      /\ V(L2) \in Int /\ V(L) \in Int /\ V(U) \in Int /\ V(U2) \in Int
  <2>1. L2 \in SUBSET L /\ U \in SUBSET U2 /\ L \in SUBSET Slots(o) /\ U2 \in SUBSET Slots(o)
    BY <1>1, <1>2, <1>3
  <2> QED
    BY <1>5, <2>1, ValueMore DEF V
<1>8. /\ Cardinality(L) \in Nat /\ Cardinality(L2) \in Nat /\ Cardinality(U) \in Nat
      /\ Cardinality(U2) \in Nat
  BY <1>2, <1>3, <1>4
<1>9. /\ told \in [count : Nat, total : Int] /\ told.count \in Nat /\ told.total \in Int
      /\ told.count \in Cardinality(L)..Cardinality(U)
      /\ IF j.op \in {"customerPages", "customerOrder"} THEN told.total = V(I) ELSE told.total \in V(L)..V(U)
  BY DEF Told, L, U, V, I
<1>10. told.count \in Cardinality(L2)..Cardinality(U2)
  BY <1>6, <1>8, <1>9
<1>11. IF j.op \in {"customerPages", "customerOrder"} THEN told.total = V(I) ELSE told.total \in V(L2)..V(U2)
  BY <1>7, <1>9
<1>12. Value(later, L2) = V(L2) /\ Value(later, U2) = V(U2) /\ Value(later, Inserted(later, o)) = V(I)
  BY <1>1, <1>3
<1> QED
  BY <1>9, <1>10, <1>11, <1>12 DEF Told, L2, U2

LEMMA ShownLater ==
    ASSUME NEW rows, NEW later, TablesTyped(rows), TablesTyped(later), Later(rows, later),
           NEW s, NEW t, s \cup Changed(rows, later) \subseteq t,
           NEW j, NEW o, Shown(rows, j, s, o)
    PROVE  o \in Order /\ Exists(rows, o) /\ OfJob(later, j, o) /\ Shown(later, j, t, o)
<1>1. o \in Order /\ OfJob(rows, j, o) /\ Exists(rows, o)
  BY DEF Shown, OfJob, Exists, Live
<1>2. later[o] = rows[o]
  BY <1>1 DEF Later
<1>3. OfJob(later, j, o)
  BY <1>1, <1>2 DEF OfJob
<1>4. /\ Gone(rows, s, o) \subseteq Gone(later, t, o)
      /\ Lines(rows, o) \subseteq Lines(later, o) \cup Gone(later, t, o)
  BY <1>1, LinesLater
<1> QED
  BY <1>1, <1>3, <1>4 DEF Shown

LEMMA PreviewLater ==
    ASSUME NEW rows, NEW later, TablesTyped(rows), TablesTyped(later), Later(rows, later),
           NEW o \in Order, Exists(rows, o), NEW told, told.count \in Nat, NEW n,
           Previewed(rows, o, told, n)
    PROVE  Previewed(later, o, told, n)
<1> DEFINE L == Lines(rows, o)
           L2 == Lines(later, o)
           k == Min({PreviewLimit, Cardinality(L)})
           m == Min({PreviewLimit, told.count})
<1>1. L2 \in SUBSET L /\ IsFiniteSet(L) /\ Cardinality(L) \in Nat /\ Cardinality(L2) \in Nat
  <2>1. Lines(later, o) \subseteq Lines(rows, o)
    BY LinesLater
  <2>2. L \in SUBSET Slots(o) /\ L2 \in SUBSET Slots(o)
    BY PartsOf
  <2>3. \A X \in SUBSET Slots(o) : IsFiniteSet(X) /\ Cardinality(X) \in Nat
    BY PartsOf
  <2> QED
    BY <2>1, <2>2, <2>3
<1>2. Cardinality(L2) <= Cardinality(L)
  <2> HIDE DEF L, L2
  <2> QED
    BY <1>1, FS_Subset
<1> HIDE DEF L, L2
<1>3. Min({PreviewLimit, Cardinality(L2)}) <= k /\ k \in Int /\ m \in Int
      /\ Min({PreviewLimit, Cardinality(L2)}) \in Int
  BY <1>1, <1>2, Tables, MinOfTwo
<1>4. n \in Nat /\ n >= k /\ n <= m
  BY DEF Previewed, L
<1> HIDE DEF k, m
<1>5. n >= Min({PreviewLimit, Cardinality(L2)})
  BY <1>3, <1>4
<1> QED
  BY <1>4, <1>5 DEF Previewed, L2, m

LEMMA AnswerLater ==
    ASSUME NEW rows, NEW later, TablesTyped(rows), TablesTyped(later), Later(rows, later),
           NEW s, NEW t, s \cup Changed(rows, later) \subseteq t,
           NEW label, NEW j, NEW x, Answer(rows, label, j, x, s)
    PROVE  Answer(later, label, j, x, t)
<1>1. \A n \in DOMAIN x.rows : Shown(rows, j, s, x.rows[n])
  BY DEF Answer
<1>2. ASSUME NEW n \in DOMAIN x.rows
      PROVE  /\ x.rows[n] \in Order /\ Exists(rows, x.rows[n])
             /\ Shown(later, j, t, x.rows[n])
  <2>1. PICK o : o = x.rows[n]
    OBVIOUS
  <2>2. Shown(rows, j, s, o)
    BY <1>1, <2>1
  <2>3. o \in Order /\ Exists(rows, o) /\ Shown(later, j, t, o)
    BY <2>2, ShownLater
  <2> QED
    BY <2>1, <2>3
<1>3. ASSUME label \in {"previews", "served"}
      PROVE  /\ DOMAIN x.summary = DOMAIN x.rows
             /\ \A n \in DOMAIN x.rows : Told(later, j, t, x.rows[n], x.summary[n])
  <2>1. DOMAIN x.summary = DOMAIN x.rows
    BY <1>3 DEF Answer
  <2>2. ASSUME NEW n \in DOMAIN x.rows PROVE Told(later, j, t, x.rows[n], x.summary[n])
    <3>1. PICK o, told : o = x.rows[n] /\ told = x.summary[n]
      OBVIOUS
    <3>2. Told(rows, j, s, o, told) /\ o \in Order /\ Exists(rows, o)
      BY <1>2, <1>3, <3>1 DEF Answer
    <3>3. Told(later, j, t, o, told)
      BY <3>2, ToldLater
    <3> QED
      BY <3>1, <3>3
  <2> QED
    BY <2>1, <2>2
<1>4. ASSUME label = "served", x.preview # <<>>, NEW n \in DOMAIN x.rows
      PROVE  Previewed(later, x.rows[n], x.summary[n], x.preview[n])
  <2>1. PICK o, told, k : o = x.rows[n] /\ told = x.summary[n] /\ k = x.preview[n]
    OBVIOUS
  <2>2. Previewed(rows, o, told, k) /\ o \in Order /\ Exists(rows, o)
    BY <1>2, <1>4, <2>1 DEF Answer
  <2>3. told.count \in Nat
    BY <1>4, <2>1 DEF Answer, Told
  <2>4. Previewed(later, o, told, k)
    BY <2>2, <2>3, PreviewLater
  <2> QED
    BY <2>1, <2>4
<1>5. ASSUME label = "keyError"
      PROVE  \E n \in DOMAIN x.rows : Lines(later, x.rows[n]) = {} /\ Gone(later, t, x.rows[n]) # {}
  <2>1. PICK n \in DOMAIN x.rows : Lines(rows, x.rows[n]) = {} /\ Gone(rows, s, x.rows[n]) # {}
    BY <1>5 DEF Answer
  <2>2. PICK o : o = x.rows[n]
    OBVIOUS
  <2>3. o \in Order /\ Exists(rows, o) /\ Lines(rows, o) = {} /\ Gone(rows, s, o) # {}
    BY <1>2, <2>1, <2>2
  <2>4. Lines(later, o) \subseteq Lines(rows, o) /\ Gone(rows, s, o) \subseteq Gone(later, t, o)
    BY <2>3, LinesLater
  <2> QED
    BY <2>2, <2>3, <2>4
<1>6. /\ x.rows \in Seq(Order) /\ {"rows", "summary", "preview"} \subseteq DOMAIN x
      /\ label # "served" => x.preview = <<>>
  BY DEF Answer
<1> QED
  BY <1>2, <1>3, <1>4, <1>5, <1>6 DEF Answer

-----------------------------------------------------------------------------
(* What lists contain, and a walk through their pages.                     *)
LEMMA ListedAre ==
    ASSUME NEW rows, NEW j
    PROVE  /\ Listed(rows, j) \subseteq Order
           /\ \A o \in Listed(rows, j) : Live(rows[o]) /\ Exists(rows, o)
BY DEF Listed, OfCustomer, OfSeller, Live, Exists

LEMMA ListedDated ==
    ASSUME NEW rows, TablesTyped(rows), NEW now, Committed(rows, now), NEW j
    PROVE  Dated(rows, Listed(rows, j))
<1>1. \A o \in Listed(rows, j) : o \in Order /\ Exists(rows, o) /\ rows[o].at \in Nat
  BY ListedAre, TablesAre DEF OrderRow
<1> QED
  BY <1>1 DEF Dated, Committed

LEMMA ListedLater ==
    ASSUME NEW rows, NEW later, TablesTyped(rows), TablesTyped(later), Later(rows, later), NEW j
    PROVE  /\ j.op = "customerPages" => Listed(rows, j) \subseteq Listed(later, j)
           /\ Changed(rows, later) \cap (Order \cup Item) = {} => Listed(later, j) = Listed(rows, j)
<1>1. ASSUME j.op = "customerPages", NEW o \in Listed(rows, j) PROVE o \in Listed(later, j)
  <2>1. o \in Order /\ later[o] = rows[o]
    BY ListedAre DEF Later
  <2> QED
    BY <1>1, <2>1 DEF Listed, OfCustomer
<1>2. ASSUME Changed(rows, later) \cap (Order \cup Item) = {} PROVE Listed(later, j) = Listed(rows, j)
  <2>1. /\ \A o \in Order : later[o] = rows[o]
        /\ \A i \in Item : later[i] = rows[i]
    BY <1>2 DEF Changed, Rows
  <2>2. \A o \in Order : \A i \in {o} \X (1..MaxLines) : later[i] = rows[i]
    BY <2>1 DEF Item
  <2>3. \A o \in Order : Lines(later, o) = Lines(rows, o) /\ \A i \in Lines(rows, o) : later[i] = rows[i]
    BY <2>2 DEF Lines
  <2>4. OfCustomer(later, j) = OfCustomer(rows, j)
    BY <2>1 DEF OfCustomer
  <2>5. OfSeller(later, j) = OfSeller(rows, j)
    BY <2>1, <2>3 DEF OfSeller
  <2> QED
    BY <2>4, <2>5 DEF Listed
<1> QED
  BY <1>1, <1>2

(* An order that stays on a list does not move up in it unless another     *)
(* order leaves the list.                                                  *)
LEMMA RankLater ==
    ASSUME NEW rows, NEW later, NEW S, NEW T, Dated(rows, S), Dated(later, T), S \subseteq T,
           \A p \in S : later[p].at = rows[p].at, NEW o \in S
    PROVE  Rank(rows, S, o) <= Rank(later, T, o)
<1> DEFINE N == Newer(rows, S, o)
           M == Newer(later, T, o)
<1>1. N \in SUBSET M
  BY DEF Newer
<1>2. IsFiniteSet(M)
  BY NewerFinite
<1>3. Cardinality(N) <= Cardinality(M)
  <2> HIDE DEF N, M
  <2> QED
    BY <1>1, <1>2, FS_Subset
<1> QED
  BY <1>3 DEF Rank

LEMMA PassedIsInt ==
    ASSUME NEW label, NEW x, x.page \in Nat \ {0}, NEW size \in 1..100
    PROVE  Passed(label, x, size) \in Int
<1>1. PICK k \in Nat \ {0} : k = x.page
  OBVIOUS
<1>2. k * size \in Int /\ (k - 1) * size \in Int
  OBVIOUS
<1> QED
  BY <1>1, <1>2 DEF Passed, Offset

LEMMA WalkLater ==
    ASSUME NEW rows, NEW later, TablesTyped(rows), TablesTyped(later), Later(rows, later),
           NEW now, Committed(rows, now), Committed(later, now),
           NEW j, j.size \in 1..100, NEW label, NEW x, NEW s, NEW t, NEW l,
           Walk(rows, label, j, x, s, t, l)
    PROVE  Walk(later, label, j, x, s \cup Changed(rows, later), t,
                l \cup (Listed(rows, j) \ Listed(later, j)))
<1> DEFINE S == Listed(rows, j)
           T == Listed(later, j)
           s2 == s \cup Changed(rows, later)
           l2 == l \cup (S \ T)
<1>1. /\ x.page \in Nat \ {0} /\ x.shown \in SUBSET Order
      /\ label # "count" => x.results \in Nat
      /\ label \in Listing => {"page", "results", "shown"} \subseteq DOMAIN x
      /\ j.op = "customerPages" => l = {}
  BY DEF Walk
<1>2. j.op = "customerPages" => l2 = {}
  BY <1>1, ListedLater
<1>3. Dated(rows, S) /\ Dated(later, T)
  BY ListedDated
<1>4. ASSUME l2 = {} PROVE ToCome(later, label, j, x, t)
  <2>1. l = {} /\ S \subseteq T
    BY <1>4
  <2>2. ToCome(rows, label, j, x, t)
    BY <2>1 DEF Walk
  <2>3. t \subseteq S /\ t \subseteq T /\ (label \in Listing /\ Len(x.rows) < j.size => t \subseteq x.shown)
    BY <2>1, <2>2 DEF ToCome
  <2>4. \A p \in S : later[p].at = rows[p].at
    BY ListedAre DEF Later
  <2>5. ASSUME NEW o \in t \ x.shown PROVE Rank(later, T, o) >= Passed(label, x, j.size)
    <3>1. Rank(rows, S, o) >= Passed(label, x, j.size) /\ o \in S
      BY <2>2, <2>3 DEF ToCome, Rank
    <3>2. Rank(rows, S, o) <= Rank(later, T, o)
      <4> HIDE DEF S, T
      <4> QED
        BY <1>3, <2>1, <2>4, <3>1, RankLater
    <3>3. Rank(rows, S, o) \in Int /\ Rank(later, T, o) \in Int
      <4>1. o \in S /\ o \in T
        BY <2>3
      <4> HIDE DEF S, T
      <4> QED
        BY <1>3, <4>1, NewerFinite
    <3>4. Passed(label, x, j.size) \in Int
      BY <1>1, PassedIsInt
    <3> HIDE DEF S, T
    <3> QED
      BY <3>1, <3>2, <3>3, <3>4
  <2> QED
    BY <2>3, <2>5 DEF ToCome, Rank
<1>5. ASSUME s2 \cap (Order \cup Item) = {}
      PROVE  /\ label = "list" => x.results = Cardinality(T)
             /\ label \in Listing => (x.rows # <<>> <=> x.page <= TotalPages(x.results, j.size))
  <2>1. s \cap (Order \cup Item) = {} /\ T = S
    BY <1>5, ListedLater
  <2> QED
    BY <2>1 DEF Walk
<1> QED
  BY <1>1, <1>2, <1>4, <1>5 DEF Walk

-----------------------------------------------------------------------------
(* What a request keeps while another one commits.                         *)
LEMMA JobKinds ==
    ASSUME NEW j \in Job
    PROVE  /\ j.op = "checkout" => j \in CheckoutJob
           /\ j.op = "deleteItem" => j \in DeleteItemJob
           /\ j.op = "reprice" => j \in RepriceJob
           /\ j.op = "drop" => j \in DropJob
           /\ j.op = "customerPages" => j \in CustomerPages
           /\ j.op = "sellerPages" => j \in SellerPages
           /\ j.op \in {"customerOrder", "sellerOrder"} => j \in DetailJob
           /\ j.op # "none"
BY DEF Job, Call, CheckoutJob, CheckoutCall, DeleteItemJob, RepriceJob, DropJob, CustomerPages,
       SellerPages, DetailJob

LEMMA JobFields ==
    ASSUME NEW j \in Job
    PROVE  /\ j.op = "checkout" => /\ j.by \in Customer /\ j.ref \in Reference
                                   /\ j.lines \in Seq(Line) /\ j.quote \in Int
           /\ j.op = "deleteItem" => j.item \in Item /\ j.order \in Order
           /\ j.op \in {"reprice", "drop"} => j.variant \in Variant
           /\ j.op = "reprice" => j.price \in Nat \cup {Same} /\ j.off \in 0..100 \cup {None, Same}
           /\ j.op \in Walkers => j.size \in 1..100
           /\ j.op \in {"customerOrder", "sellerOrder"} => j.order \in Order
BY JobKinds DEF CheckoutJob, DeleteItemJob, RepriceJob, DropJob, CustomerPages, SellerPages, DetailJob,
                Walkers

LEMMA ReaderLater ==
    ASSUME NEW rows, NEW later, TablesTyped(rows), TablesTyped(later), Later(rows, later),
           NEW now, Committed(rows, now), Committed(later, now),
           NEW label, NEW j \in Job \cup {NoJob}, j.op \in OpsAt(label), NEW x, NEW s, NEW t, NEW l,
           Reader(rows, label, j, x, s, t, l),
           NEW s2, j.op \in Readers => s2 = s \cup Changed(rows, later),
           NEW l2, j.op \in Walkers => l2 = l \cup (Listed(rows, j) \ Listed(later, j))
    PROVE  Reader(later, label, j, x, s2, t, l2)
<1>1. ASSUME j.op \in Walkers
      PROVE  \/ label = "count" /\ x = None
             \/ Walk(later, label, j, x, s2, t, l2)
  <2>1. j.op \in Readers /\ j.size \in 1..100
    BY <1>1, JobFields DEF Readers, NoJob, Walkers
  <2>2. CASE label = "count" /\ x = None
    BY <2>2
  <2>3. CASE Walk(rows, label, j, x, s, t, l)
    BY <1>1, <2>1, <2>3, WalkLater
  <2> QED
    BY <1>1, <2>2, <2>3 DEF Reader
<1>2. ASSUME label \in Listing \cup {"total", "lineup"}
      PROVE  s2 = s \cup Changed(rows, later)
  BY <1>2 DEF OpsAt, Listing, Readers, Walkers
<1>3. ASSUME label = "lineup"
      PROVE  OfJob(later, j, j.order) /\ (j.op = "sellerOrder" => Shown(later, j, s2, j.order))
  <2>1. /\ OfJob(rows, j, j.order) /\ (j.op = "sellerOrder" => Shown(rows, j, s, j.order))
        /\ s \cup Changed(rows, later) \subseteq s2
    BY <1>2, <1>3 DEF Reader
  <2>2. j.order \in Order
    BY <1>3, JobFields DEF OpsAt, NoJob
  <2>3. later[j.order] = rows[j.order]
    BY <2>1, <2>2 DEF OfJob, Live, Exists, Later
  <2>4. OfJob(later, j, j.order)
    BY <2>1, <2>3 DEF OfJob
  <2>5. ASSUME j.op = "sellerOrder" PROVE Shown(later, j, s2, j.order)
    <3>1. PICK o : o = j.order
      OBVIOUS
    <3>2. Shown(rows, j, s, o)
      BY <2>1, <2>5, <3>1
    <3>3. Shown(later, j, s2, o)
      BY <2>1, <3>2, ShownLater
    <3> QED
      BY <3>1, <3>3
  <2> QED
    BY <2>4, <2>5
<1>4. ASSUME label = "belongs" PROVE Live(later[j.order])
  <2>1. Live(rows[j.order]) /\ j.order \in Order
    BY <1>4, JobFields DEF Reader, OpsAt, NoJob
  <2> QED
    BY <2>1 DEF Later, Exists, Live
<1>5. ASSUME label \in Listing \cup {"total"} PROVE Answer(later, label, j, x, s2)
  <2>1. Answer(rows, label, j, x, s) /\ s \cup Changed(rows, later) \subseteq s2
    BY <1>2, <1>5 DEF Reader
  <2> QED
    BY <2>1, AnswerLater
<1>6. /\ label \in {"total", "served"} /\ j.op \in {"customerOrder", "sellerOrder"} => x.rows = <<j.order>>
      /\ label = "count" /\ x # None => x = [page |-> x.page, shown |-> x.shown]
  BY DEF Reader
<1> QED
  BY <1>1, <1>3, <1>4, <1>5, <1>6 DEF Reader

(* Nobody else writes the rows a request has written, or stores an order   *)
(* with the stamp or the reference of its order.                           *)
Undisturbed(rows, later, p, label, j, x) ==
    /\ \A k \in Rows : p[k] # None => later[k] = rows[k]
    /\ Buying(label, j) =>
         \A o \in Order : Exists(later, o) /\ ~Exists(rows, o) => later[o].at # Stamp(p, label, x)
    /\ Buying(label, j) /\ label \in Storing =>
         \A o \in Order : Exists(later, o) /\ ~Exists(rows, o) => later[o].ref # j.ref

LEMMA BuyerLater ==
    ASSUME NEW rows, NEW later, TablesTyped(rows), TablesTyped(later), Later(rows, later),
           NEW now, NEW p, NEW label, NEW j \in Job \cup {NoJob}, NEW x, NEW s,
           Buyer(rows, now, p, label, j, x, s), Undisturbed(rows, later, p, label, j, x),
           NEW s2, j.op = "checkout" => s2 = s \cup Changed(rows, later)
    PROVE  Buyer(later, now, p, label, j, x, s2)
<1> SUFFICES ASSUME Buying(label, j)
             PROVE  /\ Orderable(j) /\ AsOrdered(j, x.bought)
                    /\ label \in Pricing => Pricer(later, label, j, x, s2)
                    /\ label \in Storing => Storer(later, p, label, j, x)
                    /\ Stamp(p, label, x) \in Nat /\ Stamp(p, label, x) < now
                    /\ \A o \in Order : Exists(later, o) => later[o].at # Stamp(p, label, x)
  BY DEF Buyer
<1>1. /\ Orderable(j) /\ AsOrdered(j, x.bought)
      /\ Stamp(p, label, x) \in Nat /\ Stamp(p, label, x) < now
      /\ label \in Pricing => Pricer(rows, label, j, x, s)
      /\ label \in Storing => Storer(rows, p, label, j, x)
      /\ \A o \in Order : Exists(rows, o) => rows[o].at # Stamp(p, label, x)
  BY DEF Buyer
<1>2. j.op = "checkout" /\ s2 = s \cup Changed(rows, later) /\ j.lines \in Seq(Line)
  BY JobFields DEF Buying, NoJob
<1>3. ASSUME label \in Pricing PROVE Pricer(later, label, j, x, s2)
  <2>1. Pricer(rows, label, j, x, s)
    BY <1>1, <1>3
  <2>2. ASSUME NEW i \in FirstLines(j.lines) \ x.left
        PROVE  j.lines[i].variant \in s2 \/ x.bought[i].unit = UnitPrice(later[j.lines[i].variant])
    <3>1. j.lines[i].variant \in s \/ x.bought[i].unit = UnitPrice(rows[j.lines[i].variant])
      BY <2>1 DEF Pricer
    <3>2. j.lines[i].variant \in Rows
      <4>1. i \in DOMAIN j.lines
        BY DEF FirstLines
      <4>2. j.lines[i] \in Line
        BY <1>2, <4>1
      <4> QED
        BY <4>2, RowsAre DEF Line
    <3> QED
      BY <1>2, <3>1, <3>2 DEF Changed
  <2> QED
    BY <2>1, <2>2 DEF Pricer
<1>4. ASSUME label \in Storing PROVE Storer(later, p, label, j, x)
  <2>1. Storer(rows, p, label, j, x) /\ x.order \in Order /\ p[x.order] # None
    BY <1>1, <1>4 DEF Storer
  <2>2. later[x.order] = rows[x.order]
    BY <2>1, RowsAre DEF Undisturbed
  <2>3. ~Exists(later, x.order)
    BY <2>1, <2>2 DEF Storer, Exists
  <2>4. ASSUME NEW o \in Order, Live(later[o]) PROVE later[o].ref # j.ref
    <3>1. CASE Exists(rows, o)
      <4>1. later[o] = rows[o]
        BY <3>1 DEF Later
      <4> QED
        BY <2>1, <2>4, <4>1 DEF Storer
    <3>2. CASE ~Exists(rows, o)
      BY <1>4, <2>4, <3>2 DEF Undisturbed, Exists, Live
    <3> QED
      BY <3>1, <3>2
  <2> QED
    BY <2>1, <2>3, <2>4 DEF Storer
<1>5. ASSUME NEW o \in Order, Exists(later, o) PROVE later[o].at # Stamp(p, label, x)
  <2>1. CASE Exists(rows, o)
    <3>1. later[o] = rows[o]
      BY <2>1 DEF Later
    <3> QED
      BY <1>1, <2>1, <3>1
  <2>2. CASE ~Exists(rows, o)
    BY <1>5, <2>2 DEF Undisturbed
  <2> QED
    BY <2>1, <2>2
<1> QED
  BY <1>1, <1>3, <1>4, <1>5

LEMMA OwnLater ==
    ASSUME NEW rows, NEW later, TablesTyped(rows), TablesTyped(later), Later(rows, later),
           NEW now, Committed(rows, now), Committed(later, now),
           NEW p, NEW label, NEW j \in Job \cup {NoJob}, j.op \in OpsAt(label), NEW x, NEW s, NEW t, NEW l,
           Own(rows, now, p, label, j, x, s, t, l), Undisturbed(rows, later, p, label, j, x),
           NEW s2, j.op \in Readers \cup {"checkout"} => s2 = s \cup Changed(rows, later),
           NEW l2, j.op \in Walkers => l2 = l \cup (Listed(rows, j) \ Listed(later, j))
    PROVE  Own(later, now, p, label, j, x, s2, t, l2)
<1>1. Buyer(later, now, p, label, j, x, s2)
  BY BuyerLater DEF Own
<1>2. Reader(later, label, j, x, s2, t, l2)
  BY ReaderLater DEF Own
<1>3. Writer(later, p, label, j, x)
  <2>1. ASSUME label = "commit", j.op = "deleteItem"
        PROVE  Live(later[j.item]) /\ p[j.item] = [later[j.item] EXCEPT !.state = "deleted"]
    <3>1. Live(rows[j.item]) /\ p[j.item] = [rows[j.item] EXCEPT !.state = "deleted"]
      BY <2>1 DEF Own, Writer
    <3>2. j.item \in Item /\ j.item \in Rows
      BY <2>1, JobFields, RowsAre DEF NoJob
    <3>3. p[j.item] \in ItemRow
      <4>1. rows[j.item] \in ItemRow
        BY <3>2, TablesAre
      <4> QED
        BY <3>1, <4>1 DEF ItemRow, State
    <3>4. p[j.item] # None
      BY <3>3, OrderHistoryAssumption
    <3>5. later[j.item] = rows[j.item]
      BY <3>2, <3>4 DEF Undisturbed
    <3> QED
      BY <3>1, <3>5
  <2> QED
    BY <2>1 DEF Own, Writer
<1> QED
  BY <1>1, <1>2, <1>3 DEF Own

LEMMA OwnWhileTimePasses ==
    ASSUME NEW rows, NEW now \in Nat, NEW soon \in Nat, now <= soon, NEW p, NEW label, NEW j, NEW x, NEW s,
           NEW t, NEW l, Own(rows, now, p, label, j, x, s, t, l)
    PROVE  Own(rows, soon, p, label, j, x, s, t, l)
<1>1. Buyer(rows, soon, p, label, j, x, s)
  BY DEF Own, Buyer
<1> QED
  BY <1>1 DEF Own

-----------------------------------------------------------------------------
(* Steps that commit nothing.                                              *)
LEMMA InvFacts ==
    ASSUME HistoryInv
    PROVE  /\ db = [k \in Rows |-> db[k]] /\ DOMAIN db = Rows /\ Row = Rows /\ TablesTyped(db)
           /\ DOMAIN pend = Request
           /\ \A r \in Request : /\ DOMAIN pend[r] = Rows
                                 /\ \A k \in Rows : pend[r][k] \in {None} \cup RowType(k)
           /\ pc \in [Request -> Label] /\ job \in [Request -> Job \cup {NoJob}]
           /\ \A r \in Request : job[r].op \in OpsAt(pc[r]) /\ job[r] \in Job \cup {NoJob}
           /\ DOMAIN seen = Request /\ clock \in Nat
           /\ since \in [Request -> SUBSET Rows]
           /\ start \in [Request -> SUBSET Order] /\ lost \in [Request -> SUBSET Order]
           /\ Committed(db, clock)
           /\ \A r \in Request : Sound(r) /\ Fits(job[r])
           /\ \A r, s \in Request : r # s => Apart(r, s)
<1>1. db = [k \in Rows |-> db[k]]
  BY DEF HistoryInv, Typed
<1>2. DOMAIN db = Rows
  BY <1>1
<1> QED
  BY <1>1, <1>2 DEF HistoryInv, Typed, Row, TablesTyped

OnlyMoves(r) ==
    \A s \in Request \ {r} :
        /\ pend'[s] = pend[s] /\ pc'[s] = pc[s] /\ job'[s] = job[s] /\ seen'[s] = seen[s]
        /\ since'[s] = since[s] /\ start'[s] = start[s] /\ lost'[s] = lost[s]

TypesNext(r) ==
    /\ DOMAIN pend' = Request /\ DOMAIN pend'[r] = Rows
    /\ \A k \in Rows : pend'[r][k] \in {None} \cup RowType(k)
    /\ pc' \in [Request -> Label] /\ job' \in [Request -> Job \cup {NoJob}]
    /\ DOMAIN seen' = Request /\ clock' \in Nat
    /\ since' \in [Request -> SUBSET Rows]
    /\ start' \in [Request -> SUBSET Order] /\ lost' \in [Request -> SUBSET Order]

(* A checkout keeps its stamp, a new one is the clock; what is written in  *)
(* addition nobody else holds, and a new order's reference nobody else     *)
(* waits to store.                                                         *)
StaysApart(r) ==
    /\ \A k \in Rows : Holds(r, k)' => Holds(r, k) \/ ~HeldByOther(r, k)
    /\ Buying(pc'[r], job'[r]) =>
         LET stamp == Stamp(pend'[r], pc'[r], seen'[r]) IN
         \/ stamp = clock
         \/ Buying(pc[r], job[r]) /\ stamp = Stamp(pend[r], pc[r], seen[r])
    /\ \A o \in Order : Holds(r, o)' =>
         \/ Holds(r, o) /\ pend'[r][o].ref = pend[r][o].ref
         \/ ~Undecided(r, pend'[r][o].ref)

LEMMA OthersApart ==
    ASSUME HistoryInv, NEW r \in Request, NEW s \in Request, r # s, OnlyMoves(r), StaysApart(r)
    PROVE  Apart(r, s)' /\ Apart(s, r)'
<1>1. /\ Apart(r, s) /\ Apart(s, r) /\ Sound(s) /\ clock \in Nat
  BY InvFacts
<1>2. /\ pend'[s] = pend[s] /\ pc'[s] = pc[s] /\ job'[s] = job[s] /\ seen'[s] = seen[s]
  BY DEF OnlyMoves
<1>3. \A k \in Rows : ~(Holds(r, k)' /\ Holds(s, k)')
  <2> SUFFICES ASSUME NEW k \in Rows, Holds(r, k)', Holds(s, k)' PROVE FALSE
    OBVIOUS
  <2>1. Holds(s, k)
    BY <1>2 DEF Holds
  <2>2. HeldByOther(r, k)
    BY <2>1 DEF HeldByOther
  <2>3. Holds(r, k)
    BY <2>2 DEF StaysApart
  <2> QED
    BY <1>1, <2>1, <2>3 DEF Apart
<1>4. ASSUME Buying(pc'[r], job'[r]), Buying(pc'[s], job'[s])
      PROVE  Stamp(pend'[r], pc'[r], seen'[r]) # Stamp(pend'[s], pc'[s], seen'[s])
  <2>1. Buying(pc[s], job[s]) /\ Stamp(pend'[s], pc'[s], seen'[s]) = Stamp(pend[s], pc[s], seen[s])
    BY <1>2, <1>4
  <2>2. Stamp(pend[s], pc[s], seen[s]) \in Nat /\ Stamp(pend[s], pc[s], seen[s]) < clock
    BY <1>1, <2>1 DEF Sound, Own, Buyer
  <2>3. Buying(pc[r], job[r]) => Stamp(pend[r], pc[r], seen[r]) # Stamp(pend[s], pc[s], seen[s])
    BY <1>1, <2>1 DEF Apart
  <2>4. \/ Stamp(pend'[r], pc'[r], seen'[r]) = clock
        \/ Buying(pc[r], job[r]) /\ Stamp(pend'[r], pc'[r], seen'[r]) = Stamp(pend[r], pc[r], seen[r])
    BY <1>4 DEF StaysApart
  <2> QED
    BY <1>1, <2>1, <2>2, <2>3, <2>4
<1>5. ASSUME NEW o \in Order, NEW q \in Order, Holds(r, o)', Holds(s, q)'
      PROVE  pend'[r][o].ref # pend'[s][q].ref
  <2>1. Holds(s, q) /\ pend'[s][q].ref = pend[s][q].ref
    BY <1>2, <1>5 DEF Holds
  <2>2. CASE Holds(r, o) /\ pend'[r][o].ref = pend[r][o].ref
    BY <1>1, <2>1, <2>2 DEF Apart
  <2>3. CASE ~Undecided(r, pend'[r][o].ref)
    BY <2>1, <2>3 DEF Undecided
  <2> QED
    BY <1>5, <2>2, <2>3 DEF StaysApart
<1> QED
  BY <1>3, <1>4, <1>5 DEF Apart

LEMMA OwnStep ==
    ASSUME HistoryInv, NEW r \in Request, db' = db, OnlyMoves(r), TypesNext(r), StaysApart(r),
           clock <= clock', job'[r].op \in OpsAt(pc'[r]), Fits(job'[r]),
           Own(db, clock', pend'[r], pc'[r], job'[r], seen'[r], since'[r], start'[r], lost'[r])
    PROVE  HistoryInv'
<1>1. /\ db = [k \in Rows |-> db[k]] /\ TablesTyped(db) /\ clock \in Nat /\ Committed(db, clock)
      /\ \A s \in Request : /\ DOMAIN pend[s] = Rows /\ \A k \in Rows : pend[s][k] \in {None} \cup RowType(k)
                            /\ job[s].op \in OpsAt(pc[s]) /\ Sound(s) /\ Fits(job[s])
  BY InvFacts
<1>2. clock' \in Nat
  BY DEF TypesNext
<1>3. Typed'
  <2>1. ASSUME NEW s \in Request
        PROVE  /\ DOMAIN pend'[s] = Rows /\ \A k \in Rows : pend'[s][k] \in {None} \cup RowType(k)
               /\ job'[s].op \in OpsAt(pc'[s])
    BY <1>1 DEF OnlyMoves, TypesNext
  <2>2. db' = [k \in Rows |-> db'[k]] /\ \A k \in Rows : db'[k] \in RowType(k)
    BY <1>1 DEF TablesTyped
  <2> QED
    BY <2>1, <2>2 DEF Typed, TypesNext
<1>4. Committed(db', clock')
  <2>1. ASSUME NEW o \in Order, Exists(db, o) PROVE db[o].at < clock'
    <3>1. db[o].at < clock /\ db[o].at \in Nat
      BY <1>1, <2>1, TablesAre DEF Committed, OrderRow
    <3> QED
      BY <1>1, <1>2, <3>1
  <2> QED
    BY <1>1, <2>1 DEF Committed
<1>5. ASSUME NEW s \in Request PROVE Sound(s)' /\ Fits(job'[s])
  <2>1. CASE s = r
    BY <2>1 DEF Sound
  <2>2. CASE s # r
    <3>1. /\ pend'[s] = pend[s] /\ pc'[s] = pc[s] /\ job'[s] = job[s] /\ seen'[s] = seen[s]
          /\ since'[s] = since[s] /\ start'[s] = start[s] /\ lost'[s] = lost[s]
      BY <2>2 DEF OnlyMoves
    <3>2. Own(db, clock, pend[s], pc[s], job[s], seen[s], since[s], start[s], lost[s])
      BY <1>1 DEF Sound
    <3>3. Own(db, clock', pend[s], pc[s], job[s], seen[s], since[s], start[s], lost[s])
      BY <1>1, <1>2, <3>2, OwnWhileTimePasses
    <3> QED
      BY <1>1, <3>1, <3>3 DEF Sound
  <2> QED
    BY <2>1, <2>2
<1>6. ASSUME NEW p \in Request, NEW q \in Request, p # q PROVE Apart(p, q)'
  <2>1. CASE p = r \/ q = r
    BY <1>6, <2>1, OthersApart
  <2>2. CASE p # r /\ q # r
    <3>1. /\ pend'[p] = pend[p] /\ pc'[p] = pc[p] /\ job'[p] = job[p] /\ seen'[p] = seen[p]
          /\ pend'[q] = pend[q] /\ pc'[q] = pc[q] /\ job'[q] = job[q] /\ seen'[q] = seen[q]
      BY <2>2 DEF OnlyMoves
    <3>2. Apart(p, q)
      BY <1>6, InvFacts
    <3> QED
      BY <3>1, <3>2 DEF Apart, Holds
  <2> QED
    BY <2>1, <2>2
<1> QED
  BY <1>3, <1>4, <1>5, <1>6 DEF HistoryInv

LEMMA ReadStep ==
    ASSUME HistoryInv, NEW r \in Request, NEW label \in Label,
           pc' = [pc EXCEPT ![r] = label], UNCHANGED <<db, pend, job>>, Quiet,
           NEW x, DOMAIN seen' = Request, seen'[r] = x, \A s \in Request \ {r} : seen'[s] = seen[s],
           job[r].op \in OpsAt(label),
           Own(db, clock, pend[r], label, job[r], x, since[r], start[r], lost[r]),
           Buying(label, job[r]) =>
             Buying(pc[r], job[r]) /\ Stamp(pend[r], label, x) = Stamp(pend[r], pc[r], seen[r])
    PROVE  HistoryInv'
<1>1. /\ DOMAIN pend = Request /\ DOMAIN pend[r] = Rows
      /\ \A k \in Rows : pend[r][k] \in {None} \cup RowType(k)
      /\ pc \in [Request -> Label] /\ job \in [Request -> Job \cup {NoJob}]
      /\ DOMAIN seen = Request /\ clock \in Nat
      /\ since \in [Request -> SUBSET Rows]
      /\ start \in [Request -> SUBSET Order] /\ lost \in [Request -> SUBSET Order] /\ Fits(job[r])
  BY InvFacts
<1>2. /\ pc'[r] = label /\ pc' \in [Request -> Label] /\ \A s \in Request \ {r} : pc'[s] = pc[s]
  BY <1>1
<1>3. clock' = clock /\ since' = since /\ start' = start /\ lost' = lost
  BY DEF Quiet
<1>4. OnlyMoves(r) /\ TypesNext(r)
  BY <1>1, <1>2, <1>3 DEF OnlyMoves, TypesNext
<1>5. StaysApart(r)
  BY <1>2 DEF StaysApart, Holds
<1>6. clock <= clock' /\ job'[r].op \in OpsAt(pc'[r]) /\ Fits(job'[r])
  BY <1>1, <1>2, <1>3
<1>7. Own(db, clock', pend'[r], pc'[r], job'[r], seen'[r], since'[r], start'[r], lost'[r])
  BY <1>2, <1>3
<1> QED
  BY <1>4, <1>5, <1>6, <1>7, OwnStep

Idle == {"new", "done", "failed"}

LEMMA OwnIdle ==
    ASSUME NEW rows, NEW now, NEW p, \A k \in Rows : p[k] = None, NEW label \in Idle, NEW s, NEW t, NEW l
    PROVE  Own(rows, now, p, label, NoJob, None, s, t, l)
<1>1. NoJob.op = "none"
  BY DEF NoJob
<1>2. Buyer(rows, now, p, label, NoJob, None, s)
  BY <1>1 DEF Buyer, Buying
<1>3. Writer(rows, p, label, NoJob, None)
  BY <1>1 DEF Writer, Idle
<1>4. Reader(rows, label, NoJob, None, s, t, l)
  BY <1>1 DEF Reader, Idle, Listing, Walkers
<1> QED
  BY <1>2, <1>3, <1>4 DEF Own, Idle

LEMMA EndStep ==
    ASSUME HistoryInv, NEW r \in Request, NEW label \in {"done", "failed"},
           db' = db, pend' = [pend EXCEPT ![r] = NoWrites], End(r, label), Forget(r)
    PROVE  HistoryInv'
<1>1. /\ DOMAIN pend = Request
      /\ pc \in [Request -> Label] /\ job \in [Request -> Job \cup {NoJob}]
      /\ DOMAIN seen = Request /\ clock \in Nat /\ Row = Rows
      /\ since \in [Request -> SUBSET Rows]
      /\ start \in [Request -> SUBSET Order] /\ lost \in [Request -> SUBSET Order]
  BY InvFacts
<1>2. /\ pc' = [pc EXCEPT ![r] = label] /\ job' = [job EXCEPT ![r] = NoJob]
      /\ seen' = [seen EXCEPT ![r] = None] /\ clock' = clock
      /\ since' = [since EXCEPT ![r] = {}] /\ start' = [start EXCEPT ![r] = {}]
      /\ lost' = [lost EXCEPT ![r] = {}]
  BY DEF End, Goto, Forget
<1>3. pend'[r] = [k \in Rows |-> None]
  BY <1>1 DEF NoWrites
<1>4. /\ pc'[r] = label /\ job'[r] = NoJob /\ seen'[r] = None
      /\ pc' \in [Request -> Label] /\ job' \in [Request -> Job \cup {NoJob}] /\ DOMAIN seen' = Request
      /\ DOMAIN pend' = Request
      /\ since' \in [Request -> SUBSET Rows]
      /\ start' \in [Request -> SUBSET Order] /\ lost' \in [Request -> SUBSET Order]
  BY <1>1, <1>2 DEF Label
<1>5. OnlyMoves(r)
  BY <1>1, <1>2 DEF OnlyMoves
<1>6. TypesNext(r)
  BY <1>1, <1>2, <1>3, <1>4 DEF TypesNext
<1>7. StaysApart(r)
  <2>1. \A k \in Rows : ~Holds(r, k)'
    BY <1>3 DEF Holds
  <2>2. ~Buying(pc'[r], job'[r])
    BY <1>4 DEF Buying, NoJob
  <2> QED
    BY <2>1, <2>2, RowsAre DEF StaysApart
<1>8. clock <= clock' /\ job'[r].op \in OpsAt(pc'[r]) /\ Fits(job'[r])
  BY <1>1, <1>2, <1>4 DEF OpsAt, NoJob, Fits
<1>9. Own(db, clock', pend'[r], pc'[r], job'[r], seen'[r], since'[r], start'[r], lost'[r])
  <2>1. \A k \in Rows : pend'[r][k] = None
    BY <1>3
  <2> QED
    BY <1>4, <2>1, OwnIdle DEF Idle
<1> QED
  BY <1>5, <1>6, <1>7, <1>8, <1>9, OwnStep

LEMMA AbandonKeeps ==
    ASSUME HistoryInv, NEW r \in Request, Abandon(r)
    PROVE  HistoryInv'
BY EndStep DEF Abandon, Fail, DiscardWrites

(* A reader holds nothing: its commit changes nothing.                     *)
LEMMA FinishKeeps ==
    ASSUME HistoryInv, NEW r \in Request, pc[r] \in Label \ {"items", "commit"}, Finish(r), Forget(r)
    PROVE  HistoryInv'
<1>1. /\ db = [k \in Rows |-> db[k]] /\ Row = Rows /\ Sound(r)
  BY InvFacts
<1>2. \A k \in Rows : View(r, k) = db[k]
  <2>1. \A k \in Rows : pend[r][k] # None => k \in Writes(pc[r], job[r], seen[r])
    BY <1>1 DEF Sound, Own, Writer
  <2>2. Writes(pc[r], job[r], seen[r]) = {}
    BY DEF Writes
  <2> QED
    BY <2>1, <2>2 DEF View
<1>3. db' = [k \in Rows |-> View(r, k)]
  BY <1>1 DEF Finish, CommitWrites
<1>4. db' = db
  BY <1>1, <1>2, <1>3
<1> QED
  BY <1>4, EndStep DEF Finish, CommitWrites

-----------------------------------------------------------------------------
(* Readers.                                                                *)
LEMMA OwnOfReader ==
    ASSUME HistoryInv, NEW r \in Request, job[r].op \in Readers,
           NEW label, label \notin {"new", "lines", "item", "variant", "drop", "order"},
           NEW x, NEW s, NEW t, NEW l, Reader(db, label, job[r], x, s, t, l)
    PROVE  Own(db, clock, pend[r], label, job[r], x, s, t, l) /\ ~Buying(label, job[r])
<1>1. Sound(r) /\ job[r].op \in OpsAt(pc[r])
  BY InvFacts
<1>2. pc[r] \notin {"items", "commit"}
  BY <1>1 DEF OpsAt, Readers, Walkers
<1>3. \A k \in Rows : pend[r][k] = None
  <2>1. \A k \in Rows : pend[r][k] # None => k \in Writes(pc[r], job[r], seen[r])
    BY <1>1 DEF Sound, Own, Writer
  <2>2. Writes(pc[r], job[r], seen[r]) = {}
    BY <1>2 DEF Writes
  <2> QED
    BY <2>1, <2>2
<1>4. ~Buying(label, job[r]) /\ job[r].op # "deleteItem"
  BY DEF Buying, Readers, Walkers
<1>5. Buyer(db, clock, pend[r], label, job[r], x, s)
  BY <1>4 DEF Buyer
<1>6. Writer(db, pend[r], label, job[r], x)
  BY <1>3, <1>4 DEF Writer
<1> QED
  BY <1>4, <1>5, <1>6 DEF Own

LEMMA ReaderStep ==
    ASSUME HistoryInv, NEW r \in Request, job[r].op \in Readers, NEW label \in Label,
           label \notin {"new", "lines", "item", "variant", "drop", "order"},
           job[r].op \in OpsAt(label),
           pc' = [pc EXCEPT ![r] = label], UNCHANGED <<db, pend, job>>, Quiet,
           NEW x, seen' = [seen EXCEPT ![r] = x],
           Reader(db, label, job[r], x, since[r], start[r], lost[r])
    PROVE  HistoryInv'
<1>1. DOMAIN seen = Request
  BY InvFacts
<1>2. DOMAIN seen' = Request /\ seen'[r] = x /\ \A s \in Request \ {r} : seen'[s] = seen[s]
  BY <1>1
<1>3. Own(db, clock, pend[r], label, job[r], x, since[r], start[r], lost[r]) /\ ~Buying(label, job[r])
  BY OwnOfReader
<1> QED
  BY <1>2, <1>3, ReadStep

(* A seller's order has lines of no one else.                              *)
LEMMA LinesOfSeller ==
    ASSUME NEW rows, NEW now, Committed(rows, now), NEW o \in Order, Exists(rows, o), NEW seller
    PROVE  /\ rows[o].seller = seller => SellerLines(rows, o, seller) = Lines(rows, o)
           /\ SellerLines(rows, o, seller) # {} => rows[o].seller = seller
<1>1. \A i \in Inserted(rows, o) : SellerOf[rows[i].variant] = rows[o].seller
  BY DEF Committed, AddsUp
<1>2. Lines(rows, o) \subseteq Inserted(rows, o)
  BY PartsOf
<1> QED
  BY <1>1, <1>2 DEF SellerLines

LEMMA ListedShown ==
    ASSUME NEW rows, NEW now, Committed(rows, now), NEW j, j.op \in Walkers, NEW s,
           NEW o \in Listed(rows, j)
    PROVE  Shown(rows, j, s, o)
<1>1. o \in Order /\ Live(rows[o]) /\ Exists(rows, o)
  BY ListedAre
<1>2. ASSUME j.op = "sellerPages" PROVE rows[o].seller = j.seller /\ Lines(rows, o) # {}
  <2>1. \E i \in Lines(rows, o) : SellerOf[rows[i].variant] = j.seller
    BY <1>2 DEF Listed, OfSeller
  <2>2. SellerLines(rows, o, j.seller) # {}
    BY <2>1 DEF SellerLines
  <2> QED
    BY <1>1, <2>1, <2>2, LinesOfSeller
<1> QED
  BY <1>1, <1>2 DEF Shown, OfJob, Walkers

LEMMA Totals ==
    ASSUME NEW rows, TablesTyped(rows), NEW now, Committed(rows, now), NEW s, NEW j,
           NEW o \in Order, Exists(rows, o)
    PROVE  /\ j.op \in {"customerPages", "customerOrder"} =>
                Told(rows, j, s, o, [count |-> Cardinality(Lines(rows, o)), total |-> rows[o].total])
           /\ j.op \in {"sellerPages", "sellerOrder"} =>
                Told(rows, j, s, o, Summary(rows, Lines(rows, o)))
<1> DEFINE L == Lines(rows, o)
           U == Lines(rows, o) \cup Gone(rows, s, o)
<1>1. L \in SUBSET U /\ U \in SUBSET Slots(o) /\ L \in SUBSET Slots(o)
  BY PartsOf
<1>2. \A X \in SUBSET Slots(o) : IsFiniteSet(X) /\ Cardinality(X) \in Nat
  BY PartsOf
<1>3. ItemsTyped(rows) /\ rows[o] \in OrderRow
  BY TablesAre
<1>4. rows[o].total = Value(rows, Inserted(rows, o)) /\ rows[o].total \in Int
  BY <1>3 DEF Committed, AddsUp, OrderRow
<1> HIDE DEF L, U
<1>5. Cardinality(L) <= Cardinality(U) /\ Cardinality(L) \in Nat /\ Cardinality(U) \in Nat
  BY <1>1, <1>2, FS_Subset
<1>6. Value(rows, L) <= Value(rows, U) /\ Value(rows, L) \in Int /\ Value(rows, U) \in Int
  BY <1>1, <1>3, ValueMore
<1>7. Cardinality(L) \in Cardinality(L)..Cardinality(U) /\ Value(rows, L) \in Value(rows, L)..Value(rows, U)
  BY <1>5, <1>6
<1>8. ASSUME j.op \in {"customerPages", "customerOrder"}
      PROVE  Told(rows, j, s, o, [count |-> Cardinality(L), total |-> rows[o].total])
  BY <1>4, <1>5, <1>7, <1>8 DEF Told, L, U
<1>9. ASSUME j.op \in {"sellerPages", "sellerOrder"}
      PROVE  Told(rows, j, s, o, Summary(rows, L))
  BY <1>5, <1>6, <1>7, <1>9 DEF Told, Summary, L, U
<1> QED
  BY <1>8, <1>9 DEF L

LEMMA ListOrdersKeeps ==
    ASSUME HistoryInv, NEW r \in Request, ListOrders(r)
    PROVE  HistoryInv'
<1> DEFINE j == job[r]
           S == Listed(db, j)
           page == seen[r].page
           rows == Slice(NewestFirst(db, S), page, j.size)
           x == [page |-> page, results |-> seen[r].results, rows |-> rows,
                 shown |-> seen[r].shown \cup ToSet(rows), summary |-> <<>>, preview |-> <<>>]
           label == IF rows = <<>> THEN "served" ELSE IF j.op = "sellerPages" THEN "totals" ELSE "counts"
<1>1. /\ pc[r] = "list" /\ seen' = [seen EXCEPT ![r] = x] /\ pc' = [pc EXCEPT ![r] = label]
      /\ UNCHANGED <<db, pend, job>> /\ Quiet
  BY DEF ListOrders, Read, Keep, Goto
<1>2. /\ TablesTyped(db) /\ Committed(db, clock) /\ Sound(r)
      /\ j \in Job \cup {NoJob} /\ j.op \in OpsAt("list")
  BY <1>1, InvFacts
<1>3. /\ j.op \in Walkers /\ j.op \in Readers /\ j.size \in 1..100
      /\ j.op \in {"customerPages", "sellerPages"}
  <2>1. j.op \in Walkers
    BY <1>2 DEF OpsAt
  <2>2. j.op \in Readers /\ j.op \in {"customerPages", "sellerPages"} /\ j # NoJob
    BY <2>1 DEF Walkers, Readers, NoJob
  <2>3. j \in Job
    BY <1>2, <2>2
  <2> HIDE DEF j
  <2> QED
    BY <2>1, <2>2, <2>3, JobFields
<1>4. Walk(db, "list", j, seen[r], since[r], start[r], lost[r])
  BY <1>1, <1>2, <1>3 DEF Sound, Own, Reader
<1>5. /\ page \in Nat \ {0} /\ seen[r].shown \in SUBSET Order /\ seen[r].results \in Nat
      /\ j.op = "customerPages" => lost[r] = {}
  BY <1>4 DEF Walk
<1>6. Dated(db, S)
  BY <1>2, ListedDated
<1>7. S \subseteq Order
  BY ListedAre
<1> DEFINE from == Offset(page, j.size)
<1>8. /\ rows \in Seq(S) /\ (rows # <<>> <=> from < Cardinality(S))
      /\ \A o \in S : Rank(db, S, o) >= from /\ Rank(db, S, o) < from + j.size => o \in ToSet(rows)
      /\ Len(rows) < j.size => \A o \in S : Rank(db, S, o) >= from => o \in ToSet(rows)
      /\ ToSet(rows) \subseteq S
  <2>1. Dated(db, S) /\ page \in Nat \ {0} /\ j.size \in 1..100
    BY <1>3, <1>5, <1>6
  <2> HIDE DEF S, page, j
  <2> QED
    BY ONLY <2>1, PageIs
<1>9. from \in Nat /\ from + j.size = page * j.size /\ page * j.size \in Nat /\ j.size \in Nat
  <2>1. from \in Nat /\ from + j.size = page * j.size
    BY <1>3, <1>5, Offsets
  <2> QED
    BY <1>3, <2>1
<1>10. \A o \in S : Rank(db, S, o) \in Nat /\ Cardinality(S) \in Nat
  BY <1>6, NewerFinite
<1>11. label \in {"served", "totals", "counts"} /\ label \in Listing /\ label \in Label
       /\ j.op \in OpsAt(label)
  BY <1>3 DEF OpsAt, Label, Listing, Readers, Walkers
<1>12. x.rows = rows /\ x.page = page /\ x.results = seen[r].results
       /\ x.shown = seen[r].shown \cup ToSet(rows)
       /\ x.summary = <<>> /\ x.preview = <<>>
       /\ {"page", "results", "shown", "rows", "summary", "preview"} \subseteq DOMAIN x
  OBVIOUS
<1>13. ASSUME lost[r] = {} PROVE ToCome(db, label, j, x, start[r])
  <2>1. /\ start[r] \subseteq S
        /\ \A o \in start[r] \ seen[r].shown : Rank(db, S, o) >= from
    BY <1>4, <1>13 DEF Walk, ToCome, Passed, Rank
  <2>2. ASSUME NEW o \in start[r] \ x.shown PROVE Rank(db, S, o) >= page * j.size
    <3>1. o \in S /\ Rank(db, S, o) >= from /\ o \notin ToSet(rows)
      BY <1>12, <2>1
    <3>2. ~(Rank(db, S, o) < from + j.size)
      BY <1>8, <3>1
    <3>3. Rank(db, S, o) \in Nat
      BY <1>10, <3>1
    <3> HIDE DEF from, page, S
    <3> QED
      BY <1>9, <3>2, <3>3
  <2>3. ASSUME Len(rows) < j.size PROVE start[r] \subseteq x.shown
    BY <1>8, <1>12, <2>1, <2>3
  <2>4. Passed(label, x, j.size) = page * j.size
    BY <1>11, <1>12 DEF Passed
  <2> QED
    BY <1>12, <2>1, <2>2, <2>3, <2>4 DEF ToCome, Rank
<1>14. ASSUME since[r] \cap (Order \cup Item) = {}
       PROVE  x.rows # <<>> <=> x.page <= TotalPages(x.results, j.size)
  <2>1. seen[r].results = Cardinality(S)
    BY <1>4, <1>14 DEF Walk
  <2>2. from < seen[r].results <=> page <= TotalPages(seen[r].results, j.size)
    BY <1>3, <1>5, PagesCount
  <2> QED
    BY <1>8, <1>12, <2>1, <2>2
<1>15. Walk(db, label, j, x, since[r], start[r], lost[r])
  <2>1. x.shown \in SUBSET Order
    BY <1>5, <1>7, <1>8, <1>12
  <2> HIDE DEF x, label, page
  <2> QED
    BY <1>5, <1>11, <1>12, <1>13, <1>14, <2>1 DEF Walk
<1>16. Answer(db, label, j, x, since[r])
  <2>1. x.rows \in Seq(Order)
    BY <1>7, <1>8, <1>12
  <2>2. ASSUME NEW n \in DOMAIN x.rows PROVE Shown(db, j, since[r], x.rows[n])
    <3>1. x.rows[n] \in S
      BY <1>8, <1>12 DEF ToSet
    <3> HIDE DEF x, S
    <3>2. PICK o : o = x.rows[n]
      OBVIOUS
    <3>3. Shown(db, j, since[r], o)
      BY <1>2, <1>3, <3>1, <3>2, ListedShown DEF S
    <3> QED
      BY <3>2, <3>3
  <2>3. label \in {"previews", "served"} => x.rows = <<>>
    BY <1>12
  <2>4. label # "keyError"
    OBVIOUS
  <2> HIDE DEF x, label, rows
  <2> QED
    BY <1>12, <2>1, <2>2, <2>3, <2>4 DEF Answer
<1>17. Reader(db, label, j, x, since[r], start[r], lost[r])
  <2>2. j.op \notin {"customerOrder", "sellerOrder"}
    BY <1>3
  <2>3. label \notin {"count", "lineup", "belongs"}
    BY <1>11
  <2> HIDE DEF x, label, j
  <2> QED
    BY <1>15, <1>16, <2>2, <2>3 DEF Reader
<1> HIDE DEF x, label
<1> QED
  BY <1>1, <1>3, <1>11, <1>17, ReaderStep

LEMMA SummaryPut ==
    ASSUME NEW y, {"rows", "summary", "preview"} \subseteq DOMAIN y, NEW z, NEW x,
           x = [y EXCEPT !.summary = z]
    PROVE  /\ DOMAIN x = DOMAIN y /\ x.summary = z /\ x.rows = y.rows /\ x.preview = y.preview
           /\ {"page", "results", "shown"} \subseteq DOMAIN y =>
                x.page = y.page /\ x.results = y.results /\ x.shown = y.shown
OBVIOUS

LEMMA PreviewPut ==
    ASSUME NEW y, {"rows", "summary", "preview"} \subseteq DOMAIN y, NEW z, NEW x,
           x = [y EXCEPT !.preview = z]
    PROVE  /\ DOMAIN x = DOMAIN y /\ x.preview = z /\ x.rows = y.rows /\ x.summary = y.summary
           /\ {"page", "results", "shown"} \subseteq DOMAIN y =>
                x.page = y.page /\ x.results = y.results /\ x.shown = y.shown
OBVIOUS

LEMMA WalkSame ==
    ASSUME NEW rows, NEW j, NEW a \in Listing, NEW b \in Listing, NEW x, NEW y, NEW s, NEW t, NEW l,
           Walk(rows, a, j, y, s, t, l), DOMAIN x = DOMAIN y, x.rows = y.rows,
           {"page", "results", "shown"} \subseteq DOMAIN y =>
             x.page = y.page /\ x.results = y.results /\ x.shown = y.shown
    PROVE  Walk(rows, b, j, x, s, t, l)
<1>1. x.page = y.page /\ x.results = y.results /\ x.shown = y.shown
  BY DEF Walk
<1>2. a # "list" /\ b # "list" /\ a # "count" /\ b # "count"
  BY DEF Listing
<1>3. Passed(a, y, j.size) = Passed(b, x, j.size)
  BY <1>1, <1>2 DEF Passed
<1>4. ToCome(rows, a, j, y, t) => ToCome(rows, b, j, x, t)
  BY <1>1, <1>3 DEF ToCome
<1> QED
  BY <1>1, <1>2, <1>4 DEF Walk

LEMMA WalkingJob ==
    ASSUME HistoryInv, NEW r \in Request, job[r].op \in Walkers
    PROVE  /\ job[r] \in Job /\ job[r].op \in Readers /\ job[r].size \in 1..100
           /\ job[r].op \notin {"customerOrder", "sellerOrder"}
           /\ TablesTyped(db) /\ Committed(db, clock)
           /\ pc[r] \in Listing =>
                /\ Walk(db, pc[r], job[r], seen[r], since[r], start[r], lost[r])
                /\ Answer(db, pc[r], job[r], seen[r], since[r])
<1>1. /\ job[r] \in Job \cup {NoJob} /\ TablesTyped(db) /\ Committed(db, clock) /\ Sound(r)
  BY InvFacts
<1>2. job[r] \in Job /\ job[r].op \in Readers /\ job[r].op \notin {"customerOrder", "sellerOrder"}
  BY <1>1 DEF Walkers, Readers, NoJob
<1>3. ASSUME pc[r] \in Listing
      PROVE  /\ Walk(db, pc[r], job[r], seen[r], since[r], start[r], lost[r])
             /\ Answer(db, pc[r], job[r], seen[r], since[r])
  <2>1. Reader(db, pc[r], job[r], seen[r], since[r], start[r], lost[r]) /\ pc[r] # "count"
    BY <1>1, <1>3 DEF Sound, Own, Listing
  <2> QED
    BY <1>3, <2>1 DEF Reader
<1> QED
  BY <1>1, <1>2, <1>3, JobFields

(* The next statement of a page.                                           *)
LEMMA PageStep ==
    ASSUME HistoryInv, NEW r \in Request, job[r].op \in Walkers, pc[r] \in Listing,
           NEW label \in Listing, job[r].op \in OpsAt(label),
           pc' = [pc EXCEPT ![r] = label], UNCHANGED <<db, pend, job>>, Quiet,
           NEW x, seen' = [seen EXCEPT ![r] = x],
           DOMAIN x = DOMAIN seen[r], x.rows = seen[r].rows,
           {"page", "results", "shown"} \subseteq DOMAIN seen[r] =>
             x.page = seen[r].page /\ x.results = seen[r].results /\ x.shown = seen[r].shown,
           Answer(db, label, job[r], x, since[r])
    PROVE  HistoryInv'
<1>1. /\ job[r] \in Job /\ job[r].op \in Readers /\ job[r].op \notin {"customerOrder", "sellerOrder"}
      /\ Walk(db, pc[r], job[r], seen[r], since[r], start[r], lost[r])
  BY WalkingJob
<1>2. Walk(db, label, job[r], x, since[r], start[r], lost[r])
  BY <1>1, WalkSame
<1>3. label \in Label /\ label \notin {"new", "lines", "item", "variant", "drop", "order", "count", "lineup",
                                       "belongs", "total"}
  BY DEF Listing, Label
<1>4. Reader(db, label, job[r], x, since[r], start[r], lost[r])
  BY <1>1, <1>2, <1>3 DEF Reader
<1> QED
  BY <1>1, <1>3, <1>4, ReaderStep

LEMMA CountItemsKeeps ==
    ASSUME HistoryInv, NEW r \in Request, CountItems(r)
    PROVE  HistoryInv'
<1> DEFINE j == job[r]
           y == seen[r]
           z == [n \in DOMAIN y.rows |-> [count |-> Cardinality(Lines(db, y.rows[n])),
                                          total |-> db[y.rows[n]].total]]
           x == [y EXCEPT !.summary = z]
<1>1. /\ pc[r] = "counts" /\ seen' = [seen EXCEPT ![r] = x] /\ pc' = [pc EXCEPT ![r] = "previews"]
      /\ UNCHANGED <<db, pend, job>> /\ Quiet
  BY DEF CountItems, Read, Keep, Goto
<1>2. j.op = "customerPages" /\ j.op \in Walkers /\ j.op \in OpsAt("previews") /\ pc[r] \in Listing
      /\ "previews" \in Listing
  BY <1>1, InvFacts DEF OpsAt, Walkers, Listing
<1>3. Answer(db, "counts", j, y, since[r]) /\ TablesTyped(db) /\ Committed(db, clock)
  BY <1>1, <1>2, WalkingJob
<1>4. /\ y.rows \in Seq(Order) /\ {"rows", "summary", "preview"} \subseteq DOMAIN y /\ y.preview = <<>>
      /\ \A n \in DOMAIN y.rows : Shown(db, j, since[r], y.rows[n])
  BY <1>3 DEF Answer
<1>5. /\ DOMAIN x = DOMAIN y /\ x.summary = z /\ x.rows = y.rows /\ x.preview = y.preview
      /\ {"page", "results", "shown"} \subseteq DOMAIN y =>
           x.page = y.page /\ x.results = y.results /\ x.shown = y.shown
  <2> HIDE DEF z, y
  <2> QED
    BY <1>4, SummaryPut
<1>6. ASSUME NEW n \in DOMAIN y.rows PROVE Told(db, j, since[r], y.rows[n], z[n])
  <2>1. PICK o : o = y.rows[n]
    OBVIOUS
  <2>2. o \in Order /\ Exists(db, o)
    BY <1>4, <2>1 DEF Shown, OfJob, Live, Exists
  <2>3. Told(db, j, since[r], o, [count |-> Cardinality(Lines(db, o)), total |-> db[o].total])
    BY <1>2, <1>3, <2>2, Totals
  <2>4. z[n] = [count |-> Cardinality(Lines(db, o)), total |-> db[o].total]
    BY <2>1
  <2> QED
    BY <2>1, <2>3, <2>4
<1>7. DOMAIN z = DOMAIN y.rows
  OBVIOUS
<1> HIDE DEF z, x
<1>8. Answer(db, "previews", j, x, since[r])
  BY <1>4, <1>5, <1>6, <1>7 DEF Answer
<1> QED
  BY <1>1, <1>2, <1>5, <1>8, PageStep

LEMMA PreviewItemsKeeps ==
    ASSUME HistoryInv, NEW r \in Request, PreviewItems(r)
    PROVE  HistoryInv'
<1> DEFINE j == job[r]
           y == seen[r]
           z == [n \in DOMAIN y.rows |-> Min({PreviewLimit, Cardinality(Lines(db, y.rows[n]))})]
           x == [y EXCEPT !.preview = z]
<1>1. /\ pc[r] = "previews" /\ seen' = [seen EXCEPT ![r] = x] /\ pc' = [pc EXCEPT ![r] = "served"]
      /\ UNCHANGED <<db, pend, job>> /\ Quiet
  BY DEF PreviewItems, Read, Keep, Goto
<1>2. j.op = "customerPages" /\ j.op \in Walkers /\ j.op \in OpsAt("served") /\ pc[r] \in Listing
      /\ "served" \in Listing
  BY <1>1, InvFacts DEF OpsAt, Walkers, Readers, Listing
<1>3. Answer(db, "previews", j, y, since[r])
  BY <1>1, <1>2, WalkingJob
<1>4. /\ y.rows \in Seq(Order) /\ {"rows", "summary", "preview"} \subseteq DOMAIN y
      /\ \A n \in DOMAIN y.rows : Shown(db, j, since[r], y.rows[n])
      /\ DOMAIN y.summary = DOMAIN y.rows
      /\ \A n \in DOMAIN y.rows : Told(db, j, since[r], y.rows[n], y.summary[n])
  BY <1>3 DEF Answer
<1>5. /\ DOMAIN x = DOMAIN y /\ x.preview = z /\ x.rows = y.rows /\ x.summary = y.summary
      /\ {"page", "results", "shown"} \subseteq DOMAIN y =>
           x.page = y.page /\ x.results = y.results /\ x.shown = y.shown
  <2> HIDE DEF z, y
  <2> QED
    BY <1>4, PreviewPut
<1>6. ASSUME NEW n \in DOMAIN y.rows PROVE Previewed(db, y.rows[n], y.summary[n], z[n])
  <2>1. PICK o, c, told : o = y.rows[n] /\ c = Cardinality(Lines(db, o)) /\ told = y.summary[n]
    OBVIOUS
  <2>2. o \in Order /\ Told(db, j, since[r], o, told)
    BY <1>4, <2>1 DEF Shown
  <2>3. c \in Nat /\ Cardinality(Lines(db, o) \cup Gone(db, since[r], o)) \in Nat
    <3>1. Lines(db, o) \in SUBSET Slots(o) /\ Lines(db, o) \cup Gone(db, since[r], o) \in SUBSET Slots(o)
      BY <2>2, PartsOf
    <3>2. \A X \in SUBSET Slots(o) : IsFiniteSet(X) /\ Cardinality(X) \in Nat
      BY <2>2, PartsOf
    <3> QED
      BY <2>1, <3>1, <3>2
  <2>4. told.count \in Nat /\ c <= told.count
    BY <2>1, <2>2, <2>3 DEF Told
  <2>5. z[n] = Min({PreviewLimit, c})
    BY <2>1
  <2>6. Min({PreviewLimit, c}) \in Nat /\ Min({PreviewLimit, c}) <= Min({PreviewLimit, told.count})
    BY <2>3, <2>4, Tables, MinOfTwo
  <2> HIDE DEF z
  <2>7. Previewed(db, o, told, z[n])
    BY <2>1, <2>5, <2>6 DEF Previewed
  <2> QED
    BY <2>1, <2>7
<1> HIDE DEF z, x
<1>8. Answer(db, "served", j, x, since[r])
  BY <1>4, <1>5, <1>6 DEF Answer
<1> QED
  BY <1>1, <1>2, <1>5, <1>8, PageStep

LEMMA SumForSellerKeeps ==
    ASSUME HistoryInv, NEW r \in Request, SumForSeller(r)
    PROVE  HistoryInv'
<1> DEFINE j == job[r]
           y == seen[r]
           lines(n) == SellerLines(db, y.rows[n], j.seller)
           complete == \A n \in DOMAIN y.rows : lines(n) # {}
           z == [n \in DOMAIN y.rows |-> Summary(db, lines(n))]
           x == [y EXCEPT !.summary = z]
<1>1. /\ pc[r] = "totals" /\ Quiet
      /\ \/ complete /\ Read(r, x, "served")
         \/ ~complete /\ Continue(r, "keyError")
  BY DEF SumForSeller
<1>2. j.op = "sellerPages" /\ j.op \in Walkers /\ j.op \in OpsAt("served") /\ j.op \in OpsAt("keyError")
      /\ pc[r] \in Listing /\ "served" \in Listing /\ "keyError" \in Listing
  BY <1>1, InvFacts DEF OpsAt, Walkers, Readers, Listing
<1>3. Answer(db, "totals", j, y, since[r]) /\ TablesTyped(db) /\ Committed(db, clock)
  BY <1>1, <1>2, WalkingJob
<1>4. /\ y.rows \in Seq(Order) /\ {"rows", "summary", "preview"} \subseteq DOMAIN y /\ y.preview = <<>>
      /\ \A n \in DOMAIN y.rows : Shown(db, j, since[r], y.rows[n])
  BY <1>3 DEF Answer
<1>5. ASSUME NEW n \in DOMAIN y.rows
      PROVE  /\ y.rows[n] \in Order /\ Exists(db, y.rows[n]) /\ lines(n) = Lines(db, y.rows[n])
             /\ lines(n) = {} => Gone(db, since[r], y.rows[n]) # {}
  <2>1. PICK o : o = y.rows[n]
    OBVIOUS
  <2>2. o \in Order /\ Exists(db, o) /\ db[o].seller = j.seller
        /\ (Lines(db, o) # {} \/ Gone(db, since[r], o) # {})
    BY <1>2, <1>4, <2>1 DEF Shown, OfJob, Live, Exists
  <2>3. SellerLines(db, o, j.seller) = Lines(db, o)
    BY <1>3, <2>2, LinesOfSeller
  <2> QED
    BY <2>1, <2>2, <2>3
<1>6. CASE complete /\ Read(r, x, "served")
  <2>1. /\ seen' = [seen EXCEPT ![r] = x] /\ pc' = [pc EXCEPT ![r] = "served"]
        /\ UNCHANGED <<db, pend, job>>
    BY <1>6 DEF Read, Keep, Goto
  <2>2. /\ DOMAIN x = DOMAIN y /\ x.summary = z /\ x.rows = y.rows /\ x.preview = y.preview
        /\ {"page", "results", "shown"} \subseteq DOMAIN y =>
             x.page = y.page /\ x.results = y.results /\ x.shown = y.shown
    <3> HIDE DEF z, y
    <3> QED
      BY <1>4, SummaryPut
  <2>3. ASSUME NEW n \in DOMAIN y.rows PROVE Told(db, j, since[r], y.rows[n], z[n])
    <3>1. PICK o : o = y.rows[n]
      OBVIOUS
    <3>2. o \in Order /\ Exists(db, o) /\ z[n] = Summary(db, Lines(db, o))
      BY <1>5, <3>1
    <3>3. Told(db, j, since[r], o, Summary(db, Lines(db, o)))
      BY <1>2, <1>3, <3>2, Totals
    <3> QED
      BY <3>1, <3>2, <3>3
  <2>4. DOMAIN z = DOMAIN y.rows
    OBVIOUS
  <2> HIDE DEF z, x, lines, complete
  <2>5. Answer(db, "served", j, x, since[r])
    BY <1>4, <2>2, <2>3, <2>4 DEF Answer
  <2> QED
    BY <1>1, <1>2, <2>1, <2>2, <2>5, PageStep
<1>7. CASE ~complete /\ Continue(r, "keyError")
  <2>1. /\ pc' = [pc EXCEPT ![r] = "keyError"] /\ UNCHANGED <<db, pend, job>> /\ seen' = seen
    BY <1>7 DEF Continue, Goto
  <2>2. PICK n \in DOMAIN y.rows : lines(n) = {}
    BY <1>7
  <2>3. \E m \in DOMAIN y.rows : Lines(db, y.rows[m]) = {} /\ Gone(db, since[r], y.rows[m]) # {}
    BY <1>5, <2>2
  <2>4. Answer(db, "keyError", j, y, since[r])
    BY <1>4, <2>3 DEF Answer
  <2>5. Reader(db, "keyError", j, y, since[r], start[r], lost[r])
    <3>1. Walk(db, "totals", j, y, since[r], start[r], lost[r])
      BY <1>1, <1>2, WalkingJob
    <3>2. Walk(db, "keyError", j, y, since[r], start[r], lost[r])
      BY <1>1, <1>2, <3>1, WalkSame
    <3> QED
      BY <1>2, <2>4, <3>2 DEF Reader
  <2>6. Own(db, clock, pend[r], "keyError", j, y, since[r], start[r], lost[r]) /\ ~Buying("keyError", j)
    BY <1>2, <2>5, OwnOfReader DEF Readers
  <2>7. DOMAIN seen' = Request /\ seen'[r] = y
    BY <2>1, InvFacts
  <2>8. "keyError" \in Label
    BY DEF Label
  <2> HIDE DEF lines, complete
  <2> QED
    BY <1>1, <1>2, <2>1, <2>6, <2>7, <2>8, ReadStep
<1> QED
  BY <1>1, <1>6, <1>7

LEMMA NextPageKeeps ==
    ASSUME HistoryInv, NEW r \in Request, NextPage(r)
    PROVE  HistoryInv'
<1> DEFINE j == job[r]
           y == seen[r]
           x == [page |-> y.page, shown |-> y.shown]
<1>1. /\ pc[r] = "served" /\ j.op \in Walkers
      /\ \/ Read(r, x, "count") /\ Quiet
         \/ Finish(r) /\ Forget(r)
  BY DEF NextPage
<1>2. CASE Finish(r) /\ Forget(r)
  <2>1. pc[r] \in Label \ {"items", "commit"}
    BY <1>1 DEF Label
  <2> QED
    BY <1>2, <2>1, FinishKeeps
<1>3. CASE Read(r, x, "count") /\ Quiet
  <2>1. /\ seen' = [seen EXCEPT ![r] = x] /\ pc' = [pc EXCEPT ![r] = "count"]
        /\ UNCHANGED <<db, pend, job>> /\ Quiet
    BY <1>3 DEF Read, Keep, Goto
  <2>2. /\ j.op \in Readers /\ j.op \notin {"customerOrder", "sellerOrder"}
        /\ Walk(db, "served", j, y, since[r], start[r], lost[r]) /\ "served" \in Listing
    BY <1>1, WalkingJob DEF Listing
  <2>3. x.page = y.page /\ x.shown = y.shown
    OBVIOUS
  <2> HIDE DEF x
  <2>4. Passed("count", x, j.size) = Passed("served", y, j.size)
    BY <2>3 DEF Passed
  <2>5. Walk(db, "count", j, x, since[r], start[r], lost[r])
    <3>1. ToCome(db, "served", j, y, start[r]) => ToCome(db, "count", j, x, start[r])
      BY <2>3, <2>4 DEF ToCome, Listing
    <3> QED
      BY <2>2, <2>3, <3>1 DEF Walk, Listing
  <2>6. x = [page |-> x.page, shown |-> x.shown]
    BY <2>3 DEF x
  <2>7. Reader(db, "count", j, x, since[r], start[r], lost[r])
    BY <2>2, <2>5, <2>6 DEF Reader, Listing
  <2>8. "count" \in Label /\ j.op \in OpsAt("count")
    BY <1>1 DEF Label, OpsAt
  <2> QED
    BY <2>1, <2>2, <2>7, <2>8, ReaderStep
<1> QED
  BY <1>1, <1>2, <1>3

LEMMA CountOrdersKeeps ==
    ASSUME HistoryInv, NEW r \in Request, CountOrders(r)
    PROVE  HistoryInv'
<1> DEFINE j == job[r]
           y == seen[r]
           S == Listed(db, j)
           page == IF y = None THEN 1 ELSE y.page + 1
           shown == IF y = None THEN {} ELSE y.shown
           x == [page |-> page, shown |-> shown, results |-> Cardinality(S)]
           t == IF page = 1 THEN S ELSE start[r]
           l == IF page = 1 THEN {} ELSE lost[r]
<1>1. /\ pc[r] = "count" /\ seen' = [seen EXCEPT ![r] = x] /\ pc' = [pc EXCEPT ![r] = "list"]
      /\ UNCHANGED <<db, pend, job>> /\ clock' = clock
      /\ since' = [since EXCEPT ![r] = {}] /\ start' = [start EXCEPT ![r] = t]
      /\ lost' = [lost EXCEPT ![r] = l]
  BY DEF CountOrders, Read, Keep, Goto
<1>2. /\ DOMAIN pend = Request /\ DOMAIN pend[r] = Rows
      /\ \A k \in Rows : pend[r][k] \in {None} \cup RowType(k)
      /\ pc \in [Request -> Label] /\ job \in [Request -> Job \cup {NoJob}]
      /\ DOMAIN seen = Request /\ clock \in Nat
      /\ since \in [Request -> SUBSET Rows]
      /\ start \in [Request -> SUBSET Order] /\ lost \in [Request -> SUBSET Order] /\ Fits(job[r])
      /\ Sound(r) /\ j.op \in OpsAt("count")
  BY <1>1, InvFacts
<1>3. /\ j.op \in Walkers /\ j.op \in Readers /\ j.op \notin {"customerOrder", "sellerOrder"}
      /\ j.size \in 1..100 /\ TablesTyped(db) /\ Committed(db, clock)
  <2>1. j.op \in Walkers
    BY <1>2 DEF OpsAt
  <2> QED
    BY <2>1, WalkingJob
<1>4. S \subseteq Order /\ Cardinality(S) \in Nat /\ \A o \in S : Rank(db, S, o) \in Nat
  <2>1. S \in SUBSET Order /\ Dated(db, S)
    BY <1>3, ListedAre, ListedDated
  <2> HIDE DEF S
  <2>2. IsFiniteSet(Order)
    BY Tables
  <2> QED
    BY <2>1, <2>2, FS_Subset, FS_CardinalityType, NewerFinite
<1>5. x.page = page /\ x.shown = shown /\ x.results = Cardinality(S)
  OBVIOUS
<1>6. /\ page \in Nat \ {0} /\ shown \in SUBSET Order /\ (j.op = "customerPages" => l = {})
      /\ l = {} => /\ t \subseteq S
                   /\ \A o \in t \ shown : Rank(db, S, o) >= Offset(page, j.size)
      /\ t \in SUBSET Order /\ l \in SUBSET Order
  <2>1. CASE y = None
    <3>1. page = 1 /\ shown = {} /\ t = S /\ l = {}
      BY <2>1
    <3>2. Offset(1, j.size) = 0
      <4>1. j.size \in Int
        BY <1>3
      <4> HIDE DEF j
      <4>2. (1 - 1) * j.size = 0
        BY <4>1
      <4> QED
        BY <4>2 DEF Offset
    <3> HIDE DEF page, shown, t, l, S
    <3> QED
      BY <1>4, <3>1, <3>2
  <2>2. CASE y # None
    <3>1. Walk(db, "count", j, y, since[r], start[r], lost[r])
      BY <1>1, <1>2, <1>3, <2>2 DEF Sound, Own, Reader
    <3>2. y.page \in Nat \ {0} /\ y.shown \in SUBSET Order /\ (j.op = "customerPages" => lost[r] = {})
          /\ (lost[r] = {} => ToCome(db, "count", j, y, start[r]))
      BY <3>1 DEF Walk
    <3>3. page = y.page + 1 /\ shown = y.shown
      BY <2>2
    <3>4. page # 1
      BY <3>2, <3>3
    <3>5. t = start[r] /\ l = lost[r]
      BY <3>4
    <3>6. Offset(page, j.size) = Passed("count", y, j.size)
      <4>1. Offset(y.page + 1, j.size) = y.page * j.size
        BY <1>3, <3>2, Offsets
      <4> HIDE DEF page
      <4> QED
        BY <3>3, <4>1 DEF Passed
    <3>7. ASSUME l = {} PROVE t \subseteq S /\ \A o \in t \ shown : Rank(db, S, o) >= Offset(page, j.size)
      <4>1. ToCome(db, "count", j, y, start[r])
        BY <3>2, <3>5, <3>7
      <4> HIDE DEF page, shown, t, l
      <4> QED
        BY <3>3, <3>5, <3>6, <4>1 DEF ToCome, Rank
    <3>8. page \in Nat \ {0}
      BY <3>2, <3>3
    <3>9. t \in SUBSET Order /\ l \in SUBSET Order
      BY <1>2, <3>5
    <3> HIDE DEF page, shown, t, l, S
    <3> QED
      BY <3>2, <3>3, <3>5, <3>7, <3>8, <3>9
  <2> QED
    BY <2>1, <2>2
<1> HIDE DEF x, page, shown, t, l
<1>7. Walk(db, "list", j, x, {}, t, l)
  <2>1. Passed("list", x, j.size) = Offset(page, j.size)
    BY <1>5 DEF Passed
  <2>2. l = {} => ToCome(db, "list", j, x, t)
    BY <1>5, <1>6, <2>1 DEF ToCome, Listing, Rank
  <2> QED
    BY <1>4, <1>5, <1>6, <2>2 DEF Walk, Listing
<1>8. Reader(db, "list", j, x, {}, t, l)
  BY <1>3, <1>7 DEF Reader, Listing
<1>9. Own(db, clock, pend[r], "list", j, x, {}, t, l) /\ ~Buying("list", j)
  BY <1>3, <1>8, OwnOfReader
<1>10. /\ pc'[r] = "list" /\ job'[r] = j /\ seen'[r] = x /\ since'[r] = {} /\ start'[r] = t /\ lost'[r] = l
       /\ pend'[r] = pend[r]
  BY <1>1, <1>2
<1>11. OnlyMoves(r)
  BY <1>1, <1>2 DEF OnlyMoves
<1>12. TypesNext(r)
  <2>1. pc' \in [Request -> Label] /\ DOMAIN seen' = Request
    BY <1>1, <1>2 DEF Label
  <2>2. since' \in [Request -> SUBSET Rows] /\ start' \in [Request -> SUBSET Order]
        /\ lost' \in [Request -> SUBSET Order]
    BY <1>1, <1>2, <1>6
  <2> QED
    BY <1>1, <1>2, <2>1, <2>2 DEF TypesNext
<1>13. StaysApart(r)
  BY <1>9, <1>10 DEF StaysApart, Holds
<1>14. clock <= clock' /\ job'[r].op \in OpsAt(pc'[r]) /\ Fits(job'[r])
  BY <1>1, <1>2, <1>3, <1>10 DEF OpsAt
<1>15. Own(db, clock', pend'[r], pc'[r], job'[r], seen'[r], since'[r], start'[r], lost'[r])
  BY <1>1, <1>9, <1>10
<1>16. db' = db
  BY <1>1
<1> QED
  BY <1>11, <1>12, <1>13, <1>14, <1>15, <1>16, OwnStep

LEMMA DetailJobs ==
    ASSUME HistoryInv, NEW r \in Request, pc[r] \in {"order", "belongs", "lineup", "total"}
    PROVE  /\ job[r] \in Job /\ job[r].op \in {"customerOrder", "sellerOrder"} /\ job[r].op \in Readers
           /\ job[r].order \in Order /\ job[r].op \notin Walkers
           /\ pc[r] \in {"belongs", "total"} => job[r].op = "sellerOrder"
           /\ TablesTyped(db) /\ Committed(db, clock)
           /\ Reader(db, pc[r], job[r], seen[r], since[r], start[r], lost[r])
<1>1. /\ job[r] \in Job \cup {NoJob} /\ job[r].op \in OpsAt(pc[r]) /\ Sound(r)
      /\ TablesTyped(db) /\ Committed(db, clock)
  BY InvFacts
<1>2. /\ job[r].op \in {"customerOrder", "sellerOrder"}
      /\ pc[r] \in {"belongs", "total"} => job[r].op = "sellerOrder"
  BY <1>1 DEF OpsAt
<1>3. job[r] \in Job /\ job[r].op \in Readers /\ job[r].op \notin Walkers
  BY <1>1, <1>2 DEF NoJob, Readers, Walkers
<1> QED
  BY <1>1, <1>2, <1>3, JobFields DEF Sound, Own

LEMMA DetailStep ==
    ASSUME HistoryInv, NEW r \in Request, pc[r] \in {"order", "belongs"},
           NEW label \in {"belongs", "lineup"}, job[r].op \in OpsAt(label),
           Continue(r, label), Quiet,
           Reader(db, label, job[r], seen[r], since[r], start[r], lost[r])
    PROVE  HistoryInv'
<1>1. /\ pc' = [pc EXCEPT ![r] = label] /\ UNCHANGED <<db, pend, job>> /\ seen' = seen
  BY DEF Continue, Goto
<1>2. job[r].op \in Readers
  BY DetailJobs
<1>3. Own(db, clock, pend[r], label, job[r], seen[r], since[r], start[r], lost[r]) /\ ~Buying(label, job[r])
  BY <1>2, OwnOfReader
<1>4. DOMAIN seen' = Request /\ label \in Label
  BY <1>1, InvFacts DEF Label
<1>5. seen'[r] = seen[r] /\ \A s \in Request \ {r} : seen'[s] = seen[s]
  BY <1>1
<1> QED
  BY <1>1, <1>3, <1>4, <1>5, ReadStep

LEMMA FindOrderKeeps ==
    ASSUME HistoryInv, NEW r \in Request, FindOrder(r)
    PROVE  HistoryInv'
<1> DEFINE j == job[r]
           label == IF j.op = "customerOrder" THEN "lineup" ELSE "belongs"
<1>1. /\ pc[r] = "order"
      /\ \/ Live(db[j.order]) /\ Continue(r, label) /\ Quiet
         \/ Abandon(r)
  BY DEF FindOrder
<1>2. CASE Abandon(r)
  BY <1>2, AbandonKeeps
<1>3. CASE Live(db[j.order]) /\ Continue(r, label) /\ Quiet
  <2>1. j.op \in {"customerOrder", "sellerOrder"} /\ j.op \notin Walkers
    BY <1>1, DetailJobs
  <2>2. label \in {"belongs", "lineup"} /\ j.op \in OpsAt(label)
        /\ (label = "lineup" => j.op = "customerOrder")
    BY <2>1 DEF OpsAt
  <2>3. Reader(db, label, j, seen[r], since[r], start[r], lost[r])
    <3>1. label = "lineup" => OfJob(db, j, j.order)
      BY <1>3, <2>2 DEF OfJob
    <3> HIDE DEF label
    <3> QED
      BY <1>3, <2>1, <2>2, <3>1 DEF Reader, Listing
  <2> HIDE DEF label
  <2> QED
    BY <1>1, <1>3, <2>2, <2>3, DetailStep
<1> QED
  BY <1>1, <1>2, <1>3

LEMMA CheckBelongsKeeps ==
    ASSUME HistoryInv, NEW r \in Request, CheckBelongs(r)
    PROVE  HistoryInv'
<1> DEFINE j == job[r]
           o == j.order
<1>1. /\ pc[r] = "belongs"
      /\ \/ SellerLines(db, o, j.seller) # {} /\ Continue(r, "lineup") /\ Quiet
         \/ Abandon(r)
  BY DEF CheckBelongs
<1>2. CASE Abandon(r)
  BY <1>2, AbandonKeeps
<1>3. CASE SellerLines(db, o, j.seller) # {} /\ Continue(r, "lineup") /\ Quiet
  <2>1. /\ j.op = "sellerOrder" /\ j.op \notin Walkers /\ o \in Order /\ Committed(db, clock)
        /\ Reader(db, "belongs", j, seen[r], since[r], start[r], lost[r])
    BY <1>1, DetailJobs
  <2>2. Live(db[o]) /\ Exists(db, o)
    BY <2>1 DEF Reader, Live, Exists
  <2>3. db[o].seller = j.seller /\ Lines(db, o) # {}
    <3>1. Lines(db, o) # {}
      BY <1>3 DEF SellerLines
    <3> HIDE DEF o
    <3> QED
      BY <1>3, <2>1, <2>2, <3>1, LinesOfSeller
  <2>4. OfJob(db, j, o) /\ Shown(db, j, since[r], o)
    BY <2>1, <2>2, <2>3 DEF OfJob, Shown
  <2>5. Reader(db, "lineup", j, seen[r], since[r], start[r], lost[r])
    BY <2>1, <2>4 DEF Reader, Listing
  <2>6. j.op \in OpsAt("lineup")
    BY <2>1 DEF OpsAt
  <2> QED
    BY <1>1, <1>3, <2>5, <2>6, DetailStep
<1> QED
  BY <1>1, <1>2, <1>3

LEMMA ListItemsKeeps ==
    ASSUME HistoryInv, NEW r \in Request, ListItems(r)
    PROVE  HistoryInv'
<1> DEFINE j == job[r]
           o == j.order
           lines == IF j.op = "customerOrder" THEN Lines(db, o) ELSE SellerLines(db, o, j.seller)
           told == [count |-> Cardinality(lines), total |-> db[o].total]
           x == [rows |-> <<o>>, items |-> lines, preview |-> <<>>, summary |-> <<told>>]
           label == IF j.op = "customerOrder" THEN "served" ELSE "total"
<1>1. /\ pc[r] = "lineup" /\ seen' = [seen EXCEPT ![r] = x] /\ pc' = [pc EXCEPT ![r] = label]
      /\ UNCHANGED <<db, pend, job>> /\ Quiet
  BY DEF ListItems, Read, Keep, Goto
<1>2. /\ j.op \in {"customerOrder", "sellerOrder"} /\ j.op \in Readers /\ j.op \notin Walkers
      /\ o \in Order /\ TablesTyped(db) /\ Committed(db, clock)
      /\ Reader(db, "lineup", j, seen[r], since[r], start[r], lost[r])
  BY <1>1, DetailJobs
<1>3. Shown(db, j, since[r], o) /\ Exists(db, o)
  <2>1. OfJob(db, j, o) /\ (j.op = "sellerOrder" => Shown(db, j, since[r], o))
    BY <1>2 DEF Reader
  <2> QED
    BY <1>2, <2>1 DEF Shown, OfJob, Live, Exists
<1>4. /\ label \in {"served", "total"} /\ label \in Label /\ j.op \in OpsAt(label)
      /\ label = "served" => j.op = "customerOrder"
  BY <1>2 DEF Label, OpsAt, Readers
<1>5. label = "served" => Told(db, j, since[r], o, told)
  <2>1. ASSUME label = "served" PROVE Told(db, j, since[r], o, told)
    <3>1. j.op = "customerOrder" /\ lines = Lines(db, o)
      BY <1>4, <2>1
    <3>2. Told(db, j, since[r], o, [count |-> Cardinality(Lines(db, o)), total |-> db[o].total])
      <4> HIDE DEF o
      <4> QED
        BY <1>2, <1>3, <3>1, Totals
    <3> QED
      BY <3>1, <3>2
  <2> QED
    BY <2>1
<1>6. /\ x.rows = <<o>> /\ x.preview = <<>> /\ x.summary = <<told>>
      /\ {"rows", "summary", "preview"} \subseteq DOMAIN x
  OBVIOUS
<1> HIDE DEF x, told, lines, label
<1>7. Answer(db, label, j, x, since[r])
  <2>1. x.rows \in Seq(Order) /\ DOMAIN x.rows = {1} /\ DOMAIN x.summary = {1} /\ x.rows[1] = o
        /\ x.summary[1] = told
    BY <1>2, <1>6
  <2> QED
    BY <1>3, <1>4, <1>5, <1>6, <2>1 DEF Answer
<1>8. Reader(db, label, j, x, since[r], start[r], lost[r])
  BY <1>2, <1>4, <1>6, <1>7 DEF Reader
<1> QED
  BY <1>1, <1>2, <1>4, <1>8, ReaderStep

LEMMA SumDetailKeeps ==
    ASSUME HistoryInv, NEW r \in Request, SumDetail(r)
    PROVE  HistoryInv'
<1> DEFINE j == job[r]
           o == j.order
           y == seen[r]
           told == Summary(db, SellerLines(db, o, j.seller))
           z == <<told>>
           x == [y EXCEPT !.summary = z]
<1>1. /\ pc[r] = "total" /\ seen' = [seen EXCEPT ![r] = x] /\ pc' = [pc EXCEPT ![r] = "served"]
      /\ UNCHANGED <<db, pend, job>> /\ Quiet
  BY DEF SumDetail, Read, Keep, Goto
<1>2. /\ j.op = "sellerOrder" /\ j.op \in Readers /\ j.op \notin Walkers
      /\ o \in Order /\ TablesTyped(db) /\ Committed(db, clock)
      /\ Reader(db, "total", j, y, since[r], start[r], lost[r])
  BY <1>1, DetailJobs
<1>3. Answer(db, "total", j, y, since[r]) /\ y.rows = <<o>>
  BY <1>2 DEF Reader
<1>4. /\ {"rows", "summary", "preview"} \subseteq DOMAIN y /\ y.preview = <<>>
      /\ Shown(db, j, since[r], o)
  <2>1. 1 \in DOMAIN y.rows /\ y.rows[1] = o
    BY <1>3
  <2> QED
    BY <1>3, <2>1 DEF Answer
<1>5. Exists(db, o) /\ db[o].seller = j.seller
  BY <1>2, <1>4 DEF Shown, OfJob, Live, Exists
<1>6. Told(db, j, since[r], o, told)
  <2>1. SellerLines(db, o, j.seller) = Lines(db, o)
    <3> HIDE DEF o
    <3> QED
      BY <1>2, <1>5, LinesOfSeller
  <2>2. Told(db, j, since[r], o, Summary(db, Lines(db, o)))
    <3> HIDE DEF o
    <3> QED
      BY <1>2, <1>5, Totals
  <2> QED
    BY <2>1, <2>2
<1>7. x.summary = z /\ x.rows = y.rows /\ x.preview = y.preview /\ DOMAIN x = DOMAIN y
  <2> HIDE DEF z, y
  <2> QED
    BY <1>4, SummaryPut
<1>8. DOMAIN z = {1} /\ z[1] = told
  OBVIOUS
<1> HIDE DEF x, told, z
<1>9. Answer(db, "served", j, x, since[r])
  <2>1. x.rows \in Seq(Order) /\ DOMAIN x.rows = {1} /\ x.rows[1] = o
    BY <1>2, <1>3, <1>7
  <2> QED
    BY <1>4, <1>6, <1>7, <1>8, <2>1 DEF Answer
<1>10. Reader(db, "served", j, x, since[r], start[r], lost[r])
  BY <1>2, <1>3, <1>7, <1>9 DEF Reader
<1>11. "served" \in Label /\ j.op \in OpsAt("served")
  BY <1>2 DEF Label, OpsAt
<1> QED
  BY <1>1, <1>2, <1>10, <1>11, ReaderStep

LEMMA EndDetailKeeps ==
    ASSUME HistoryInv, NEW r \in Request, EndDetail(r)
    PROVE  HistoryInv'
<1>1. pc[r] \in Label \ {"items", "commit"} /\ Finish(r) /\ Forget(r)
  BY DEF EndDetail, Label
<1> QED
  BY <1>1, FinishKeeps

-----------------------------------------------------------------------------
(* Calls.                                                                  *)
LEMMA OwnOfNone ==
    ASSUME HistoryInv, NEW r \in Request, pc[r] \notin {"items", "commit"}
    PROVE  \A k \in Rows : pend[r][k] = None
<1>1. \A k \in Rows : pend[r][k] # None => k \in Writes(pc[r], job[r], seen[r])
  BY InvFacts DEF Sound, Own, Writer
<1>2. Writes(pc[r], job[r], seen[r]) = {}
  BY DEF Writes
<1> QED
  BY <1>1, <1>2

LEMMA BeginStep ==
    ASSUME HistoryInv, NEW r \in Request, pc[r] = "new", NEW j \in Job, job' = [job EXCEPT ![r] = j],
           NEW label \in {"lines", "item", "variant", "drop", "count", "order"},
           pc' = [pc EXCEPT ![r] = label], UNCHANGED <<db, pend, seen, clock, start, lost>>,
           since' = [since EXCEPT ![r] = {}], j.op \in OpsAt(label), Fits(j)
    PROVE  HistoryInv'
<1>1. /\ DOMAIN pend = Request /\ DOMAIN pend[r] = Rows
      /\ \A k \in Rows : pend[r][k] \in {None} \cup RowType(k)
      /\ pc \in [Request -> Label] /\ job \in [Request -> Job \cup {NoJob}]
      /\ DOMAIN seen = Request /\ clock \in Nat
      /\ since \in [Request -> SUBSET Rows]
      /\ start \in [Request -> SUBSET Order] /\ lost \in [Request -> SUBSET Order] /\ Sound(r)
  BY InvFacts
<1>2. /\ label \in Label /\ pc'[r] = label /\ pc' \in [Request -> Label]
      /\ job'[r] = j /\ job' \in [Request -> Job \cup {NoJob}]
      /\ since'[r] = {} /\ since' \in [Request -> SUBSET Rows]
      /\ \A s \in Request \ {r} : pc'[s] = pc[s] /\ job'[s] = job[s] /\ since'[s] = since[s]
  BY <1>1 DEF Label
<1>3. seen[r] = None
  BY <1>1 DEF Sound, Own
<1>4. \A k \in Rows : pend[r][k] = None
  BY OwnOfNone
<1>5. ~Buying(label, j)
  BY DEF Buying, Pricing, Storing
<1>6. OnlyMoves(r) /\ TypesNext(r)
  BY <1>1, <1>2 DEF OnlyMoves, TypesNext
<1>7. StaysApart(r)
  BY <1>2, <1>5 DEF StaysApart, Holds
<1>8. Buyer(db, clock, pend[r], label, j, None, {})
  BY <1>5 DEF Buyer
<1>9. Writer(db, pend[r], label, j, None)
  BY <1>4 DEF Writer
<1>10. Reader(db, label, j, None, {}, start[r], lost[r])
  <2>1. j.op \in Walkers => label = "count"
    BY DEF OpsAt, Walkers
  <2> QED
    BY <2>1 DEF Reader, Listing
<1>11. label = "lines" => FirstLines(j.lines) \subseteq 1..MaxLines
  BY DEF OpsAt, Fits
<1>12. Own(db, clock, pend[r], label, j, None, {}, start[r], lost[r])
  BY <1>8, <1>9, <1>10, <1>11 DEF Own
<1>13. clock <= clock' /\ job'[r].op \in OpsAt(pc'[r]) /\ Fits(job'[r])
  BY <1>1, <1>2
<1>14. Own(db, clock', pend'[r], pc'[r], job'[r], seen'[r], since'[r], start'[r], lost'[r])
  BY <1>2, <1>3, <1>12
<1> QED
  BY <1>6, <1>7, <1>13, <1>14, OwnStep

LEMMA ArriveAtKeeps ==
    ASSUME HistoryInv, NEW r \in Request, NEW label \in {"item", "variant", "drop", "count", "order"},
           NEW ops, ops = OpsAt(label), ArriveAt(r, ops, label)
    PROVE  HistoryInv'
<1>1. PICK j \in {i \in Asked[r] : i.op \in ops} : job' = [job EXCEPT ![r] = j]
  BY DEF ArriveAt, Begin
<1>2. j \in Call /\ j.op \in ops
  BY OrderHistoryAssumption
<1>3. j.op # "checkout"
  BY <1>2 DEF OpsAt, Walkers
<1>4. j \in Job
  BY <1>2, <1>3 DEF Job, CheckoutCall
<1>5. /\ pc[r] = "new" /\ pc' = [pc EXCEPT ![r] = label] /\ UNCHANGED <<db, pend, seen>>
      /\ since' = [since EXCEPT ![r] = {}] /\ UNCHANGED <<clock, start, lost>>
  BY DEF ArriveAt, Begin, Goto
<1>6. Fits(j)
  BY <1>3 DEF Fits
<1> QED
  BY <1>1, <1>2, <1>4, <1>5, <1>6, BeginStep

(* What a client asks to pay is a number.                                  *)
LEMMA QuotesAreInt ==
    ASSUME NEW rows, TablesTyped(rows), NEW lines \in Seq(Line)
    PROVE  Due(rows, lines) \in Int /\ DueUnrounded(rows, lines) \in Int
<1> DEFINE D == DOMAIN lines
           exact(x) == x.price * (IF x.off = None THEN 100 ELSE 100 - x.off)
           f == [i \in D |-> UnitPrice(rows[lines[i].variant]) * lines[i].quantity]
           g == [i \in D |-> exact(rows[lines[i].variant]) * lines[i].quantity]
<1>1. IsFiniteSet(D)
  BY FirstOfVariant
<1>2. ASSUME NEW i \in D
      PROVE  /\ lines[i].quantity \in Int /\ UnitPrice(rows[lines[i].variant]) \in Nat
             /\ exact(rows[lines[i].variant]) \in Int
  <2>1. lines[i] \in Line
    OBVIOUS
  <2>2. lines[i].quantity \in Int /\ rows[lines[i].variant] \in VariantRow
    BY <2>1, TablesAre DEF Line
  <2>3. PICK x : x = rows[lines[i].variant]
    OBVIOUS
  <2>4. x \in VariantRow
    BY <2>2, <2>3
  <2>5. exact(x) \in Int
    <3>1. x.price \in Int /\ x.off \in 0..100 \cup {None}
      BY <2>4 DEF VariantRow
    <3>2. PICK a : a = IF x.off = None THEN 100 ELSE 100 - x.off
      OBVIOUS
    <3>3. a \in Int
      BY <3>1, <3>2
    <3>4. PICK b \in Int : b = x.price
      BY <3>1
    <3>5. b * a \in Int
      BY <3>3, <3>4
    <3>6. exact(x) = b * a
      BY <3>2, <3>4
    <3> HIDE DEF exact
    <3> QED
      BY <3>5, <3>6
  <2> HIDE DEF exact
  <2> QED
    BY <2>2, <2>3, <2>4, <2>5, UnitPriceIsNat
<1>3. f \in [D -> Int]
  <2> HIDE DEF exact
  <2>1. \A i \in D : UnitPrice(rows[lines[i].variant]) * lines[i].quantity \in Int
    BY <1>2
  <2> QED
    BY <2>1
<1>4. g \in [D -> Int]
  <2> HIDE DEF exact
  <2>1. \A i \in D : exact(rows[lines[i].variant]) * lines[i].quantity \in Int
    BY <1>2
  <2> QED
    BY <2>1
<1>5. f = [i \in D |-> f[i]] /\ g = [i \in D |-> g[i]]
  OBVIOUS
<1>6. Due(rows, lines) = SumFunction(f) /\ DueUnrounded(rows, lines) = RoundHalfEven(SumFunction(g), 100)
  BY DEF Due, DueUnrounded
<1> HIDE DEF f, g
<1>7. SumFunction(f) = Over(f, D) /\ SumFunction(g) = Over(g, D)
  BY <1>5, OverAll
<1>8. D \in SUBSET D
  OBVIOUS
<1> HIDE DEF D
<1>9. SumFunction(f) \in Int /\ SumFunction(g) \in Int
  BY <1>1, <1>3, <1>4, <1>7, <1>8, OverIsInt
<1>10. RoundHalfEven(SumFunction(g), 100) \in Int
  <2>1. PICK n \in Int : n = SumFunction(g)
    BY <1>9
  <2>2. n \div 100 \in Int
    OBVIOUS
  <2>3. RoundHalfEven(n, 100) \in Int
    BY <2>2 DEF RoundHalfEven
  <2> QED
    BY <2>1, <2>3
<1> QED
  BY <1>6, <1>9, <1>10

LEMMA ArriveCheckoutKeeps ==
    ASSUME HistoryInv, NEW r \in Request, ArriveCheckout(r)
    PROVE  HistoryInv'
<1> DEFINE Jobs(j) == [op : {"checkout"}, by : {j.by}, ref : {j.ref}, lines : {j.lines},
                       quote : {Due(db, j.lines), DueUnrounded(db, j.lines)}]
<1>1. PICK j \in UNION {Jobs(i) : i \in {i \in Asked[r] : i.op = "checkout"}} : job' = [job EXCEPT ![r] = j]
  BY DEF ArriveCheckout, Begin
<1>2. PICK i \in Asked[r] : i.op = "checkout" /\ j \in Jobs(i)
  BY <1>1
<1>3. /\ i \in Call /\ FirstLines(i.lines) \subseteq 1..MaxLines
  BY <1>2, OrderHistoryAssumption
<1>4. i \in CheckoutCall
  BY <1>2, <1>3 DEF Call, CheckoutCall, DeleteItemJob, RepriceJob, DropJob, CustomerPages, SellerPages,
                    DetailJob
<1>5. i.by \in Customer /\ i.ref \in Reference /\ i.lines \in Seq(Line)
  BY <1>4 DEF CheckoutCall
<1>6. Due(db, i.lines) \in Int /\ DueUnrounded(db, i.lines) \in Int
  BY <1>5, QuotesAreInt, InvFacts
<1>7. j \in CheckoutJob /\ j.lines = i.lines /\ j.op = "checkout"
  BY <1>2, <1>5, <1>6 DEF CheckoutJob
<1>8. j \in Job /\ Fits(j) /\ j.op \in OpsAt("lines")
  BY <1>3, <1>7 DEF Job, Fits, OpsAt
<1>9. /\ pc[r] = "new" /\ pc' = [pc EXCEPT ![r] = "lines"] /\ UNCHANGED <<db, pend, seen>>
      /\ since' = [since EXCEPT ![r] = {}] /\ UNCHANGED <<clock, start, lost>>
  BY DEF ArriveCheckout, Begin, Goto
<1> QED
  BY <1>1, <1>8, <1>9, BeginStep

LEMMA ArriveKeeps ==
    ASSUME HistoryInv, NEW r \in Request, Arrive(r)
    PROVE  HistoryInv'
<1>1. CASE ArriveCheckout(r)
  BY <1>1, ArriveCheckoutKeeps
<1>2. CASE ArriveAt(r, {"deleteItem"}, "item")
  <2>1. OpsAt("item") = {"deleteItem"}
    BY DEF OpsAt
  <2> QED
    BY <1>2, <2>1, ArriveAtKeeps
<1>3. CASE ArriveAt(r, {"reprice"}, "variant")
  <2>1. OpsAt("variant") = {"reprice"}
    BY DEF OpsAt
  <2> QED
    BY <1>3, <2>1, ArriveAtKeeps
<1>4. CASE ArriveAt(r, {"drop"}, "drop")
  <2>1. OpsAt("drop") = {"drop"}
    BY DEF OpsAt
  <2> QED
    BY <1>4, <2>1, ArriveAtKeeps
<1>5. CASE ArriveAt(r, {"customerPages", "sellerPages"}, "count")
  <2>1. OpsAt("count") = {"customerPages", "sellerPages"}
    BY DEF OpsAt, Walkers
  <2> QED
    BY <1>5, <2>1, ArriveAtKeeps
<1>6. CASE ArriveAt(r, {"customerOrder", "sellerOrder"}, "order")
  <2>1. OpsAt("order") = {"customerOrder", "sellerOrder"}
    BY DEF OpsAt
  <2> QED
    BY <1>6, <2>1, ArriveAtKeeps
<1> QED
  BY <1>1, <1>2, <1>3, <1>4, <1>5, <1>6 DEF Arrive

-----------------------------------------------------------------------------
(* Checkouts.                                                              *)
LEMMA CheckoutFacts ==
    ASSUME HistoryInv, NEW r \in Request,
           pc[r] \in {"lines", "resolve", "quote", "outOfDate", "insert", "items"}
    PROVE  /\ job[r] \in Job /\ job[r].op = "checkout" /\ job[r].lines \in Seq(Line)
           /\ job[r].by \in Customer /\ job[r].ref \in Reference
           /\ FirstLines(job[r].lines) \subseteq 1..MaxLines
           /\ TablesTyped(db) /\ Committed(db, clock)
           /\ Buyer(db, clock, pend[r], pc[r], job[r], seen[r], since[r])
           /\ pc[r] # "lines" => Buying(pc[r], job[r])
<1>1. /\ job[r] \in Job \cup {NoJob} /\ job[r].op \in OpsAt(pc[r]) /\ Sound(r) /\ Fits(job[r])
      /\ TablesTyped(db) /\ Committed(db, clock)
  BY InvFacts
<1>2. job[r].op = "checkout"
  BY <1>1 DEF OpsAt
<1>3. job[r] \in Job
  BY <1>1, <1>2 DEF NoJob
<1> QED
  BY <1>1, <1>2, <1>3, JobFields DEF Sound, Own, Fits, Buying, Pricing, Storing

LEMMA OwnOfBuyer ==
    ASSUME NEW rows, NEW now, NEW p, NEW label \in Pricing \cup Storing, NEW j, j.op = "checkout", NEW x,
           NEW s, NEW t, NEW l, Buyer(rows, now, p, label, j, x, s),
           \A k \in Rows : p[k] # None => k \in Writes(label, j, x)
    PROVE  Own(rows, now, p, label, j, x, s, t, l)
<1>1. Writer(rows, p, label, j, x)
  BY DEF Writer
<1>2. Reader(rows, label, j, x, s, t, l)
  BY DEF Reader, Walkers, Listing, Pricing, Storing
<1> QED
  BY <1>1, <1>2 DEF Own, Pricing, Storing

LEMMA CheckLinesKeeps ==
    ASSUME HistoryInv, NEW r \in Request, CheckLines(r)
    PROVE  HistoryInv'
<1> DEFINE j == job[r]
           lines == j.lines
           x == [at |-> clock, left |-> FirstLines(lines), bought |-> Merged(lines)]
<1>1. /\ pc[r] = "lines"
      /\ \/ Abandon(r)
         \/ /\ lines # <<>> /\ \A i \in DOMAIN lines : lines[i].quantity > 0
            /\ Read(r, x, "resolve") /\ clock' = clock + 1 /\ UNCHANGED <<since, start, lost>>
  BY DEF CheckLines
<1>2. CASE Abandon(r)
  BY <1>2, AbandonKeeps
<1>3. CASE /\ lines # <<>> /\ \A i \in DOMAIN lines : lines[i].quantity > 0
           /\ Read(r, x, "resolve") /\ clock' = clock + 1 /\ UNCHANGED <<since, start, lost>>
  <2>1. /\ DOMAIN pend = Request /\ DOMAIN pend[r] = Rows
        /\ \A k \in Rows : pend[r][k] \in {None} \cup RowType(k)
        /\ pc \in [Request -> Label] /\ job \in [Request -> Job \cup {NoJob}]
        /\ DOMAIN seen = Request /\ clock \in Nat
        /\ since \in [Request -> SUBSET Rows]
        /\ start \in [Request -> SUBSET Order] /\ lost \in [Request -> SUBSET Order] /\ Fits(job[r])
    BY InvFacts
  <2>2. /\ j.op = "checkout" /\ lines \in Seq(Line) /\ TablesTyped(db) /\ Committed(db, clock)
    BY <1>1, CheckoutFacts
  <2>3. /\ pc' = [pc EXCEPT ![r] = "resolve"] /\ seen' = [seen EXCEPT ![r] = x]
        /\ UNCHANGED <<db, pend, job, since, start, lost>> /\ clock' = clock + 1
    BY <1>3 DEF Read, Keep, Goto
  <2>4. x.at = clock /\ x.left = FirstLines(lines) /\ x.bought = Merged(lines)
    OBVIOUS
  <2>5. FirstLines(lines) \subseteq DOMAIN lines /\ 1 \in FirstLines(lines)
    BY <1>3, <2>2, FirstOfVariant
  <2>6. ASSUME NEW i \in FirstLines(lines)
        PROVE  /\ lines[i].variant \in Variant /\ Quantity(lines, lines[i].variant) \in Nat
    <3>1. lines[i] \in Line
      BY <2>2, <2>5
    <3> QED
      BY <1>3, <2>2, <3>1, QuantityIsNat DEF Line
  <2>7. AsOrdered(j, Merged(lines))
    <3>1. Merged(lines) \in [FirstLines(lines) -> BoughtRow]
      BY <2>6 DEF Merged, BoughtRow
    <3>2. \A i \in FirstLines(lines) : /\ Merged(lines)[i].variant = lines[i].variant
                                       /\ Merged(lines)[i].quantity = Quantity(lines, lines[i].variant)
      BY DEF Merged
    <3> QED
      BY <3>1, <3>2 DEF AsOrdered, Cart
  <2>8. Pricer(db, "resolve", j, x, since[r])
    <3>1. x \in [at : Nat, left : SUBSET FirstLines(j.lines), bought : Cart(j)]
      BY <2>1, <2>7 DEF AsOrdered
    <3>2. FirstLines(j.lines) \ x.left = {} /\ x.left # {}
      BY <2>5
    <3> HIDE DEF x
    <3> QED
      BY <3>1, <3>2 DEF Pricer, OfOneSeller
  <2>9. Stamp(pend[r], "resolve", x) = clock
    BY <2>4 DEF Stamp, Pricing
  <2>10. \A o \in Order : Exists(db, o) => db[o].at # clock
    <3>1. \A o \in Order : Exists(db, o) => db[o].at < clock /\ db[o].at \in Nat
      BY <2>2, TablesAre DEF Committed, OrderRow
    <3> QED
      BY <2>1, <3>1
  <2>11. Buyer(db, clock + 1, pend[r], "resolve", j, x, since[r])
    <3>1. Orderable(j)
      BY <1>3 DEF Orderable
    <3>2. clock \in Nat /\ clock < clock + 1
      BY <2>1
    <3> HIDE DEF x, j
    <3> QED
      BY <2>4, <2>7, <2>8, <2>9, <2>10, <3>1, <3>2 DEF Buyer, Pricing, Storing
  <2>12. \A k \in Rows : pend[r][k] = None
    BY <1>1, OwnOfNone
  <2> HIDE DEF x
  <2>13. Own(db, clock + 1, pend[r], "resolve", j, x, since[r], start[r], lost[r])
    BY <2>2, <2>11, <2>12, OwnOfBuyer DEF Pricing
  <2>14. /\ pc'[r] = "resolve" /\ pc' \in [Request -> Label] /\ seen'[r] = x /\ DOMAIN seen' = Request
         /\ \A s \in Request \ {r} : pc'[s] = pc[s] /\ seen'[s] = seen[s]
    BY <2>1, <2>3 DEF Label
  <2>15. OnlyMoves(r) /\ TypesNext(r)
    BY <2>1, <2>3, <2>14 DEF OnlyMoves, TypesNext
  <2>16. StaysApart(r)
    <3>1. Stamp(pend'[r], pc'[r], seen'[r]) = clock
      BY <2>3, <2>9, <2>14
    <3> QED
      BY <2>3, <3>1 DEF StaysApart, Holds
  <2>17. clock <= clock' /\ job'[r].op \in OpsAt(pc'[r]) /\ Fits(job'[r])
    BY <2>1, <2>2, <2>3, <2>14 DEF OpsAt
  <2>18. Own(db, clock', pend'[r], pc'[r], job'[r], seen'[r], since'[r], start'[r], lost'[r])
    BY <2>3, <2>13, <2>14
  <2> QED
    BY <2>3, <2>15, <2>16, <2>17, <2>18, OwnStep
<1> QED
  BY <1>1, <1>2, <1>3

LEMMA PricingStep ==
    ASSUME HistoryInv, NEW r \in Request, pc[r] \in Pricing, NEW label \in Pricing,
           pc' = [pc EXCEPT ![r] = label], UNCHANGED <<db, pend, job>>, Quiet,
           NEW x, DOMAIN seen' = Request, seen'[r] = x, \A s \in Request \ {r} : seen'[s] = seen[s],
           x.at = seen[r].at, AsOrdered(job[r], x.bought), Pricer(db, label, job[r], x, since[r])
    PROVE  HistoryInv'
<1>1. /\ job[r].op = "checkout" /\ Buying(pc[r], job[r])
      /\ Buyer(db, clock, pend[r], pc[r], job[r], seen[r], since[r])
  BY CheckoutFacts DEF Pricing
<1>2. Stamp(pend[r], label, x) = x.at /\ Stamp(pend[r], pc[r], seen[r]) = x.at
  BY DEF Stamp
<1>3. Buyer(db, clock, pend[r], label, job[r], x, since[r])
  <2>1. label \notin Storing
    BY DEF Pricing, Storing
  <2> QED
    BY <1>1, <1>2, <2>1 DEF Buyer
<1>4. \A k \in Rows : pend[r][k] = None
  BY OwnOfNone DEF Pricing
<1>5. Own(db, clock, pend[r], label, job[r], x, since[r], start[r], lost[r])
  BY <1>1, <1>3, <1>4, OwnOfBuyer
<1>6. label \in Label /\ job[r].op \in OpsAt(label)
  BY <1>1 DEF Pricing, Label, OpsAt
<1> QED
  BY <1>1, <1>2, <1>5, <1>6, ReadStep

LEMMA MinOfLeft ==
    ASSUME NEW S, S # {}, S \subseteq Nat
    PROVE  Min(S) \in S
<1>1. PICK n \in S : \A m \in S : n <= m
  <2> DEFINE below == {n \in Nat : \A m \in S : m > n}
  <2>1. PICK a \in S : TRUE
    OBVIOUS
  <2>2. SUFFICES ASSUME \A n \in S : \E m \in S : m < n PROVE FALSE
    OBVIOUS
  <2>3. 0 \in {n \in Nat : \A m \in S : m >= n}
    OBVIOUS
  <2>4. \A n \in Nat : n \in {n2 \in Nat : \A m \in S : m >= n2}
                       => n + 1 \in {n2 \in Nat : \A m \in S : m >= n2}
    <3> SUFFICES ASSUME NEW n \in Nat, \A m \in S : m >= n, NEW m \in S PROVE m >= n + 1
      OBVIOUS
    <3>1. m # n
      BY <2>2
    <3> QED
      BY <3>1
  <2>5. \A n \in Nat : n \in {n2 \in Nat : \A m \in S : m >= n2}
    BY <2>3, <2>4, SetInduction
  <2>6. a + 1 \in {n2 \in Nat : \A m \in S : m >= n2}
    BY <2>5
  <2> QED
    BY <2>6
<1> QED
  BY <1>1 DEF Min

LEMMA ResolveKeeps ==
    ASSUME HistoryInv, NEW r \in Request, Resolve(r)
    PROVE  HistoryInv'
<1> DEFINE j == job[r]
           FL == FirstLines(j.lines)
           i == Min(seen[r].left)
           v == seen[r].bought[i].variant
           x == View(r, v)
           bought == [seen[r].bought EXCEPT ![i].unit = UnitPrice(x)]
           y == [at |-> seen[r].at, left |-> seen[r].left \ {i}, bought |-> bought]
           label == IF seen[r].left = {i} THEN "quote" ELSE "resolve"
<1>1. /\ pc[r] = "resolve"
      /\ \/ SellerOf[v] = SellerOf[seen[r].bought[1].variant] /\ Read(r, y, label) /\ Quiet
         \/ Abandon(r)
  BY DEF Resolve
<1>2. CASE Abandon(r)
  BY <1>2, AbandonKeeps
<1>3. CASE SellerOf[v] = SellerOf[seen[r].bought[1].variant] /\ Read(r, y, label) /\ Quiet
  <2>1. /\ j.op = "checkout" /\ j.lines \in Seq(Line) /\ TablesTyped(db) /\ FL \subseteq 1..MaxLines
        /\ Buyer(db, clock, pend[r], pc[r], j, seen[r], since[r]) /\ Buying(pc[r], j)
    BY <1>1, CheckoutFacts
  <2>2. /\ Orderable(j) /\ AsOrdered(j, seen[r].bought) /\ Pricer(db, "resolve", j, seen[r], since[r])
    BY <1>1, <2>1 DEF Buyer, Pricing
  <2>3. /\ seen[r].left \subseteq FL /\ seen[r].left # {} /\ seen[r].at \in Nat /\ FL \subseteq Nat
        /\ seen[r].bought \in [FL -> BoughtRow]
    BY <2>1, <2>2 DEF Pricer, Cart
  <2>4. i \in seen[r].left /\ i \in FL
    BY <2>3, MinOfLeft
  <2>5. 1 \in FL
    BY <2>1, <2>2, FirstOfVariant DEF Orderable
  <2>6. v \in Variant /\ v \in Rows /\ v = j.lines[i].variant
    <3>1. v \in Variant
      BY <2>3, <2>4 DEF BoughtRow
    <3> QED
      BY <2>2, <2>4, <3>1, RowsAre DEF AsOrdered
  <2>7. x = db[v] /\ UnitPrice(x) \in Nat
    <3>1. pend[r][v] = None
      BY <1>1, <2>6, OwnOfNone
    <3>2. x = db[v] /\ db[v] \in VariantRow
      BY <2>1, <2>6, <3>1, TablesAre DEF View
    <3> QED
      BY <3>2, UnitPriceIsNat
  <2>8. /\ y.at = seen[r].at /\ y.left = seen[r].left \ {i} /\ y.bought = bought
    OBVIOUS
  <2> HIDE DEF i, v, x
  <2>9. /\ bought \in [FL -> BoughtRow]
        /\ \A h \in FL : /\ bought[h].variant = seen[r].bought[h].variant
                         /\ bought[h].quantity = seen[r].bought[h].quantity
        /\ bought[i].unit = UnitPrice(x) /\ \A h \in FL \ {i} : bought[h].unit = seen[r].bought[h].unit
    <3>1. ASSUME NEW h \in FL
          PROVE  bought[h] = IF h = i THEN [seen[r].bought[i] EXCEPT !.unit = UnitPrice(x)]
                                      ELSE seen[r].bought[h]
      BY <2>3, <2>4
    <3>2. DOMAIN bought = FL /\ bought = [h \in FL |-> bought[h]]
      BY <2>3
    <3>3. \A h \in FL : seen[r].bought[h] \in BoughtRow
      BY <2>3
    <3> HIDE DEF bought, FL
    <3>4. \A h \in FL : bought[h] \in BoughtRow
      BY <2>4, <2>7, <3>1, <3>3 DEF BoughtRow
    <3> QED
      BY <2>4, <2>7, <3>1, <3>2, <3>3, <3>4 DEF BoughtRow
  <2> HIDE DEF bought
  <2>10. AsOrdered(j, bought)
    BY <2>2, <2>9 DEF AsOrdered, Cart
  <2>11. Pricer(db, label, j, y, since[r])
    <3>1. y \in [at : Nat, left : SUBSET FL, bought : Cart(j)]
      BY <2>3, <2>9 DEF Cart
    <3>2. label = "resolve" <=> y.left # {}
      BY <2>4, <2>8
    <3>3. OfOneSeller(bought, FL \ y.left)
      <4> SUFFICES ASSUME NEW h \in FL \ y.left
                   PROVE  SellerOf[bought[h].variant] = SellerOf[bought[1].variant]
        BY DEF OfOneSeller
      <4>1. CASE h = i
        BY <1>3, <2>4, <2>5, <2>9, <4>1 DEF v
      <4>2. CASE h # i
        <5>1. h \in FL \ seen[r].left
          BY <2>8, <4>2
        <5>2. SellerOf[seen[r].bought[h].variant] = SellerOf[seen[r].bought[1].variant]
          BY <2>2, <5>1 DEF Pricer, OfOneSeller
        <5> QED
          BY <2>5, <2>9, <5>1, <5>2
      <4> QED
        BY <4>1, <4>2
    <3>4. ASSUME NEW h \in FL \ y.left
          PROVE  j.lines[h].variant \in since[r] \/ bought[h].unit = UnitPrice(db[j.lines[h].variant])
      <4>1. CASE h = i
        BY <2>6, <2>7, <2>9, <4>1
      <4>2. CASE h # i
        <5>1. h \in FL \ seen[r].left
          BY <2>8, <4>2
        <5>2. j.lines[h].variant \in since[r] \/ seen[r].bought[h].unit = UnitPrice(db[j.lines[h].variant])
          BY <2>2, <5>1 DEF Pricer
        <5> QED
          BY <2>9, <4>2, <5>1, <5>2
      <4> QED
        BY <4>1, <4>2
    <3>5. label # "outOfDate"
      OBVIOUS
    <3> HIDE DEF y, label
    <3> QED
      BY <2>8, <3>1, <3>2, <3>3, <3>4, <3>5 DEF Pricer
  <2>12. label \in Pricing
    BY DEF Pricing
  <2>13. /\ pc' = [pc EXCEPT ![r] = label] /\ UNCHANGED <<db, pend, job>>
         /\ DOMAIN seen' = Request /\ seen'[r] = y /\ \A s \in Request \ {r} : seen'[s] = seen[s]
    <3>1. pc' = [pc EXCEPT ![r] = label] /\ UNCHANGED <<db, pend, job>> /\ seen' = [seen EXCEPT ![r] = y]
      BY <1>3 DEF Read, Keep, Goto
    <3>2. DOMAIN seen = Request
      BY InvFacts
    <3> HIDE DEF y, label
    <3> QED
      BY <3>1, <3>2
  <2>14. pc[r] \in Pricing /\ y.at = seen[r].at /\ AsOrdered(j, y.bought) /\ Quiet
    BY <1>1, <1>3, <2>8, <2>10 DEF Pricing
  <2> HIDE DEF y, label
  <2> QED
    BY <2>11, <2>12, <2>13, <2>14, PricingStep
<1> QED
  BY <1>1, <1>2, <1>3

LEMMA CompareQuoteKeeps ==
    ASSUME HistoryInv, NEW r \in Request, CompareQuote(r)
    PROVE  HistoryInv'
<1>1. pc[r] = "quote"
  BY DEF CompareQuote
<1>2. CASE Abandon(r)
  BY <1>2, AbandonKeeps
<1>3. ASSUME NEW label \in {"outOfDate", "insert"}, Continue(r, label), Quiet,
             label = "outOfDate" => Cost(seen[r].bought) # job[r].quote
      PROVE  HistoryInv'
  <2>1. /\ Buyer(db, clock, pend[r], "quote", job[r], seen[r], since[r]) /\ Buying("quote", job[r])
    BY <1>1, CheckoutFacts
  <2>2. AsOrdered(job[r], seen[r].bought) /\ Pricer(db, "quote", job[r], seen[r], since[r])
    BY <2>1 DEF Buyer, Pricing
  <2>3. Pricer(db, label, job[r], seen[r], since[r])
    BY <1>3, <2>2 DEF Pricer
  <2>4. pc' = [pc EXCEPT ![r] = label] /\ UNCHANGED <<db, pend, job>> /\ seen' = seen
    BY <1>3 DEF Continue, Goto
  <2>5. DOMAIN seen' = Request /\ seen'[r] = seen[r] /\ \A s \in Request \ {r} : seen'[s] = seen[s]
    BY <2>4, InvFacts
  <2> QED
    BY <1>1, <1>3, <2>2, <2>3, <2>4, <2>5, PricingStep DEF Pricing
<1> QED
  BY <1>2, <1>3 DEF CompareQuote

LEMMA InsertOrderKeeps ==
    ASSUME HistoryInv, NEW r \in Request, InsertOrder(r)
    PROVE  HistoryInv'
<1> DEFINE j == job[r]
           bought == seen[r].bought
           new == [state |-> "live", by |-> j.by, seller |-> SellerOf[bought[1].variant],
                   ref |-> j.ref, total |-> Cost(bought), at |-> seen[r].at]
<1>1. /\ pc[r] = "insert" /\ ~Undecided(r, j.ref)
      /\ \/ Abandon(r)
         \/ /\ ~Taken(j.ref)
            /\ \E o \in {k \in Order : Fresh(k)} :
                 WriteRow(r, o, new) /\ Keep(r, [order |-> o, bought |-> bought])
            /\ Goto(r, "items") /\ UNCHANGED job /\ Quiet
  BY DEF InsertOrder
<1>2. CASE Abandon(r)
  BY <1>2, AbandonKeeps
<1>3. CASE /\ ~Taken(j.ref)
           /\ \E o \in {k \in Order : Fresh(k)} :
                WriteRow(r, o, new) /\ Keep(r, [order |-> o, bought |-> bought])
           /\ Goto(r, "items") /\ UNCHANGED job /\ Quiet
  <2>1. /\ DOMAIN pend = Request /\ DOMAIN pend[r] = Rows
        /\ pc \in [Request -> Label] /\ job \in [Request -> Job \cup {NoJob}]
        /\ DOMAIN seen = Request /\ clock \in Nat
        /\ since \in [Request -> SUBSET Rows]
        /\ start \in [Request -> SUBSET Order] /\ lost \in [Request -> SUBSET Order] /\ Fits(job[r])
    BY InvFacts
  <2>2. PICK o \in Order : Fresh(o) /\ WriteRow(r, o, new) /\ Keep(r, [order |-> o, bought |-> bought])
    BY <1>3
  <2>3. PICK x : x = [order |-> o, bought |-> bought]
    OBVIOUS
  <2>4. x.order = o /\ x.bought = bought
    BY <2>3
  <2>5. /\ j.op = "checkout" /\ j.lines \in Seq(Line) /\ TablesTyped(db) /\ Committed(db, clock)
        /\ j.by \in Customer /\ j.ref \in Reference /\ FirstLines(j.lines) \subseteq 1..MaxLines
        /\ Buyer(db, clock, pend[r], "insert", j, seen[r], since[r]) /\ Buying("insert", j)
    BY <1>1, CheckoutFacts
  <2>6. /\ Orderable(j) /\ AsOrdered(j, bought) /\ Pricer(db, "insert", j, seen[r], since[r])
        /\ Stamp(pend[r], "insert", seen[r]) = seen[r].at
        /\ seen[r].at \in Nat /\ seen[r].at < clock
        /\ \A q \in Order : Exists(db, q) => db[q].at # seen[r].at
    BY <2>5 DEF Buyer, Stamp, Pricing
  <2>7. bought \in Cart(j) /\ OfOneSeller(bought, FirstLines(j.lines))
    <3>1. seen[r].left = {} /\ FirstLines(j.lines) \ seen[r].left = FirstLines(j.lines)
      BY <2>6 DEF Pricer
    <3> QED
      BY <2>6, <3>1 DEF Pricer, AsOrdered
  <2>8. new \in OrderRow
    <3>1. 1 \in FirstLines(j.lines) /\ IsFiniteSet(FirstLines(j.lines))
      BY <2>5, <2>6, FirstOfVariant DEF Orderable
    <3>2. DOMAIN bought = FirstLines(j.lines) /\ \A n \in FirstLines(j.lines) : bought[n] \in BoughtRow
      BY <2>7 DEF Cart
    <3>3. SellerOf[bought[1].variant] \in Seller
      BY <3>1, <3>2, Tables DEF BoughtRow
    <3>4. Cost(bought) \in Nat
      <4>1. \A n \in DOMAIN bought : bought[n].unit \in Nat /\ bought[n].quantity \in Nat
        BY <3>2 DEF BoughtRow
      <4> QED
        BY <3>1, <3>2, <4>1, CostIsNat
    <3> QED
      BY <2>5, <2>6, <3>3, <3>4 DEF OrderRow, State
  <2>9. /\ pend' = [pend EXCEPT ![r][o] = new] /\ ~HeldByOther(r, o)
        /\ pc' = [pc EXCEPT ![r] = "items"] /\ seen' = [seen EXCEPT ![r] = x]
        /\ UNCHANGED <<db, job>> /\ clock' = clock /\ since' = since /\ start' = start /\ lost' = lost
    BY <1>3, <2>2, <2>3 DEF WriteRow, Keep, Goto, Quiet
  <2>10. new # None /\ o \in Rows /\ new \in RowType(o)
    BY <2>8, Tables, RowsAre
  <2>11. new = NewOrder(j, x, seen[r].at) /\ new.at = seen[r].at /\ new.ref = j.ref
    BY <2>4 DEF NewOrder
  <2>12. \A k \in Rows : pend[r][k] = None
    BY <1>1, OwnOfNone
  <2> HIDE DEF new
  <2>13. /\ DOMAIN pend' = Request /\ DOMAIN pend'[r] = Rows /\ pend'[r][o] = new
         /\ \A k \in Rows \ {o} : pend'[r][k] = None
         /\ \A s \in Request \ {r} : pend'[s] = pend[s]
    BY <2>1, <2>9, <2>10, <2>12
  <2>14. /\ pc'[r] = "items" /\ pc' \in [Request -> Label] /\ seen'[r] = x /\ DOMAIN seen' = Request
         /\ \A s \in Request \ {r} : pc'[s] = pc[s] /\ seen'[s] = seen[s]
    BY <2>1, <2>9 DEF Label
  <2>15. Stamp(pend'[r], "items", x) = seen[r].at
    BY <2>4, <2>11, <2>13 DEF Stamp, Pricing
  <2>16. Storer(db, pend'[r], "items", j, x)
    <3>1. x \in [order : Order, bought : Cart(j)] /\ OfOneSeller(x.bought, FirstLines(j.lines))
      BY <2>3, <2>4, <2>7
    <3>2. ~Exists(db, x.order)
      BY <2>2, <2>4 DEF Fresh, Exists
    <3>3. pend'[r][x.order] # None /\ pend'[r][x.order] = NewOrder(j, x, pend'[r][x.order].at)
      BY <2>4, <2>10, <2>11, <2>13
    <3>4. \A q \in Order : Live(db[q]) => db[q].ref # j.ref
      BY <1>3 DEF Taken
    <3> QED
      BY <3>1, <3>2, <3>3, <3>4 DEF Storer
  <2>17. Buyer(db, clock, pend'[r], "items", j, x, since[r])
    BY <2>4, <2>6, <2>15, <2>16 DEF Buyer, Pricing, Storing
  <2>18. \A k \in Rows : pend'[r][k] # None => k \in Writes("items", j, x)
    BY <2>4, <2>13 DEF Writes
  <2>19. Own(db, clock, pend'[r], "items", j, x, since[r], start[r], lost[r])
    BY <2>5, <2>17, <2>18, OwnOfBuyer DEF Storing
  <2>20. OnlyMoves(r)
    BY <2>9, <2>13, <2>14 DEF OnlyMoves
  <2>21. TypesNext(r)
    <3>1. \A k \in Rows : pend'[r][k] \in {None} \cup RowType(k)
      BY <2>10, <2>13
    <3> QED
      BY <2>1, <2>9, <2>13, <2>14, <3>1 DEF TypesNext
  <2>22. StaysApart(r)
    <3>1. \A k \in Rows : Holds(r, k)' => k = o
      BY <2>13 DEF Holds
    <3>2. pend'[r][o].ref = j.ref
      BY <2>11, <2>13
    <3>3. /\ Stamp(pend'[r], pc'[r], seen'[r]) = Stamp(pend[r], pc[r], seen[r]) /\ Buying(pc[r], job[r])
      BY <1>1, <2>5, <2>6, <2>14, <2>15
    <3>4. \A q \in Order : Holds(r, q)' => ~Undecided(r, pend'[r][q].ref)
      BY <1>1, <3>1, <3>2, RowsAre
    <3> QED
      BY <2>9, <3>1, <3>3, <3>4 DEF StaysApart
  <2>23. clock <= clock' /\ job'[r].op \in OpsAt(pc'[r]) /\ Fits(job'[r])
    BY <2>1, <2>5, <2>9, <2>14 DEF OpsAt
  <2>24. Own(db, clock', pend'[r], pc'[r], job'[r], seen'[r], since'[r], start'[r], lost'[r])
    BY <2>9, <2>14, <2>19
  <2> QED
    BY <2>9, <2>20, <2>21, <2>22, <2>23, <2>24, OwnStep
<1> QED
  BY <1>1, <1>2, <1>3

(* Nobody holds a line of an order that is being stored but who stores it. *)
LEMMA LinesAreFree ==
    ASSUME HistoryInv, NEW r \in Request, NEW o \in Order, Holds(r, o), ~Exists(db, o),
           NEW k \in Slots(o)
    PROVE  ~HeldByOther(r, k)
<1> SUFFICES ASSUME NEW s \in Request \ {r}, Holds(s, k) PROVE FALSE
  BY DEF HeldByOther
<1>1. k \in Item /\ k \in Rows /\ k \notin Order /\ k \notin Variant /\ k[1] = o
  BY SlotsFinite, Tables DEF Slots, Rows
<1>2. Apart(r, s) /\ Sound(s) /\ Committed(db, clock) /\ job[s] \in Job \cup {NoJob}
      /\ job[s].op \in OpsAt(pc[s])
  BY InvFacts
<1>3. k \in Writes(pc[s], job[s], seen[s])
  BY <1>1, <1>2 DEF Holds, Sound, Own, Writer
<1>4. ASSUME Buying(pc[s], job[s]), pc[s] \in Storing PROVE FALSE
  <2>1. Storer(db, pend[s], pc[s], job[s], seen[s])
    BY <1>2, <1>4 DEF Sound, Own, Buyer
  <2>2. seen[s].order \in Order /\ Holds(s, seen[s].order)
    BY <2>1 DEF Storer, Holds
  <2>3. k \in ItemsOf(job[s], seen[s])
    <3>1. k \in {seen[s].order} \cup ItemsOf(job[s], seen[s])
      BY <1>3, <1>4 DEF Writes, Buying, Storing
    <3> QED
      BY <1>1, <2>2, <3>1
  <2>4. seen[s].order = o
    BY <1>1, <2>3 DEF ItemsOf
  <2> QED
    BY <1>2, <2>2, <2>4, RowsAre DEF Apart
<1>5. ASSUME pc[s] = "commit", job[s].op = "deleteItem" PROVE FALSE
  <2>1. k = job[s].item /\ Live(db[k])
    BY <1>2, <1>3, <1>5 DEF Writes, Sound, Own, Writer
  <2>2. Inserted(db, o) = {}
    BY <1>2 DEF Committed
  <2> QED
    BY <2>1, <2>2 DEF Inserted, Slots, Live
<1>6. ASSUME pc[s] = "commit", job[s].op \in {"reprice", "drop"} PROVE FALSE
  <2>1. job[s].variant \in Variant
    BY <1>2, <1>6, JobFields DEF NoJob
  <2> QED
    BY <1>1, <1>3, <1>6, <2>1 DEF Writes
<1> QED
  BY <1>2, <1>3, <1>4, <1>5, <1>6 DEF Writes, Buying, Storing, OpsAt

LEMMA InsertItemsKeeps ==
    ASSUME HistoryInv, NEW r \in Request, InsertItems(r)
    PROVE  HistoryInv'
<1> DEFINE j == job[r]
           x == seen[r]
           FL == FirstLines(j.lines)
           new == {<<x.order, n>> : n \in DOMAIN x.bought}
           p == pend'[r]
<1>1. /\ pc[r] = "items"
      /\ pend' = [pend EXCEPT ![r] = [k \in Rows |-> IF k \in new THEN NewItem(r, k[2]) ELSE @[k]]]
      /\ pc' = [pc EXCEPT ![r] = "commit"] /\ UNCHANGED <<db, job, seen>>
      /\ clock' = clock /\ since' = since /\ start' = start /\ lost' = lost
  BY DEF InsertItems, Goto, Quiet
<1>2. /\ DOMAIN pend = Request /\ DOMAIN pend[r] = Rows
      /\ \A k \in Rows : pend[r][k] \in {None} \cup RowType(k)
      /\ pc \in [Request -> Label] /\ job \in [Request -> Job \cup {NoJob}]
      /\ DOMAIN seen = Request /\ clock \in Nat
      /\ since \in [Request -> SUBSET Rows]
      /\ start \in [Request -> SUBSET Order] /\ lost \in [Request -> SUBSET Order] /\ Fits(job[r])
      /\ Sound(r)
  BY InvFacts
<1>3. /\ j.op = "checkout" /\ j.lines \in Seq(Line) /\ TablesTyped(db) /\ Committed(db, clock)
      /\ FL \subseteq 1..MaxLines
      /\ Buyer(db, clock, pend[r], "items", j, x, since[r]) /\ Buying("items", j)
  BY <1>1, CheckoutFacts
<1>4. /\ Orderable(j) /\ AsOrdered(j, x.bought) /\ Storer(db, pend[r], "items", j, x)
      /\ Stamp(pend[r], "items", x) \in Nat /\ Stamp(pend[r], "items", x) < clock
      /\ \A o \in Order : Exists(db, o) => db[o].at # Stamp(pend[r], "items", x)
  BY <1>3 DEF Buyer, Storing
<1>5. /\ x \in [order : Order, bought : Cart(j)] /\ x.order \in Order /\ x.bought \in [FL -> BoughtRow]
      /\ ~Exists(db, x.order) /\ pend[r][x.order] # None
  BY <1>4 DEF Storer, Cart
<1>6. new = ItemsOf(j, x) /\ new \in SUBSET Slots(x.order)
  BY <1>3, <1>5 DEF ItemsOf, Slots
<1>7. ASSUME NEW n \in FL
      PROVE  NewItem(r, n) = ItemOf(x, n) /\ ItemOf(x, n) \in ItemRow /\ <<x.order, n>> \in Rows
             /\ <<x.order, n>> \in new
  <2>1. x.bought[n] \in BoughtRow
    BY <1>5
  <2>2. ItemOf(x, n) \in ItemRow
    BY <2>1 DEF ItemOf, ItemRow, State, BoughtRow
  <2> QED
    BY <1>3, <1>5, <2>2, RowsAre DEF NewItem, ItemOf
<1>8. \A k \in new : /\ k \in Item /\ k \in Rows /\ k \notin Order /\ RowType(k) = ItemRow
                     /\ \E n \in FL : k = <<x.order, n>> /\ k[2] = n
  BY <1>5, <1>6, SlotsFinite, RowsAre, Tables
<1>9. /\ DOMAIN pend' = Request /\ DOMAIN p = Rows
      /\ \A k \in Rows : p[k] = IF k \in new THEN NewItem(r, k[2]) ELSE pend[r][k]
      /\ \A s \in Request \ {r} : pend'[s] = pend[s]
  BY <1>1, <1>2
<1>10. /\ pc'[r] = "commit" /\ pc' \in [Request -> Label] /\ DOMAIN seen' = Request
       /\ \A s \in Request \ {r} : pc'[s] = pc[s]
  BY <1>1, <1>2 DEF Label
<1> HIDE DEF new, p, FL
<1>11. ASSUME NEW k \in Rows, k \notin new PROVE p[k] = pend[r][k]
  BY <1>9, <1>11
<1>12. \A n \in FL : p[<<x.order, n>>] = ItemOf(x, n)
  BY <1>7, <1>9
<1>13. p[x.order] = pend[r][x.order]
  BY <1>5, <1>8, <1>11, RowsAre
<1>14. \A k \in Rows : p[k] \in {None} \cup RowType(k)
  <2> SUFFICES ASSUME NEW k \in Rows PROVE p[k] \in {None} \cup RowType(k)
    OBVIOUS
  <2>1. CASE k \in new
    <3>1. PICK n \in FL : k = <<x.order, n>>
      BY <1>8, <2>1
    <3> QED
      BY <1>7, <1>8, <1>12, <2>1, <3>1
  <2>2. CASE k \notin new
    BY <1>2, <1>11, <2>2
  <2> QED
    BY <2>1, <2>2
<1>15. Stamp(p, "commit", x) = Stamp(pend[r], "items", x)
  BY <1>13 DEF Stamp, Pricing
<1>16. Storer(db, p, "commit", j, x)
  BY <1>4, <1>12, <1>13 DEF Storer, FL
<1>17. Buyer(db, clock, p, "commit", j, x, since[r])
  BY <1>4, <1>15, <1>16 DEF Buyer, Pricing, Storing
<1>18. \A k \in Rows : p[k] # None => k \in Writes("commit", j, x)
  <2>1. \A k \in Rows : pend[r][k] # None => k = x.order
    BY <1>1, <1>2 DEF Sound, Own, Writer, Writes
  <2>2. Writes("commit", j, x) = {x.order} \cup new
    BY <1>3, <1>6 DEF Writes
  <2> QED
    BY <1>11, <2>1, <2>2
<1>19. Own(db, clock, p, "commit", j, x, since[r], start[r], lost[r])
  BY <1>3, <1>17, <1>18, OwnOfBuyer DEF Storing
<1>20. OnlyMoves(r)
  BY <1>1, <1>9, <1>10 DEF OnlyMoves
<1>21. TypesNext(r)
  BY <1>1, <1>2, <1>9, <1>10, <1>14 DEF TypesNext, p
<1>22. StaysApart(r)
  <2>1. ASSUME NEW k \in Rows, Holds(r, k)' PROVE Holds(r, k) \/ ~HeldByOther(r, k)
    <3>1. CASE k \in new
      <4>1. k \in Slots(x.order) /\ Holds(r, x.order)
        BY <1>5, <1>6, <3>1 DEF Holds
      <4> QED
        BY <1>5, <4>1, LinesAreFree
    <3>2. CASE k \notin new
      BY <1>11, <2>1, <3>2 DEF Holds, p
    <3> QED
      BY <3>1, <3>2
  <2>2. Stamp(pend'[r], pc'[r], seen'[r]) = Stamp(pend[r], pc[r], seen[r]) /\ Buying(pc[r], job[r])
    BY <1>1, <1>3, <1>10, <1>15 DEF p
  <2>3. ASSUME NEW o \in Order, Holds(r, o)' PROVE Holds(r, o) /\ pend'[r][o].ref = pend[r][o].ref
    <3>1. p[o] = pend[r][o]
      BY <1>8, <1>11, RowsAre
    <3> QED
      BY <2>3, <3>1 DEF Holds, p
  <2> QED
    BY <2>1, <2>2, <2>3 DEF StaysApart
<1>23. clock <= clock' /\ job'[r].op \in OpsAt(pc'[r]) /\ Fits(job'[r])
  BY <1>1, <1>2, <1>3, <1>10 DEF OpsAt
<1>24. Own(db, clock', pend'[r], pc'[r], job'[r], seen'[r], since'[r], start'[r], lost'[r])
  BY <1>1, <1>10, <1>19 DEF p
<1> QED
  BY <1>1, <1>20, <1>21, <1>22, <1>23, <1>24, OwnStep

-----------------------------------------------------------------------------
(* Deletions and price changes.                                            *)
Editors == {"deleteItem", "reprice", "drop"}

LEMMA OwnOfEditor ==
    ASSUME NEW rows, NEW now, NEW p, NEW label \in {"delete", "reprice", "commit"},
           NEW j, j.op \in Editors, NEW x, NEW s, NEW t, NEW l, Writer(rows, p, label, j, x)
    PROVE  Own(rows, now, p, label, j, x, s, t, l) /\ ~Buying(label, j)
<1>1. ~Buying(label, j) /\ j.op \notin Readers
  BY DEF Editors, Buying, Readers, Walkers
<1>2. Buyer(rows, now, p, label, j, x, s)
  BY <1>1 DEF Buyer
<1>3. Reader(rows, label, j, x, s, t, l)
  BY <1>1 DEF Reader, Readers, Listing
<1> QED
  BY <1>1, <1>2, <1>3 DEF Own

LEMMA EditorFacts ==
    ASSUME HistoryInv, NEW r \in Request, pc[r] \in {"item", "delete", "variant", "reprice", "drop"}
    PROVE  /\ job[r] \in Job /\ job[r].op \in Editors /\ TablesTyped(db)
           /\ pc[r] \in {"item", "delete"} =>
                job[r].op = "deleteItem" /\ job[r].item \in Item /\ job[r].item \in Rows
           /\ pc[r] \in {"variant", "reprice"} => job[r].op = "reprice"
           /\ pc[r] = "drop" => job[r].op = "drop"
           /\ pc[r] \in {"variant", "reprice", "drop"} =>
                job[r].variant \in Variant /\ job[r].variant \in Rows
           /\ \A k \in Rows : pend[r][k] = None /\ View(r, k) = db[k]
<1>1. job[r] \in Job \cup {NoJob} /\ job[r].op \in OpsAt(pc[r]) /\ TablesTyped(db)
  BY InvFacts
<1>2. /\ pc[r] \in {"item", "delete"} => job[r].op = "deleteItem"
      /\ pc[r] \in {"variant", "reprice"} => job[r].op = "reprice"
      /\ pc[r] = "drop" => job[r].op = "drop"
  BY <1>1 DEF OpsAt
<1>3. job[r] \in Job /\ job[r].op \in Editors
  BY <1>1, <1>2 DEF NoJob, Editors
<1>4. \A k \in Rows : pend[r][k] = None
  BY OwnOfNone
<1>5. \A k \in Rows : View(r, k) = db[k]
  BY <1>4 DEF View
<1> QED
  BY <1>1, <1>2, <1>3, <1>4, <1>5, JobFields, RowsAre

LEMMA EditorStep ==
    ASSUME HistoryInv, NEW r \in Request, pc[r] \in {"item", "variant", "reprice"},
           NEW label \in {"delete", "reprice", "commit"}, job[r].op \in OpsAt(label),
           label = "commit" => job[r].op = "reprice",
           pc' = [pc EXCEPT ![r] = label], UNCHANGED <<db, pend, job>>, Quiet,
           NEW x, DOMAIN seen' = Request, seen'[r] = x, \A s \in Request \ {r} : seen'[s] = seen[s]
    PROVE  HistoryInv'
<1>1. job[r].op \in Editors /\ \A k \in Rows : pend[r][k] = None
  BY EditorFacts
<1>2. Writer(db, pend[r], label, job[r], x)
  BY <1>1 DEF Writer
<1>3. Own(db, clock, pend[r], label, job[r], x, since[r], start[r], lost[r]) /\ ~Buying(label, job[r])
  BY <1>1, <1>2, OwnOfEditor
<1>4. label \in Label
  BY DEF Label
<1> QED
  BY <1>3, <1>4, ReadStep

LEMMA WriteStep ==
    ASSUME HistoryInv, NEW r \in Request, pc[r] \in {"delete", "reprice", "drop"},
           NEW k \in Rows, k \notin Order, NEW y \in RowType(k), Writes("commit", job[r], seen[r]) = {k},
           job[r].op = "deleteItem" =>
             k = job[r].item /\ Live(db[k]) /\ y = [db[k] EXCEPT !.state = "deleted"],
           Write(r, k, y, "commit"), Quiet
    PROVE  HistoryInv'
<1>1. /\ DOMAIN pend = Request /\ DOMAIN pend[r] = Rows
      /\ pc \in [Request -> Label] /\ job \in [Request -> Job \cup {NoJob}]
      /\ DOMAIN seen = Request /\ clock \in Nat
      /\ since \in [Request -> SUBSET Rows]
      /\ start \in [Request -> SUBSET Order] /\ lost \in [Request -> SUBSET Order] /\ Fits(job[r])
  BY InvFacts
<1>2. job[r].op \in Editors /\ \A i \in Rows : pend[r][i] = None
  BY EditorFacts
<1>3. /\ pend' = [pend EXCEPT ![r][k] = y] /\ ~HeldByOther(r, k)
      /\ pc' = [pc EXCEPT ![r] = "commit"]
      /\ UNCHANGED <<db, job, seen>> /\ clock' = clock /\ since' = since /\ start' = start /\ lost' = lost
  BY DEF Write, WriteRow, Goto, Quiet
<1>4. /\ DOMAIN pend' = Request /\ DOMAIN pend'[r] = Rows /\ pend'[r][k] = y
      /\ \A i \in Rows \ {k} : pend'[r][i] = None
      /\ \A s \in Request \ {r} : pend'[s] = pend[s]
  BY <1>1, <1>2, <1>3
<1>5. /\ pc'[r] = "commit" /\ pc' \in [Request -> Label] /\ \A s \in Request \ {r} : pc'[s] = pc[s]
  BY <1>1, <1>3 DEF Label
<1>6. Writer(db, pend'[r], "commit", job[r], seen[r])
  BY <1>4 DEF Writer
<1>7. Own(db, clock, pend'[r], "commit", job[r], seen[r], since[r], start[r], lost[r])
      /\ ~Buying("commit", job[r])
  BY <1>2, <1>6, OwnOfEditor
<1>8. OnlyMoves(r)
  BY <1>3, <1>4, <1>5 DEF OnlyMoves
<1>9. TypesNext(r)
  <2>1. \A i \in Rows : pend'[r][i] \in {None} \cup RowType(i)
    BY <1>4
  <2> QED
    BY <1>1, <1>3, <1>4, <1>5, <2>1 DEF TypesNext
<1>10. StaysApart(r)
  <2>1. \A i \in Rows : Holds(r, i)' => i = k
    BY <1>4 DEF Holds
  <2>2. ~Buying(pc'[r], job'[r])
    BY <1>3, <1>5, <1>7
  <2>3. \A o \in Order : ~Holds(r, o)'
    BY <2>1, RowsAre
  <2> QED
    BY <1>3, <2>1, <2>2, <2>3 DEF StaysApart
<1>11. clock <= clock' /\ job'[r].op \in OpsAt(pc'[r]) /\ Fits(job'[r])
  BY <1>1, <1>2, <1>3, <1>5 DEF OpsAt, Editors
<1>12. Own(db, clock', pend'[r], pc'[r], job'[r], seen'[r], since'[r], start'[r], lost'[r])
  BY <1>3, <1>5, <1>7
<1> QED
  BY <1>3, <1>8, <1>9, <1>10, <1>11, <1>12, OwnStep

LEMMA FindItemKeeps ==
    ASSUME HistoryInv, NEW r \in Request, FindItem(r)
    PROVE  HistoryInv'
<1>1. pc[r] = "item" /\ ((Continue(r, "delete") /\ Quiet) \/ Abandon(r))
  BY DEF FindItem
<1>2. CASE Abandon(r)
  BY <1>2, AbandonKeeps
<1>3. CASE Continue(r, "delete") /\ Quiet
  <2>1. /\ pc' = [pc EXCEPT ![r] = "delete"] /\ UNCHANGED <<db, pend, job>> /\ seen' = seen
    BY <1>3 DEF Continue, Goto
  <2>2. DOMAIN seen' = Request /\ seen'[r] = seen[r] /\ \A s \in Request \ {r} : seen'[s] = seen[s]
    BY <2>1, InvFacts
  <2>3. job[r].op \in OpsAt("delete")
    BY <1>1, EditorFacts DEF OpsAt
  <2> QED
    BY <1>1, <1>3, <2>1, <2>2, <2>3, EditorStep
<1> QED
  BY <1>1, <1>2, <1>3

LEMMA DeleteItemKeeps ==
    ASSUME HistoryInv, NEW r \in Request, DeleteItem(r)
    PROVE  HistoryInv'
<1> DEFINE i == job[r].item
           y == [View(r, i) EXCEPT !.state = "deleted"]
<1>1. /\ pc[r] = "delete"
      /\ \/ Live(View(r, i)) /\ Write(r, i, y, "commit") /\ Quiet
         \/ Abandon(r)
  BY DEF DeleteItem
<1>2. CASE Abandon(r)
  BY <1>2, AbandonKeeps
<1>3. CASE Live(View(r, i)) /\ Write(r, i, y, "commit") /\ Quiet
  <2>1. /\ job[r].op = "deleteItem" /\ i \in Item /\ i \in Rows /\ View(r, i) = db[i] /\ TablesTyped(db)
    BY <1>1, EditorFacts
  <2>2. db[i] \in ItemRow /\ RowType(i) = ItemRow /\ i \notin Order
    BY <2>1, TablesAre, RowsAre, Tables
  <2>3. y \in RowType(i) /\ y = [db[i] EXCEPT !.state = "deleted"] /\ Live(db[i])
    BY <1>3, <2>1, <2>2 DEF ItemRow, State
  <2>4. Writes("commit", job[r], seen[r]) = {i}
    BY <2>1 DEF Writes
  <2> HIDE DEF y
  <2> QED
    BY <1>1, <1>3, <2>1, <2>2, <2>3, <2>4, WriteStep
<1> QED
  BY <1>1, <1>2, <1>3

LEMMA FindVariantKeeps ==
    ASSUME HistoryInv, NEW r \in Request, FindVariant(r)
    PROVE  HistoryInv'
<1> DEFINE x == View(r, job[r].variant)
<1>1. pc[r] = "variant" /\ ((Read(r, x, "reprice") /\ Quiet) \/ Abandon(r))
  BY DEF FindVariant
<1>2. CASE Abandon(r)
  BY <1>2, AbandonKeeps
<1>3. CASE Read(r, x, "reprice") /\ Quiet
  <2>1. /\ pc' = [pc EXCEPT ![r] = "reprice"] /\ UNCHANGED <<db, pend, job>> /\ seen' = [seen EXCEPT ![r] = x]
    BY <1>3 DEF Read, Keep, Goto
  <2>2. DOMAIN seen' = Request /\ seen'[r] = x /\ \A s \in Request \ {r} : seen'[s] = seen[s]
    BY <2>1, InvFacts
  <2>3. job[r].op \in OpsAt("reprice")
    BY <1>1, EditorFacts DEF OpsAt
  <2> QED
    BY <1>1, <1>3, <2>1, <2>2, <2>3, EditorStep
<1> QED
  BY <1>1, <1>2, <1>3

LEMMA RepriceKeeps ==
    ASSUME HistoryInv, NEW r \in Request, Reprice(r)
    PROVE  HistoryInv'
<1> DEFINE v == job[r].variant
           dearer == job[r].price \notin {Same, seen[r].price}
           reduced == job[r].off \notin {Same, seen[r].off}
           y == [View(r, v) EXCEPT !.price = IF dearer THEN job[r].price ELSE @,
                                   !.off = IF reduced THEN job[r].off ELSE @]
<1>1. /\ pc[r] = "reprice" /\ Quiet
      /\ (Write(r, v, y, "commit") \/ Continue(r, "commit"))
  BY DEF Reprice
<1>2. /\ job[r] \in Job /\ job[r].op = "reprice" /\ v \in Variant /\ v \in Rows /\ View(r, v) = db[v]
      /\ TablesTyped(db)
  BY <1>1, EditorFacts
<1>3. CASE Write(r, v, y, "commit")
  <2>1. db[v] \in VariantRow /\ RowType(v) = VariantRow /\ v \notin Order
    BY <1>2, TablesAre, RowsAre, Tables
  <2>2. job[r].price \in Nat \cup {Same} /\ job[r].off \in 0..100 \cup {None, Same}
    BY <1>2, JobFields
  <2>3. PICK a : a = IF dearer THEN job[r].price ELSE db[v].price
    OBVIOUS
  <2>4. PICK b : b = IF reduced THEN job[r].off ELSE db[v].off
    OBVIOUS
  <2>5. a \in Nat /\ b \in 0..100 \cup {None}
    BY <2>1, <2>2, <2>3, <2>4 DEF VariantRow
  <2>6. y = [db[v] EXCEPT !.price = a, !.off = b]
    BY <1>2, <2>3, <2>4
  <2> HIDE DEF y, dearer, reduced
  <2>7. y \in VariantRow
    BY <2>1, <2>5, <2>6 DEF VariantRow
  <2>8. Writes("commit", job[r], seen[r]) = {v}
    BY <1>2 DEF Writes
  <2>9. y \in RowType(v)
    BY <2>1, <2>7
  <2> QED
    BY <1>1, <1>2, <1>3, <2>1, <2>8, <2>9, WriteStep
<1>4. CASE Continue(r, "commit")
  <2>1. /\ pc' = [pc EXCEPT ![r] = "commit"] /\ UNCHANGED <<db, pend, job>> /\ seen' = seen
    BY <1>4 DEF Continue, Goto
  <2>2. DOMAIN seen' = Request /\ seen'[r] = seen[r] /\ \A s \in Request \ {r} : seen'[s] = seen[s]
    BY <2>1, InvFacts
  <2>3. job[r].op \in OpsAt("commit")
    BY <1>2 DEF OpsAt
  <2> QED
    BY <1>1, <1>2, <2>1, <2>2, <2>3, EditorStep
<1> QED
  BY <1>1, <1>3, <1>4

LEMMA DropVariantKeeps ==
    ASSUME HistoryInv, NEW r \in Request, DropVariant(r)
    PROVE  HistoryInv'
<1> DEFINE v == job[r].variant
           y == [View(r, v) EXCEPT !.state = "deleted"]
<1>1. /\ pc[r] = "drop"
      /\ \/ Write(r, v, y, "commit") /\ Quiet
         \/ Abandon(r)
  BY DEF DropVariant
<1>2. CASE Abandon(r)
  BY <1>2, AbandonKeeps
<1>3. CASE Write(r, v, y, "commit") /\ Quiet
  <2>1. /\ job[r].op = "drop" /\ v \in Variant /\ v \in Rows /\ View(r, v) = db[v] /\ TablesTyped(db)
    BY <1>1, EditorFacts
  <2>2. db[v] \in VariantRow /\ RowType(v) = VariantRow /\ v \notin Order
    BY <2>1, TablesAre, RowsAre, Tables
  <2>3. y \in RowType(v)
    BY <2>1, <2>2 DEF VariantRow, State
  <2>4. Writes("commit", job[r], seen[r]) = {v}
    BY <2>1 DEF Writes
  <2> HIDE DEF y
  <2> QED
    BY <1>1, <1>3, <2>1, <2>2, <2>3, <2>4, WriteStep
<1> QED
  BY <1>1, <1>2, <1>3

-----------------------------------------------------------------------------
(* Commits.                                                                *)
LEMMA AddsUpSame ==
    ASSUME NEW rows, NEW later, NEW o \in Order, later[o] = rows[o],
           \A i \in Slots(o) : /\ later[i].state = "none" <=> rows[i].state = "none"
                               /\ later[i].variant = rows[i].variant
                               /\ later[i].unit = rows[i].unit /\ later[i].quantity = rows[i].quantity
    PROVE  Inserted(later, o) = Inserted(rows, o) /\ (AddsUp(rows, o) => AddsUp(later, o))
<1>1. Inserted(later, o) = Inserted(rows, o) /\ Inserted(rows, o) \subseteq Slots(o)
  BY DEF Inserted, Slots
<1>2. Value(later, Inserted(rows, o)) = Value(rows, Inserted(rows, o))
  <2>1. \A i \in Inserted(rows, o) : later[i].unit = rows[i].unit /\ later[i].quantity = rows[i].quantity
    BY <1>1
  <2> QED
    BY <2>1, ValueSame
<1>3. \A i \in Inserted(rows, o) : later[i].variant = rows[i].variant
  BY <1>1
<1> QED
  BY <1>1, <1>2, <1>3 DEF AddsUp

(* What does not touch an order, or only deletes a line.                   *)
LEMMA CommittedSame ==
    ASSUME NEW rows, NEW later, TablesTyped(rows), NEW now, Committed(rows, now),
           \A o \in Order : later[o] = rows[o],
           \A i \in Item : \/ later[i] = rows[i]
                           \/ Live(rows[i]) /\ later[i] = [rows[i] EXCEPT !.state = "deleted"]
    PROVE  Later(rows, later) /\ Committed(later, now)
<1>1. ASSUME NEW i \in Item
      PROVE  /\ later[i].state = "none" <=> rows[i].state = "none"
             /\ later[i].variant = rows[i].variant
             /\ later[i].unit = rows[i].unit /\ later[i].quantity = rows[i].quantity
  <2>1. rows[i] \in ItemRow
    BY TablesAre
  <2> QED
    BY <2>1 DEF Live, ItemRow
<1>2. ASSUME NEW o \in Order
      PROVE  Inserted(later, o) = Inserted(rows, o) /\ (AddsUp(rows, o) => AddsUp(later, o))
  <2>1. Slots(o) \subseteq Item
    BY SlotsFinite
  <2> QED
    BY <1>1, <2>1, AddsUpSame
<1>3. Later(rows, later)
  BY <1>1 DEF Later
<1>4. Committed(later, now)
  BY <1>2 DEF Committed, Exists
<1> QED
  BY <1>3, <1>4

(* What the commit of r makes of the tables: an order that is new in them  *)
(* is the one r has stored.                                                *)
Commits(r, later) ==
    /\ TablesTyped(later) /\ Later(db, later) /\ Committed(later, clock)
    /\ \A o \in Order : Exists(later, o) /\ ~Exists(db, o) =>
         /\ job[r].op = "checkout" /\ Holds(r, o) /\ later[o] = pend[r][o]
         /\ later[o].at = Stamp(pend[r], "commit", seen[r])

LEMMA ItemOfFields ==
    ASSUME NEW x, NEW n
    PROVE  /\ ItemOf(x, n).state = "live" /\ ItemOf(x, n).variant = x.bought[n].variant
           /\ ItemOf(x, n).unit = x.bought[n].unit /\ ItemOf(x, n).quantity = x.bought[n].quantity
BY DEF ItemOf

LEMMA StoreCommits ==
    ASSUME HistoryInv, NEW r \in Request, pc[r] = "commit", job[r].op = "checkout",
           NEW later, TablesTyped(later), \A k \in Rows : later[k] = View(r, k)
    PROVE  Commits(r, later)
<1> DEFINE j == job[r]
           x == seen[r]
           FL == FirstLines(j.lines)
           q == x.order
           at == Stamp(pend[r], "commit", x)
<1>1. /\ TablesTyped(db) /\ Committed(db, clock) /\ Sound(r) /\ Fits(j) /\ job[r] \in Job \cup {NoJob}
  BY InvFacts
<1>2. j.lines \in Seq(Line) /\ FL \subseteq 1..MaxLines
  BY <1>1, JobFields DEF Fits, NoJob
<1>3. /\ Orderable(j) /\ AsOrdered(j, x.bought) /\ Storer(db, pend[r], "commit", j, x)
      /\ at \in Nat /\ at < clock /\ \A o \in Order : Exists(db, o) => db[o].at # at
      /\ \A k \in Rows : pend[r][k] # None => k \in Writes("commit", j, x)
  BY <1>1 DEF Sound, Own, Buyer, Writer, Buying, Storing
<1>4. /\ q \in Order /\ x.bought \in [FL -> BoughtRow] /\ ~Exists(db, q)
      /\ pend[r][q] # None /\ pend[r][q] = NewOrder(j, x, pend[r][q].at)
      /\ OfOneSeller(x.bought, FL)
      /\ \A o \in Order : Live(db[o]) => db[o].ref # j.ref
      /\ \A n \in FL : pend[r][<<q, n>>] = ItemOf(x, n)
  BY <1>3 DEF Storer, Cart
<1>5. at = pend[r][q].at
  BY DEF Stamp, Pricing
<1>6. later[q] = NewOrder(j, x, at) /\ Holds(r, q) /\ later[q] = pend[r][q]
  BY <1>4, <1>5, RowsAre DEF View, Holds
<1>7. /\ later[q].at = at /\ later[q].ref = j.ref /\ later[q].state = "live"
      /\ later[q].total = Cost(x.bought) /\ later[q].seller = SellerOf[x.bought[1].variant]
  BY <1>6 DEF NewOrder
<1>8. 1 \in FL
  BY <1>2, <1>3, FirstOfVariant DEF Orderable
<1>9. Writes("commit", j, x) = {q} \cup ItemsOf(j, x)
  BY DEF Writes
<1>10. \A k \in Rows : k # q /\ k \notin ItemsOf(j, x) => later[k] = db[k]
  BY <1>3, <1>9 DEF View
<1>11. \A n \in FL : later[<<q, n>>] = ItemOf(x, n) /\ <<q, n>> \in ItemsOf(j, x) /\ <<q, n>> \in Item
  <2> SUFFICES ASSUME NEW n \in FL
               PROVE  later[<<q, n>>] = ItemOf(x, n) /\ <<q, n>> \in ItemsOf(j, x) /\ <<q, n>> \in Item
    OBVIOUS
  <2>1. <<q, n>> \in Item /\ <<q, n>> \in Rows /\ RowType(<<q, n>>) = ItemRow
    BY <1>2, <1>4, RowsAre
  <2>2. ItemOf(x, n) # None
    <3>1. x.bought[n] \in BoughtRow
      BY <1>4
    <3>2. ItemOf(x, n) \in ItemRow
      BY <3>1 DEF ItemOf, ItemRow, State, BoughtRow
    <3> QED
      BY <2>1, <3>2, Tables
  <2> QED
    BY <1>4, <2>1, <2>2 DEF View, ItemsOf
<1>12. \A n \in FL : /\ later[<<q, n>>].state = "live"
                     /\ later[<<q, n>>].variant = x.bought[n].variant
                     /\ later[<<q, n>>].unit = x.bought[n].unit
                     /\ later[<<q, n>>].quantity = x.bought[n].quantity
  <2> SUFFICES ASSUME NEW n \in FL
               PROVE  /\ later[<<q, n>>].state = "live"
                      /\ later[<<q, n>>].variant = x.bought[n].variant
                      /\ later[<<q, n>>].unit = x.bought[n].unit
                      /\ later[<<q, n>>].quantity = x.bought[n].quantity
    OBVIOUS
  <2>1. later[<<q, n>>] = ItemOf(x, n)
    BY <1>11
  <2> HIDE DEF q, x
  <2> QED
    BY <2>1, ItemOfFields
<1>13. \A i \in Slots(q) : i \in Item /\ i \in Rows /\ db[i].state = "none"
  <2>1. Inserted(db, q) = {}
    BY <1>1, <1>4 DEF Committed
  <2>2. Slots(q) \subseteq Item
    BY <1>4, SlotsFinite
  <2> QED
    BY <2>1, <2>2, RowsAre DEF Inserted, Slots
<1>14. \A i \in Item : i[1] # q => later[i] = db[i]
  <2>1. \A i \in Item : i[1] # q => i \notin ItemsOf(j, x)
    BY DEF ItemsOf
  <2>2. \A i \in Item : i \in Rows /\ i # q
    BY <1>4, RowsAre, Tables
  <2> QED
    BY <1>10, <2>1, <2>2
<1>15. \A o \in Order : o # q => later[o] = db[o]
  <2>1. \A o \in Order : o \in Rows /\ o \notin ItemsOf(j, x)
    <3>1. \A i \in ItemsOf(j, x) : i \in Item
      BY <1>2, <1>4 DEF ItemsOf, Item
    <3> QED
      BY <3>1, RowsAre, Tables
  <2> QED
    BY <1>10, <2>1
<1>16. \A i \in Item : i[1] = q => i \in Slots(q)
  BY RowsAre DEF Slots
<1> HIDE DEF at
<1>17. Later(db, later)
  <2>1. \A o \in Order : Exists(db, o) => later[o] = db[o]
    BY <1>4, <1>15
  <2>2. \A i \in Item : db[i].state # "none" => later[i] = db[i]
    BY <1>13, <1>14, <1>16
  <2>3. \A i \in Item : db[i].state = "none" /\ Exists(db, i[1]) => later[i].state = "none"
    BY <1>4, <1>14
  <2> QED
    BY <2>1, <2>2, <2>3 DEF Later
<1>18. Inserted(later, q) = ItemsOf(j, x)
  <2>1. ItemsOf(j, x) \subseteq Slots(q)
    BY <1>2 DEF ItemsOf, Slots
  <2>2. ASSUME NEW i \in ItemsOf(j, x) PROVE later[i].state # "none"
    <3>1. PICK n \in FL : i = <<q, n>>
      BY DEF ItemsOf
    <3> QED
      BY <1>12, <3>1
  <2>3. ASSUME NEW i \in Slots(q), i \notin ItemsOf(j, x) PROVE later[i].state = "none"
    BY <1>4, <1>10, <1>13, <2>3, Tables
  <2> QED
    BY <2>1, <2>2, <2>3 DEF Inserted, Slots
<1>19. AddsUp(later, q)
  <2>1. Value(later, ItemsOf(j, x)) = Cost(x.bought)
    <3>1. DOMAIN x.bought = FL /\ ItemsTyped(later)
      BY <1>4, TablesAre
    <3>2. PICK bought : bought = x.bought
      OBVIOUS
    <3>3. DOMAIN bought \subseteq 1..MaxLines
      BY <1>2, <3>1, <3>2
    <3>4. \A n \in DOMAIN bought : /\ later[<<q, n>>].unit = bought[n].unit
                                   /\ later[<<q, n>>].quantity = bought[n].quantity
      BY <1>12, <3>1, <3>2
    <3>5. q \in Order /\ ItemsOf(j, x) = {q} \X DOMAIN bought
      BY <1>4, <3>1, <3>2 DEF ItemsOf
    <3> HIDE DEF q
    <3>6. Value(later, {q} \X DOMAIN bought) = Cost(bought)
      BY <3>1, <3>3, <3>4, <3>5, ValueOfCart
    <3> QED
      BY <3>2, <3>5, <3>6
  <2>2. ASSUME NEW i \in ItemsOf(j, x) PROVE SellerOf[later[i].variant] = later[q].seller
    <3>1. PICK n \in FL : i = <<q, n>>
      BY DEF ItemsOf
    <3>2. later[i].variant = x.bought[n].variant
      BY <1>12, <3>1
    <3> QED
      BY <1>4, <1>7, <3>2 DEF OfOneSeller
  <2>3. ItemsOf(j, x) # {}
    BY <1>8, <1>11
  <2> QED
    BY <1>7, <1>18, <2>1, <2>2, <2>3 DEF AddsUp
<1>20. ASSUME NEW o \in Order, o # q
       PROVE  Inserted(later, o) = Inserted(db, o) /\ (AddsUp(db, o) => AddsUp(later, o))
  <2>1. \A i \in Slots(o) : later[i] = db[i]
    <3>1. \A i \in Slots(o) : i \in Item /\ i[1] = o
      BY SlotsFinite DEF Slots
    <3> QED
      BY <1>14, <1>20, <3>1
  <2> QED
    BY <1>15, <1>20, <2>1, AddsUpSame
<1>21. Committed(later, clock)
  <2>1. ASSUME NEW o \in Order
        PROVE  IF Exists(later, o) THEN AddsUp(later, o) /\ later[o].at < clock
               ELSE Inserted(later, o) = {}
    <3>1. CASE o = q
      BY <1>3, <1>7, <1>19, <3>1 DEF Exists
    <3>2. CASE o # q
      BY <1>1, <1>15, <1>20, <3>2 DEF Committed, Exists
    <3> QED
      BY <3>1, <3>2
  <2>2. ASSUME NEW o \in Order, NEW p \in Order, Exists(later, o), Exists(later, p), later[o].at = later[p].at
        PROVE  o = p
    <3>1. \A a \in Order : a # q /\ Exists(later, a) => later[a] = db[a] /\ Exists(db, a) /\ later[a].at # at
      BY <1>3, <1>15 DEF Exists
    <3>2. \A a, b \in Order : Exists(db, a) /\ Exists(db, b) /\ db[a].at = db[b].at => a = b
      BY <1>1 DEF Committed
    <3> QED
      BY <1>4, <1>7, <2>2, <3>1, <3>2
  <2>3. ASSUME NEW o \in Order, NEW p \in Order, Live(later[o]), Live(later[p]), later[o].ref = later[p].ref
        PROVE  o = p
    <3>1. \A a \in Order : a # q /\ Live(later[a]) => later[a] = db[a] /\ Live(db[a]) /\ later[a].ref # j.ref
      BY <1>4, <1>15
    <3>2. \A a, b \in Order : Live(db[a]) /\ Live(db[b]) /\ db[a].ref = db[b].ref => a = b
      BY <1>1 DEF Committed
    <3> QED
      BY <1>4, <1>7, <2>3, <3>1, <3>2
  <2> QED
    BY <2>1, <2>2, <2>3 DEF Committed
<1>22. \A o \in Order : Exists(later, o) /\ ~Exists(db, o) => o = q
  BY <1>15 DEF Exists
<1> QED
  BY <1>6, <1>7, <1>17, <1>21, <1>22 DEF Commits, at

LEMMA EditCommits ==
    ASSUME HistoryInv, NEW r \in Request, pc[r] = "commit", job[r].op \in Editors,
           NEW later, TablesTyped(later), \A k \in Rows : later[k] = View(r, k)
    PROVE  Commits(r, later)
<1> DEFINE j == job[r]
<1>1. /\ TablesTyped(db) /\ Committed(db, clock) /\ Sound(r) /\ j \in Job \cup {NoJob}
  BY InvFacts
<1>2. j \in Job
  BY <1>1 DEF NoJob, Editors
<1>3. Writer(db, pend[r], "commit", j, seen[r])
  BY <1>1 DEF Sound, Own
<1>4. PICK k \in Rows : /\ k \notin Order /\ Writes("commit", j, seen[r]) = {k}
                        /\ j.op = "deleteItem" => k = j.item
                        /\ j.op # "deleteItem" => k \in Variant
  <2>1. CASE j.op = "deleteItem"
    <3>1. j.item \in Item
      BY <1>2, <2>1, JobFields
    <3>2. Writes("commit", j, seen[r]) = {j.item}
      BY <2>1 DEF Writes
    <3> QED
      BY <2>1, <3>1, <3>2, RowsAre, Tables
  <2>2. CASE j.op \in {"reprice", "drop"}
    <3>1. j.variant \in Variant
      BY <1>2, <2>2, JobFields
    <3>2. Writes("commit", j, seen[r]) = {j.variant}
      BY <2>2 DEF Writes
    <3> QED
      BY <2>2, <3>1, <3>2, RowsAre, Tables
  <2> QED
    BY <2>1, <2>2 DEF Editors
<1>5. \A i \in Rows : i # k => later[i] = db[i]
  <2>1. \A i \in Rows : pend[r][i] # None => i = k
    BY <1>3, <1>4 DEF Writer
  <2> QED
    BY <2>1 DEF View
<1>6. \A o \in Order : later[o] = db[o]
  BY <1>4, <1>5, RowsAre
<1>7. ASSUME NEW i \in Item
      PROVE  \/ later[i] = db[i]
             \/ Live(db[i]) /\ later[i] = [db[i] EXCEPT !.state = "deleted"]
  <2>1. CASE i # k
    BY <1>5, <2>1, RowsAre
  <2>2. CASE i = k
    <3>1. j.op = "deleteItem" /\ j.item = i
      BY <1>4, <2>2, Tables
    <3>2. Live(db[i]) /\ pend[r][i] = [db[i] EXCEPT !.state = "deleted"]
      BY <1>3, <3>1 DEF Writer
    <3>3. later[i] = pend[r][i] \/ later[i] = db[i]
      BY RowsAre DEF View
    <3> QED
      BY <3>2, <3>3
  <2> QED
    BY <2>1, <2>2
<1>8. Later(db, later) /\ Committed(later, clock)
  BY <1>1, <1>6, <1>7, CommittedSame
<1> QED
  BY <1>6, <1>8 DEF Commits, Exists

LEMMA CommitMeets ==
    ASSUME HistoryInv, NEW r \in Request, NEW s \in Request, r # s, NEW later, Commits(r, later),
           \A k \in Rows : later[k] = View(r, k), pc[r] = "commit"
    PROVE  Undisturbed(db, later, pend[s], pc[s], job[s], seen[s])
<1>1. Apart(r, s) /\ Sound(s)
  BY InvFacts
<1>2. ASSUME NEW k \in Rows, pend[s][k] # None PROVE later[k] = db[k]
  <2>1. pend[r][k] = None
    BY <1>1, <1>2 DEF Apart, Holds
  <2> QED
    BY <2>1 DEF View
<1>3. ASSUME Buying(pc[s], job[s]), NEW o \in Order, Exists(later, o), ~Exists(db, o)
      PROVE  later[o].at # Stamp(pend[s], pc[s], seen[s])
  <2>1. job[r].op = "checkout" /\ later[o].at = Stamp(pend[r], pc[r], seen[r])
    BY <1>3 DEF Commits
  <2>2. Buying(pc[r], job[r])
    BY <2>1 DEF Buying, Storing
  <2> QED
    BY <1>1, <1>3, <2>1, <2>2 DEF Apart
<1>4. ASSUME Buying(pc[s], job[s]), pc[s] \in Storing, NEW o \in Order, Exists(later, o), ~Exists(db, o)
      PROVE  later[o].ref # job[s].ref
  <2>1. Holds(r, o) /\ later[o] = pend[r][o]
    BY <1>4 DEF Commits
  <2>2. Storer(db, pend[s], pc[s], job[s], seen[s])
    BY <1>1, <1>4 DEF Sound, Own, Buyer
  <2>3. PICK q \in Order : /\ pend[s][q] # None
                           /\ pend[s][q] = NewOrder(job[s], seen[s], pend[s][q].at)
    BY <2>2 DEF Storer
  <2>4. pend[s][q].ref = job[s].ref
    BY <2>3 DEF NewOrder
  <2> QED
    BY <1>1, <2>1, <2>3, <2>4 DEF Apart, Holds
<1> QED
  BY <1>2, <1>3, <1>4 DEF Undisturbed

LEMMA CommitKeeps ==
    ASSUME HistoryInv, NEW r \in Request, Commit(r)
    PROVE  HistoryInv'
<1>1. /\ DOMAIN pend = Request /\ Row = Rows /\ TablesTyped(db)
      /\ \A s \in Request : /\ DOMAIN pend[s] = Rows
                            /\ \A k \in Rows : pend[s][k] \in {None} \cup RowType(k)
      /\ pc \in [Request -> Label] /\ job \in [Request -> Job \cup {NoJob}]
      /\ \A s \in Request : job[s].op \in OpsAt(pc[s]) /\ job[s] \in Job \cup {NoJob}
      /\ DOMAIN seen = Request /\ clock \in Nat
      /\ since \in [Request -> SUBSET Rows]
      /\ start \in [Request -> SUBSET Order] /\ lost \in [Request -> SUBSET Order]
      /\ Committed(db, clock) /\ \A s \in Request : Sound(s) /\ Fits(job[s])
  BY InvFacts
<1>2. /\ pc[r] = "commit" /\ db' = [k \in Rows |-> View(r, k)]
      /\ pend' = [pend EXCEPT ![r] = [k \in Rows |-> None]]
      /\ pc' = [pc EXCEPT ![r] = "done"] /\ job' = [job EXCEPT ![r] = NoJob]
      /\ seen' = [seen EXCEPT ![r] = None] /\ clock' = clock /\ start' = start
  BY <1>1 DEF Commit, Finish, CommitWrites, End, Goto, NoWrites
<1>3. /\ since' = [s \in Request |->
           IF s = r THEN {}
           ELSE IF Running(s) /\ job[s].op \in Readers \cup {"checkout"}
                  THEN since[s] \cup {k \in Rows : db'[k] # db[k]}
                  ELSE since[s]]
      /\ lost' = [s \in Request |->
           IF s # r /\ Running(s) /\ job[s].op \in Walkers
             THEN lost[s] \cup (Listed(db, job[s]) \ Listed(db', job[s]))
             ELSE lost[s]]
  BY DEF Commit
<1>4. PICK later : later = db'
  OBVIOUS
<1>5. /\ later = [k \in Rows |-> later[k]] /\ \A k \in Rows : later[k] = View(r, k)
  BY <1>2, <1>4
<1>6. TablesTyped(later)
  BY <1>1, <1>5 DEF TablesTyped, View
<1>7. Commits(r, later)
  <2>1. job[r].op \in {"checkout"} \cup Editors
    BY <1>1, <1>2 DEF OpsAt, Editors
  <2> QED
    BY <1>2, <1>5, <1>6, <2>1, StoreCommits, EditCommits
<1>8. Later(db, later) /\ Committed(later, clock)
  BY <1>7 DEF Commits
<1>9. /\ pc' \in [Request -> Label] /\ pc'[r] = "done" /\ job' \in [Request -> Job \cup {NoJob}]
      /\ job'[r] = NoJob /\ DOMAIN seen' = Request /\ seen'[r] = None
      /\ DOMAIN pend' = Request /\ pend'[r] = [k \in Rows |-> None]
      /\ \A s \in Request \ {r} :
           pend'[s] = pend[s] /\ pc'[s] = pc[s] /\ job'[s] = job[s] /\ seen'[s] = seen[s]
  BY <1>1, <1>2 DEF Label
<1>10. ASSUME NEW s \in Request \ {r}
       PROVE  /\ job[s].op \in Readers \cup {"checkout"} => since'[s] = since[s] \cup Changed(db, later)
              /\ job[s].op \in Walkers => lost'[s] = lost[s] \cup (Listed(db, job[s]) \ Listed(later, job[s]))
              /\ since'[s] \in SUBSET Rows /\ lost'[s] \in SUBSET Order
  <2>1. job[s].op \in Readers \cup {"checkout"} => Running(s)
    <3>1. job[s].op \in OpsAt(pc[s])
      BY <1>1
    <3> QED
      BY <3>1 DEF OpsAt, Running, Readers, Walkers
  <2>2. /\ since'[s] = IF Running(s) /\ job[s].op \in Readers \cup {"checkout"}
                         THEN since[s] \cup Changed(db, later) ELSE since[s]
        /\ lost'[s] = IF Running(s) /\ job[s].op \in Walkers
                        THEN lost[s] \cup (Listed(db, job[s]) \ Listed(later, job[s])) ELSE lost[s]
    BY <1>3, <1>4 DEF Changed
  <2>3. Changed(db, later) \subseteq Rows /\ since[s] \subseteq Rows /\ lost[s] \subseteq Order
    BY <1>1 DEF Changed
  <2>4. job[s].op \in Walkers => Listed(db, job[s]) \subseteq Order
    BY DEF Listed, OfCustomer, OfSeller
  <2>5. Walkers \subseteq Readers
    BY DEF Readers
  <2> QED
    BY <2>1, <2>2, <2>3, <2>4, <2>5
<1>11. since'[r] = {} /\ lost'[r] = lost[r] /\ DOMAIN since' = Request /\ DOMAIN lost' = Request
  BY <1>3
<1>12. Typed'
  <2>1. since' \in [Request -> SUBSET Rows] /\ lost' \in [Request -> SUBSET Order]
    <3>1. since' = [s \in Request |-> since'[s]] /\ lost' = [s \in Request |-> lost'[s]]
      BY <1>3
    <3>2. \A s \in Request : since'[s] \in SUBSET Rows /\ lost'[s] \in SUBSET Order
      BY <1>1, <1>10, <1>11
    <3> QED
      BY <3>1, <3>2
  <2>2. ASSUME NEW s \in Request
        PROVE  /\ DOMAIN pend'[s] = Rows /\ \A k \in Rows : pend'[s][k] \in {None} \cup RowType(k)
               /\ job'[s].op \in OpsAt(pc'[s])
    BY <1>1, <1>9 DEF OpsAt, NoJob
  <2>3. db' = [k \in Rows |-> db'[k]] /\ \A k \in Rows : db'[k] \in RowType(k)
    BY <1>4, <1>5, <1>6 DEF TablesTyped
  <2> QED
    BY <1>1, <1>2, <1>9, <2>1, <2>2, <2>3 DEF Typed
<1>13. Committed(db', clock')
  BY <1>2, <1>4, <1>8
<1>14. ASSUME NEW s \in Request PROVE Sound(s)' /\ Fits(job'[s])
  <2>1. CASE s = r
    <3>1. Own(later, clock, pend'[r], "done", NoJob, None, since'[r], start[r], lost'[r])
      BY <1>9, OwnIdle DEF Idle
    <3> QED
      BY <1>2, <1>4, <1>9, <2>1, <3>1 DEF Sound, Fits, NoJob
  <2>2. CASE s # r
    <3>1. Undisturbed(db, later, pend[s], pc[s], job[s], seen[s])
      BY <1>2, <1>5, <1>7, <2>2, CommitMeets
    <3>2. Own(db, clock, pend[s], pc[s], job[s], seen[s], since[s], start[s], lost[s])
      BY <1>1 DEF Sound
    <3>3. Own(later, clock, pend[s], pc[s], job[s], seen[s], since'[s], start[s], lost'[s])
      <4>1. /\ TablesTyped(db) /\ TablesTyped(later) /\ Later(db, later)
            /\ Committed(db, clock) /\ Committed(later, clock)
            /\ job[s] \in Job \cup {NoJob} /\ job[s].op \in OpsAt(pc[s])
        BY <1>1, <1>6, <1>8
      <4>2. /\ job[s].op \in Readers \cup {"checkout"} => since'[s] = since[s] \cup Changed(db, later)
            /\ job[s].op \in Walkers => lost'[s] = lost[s] \cup (Listed(db, job[s]) \ Listed(later, job[s]))
        BY <1>10, <2>2
      <4> QED
        BY <3>1, <3>2, <4>1, <4>2, OwnLater
    <3> QED
      BY <1>1, <1>2, <1>4, <1>9, <2>2, <3>3 DEF Sound
  <2> QED
    BY <2>1, <2>2
<1>15. ASSUME NEW p \in Request, NEW q \in Request, p # q PROVE Apart(p, q)'
  <2>1. ASSUME NEW s \in Request, s = r
        PROVE  ~Buying(pc'[s], job'[s]) /\ \A k \in Rows : ~Holds(s, k)'
    BY <1>9, <2>1 DEF Holds, Buying, NoJob
  <2>2. CASE p = r \/ q = r
    BY <2>1, <2>2, RowsAre DEF Apart
  <2>3. CASE p # r /\ q # r
    <3>1. /\ pend'[p] = pend[p] /\ pc'[p] = pc[p] /\ job'[p] = job[p] /\ seen'[p] = seen[p]
          /\ pend'[q] = pend[q] /\ pc'[q] = pc[q] /\ job'[q] = job[q] /\ seen'[q] = seen[q]
      BY <1>9, <2>3
    <3>2. Apart(p, q)
      BY <1>15, InvFacts
    <3> QED
      BY <3>1, <3>2 DEF Apart, Holds
  <2> QED
    BY <2>2, <2>3
<1> QED
  BY <1>12, <1>13, <1>14, <1>15 DEF HistoryInv

-----------------------------------------------------------------------------
(* The beginning, and every step.                                          *)
LEMMA InitialRowTyped ==
    ASSUME NEW k \in Rows
    PROVE  InitialRow(k) \in RowType(k)
<1>1. CASE k \in Variant
  BY <1>1, OrderHistoryAssumption DEF InitialRow, RowType
<1>2. CASE k \in Order
  <2>1. k \notin Variant
    BY <1>2, Tables
  <2>2. RowType(k) = OrderRow
    BY <1>2, RowsAre
  <2>3. CASE k \in DOMAIN Placed
    BY <2>1, <2>2, <2>3, OrderHistoryAssumption DEF InitialRow
  <2>4. CASE k \notin DOMAIN Placed
    <3>1. k \notin DOMAIN Bought
      BY <1>2, OrderHistoryAssumption, Tables
    <3>2. /\ (CHOOSE c \in Customer : TRUE) \in Customer /\ (CHOOSE s \in Seller : TRUE) \in Seller
          /\ (CHOOSE n \in Reference : TRUE) \in Reference
      BY OrderHistoryAssumption
    <3> QED
      BY <1>2, <2>1, <2>2, <2>4, <3>1, <3>2 DEF InitialRow, OrderRow, State
  <2> QED
    BY <2>3, <2>4
<1>3. CASE k \in Item
  <2>1. k \notin Variant /\ k \notin Order /\ k \notin DOMAIN Placed
    BY <1>3, OrderHistoryAssumption, Tables
  <2>2. RowType(k) = ItemRow
    BY <1>3, RowsAre
  <2>3. CASE k \in DOMAIN Bought
    BY <2>1, <2>2, <2>3, OrderHistoryAssumption DEF InitialRow
  <2>4. CASE k \notin DOMAIN Bought
    <3>1. (CHOOSE v \in Variant : TRUE) \in Variant
      BY OrderHistoryAssumption
    <3> QED
      BY <2>1, <2>2, <2>4, <3>1 DEF InitialRow, ItemRow, State
  <2> QED
    BY <2>3, <2>4
<1> QED
  BY <1>1, <1>2, <1>3 DEF Rows

LEMMA InitialCommitted ==
    ASSUME NEW now, now = 1 + Cardinality(DOMAIN Placed)
    PROVE  Committed(InitialRows, now) /\ now \in Nat
<1>1. \A k \in Rows : InitialRows[k] = InitialRow(k)
  BY DEF InitialRows
<1>2. /\ DOMAIN Placed \subseteq Order /\ \A o \in DOMAIN Placed : Placed[o] \in OrderRow
      /\ DOMAIN Bought \subseteq Item
  BY OrderHistoryAssumption
<1>3. Cardinality(DOMAIN Placed) \in Nat
  BY <1>2, Tables, FS_Subset, FS_CardinalityType
<1>4. ASSUME NEW o \in Order
      PROVE  /\ o \in DOMAIN Placed => InitialRows[o] = Placed[o] /\ Exists(InitialRows, o)
             /\ o \notin DOMAIN Placed => ~Exists(InitialRows, o)
  <2>1. InitialRows[o] = InitialRow(o) /\ o \notin Variant /\ o \notin DOMAIN Bought
    BY <1>1, <1>2, RowsAre, Tables
  <2>2. CASE o \in DOMAIN Placed
    BY <2>1, <2>2, StartAssumption DEF InitialRow, Exists
  <2>3. CASE o \notin DOMAIN Placed
    <3>1. InitialRows[o].state = "none"
      BY <2>1, <2>3 DEF InitialRow
    <3> QED
      BY <2>3, <3>1 DEF Exists
  <2> QED
    BY <2>2, <2>3
<1>5. ASSUME NEW o \in DOMAIN Placed PROVE AddsUp(InitialRows, o) /\ InitialRows[o].at < now
  <2>1. InitialRows[o] = Placed[o] /\ Placed[o].at \in Nat
    BY <1>2, <1>4 DEF OrderRow
  <2>2. Placed[o].at <= Cardinality(DOMAIN Placed) /\ AddsUp(InitialRows, o)
    BY StartAssumption
  <2> QED
    BY <1>3, <2>1, <2>2
<1>6. ASSUME NEW o \in Order, o \notin DOMAIN Placed PROVE Inserted(InitialRows, o) = {}
  <2> SUFFICES ASSUME NEW i \in Slots(o) PROVE InitialRows[i].state = "none"
    BY DEF Inserted, Slots
  <2>1. i \in Item /\ i \in Rows /\ i[1] = o /\ i \notin Variant /\ i \notin Order
    BY SlotsFinite, RowsAre, Tables DEF Slots
  <2>2. i \notin DOMAIN Placed /\ i \notin DOMAIN Bought
    BY <1>2, <1>6, <2>1, StartAssumption
  <2>3. InitialRow(i) = [state |-> "none", variant |-> CHOOSE v \in Variant : TRUE,
                         quantity |-> 0, unit |-> 0]
    BY ONLY <2>1, <2>2 DEF InitialRow
  <2>4. InitialRows[i] = InitialRow(i)
    BY <1>1, <2>1
  <2> QED
    BY ONLY <2>3, <2>4
<1>7. ASSUME NEW o \in Order
      PROVE  IF Exists(InitialRows, o) THEN AddsUp(InitialRows, o) /\ InitialRows[o].at < now
             ELSE Inserted(InitialRows, o) = {}
  BY <1>4, <1>5, <1>6
<1>8. ASSUME NEW o \in Order, NEW p \in Order, Exists(InitialRows, o), Exists(InitialRows, p), o # p
      PROVE  InitialRows[o].at # InitialRows[p].at /\ InitialRows[o].ref # InitialRows[p].ref
  <2>1. o \in DOMAIN Placed /\ p \in DOMAIN Placed
    BY <1>4, <1>8
  <2>2. Placed[o].at # Placed[p].at /\ Placed[o].ref # Placed[p].ref
    BY <1>8, <2>1, StartAssumption
  <2> QED
    BY <1>4, <2>1, <2>2
<1>9. \A o \in Order : Live(InitialRows[o]) => Exists(InitialRows, o)
  BY DEF Live, Exists
<1> QED
  BY <1>3, <1>7, <1>8, <1>9 DEF Committed

LEMMA Start ==
    ASSUME Init
    PROVE  HistoryInv
<1>1. /\ db = [k \in Rows |-> InitialRow(k)] /\ db = InitialRows /\ Row = Rows
      /\ pc = [r \in Request |-> "new"] /\ job = [r \in Request |-> NoJob]
      /\ seen = [r \in Request |-> None] /\ clock = 1 + Cardinality(DOMAIN Placed)
      /\ since = [r \in Request |-> {}] /\ start = [r \in Request |-> {}]
      /\ lost = [r \in Request |-> {}]
  BY DEF Init, HandlersInit, InitialRows, Row
<1>2. pend = [r \in Request |-> [k \in Rows |-> None]]
  BY <1>1 DEF Init, HandlersInit, NoWrites
<1>3. Committed(db, clock) /\ clock \in Nat
  BY <1>1, InitialCommitted
<1>4. \A k \in Rows : db[k] \in RowType(k)
  BY <1>1, InitialRowTyped
<1>5. Typed
  <2>1. db = [k \in Rows |-> db[k]]
    BY <1>1
  <2>2. \A r \in Request : /\ DOMAIN pend[r] = Rows
                           /\ \A k \in Rows : pend[r][k] \in {None} \cup RowType(k)
    BY <1>2
  <2>3. "new" \in Label /\ \A r \in Request : job[r].op \in OpsAt(pc[r])
    BY <1>1 DEF Label, OpsAt, NoJob
  <2>4. pc \in [Request -> Label] /\ job \in [Request -> Job \cup {NoJob}] /\ DOMAIN seen = Request
    BY <1>1, <2>3
  <2> QED
    BY <1>1, <1>2, <1>3, <1>4, <2>1, <2>2, <2>3, <2>4 DEF Typed
<1>6. ASSUME NEW r \in Request PROVE Sound(r) /\ Fits(job[r])
  <2>1. /\ \A k \in Rows : pend[r][k] = None
        /\ pc[r] = "new" /\ job[r] = NoJob /\ seen[r] = None
    BY <1>1, <1>2
  <2>2. Own(db, clock, pend[r], "new", NoJob, None, since[r], start[r], lost[r])
    BY <2>1, OwnIdle DEF Idle
  <2> QED
    BY <2>1, <2>2 DEF Sound, Fits, NoJob
<1>7. ASSUME NEW r \in Request, NEW s \in Request PROVE Apart(r, s)
  <2>1. \A k \in Rows : ~Holds(r, k)
    BY <1>2 DEF Holds
  <2>2. ~Buying(pc[r], job[r])
    BY <1>1 DEF Buying, NoJob
  <2> QED
    BY <2>1, <2>2, RowsAre DEF Apart
<1> QED
  BY <1>3, <1>5, <1>6, <1>7 DEF HistoryInv

LEMMA StepKeeps ==
    ASSUME HistoryInv, NEW r \in Request, Step(r)
    PROVE  HistoryInv'
<1>1. CASE CheckLines(r) \/ Resolve(r) \/ CompareQuote(r) \/ InsertOrder(r) \/ InsertItems(r)
  BY <1>1, CheckLinesKeeps, ResolveKeeps, CompareQuoteKeeps, InsertOrderKeeps, InsertItemsKeeps
<1>2. CASE SoldOut(r) \/ RefuseOutOfDate(r) \/ AnswerKeyError(r) \/ ConnectionLost(r)
  BY <1>2, AbandonKeeps DEF SoldOut, RefuseOutOfDate, AnswerKeyError, ConnectionLost
<1>3. CASE FindItem(r) \/ DeleteItem(r) \/ FindVariant(r) \/ Reprice(r) \/ DropVariant(r)
  BY <1>3, FindItemKeeps, DeleteItemKeeps, FindVariantKeeps, RepriceKeeps, DropVariantKeeps
<1>4. CASE CountOrders(r) \/ ListOrders(r) \/ CountItems(r) \/ PreviewItems(r) \/ SumForSeller(r)
             \/ NextPage(r)
  BY <1>4, CountOrdersKeeps, ListOrdersKeeps, CountItemsKeeps, PreviewItemsKeeps, SumForSellerKeeps,
     NextPageKeeps
<1>5. CASE FindOrder(r) \/ CheckBelongs(r) \/ ListItems(r) \/ SumDetail(r) \/ EndDetail(r)
  BY <1>5, FindOrderKeeps, CheckBelongsKeeps, ListItemsKeeps, SumDetailKeeps, EndDetailKeeps
<1>6. CASE Commit(r)
  BY <1>6, CommitKeeps
<1> QED
  BY <1>1, <1>2, <1>3, <1>4, <1>5, <1>6 DEF Step

LEMMA StutterKeeps ==
    ASSUME HistoryInv, UNCHANGED vars
    PROVE  HistoryInv'
<1>1. /\ db' = db /\ pend' = pend /\ pc' = pc /\ job' = job /\ seen' = seen /\ clock' = clock
      /\ since' = since /\ start' = start /\ lost' = lost
  BY DEF vars
<1>2. Typed'
  BY <1>1 DEF HistoryInv, Typed
<1>3. Committed(db', clock')
  BY <1>1 DEF HistoryInv
<1>4. \A r \in Request : Sound(r)' /\ Fits(job'[r])
  BY <1>1 DEF HistoryInv, Sound
<1>5. \A r, s \in Request : r # s => Apart(r, s)'
  BY <1>1 DEF HistoryInv, Apart, Holds
<1> QED
  BY <1>2, <1>3, <1>4, <1>5 DEF HistoryInv

(* HistoryInv is an invariant of every instance.                           *)
THEOREM HistoryHolds == Spec => []HistoryInv
<1>1. Init => HistoryInv
  BY Start
<1>2. HistoryInv /\ [Next]_vars => HistoryInv'
  <2> SUFFICES ASSUME HistoryInv, [Next]_vars PROVE HistoryInv'
    OBVIOUS
  <2>1. CASE Next
    <3>1. PICK r \in Request : Arrive(r) \/ Step(r)
      BY <2>1 DEF Next
    <3> QED
      BY <3>1, ArriveKeeps, StepKeeps
  <2>2. CASE UNCHANGED vars
    BY <2>2, StutterKeeps
  <2> QED
    BY <2>1, <2>2
<1> QED
  BY <1>1, <1>2, PTL DEF Spec

-----------------------------------------------------------------------------
(* What follows of it.  Every row, call and history is of its type.        *)
THEOREM OrderHistoryTypes == Spec => []TypeOK
<1>1. HistoryInv => TypeOK
  <2> SUFFICES ASSUME HistoryInv PROVE TypeOK
    OBVIOUS
  <2>1. \A k \in Rows : RowType(k) \in {VariantRow, OrderRow, ItemRow}
    BY DEF RowType
  <2>2. \A r \in Request : \A k \in Rows :
          pend[r][k] \in {None} \cup VariantRow \cup OrderRow \cup ItemRow
    <3> SUFFICES ASSUME NEW r \in Request, NEW k \in Rows
                 PROVE  pend[r][k] \in {None} \cup VariantRow \cup OrderRow \cup ItemRow
      OBVIOUS
    <3>1. pend[r][k] \in {None} \cup RowType(k)
      BY InvFacts
    <3> QED
      BY <2>1, <3>1
  <2>3. \A v \in Variant : db[v] \in VariantRow
    BY InvFacts, TablesAre
  <2>4. \A o \in Order : db[o] \in OrderRow
    BY InvFacts, TablesAre
  <2>5. \A i \in Item : db[i] \in ItemRow
    BY InvFacts, TablesAre
  <2>6. \A r \in Request : job[r] \in Job \cup {NoJob}
    BY InvFacts
  <2>7. /\ clock \in Nat /\ since \in [Request -> SUBSET Rows]
        /\ start \in [Request -> SUBSET Order] /\ lost \in [Request -> SUBSET Order]
    BY InvFacts
  <2> QED
    BY <2>2, <2>3, <2>4, <2>5, <2>6, <2>7 DEF TypeOK
<1> QED
  BY <1>1, HistoryHolds, PTL

(* The total of an order is the sum of the lines it was placed with, all   *)
(* of one seller, for as long as it is there (OrderService.create).        *)
THEOREM TotalsStand == Spec => []OrdersAddUp
<1>1. HistoryInv => OrdersAddUp
  <2> SUFFICES ASSUME HistoryInv, NEW o \in Order, Live(db[o]) PROVE AddsUp(db, o)
    BY DEF OrdersAddUp
  <2>1. Exists(db, o)
    BY DEF Live, Exists
  <2> QED
    BY <2>1 DEF HistoryInv, Committed
<1> QED
  BY <1>1, HistoryHolds, PTL

(* No two orders that are there have one reference, however often a client *)
(* sends a checkout again (uq_orders_reference_active).                    *)
THEOREM RetriesPlaceNoSecondOrder == Spec => []OneOrderPerReference
<1>1. HistoryInv => OneOrderPerReference
  BY DEF HistoryInv, Committed, OneOrderPerReference
<1> QED
  BY <1>1, HistoryHolds, PTL

(* A cart is out of date only if a variant in it has changed meanwhile, or *)
(* its client did not ask for the server's own sum (_resolve_order_lines). *)
THEOREM QuotesHold == Spec => []QuoteHolds
<1>1. HistoryInv => QuoteHolds
  <2> SUFFICES ASSUME HistoryInv, NEW r \in Request, pc[r] = "outOfDate",
                      ~\E i \in DOMAIN job[r].lines : job[r].lines[i].variant \in since[r]
               PROVE  job[r].quote # Due(db, job[r].lines)
    BY DEF QuoteHolds
  <2> DEFINE j == job[r]
             bought == seen[r].bought
  <2>1. /\ j.lines \in Seq(Line) /\ TablesTyped(db) /\ Buying("outOfDate", j)
        /\ Buyer(db, clock, pend[r], "outOfDate", j, seen[r], since[r])
    BY CheckoutFacts
  <2>2. AsOrdered(j, bought) /\ Pricer(db, "outOfDate", j, seen[r], since[r])
    BY <2>1 DEF Buyer, Pricing
  <2>3. Cost(bought) # j.quote
    BY <2>2 DEF Pricer
  <2>4. ASSUME NEW i \in FirstLines(j.lines) PROVE bought[i].unit = UnitPrice(db[j.lines[i].variant])
    <3>1. i \in FirstLines(j.lines) \ seen[r].left
      BY <2>2 DEF Pricer
    <3>2. i \in DOMAIN j.lines
      BY DEF FirstLines
    <3> QED
      BY <2>2, <3>1, <3>2 DEF Pricer
  <2>5. \A v \in Variant : db[v] \in VariantRow
    BY <2>1, TablesAre
  <2> HIDE DEF j, bought
  <2>6. Cost(bought) = Due(db, j.lines)
    BY <2>1, <2>2, <2>4, <2>5, CostIsDue
  <2> QED
    BY <2>3, <2>6 DEF j
<1> QED
  BY <1>1, HistoryHolds, PTL

LEMMA ValueSplit ==
    ASSUME NEW rows, ItemsTyped(rows), NEW o \in Order,
           NEW s \in SUBSET Slots(o), NEW t \in SUBSET s, NEW u, u = s \ t
    PROVE  Value(rows, s) = Value(rows, t) + Value(rows, u)
<1>1. Value(rows, s) = Value(rows, t) + Value(rows, s \ t)
  BY ValueMore
<1> QED
  BY <1>1

(* A request that is answering, by what it answers.                        *)
LEMMA ServedFacts ==
    ASSUME HistoryInv, NEW r \in Request, pc[r] \in {"served", "keyError"}
    PROVE  /\ job[r].op \in Readers /\ TablesTyped(db) /\ Committed(db, clock)
           /\ Answer(db, pc[r], job[r], seen[r], since[r])
           /\ job[r].op \in Walkers =>
                Walk(db, pc[r], job[r], seen[r], since[r], start[r], lost[r])
<1>1. /\ Sound(r) /\ job[r].op \in OpsAt(pc[r]) /\ TablesTyped(db) /\ Committed(db, clock)
  BY InvFacts
<1>2. job[r].op \in Readers
  BY <1>1 DEF OpsAt, Readers, Walkers
<1>3. Reader(db, pc[r], job[r], seen[r], since[r], start[r], lost[r])
  BY <1>1 DEF Sound, Own
<1> QED
  BY <1>1, <1>2, <1>3 DEF Reader, Listing

(* What a page or a detail says of an order fits the order and its lines   *)
(* (read_for_customer, read_for_business and the details).                 *)
THEOREM PagesFit == Spec => []PagesAddUp
<1>1. HistoryInv => PagesAddUp
  <2> SUFFICES ASSUME HistoryInv, NEW r \in Request, pc[r] = "served", NEW n \in DOMAIN seen[r].rows,
                      NEW o, o = seen[r].rows[n], NEW told, told = seen[r].summary[n],
                      NEW left, left = Lines(db, o), NEW gone, gone = GoneSince(r, o)
               PROVE  /\ told.count \in Cardinality(left)..Cardinality(left \cup gone)
                      /\ IF job[r].op \in {"customerPages", "customerOrder"}
                           THEN told.total = Value(db, Inserted(db, o))
                           ELSE /\ told.total \in Value(db, left)..Value(db, left \cup gone)
                                /\ gone = {} =>
                                     told.total = db[o].total - Value(db, Inserted(db, o) \ left)
                      /\ seen[r].preview # <<>> =>
                           /\ seen[r].preview[n] >= Min({PreviewLimit, Cardinality(left)})
                           /\ seen[r].preview[n] <= Min({PreviewLimit, told.count})
    BY DEF PagesAddUp
  <2>1. /\ Answer(db, "served", job[r], seen[r], since[r]) /\ TablesTyped(db) /\ Committed(db, clock)
    BY ServedFacts
  <2>2. gone = Gone(db, since[r], o)
    BY DEF GoneSince, Gone
  <2>3. /\ Shown(db, job[r], since[r], o) /\ Told(db, job[r], since[r], o, told)
        /\ seen[r].preview # <<>> => Previewed(db, o, told, seen[r].preview[n])
    BY <2>1 DEF Answer
  <2>4. o \in Order /\ Exists(db, o)
    BY <2>3 DEF Shown, OfJob, Live, Exists
  <2>5. ASSUME job[r].op \notin {"customerPages", "customerOrder"}, gone = {}
        PROVE  told.total = db[o].total - Value(db, Inserted(db, o) \ left)
    <3>1. told.total \in Value(db, left)..Value(db, left) /\ told.total \in Int
      <4>1. left \cup gone = left
        BY <2>5
      <4> QED
        BY <2>2, <2>3, <2>5, <4>1 DEF Told
    <3>2. db[o].total = Value(db, Inserted(db, o))
      BY <2>1, <2>4 DEF Committed, AddsUp
    <3>3. Inserted(db, o) \in SUBSET Slots(o) /\ left \in SUBSET Inserted(db, o) /\ ItemsTyped(db)
      BY <2>1, <2>4, PartsOf, TablesAre
    <3>4. PICK all \in SUBSET Slots(o) : all = Inserted(db, o)
      BY <3>3
    <3>5. PICK rest : rest = all \ left
      OBVIOUS
    <3>6. left \in SUBSET all /\ rest \in SUBSET all /\ ItemsTyped(db) /\ o \in Order
      BY <2>4, <3>3, <3>4, <3>5
    <3>7. Value(db, all) = Value(db, left) + Value(db, rest)
      BY <3>5, <3>6, ValueSplit
    <3>8. Value(db, left) \in Int /\ Value(db, rest) \in Int
      BY ONLY <3>4, <3>6, ValueMore
    <3> QED
      BY <3>1, <3>2, <3>4, <3>5, <3>7, <3>8
  <2>6. told.count \in Cardinality(left)..Cardinality(left \cup gone)
    BY <2>2, <2>3 DEF Told
  <2>7. IF job[r].op \in {"customerPages", "customerOrder"}
          THEN told.total = Value(db, Inserted(db, o))
          ELSE told.total \in Value(db, left)..Value(db, left \cup gone)
    BY <2>2, <2>3 DEF Told
  <2>8. seen[r].preview # <<>> =>
          /\ seen[r].preview[n] >= Min({PreviewLimit, Cardinality(left)})
          /\ seen[r].preview[n] <= Min({PreviewLimit, told.count})
    BY <2>3 DEF Previewed
  <2> QED
    BY <2>5, <2>6, <2>7, <2>8
<1> QED
  BY <1>1, HistoryHolds, PTL

(* The pages a response announces are those with rows, if no order or line *)
(* changed meanwhile (build_pagination_meta).                              *)
THEOREM AnnouncedPagesAreThere == Spec => []AnnouncedPagesExist
<1>1. HistoryInv => AnnouncedPagesExist
  <2> SUFFICES ASSUME HistoryInv, NEW r \in Request, pc[r] = "served", job[r].op \in Walkers,
                      since[r] \cap (Order \cup Item) = {}
               PROVE  seen[r].rows # <<>> <=> seen[r].page <= TotalPages(seen[r].results, job[r].size)
    BY DEF AnnouncedPagesExist
  <2>1. Walk(db, "served", job[r], seen[r], since[r], start[r], lost[r])
    BY ServedFacts
  <2> QED
    BY <2>1 DEF Walk, Listing
<1> QED
  BY <1>1, HistoryHolds, PTL

(* Page after page, a customer is shown every order that was there when he *)
(* began, and a seller too unless an order lost its last line meanwhile    *)
(* (list_orders_for_user, list_orders_for_business).                       *)
THEOREM WalksMissNothing == Spec => []NoneMissed
<1>1. HistoryInv => NoneMissed
  <2> SUFFICES ASSUME HistoryInv, NEW r \in Request, pc[r] = "served", job[r].op \in Walkers, LastPage(r),
                      job[r].op = "sellerPages" => lost[r] = {}
               PROVE  start[r] \subseteq seen[r].shown
    BY DEF NoneMissed
  <2>1. Walk(db, "served", job[r], seen[r], since[r], start[r], lost[r])
    BY ServedFacts
  <2>2. lost[r] = {}
    BY <2>1 DEF Walk, Walkers
  <2>3. ToCome(db, "served", job[r], seen[r], start[r])
    BY <2>1, <2>2 DEF Walk
  <2> QED
    BY <2>3 DEF ToCome, Listing, LastPage
<1> QED
  BY <1>1, HistoryHolds, PTL

(* A seller's page fails for want of a sum only when the last line of a    *)
(* listed order was deleted meanwhile (read_for_business).                 *)
THEOREM SellersAreServed == Spec => []SellerIsServed
<1>1. HistoryInv => SellerIsServed
  <2> SUFFICES ASSUME HistoryInv, NEW r \in Request, pc[r] = "keyError"
               PROVE  \E n \in DOMAIN seen[r].rows :
                        Lines(db, seen[r].rows[n]) = {} /\ GoneSince(r, seen[r].rows[n]) # {}
    BY DEF SellerIsServed
  <2>1. Answer(db, "keyError", job[r], seen[r], since[r])
    BY ServedFacts
  <2> QED
    BY <2>1 DEF Answer, Gone, GoneSince
<1> QED
  BY <1>1, HistoryHolds, PTL
=============================================================================
