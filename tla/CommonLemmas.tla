---------------------------- MODULE CommonLemmas ----------------------------
(***************************************************************************)
(* Facts that the proofs of several components rest on: sums over finite    *)
(* sets, least numbers, and sequences. SumFunction is defined by recursion  *)
(* over the subsets of a function's domain; since the sizes of unions       *)
(* satisfy the same recursion, and only one function does, a sum of sizes   *)
(* is the size of a union. Induction over finite sets and over numbers is   *)
(* by the least counterexample.                                             *)
(***************************************************************************)
EXTENDS Integers, SequencesExt, FiniteSetTheorems, WellFoundedInduction, TLAPS

(* The member that the fold takes from a set next.                          *)
Pick(s) == CHOOSE x \in s : TRUE

(* g is the table of partial sums of f that the fold over S builds.         *)
SumsUp(g, f, S) ==
  g = [s \in SUBSET S |-> IF s = {} THEN 0 ELSE f[Pick(s)] + g[s \ {Pick(s)}]]

(* A sum is the last entry of its table.                                    *)
LEMMA SumUnfold ==
  ASSUME NEW f
  PROVE  SumFunction(f) = (CHOOSE g : SumsUp(g, f, DOMAIN f))[DOMAIN f]
  BY DEF SumFunction, SumFunctionOnSet, FoldFunctionOnSet, MapThenFoldSet, SumsUp, Pick

(* The fold takes a member.                                                 *)
LEMMA PickElement ==
  ASSUME NEW s, s # {}
  PROVE  Pick(s) \in s
  BY DEF Pick

(* A set of subsets of a finite set, if not empty, has a member that        *)
(* properly contains no other.                                              *)
LEMMA SmallestSubset ==
  ASSUME NEW S, IsFiniteSet(S), NEW B \in SUBSET SUBSET S, B # {}
  PROVE  \E s \in B : \A t \in SUBSET s : t # s => t \notin B
<1>1. FiniteSubsetsOf(S) = SUBSET S
  BY FS_FiniteSubsetsOfFinite
<1>2. IsWellFoundedOn(StrictSubsetOrdering(S), SUBSET S)
  BY <1>1, FS_StrictSubsetOrderingWellFounded
<1>3. \E s \in B : \A t \in B : ~(<<t, s>> \in StrictSubsetOrdering(S))
  BY <1>2, WFMin
<1>4. PICK s \in B : \A t \in B : ~(<<t, s>> \in StrictSubsetOrdering(S))
  BY <1>3
<1>5. ASSUME NEW t \in SUBSET s, t # s, t \in B
      PROVE  FALSE
  <2>1. t \in SUBSET S /\ s \in SUBSET S
    OBVIOUS
  <2>2. <<t, s>> \in StrictSubsetOrdering(S)
    BY <1>5, <2>1 DEF StrictSubsetOrdering
  <2> QED
    BY <1>4, <1>5, <2>2
<1> QED
  BY <1>4, <1>5

(* At most one table satisfies the recursion.                               *)
LEMMA SumUnique ==
  ASSUME NEW S, IsFiniteSet(S), NEW f, NEW g, NEW h, SumsUp(g, f, S), SumsUp(h, f, S)
  PROVE  g = h
<1> DEFINE B == {s \in SUBSET S : g[s] # h[s]}
<1>1. SUFFICES B = {}
  BY DEF SumsUp
<1>2. SUFFICES ASSUME B # {} PROVE FALSE
  OBVIOUS
<1>3. PICK s \in B : \A t \in SUBSET s : t # s => t \notin B
  <2>1. B \in SUBSET SUBSET S
    OBVIOUS
  <2> HIDE DEF B
  <2> QED
    BY <1>2, <2>1, SmallestSubset
<1>4. CASE s = {}
  BY <1>4, <1>3 DEF SumsUp
<1>5. CASE s # {}
  <2> DEFINE x == Pick(s)
  <2>1. x \in s
    BY <1>5, PickElement
  <2>2. s \ {x} \in SUBSET S /\ s \ {x} # s /\ s \in SUBSET S
    BY <2>1, <1>3
  <2>3. g[s \ {x}] = h[s \ {x}]
    BY <1>3, <2>2
  <2>4. g[s] = f[x] + g[s \ {x}] /\ h[s] = f[x] + h[s \ {x}]
    BY <1>5, <2>2 DEF SumsUp
  <2> QED
    BY <2>3, <2>4, <1>3
<1> QED
  BY <1>4, <1>5

(* The sizes of pairwise disjoint finite sets add up to the size of their   *)
(* union.                                                                   *)
LEMMA SumOfSizes ==
  ASSUME NEW S, IsFiniteSet(S), NEW F, NEW f,
         DOMAIN f = S,
         \A x \in S : IsFiniteSet(F[x]) /\ f[x] = Cardinality(F[x]),
         \A x, y \in S : x # y => F[x] \cap F[y] = {},
         NEW U, \A u : u \in U <=> \E x \in S : u \in F[x]
  PROVE  SumFunction(f) = Cardinality(U) /\ IsFiniteSet(U)
<1> DEFINE All(s) == UNION {F[x] : x \in s}
           g == [s \in SUBSET S |-> Cardinality(All(s))]
<1>1. ASSUME NEW s \in SUBSET S
      PROVE  IsFiniteSet(All(s))
  <2> DEFINE B == {t \in SUBSET S : ~IsFiniteSet(All(t))}
  <2>1. SUFFICES ASSUME B # {} PROVE FALSE
    OBVIOUS
  <2>2. PICK t \in B : \A u \in SUBSET t : u # t => u \notin B
    <3>1. B \in SUBSET SUBSET S
      OBVIOUS
    <3> HIDE DEF B
    <3> QED
      BY <2>1, <3>1, SmallestSubset
  <2>3. CASE t = {}
    <3>1. All(t) = {}
      BY <2>3
    <3> QED
      BY <3>1, <2>2, FS_EmptySet
  <2>4. CASE t # {}
    <3>1. PICK x \in t : TRUE
      BY <2>4
    <3>2. IsFiniteSet(All(t \ {x})) /\ IsFiniteSet(F[x])
      <4>1. t \ {x} \in SUBSET t /\ t \ {x} # t /\ t \ {x} \in SUBSET S
        BY <3>1
      <4> QED
        BY <4>1, <2>2, <3>1
    <3>3. All(t) = All(t \ {x}) \cup F[x]
      BY <3>1
    <3>4. IsFiniteSet(All(t \ {x}) \cup F[x])
      <4> HIDE DEF All, B, g
      <4> QED
        BY <3>2, FS_Union
    <3> QED
      BY <3>3, <3>4, <2>2
  <2> QED
    BY <2>3, <2>4
<1>2. SumsUp(g, f, S)
  <2>1. ASSUME NEW s \in SUBSET S
        PROVE  g[s] = IF s = {} THEN 0 ELSE f[Pick(s)] + g[s \ {Pick(s)}]
    <3>1. CASE s = {}
      <4>1. All(s) = {}
        BY <3>1
      <4> HIDE DEF All
      <4> QED
        BY <3>1, <4>1, FS_EmptySet
    <3>2. CASE s # {}
      <4> DEFINE x == Pick(s)
                 t == s \ {x}
      <4>1. x \in s /\ t \in SUBSET S
        BY <3>2, PickElement
      <4>2. All(s) = F[x] \cup All(t)
        BY <4>1
      <4>3. F[x] \cap All(t) = {}
        BY <4>1
      <4>4. /\ IsFiniteSet(F[x]) /\ IsFiniteSet(All(t)) /\ f[x] = Cardinality(F[x])
            /\ Cardinality(F[x]) \in Nat /\ Cardinality(All(t)) \in Nat
        BY <4>1, <1>1, FS_CardinalityType
      <4> HIDE DEF All, x, t
      <4>5. Cardinality(All(s)) = Cardinality(F[x]) + Cardinality(All(t)) - Cardinality({})
        BY <4>2, <4>3, <4>4, FS_Union
      <4>6. Cardinality(All(s)) = f[x] + Cardinality(All(t))
        BY <4>4, <4>5, FS_EmptySet
      <4>7. g[s] = f[x] + g[t]
        BY <4>1, <4>6
      <4> QED
        BY <3>2, <4>7 DEF x, t
    <3> QED
      BY <3>1, <3>2
  <2> HIDE DEF g
  <2>2. g = [s \in SUBSET S |-> g[s]]
    BY DEF g
  <2> QED
    BY <2>1, <2>2 DEF SumsUp
<1> HIDE DEF g, All
<1>3. (CHOOSE h : SumsUp(h, f, S)) = g
  <2>1. SumsUp(CHOOSE h : SumsUp(h, f, S), f, S)
    BY <1>2
  <2> QED
    BY <1>2, <2>1, SumUnique
<1>4. SumFunction(f) = g[S]
  BY <1>3, SumUnfold
<1>5. g[S] = Cardinality(All(S))
  BY DEF g
<1>6. U = All(S)
  BY DEF All
<1> QED
  BY <1>1, <1>4, <1>5, <1>6

(* The units a function of natural numbers counts.                          *)
Units(f, S) == {u \in S \X Nat : u[2] >= 1 /\ u[2] <= f[u[1]]}

(* A sum of natural numbers is the number of its units.                     *)
LEMMA SumIsCount ==
  ASSUME NEW S, IsFiniteSet(S), NEW f \in [S -> Nat]
  PROVE  SumFunction(f) = Cardinality(Units(f, S)) /\ IsFiniteSet(Units(f, S))
<1> DEFINE F == [x \in S |-> {<<x, i>> : i \in 1 .. f[x]}]
<1>1. \A x \in S : IsFiniteSet(F[x]) /\ f[x] = Cardinality(F[x])
  <2> TAKE x \in S
  <2>1. IsFiniteSet(1 .. f[x]) /\ Cardinality(1 .. f[x]) = f[x] /\ f[x] \in Nat
    BY FS_Interval
  <2> DEFINE b == [i \in 1 .. f[x] |-> <<x, i>>]
  <2>2. b \in Bijection(1 .. f[x], F[x])
    BY <2>1 DEF Bijection, Injection, Surjection, IsInjective
  <2>3. ExistsBijection(1 .. f[x], F[x])
    BY <2>2 DEF ExistsBijection
  <2> QED
    BY <2>1, <2>3, FS_Bijection
<1>2. \A x, y \in S : x # y => F[x] \cap F[y] = {}
  OBVIOUS
<1>3. DOMAIN f = S /\ \A u : u \in Units(f, S) <=> \E x \in S : u \in F[x]
  <2>1. ASSUME NEW u \in Units(f, S)
        PROVE  \E x \in S : u \in F[x]
    BY DEF Units
  <2>2. ASSUME NEW x \in S, NEW u \in F[x]
        PROVE  u \in Units(f, S)
    BY DEF Units
  <2> QED
    BY <2>1, <2>2
<1> HIDE DEF F
<1> QED
  BY <1>1, <1>2, <1>3, SumOfSizes

(* A sum of natural numbers is a natural number.                            *)
LEMMA SumType ==
  ASSUME NEW S, IsFiniteSet(S), NEW f \in [S -> Nat]
  PROVE  SumFunction(f) \in Nat
  BY SumIsCount, FS_CardinalityType

(* A sum of no terms.                                                       *)
LEMMA SumEmpty ==
  ASSUME NEW f, DOMAIN f = {}, f \in [{} -> Nat]
  PROVE  SumFunction(f) = 0
<1>1. SumFunction(f) = Cardinality(Units(f, {}))
  BY SumIsCount, FS_EmptySet
<1>2. Units(f, {}) = {}
  BY DEF Units
<1> QED
  BY <1>1, <1>2, FS_EmptySet

(* Adding a term to a sum.                                                  *)
LEMMA SumInsert ==
  ASSUME NEW S, IsFiniteSet(S), NEW c, c \notin S, NEW f \in [S \cup {c} -> Nat],
         NEW g \in [S -> Nat], \A x \in S : g[x] = f[x]
  PROVE  SumFunction(f) = SumFunction(g) + f[c]
<1> DEFINE T == S \cup {c}
           own == Units([x \in {c} |-> f[c]], {c})
<1>1. IsFiniteSet(T) /\ IsFiniteSet({c})
  BY FS_AddElement, FS_Singleton
<1>2. SumFunction(f) = Cardinality(Units(f, T)) /\ IsFiniteSet(Units(f, T))
  BY <1>1, SumIsCount
<1>3. SumFunction(g) = Cardinality(Units(g, S)) /\ IsFiniteSet(Units(g, S))
  BY SumIsCount
<1>4. Units(f, T) = Units(g, S) \cup own /\ Units(g, S) \cap own = {}
  BY DEF Units
<1>5. Cardinality(own) = f[c] /\ IsFiniteSet(own)
  <2>1. IsFiniteSet(1 .. f[c]) /\ Cardinality(1 .. f[c]) = f[c] /\ f[c] \in Nat
    BY FS_Interval
  <2> DEFINE b == [i \in 1 .. f[c] |-> <<c, i>>]
  <2>2. b \in Bijection(1 .. f[c], own)
    <3>1. own = {<<c, i>> : i \in 1 .. f[c]}
      BY <2>1 DEF Units
    <3>2. b \in [1 .. f[c] -> own] /\ \A i, j \in 1 .. f[c] : b[i] = b[j] => i = j
      BY <3>1
    <3>3. \A u \in own : \E i \in 1 .. f[c] : b[i] = u
      BY <3>1
    <3> HIDE DEF b, own
    <3> QED
      BY <3>2, <3>3 DEF Bijection, Injection, Surjection, IsInjective
  <2>3. ExistsBijection(1 .. f[c], own)
    BY <2>2 DEF ExistsBijection
  <2> QED
    BY <2>1, <2>3, FS_Bijection
<1> HIDE DEF own, T
<1>6. Cardinality(Units(f, T)) =
        Cardinality(Units(g, S)) + Cardinality(own) - Cardinality({})
  BY <1>3, <1>4, <1>5, FS_Union
<1>7. /\ Cardinality({}) = 0 /\ Cardinality(Units(g, S)) \in Nat /\ Cardinality(own) \in Nat
  BY <1>3, <1>5, FS_EmptySet, FS_CardinalityType
<1> QED
  BY <1>2, <1>3, <1>5, <1>6, <1>7

(* A sum of smaller terms is smaller.                                       *)
LEMMA SumMonotone ==
  ASSUME NEW S, IsFiniteSet(S), NEW f \in [S -> Nat], NEW g \in [S -> Nat],
         \A x \in S : f[x] <= g[x]
  PROVE  SumFunction(f) <= SumFunction(g)
<1>1. Units(f, S) \in SUBSET Units(g, S)
  BY DEF Units
<1>2. SumFunction(f) = Cardinality(Units(f, S))
  BY SumIsCount
<1>3. SumFunction(g) = Cardinality(Units(g, S)) /\ IsFiniteSet(Units(g, S))
  BY SumIsCount
<1> QED
  BY <1>1, <1>2, <1>3, FS_Subset

(* The sum over a partition is the sum of the sums over its classes.        *)
LEMMA SumPartition ==
  ASSUME NEW C, IsFiniteSet(C), NEW F, \A c \in C : IsFiniteSet(F[c]),
         \A c, d \in C : c # d => F[c] \cap F[d] = {},
         NEW S, IsFiniteSet(S), \A x : x \in S <=> \E c \in C : x \in F[c],
         NEW f \in [S -> Nat], NEW h, DOMAIN h = C,
         \A c \in C : h[c] = SumFunction([x \in F[c] |-> f[x]])
  PROVE  SumFunction(f) = SumFunction(h)
<1> DEFINE part(c) == [x \in F[c] |-> f[x]]
           G == [c \in C |-> Units(part(c), F[c])]
<1>1. ASSUME NEW c \in C
      PROVE  IsFiniteSet(G[c]) /\ h[c] = Cardinality(G[c])
  <2>1. part(c) \in [F[c] -> Nat]
    OBVIOUS
  <2>2. h[c] = SumFunction(part(c)) /\ G[c] = Units(part(c), F[c])
    OBVIOUS
  <2> HIDE DEF part, G
  <2> QED
    BY <2>1, <2>2, SumIsCount
<1>2. \A c, d \in C : c # d => G[c] \cap G[d] = {}
  BY DEF Units
<1>3. \A u : u \in Units(f, S) <=> \E c \in C : u \in G[c]
  <2>1. ASSUME NEW u \in Units(f, S)
        PROVE  \E c \in C : u \in G[c]
    <3>1. u \in S \X Nat /\ u[2] >= 1 /\ u[2] <= f[u[1]]
      BY DEF Units
    <3>2. PICK c \in C : u[1] \in F[c]
      BY <3>1
    <3>3. u \in F[c] \X Nat /\ part(c)[u[1]] = f[u[1]]
      BY <3>1, <3>2
    <3>4. u \in Units(part(c), F[c])
      BY <3>1, <3>3 DEF Units
    <3> QED
      BY <3>4
  <2>2. ASSUME NEW c \in C, NEW u \in G[c]
        PROVE  u \in Units(f, S)
    <3>1. u \in F[c] \X Nat /\ u[2] >= 1 /\ u[2] <= part(c)[u[1]]
      BY DEF Units
    <3>2. u \in S \X Nat /\ part(c)[u[1]] = f[u[1]]
      BY <3>1
    <3> QED
      BY <3>1, <3>2 DEF Units
  <2> QED
    BY <2>1, <2>2
<1> HIDE DEF G
<1>4. SumFunction(h) = Cardinality(Units(f, S))
  BY <1>1, <1>2, <1>3, SumOfSizes
<1>5. SumFunction(f) = Cardinality(Units(f, S))
  BY SumIsCount
<1> QED
  BY <1>4, <1>5

(* A sum is the same over a set whose members are renamed.                  *)
LEMMA SumRenamed ==
  ASSUME NEW S, IsFiniteSet(S), NEW T, IsFiniteSet(T), NEW e \in [S -> T],
         \A x, y \in S : e[x] = e[y] => x = y, \A t \in T : \E x \in S : t = e[x],
         NEW f \in [T -> Nat], NEW h \in [S -> Nat], \A x \in S : h[x] = f[e[x]]
  PROVE  SumFunction(f) = SumFunction(h)
<1> DEFINE F == [x \in S |-> {e[x]}]
<1>1. \A x \in S : IsFiniteSet(F[x])
  BY FS_Singleton
<1>2. \A x, y \in S : x # y => F[x] \cap F[y] = {}
  OBVIOUS
<1>3. \A t : t \in T <=> \E x \in S : t \in F[x]
  OBVIOUS
<1>4. ASSUME NEW x \in S
      PROVE  h[x] = SumFunction([t \in F[x] |-> f[t]])
  <2> DEFINE k == e[x]
             g == [t \in {} |-> 0]
             s == [t \in {} \cup {k} |-> f[t]]
  <2>1. s \in [{} \cup {k} -> Nat] /\ g \in [{} -> Nat] /\ s[k] = h[x] /\ h[x] \in Nat
        /\ IsFiniteSet({}) /\ k \notin {} /\ DOMAIN g = {}
        /\ \A t \in {} : g[t] = s[t]
    BY FS_EmptySet
  <2>2. [t \in F[x] |-> f[t]] = s
    OBVIOUS
  <2> HIDE DEF F, g, s, k
  <2>3. SumFunction(s) = SumFunction(g) + s[k]
    BY ONLY <2>1, SumInsert, ZenonT(60)
  <2>4. SumFunction(g) = 0
    BY <2>1, SumEmpty
  <2> QED
    BY <2>1, <2>2, <2>3, <2>4
<1>5. DOMAIN h = S
  OBVIOUS
<1>6. IsFiniteSet(S) /\ IsFiniteSet(T) /\ f \in [T -> Nat]
  OBVIOUS
<1> HIDE DEF F
<1> QED
  BY ONLY <1>1, <1>2, <1>3, <1>4, <1>5, <1>6, SumPartition, SMTT(60)

(* Taking one term out of a sum.                                            *)
LEMMA SumRemove ==
  ASSUME NEW S, IsFiniteSet(S), NEW c \in S, NEW f \in [S -> Nat],
         NEW h \in [S \ {c} -> Nat], \A x \in S \ {c} : h[x] = f[x]
  PROVE  SumFunction(f) = SumFunction(h) + f[c]
<1> DEFINE T == S \ {c}
<1>1. IsFiniteSet(T) /\ c \notin T /\ S = T \cup {c}
  BY FS_RemoveElement
<1>2. f \in [T \cup {c} -> Nat]
  BY <1>1
<1>3. h \in [T -> Nat] /\ \A x \in T : h[x] = f[x]
  OBVIOUS
<1> HIDE DEF T
<1> QED
  BY ONLY <1>1, <1>2, <1>3, SumInsert

(* Changing one term of a sum.                                              *)
LEMMA SumUpdate ==
  ASSUME NEW S, IsFiniteSet(S), NEW c \in S, NEW f \in [S -> Nat], NEW g \in [S -> Nat],
         \A x \in S \ {c} : g[x] = f[x]
  PROVE  SumFunction(g) + f[c] = SumFunction(f) + g[c]
<1> DEFINE h == [x \in S \ {c} |-> f[x]]
<1>1. h \in [S \ {c} -> Nat] /\ IsFiniteSet(S \ {c})
  BY FS_RemoveElement
<1>2. \A x \in S \ {c} : h[x] = f[x]
  OBVIOUS
<1>3. \A x \in S \ {c} : h[x] = g[x]
  OBVIOUS
<1> HIDE DEF h
<1>4. SumFunction(f) = SumFunction(h) + f[c]
  BY <1>1, <1>2, SumRemove
<1>5. SumFunction(g) = SumFunction(h) + g[c]
  BY <1>1, <1>3, SumRemove
<1>6. SumFunction(h) \in Nat /\ f[c] \in Nat /\ g[c] \in Nat
  BY <1>1, SumType
<1> QED
  BY <1>4, <1>5, <1>6

(* A non-empty set of numbers up to a bound has a least one.                *)
LEMMA LeastNumber ==
  ASSUME NEW n \in Nat, NEW B \in SUBSET (0 .. n), B # {}
  PROVE  \E k \in B : \A m \in B : k <= m
<1>1. IsWellFoundedOn(OpToRel(<, Nat), Nat)
  BY NatLessThanWellFounded, Zenon
<1>2. B \subseteq Nat
  OBVIOUS
<1>3. PICK k \in B : \A m \in B : ~(<<m, k>> \in OpToRel(<, Nat))
  BY <1>1, <1>2, WFMin, Zenon
<1>4. \A m \in B : ~(m < k)
  BY <1>2, <1>3 DEF OpToRel
<1> QED
  BY <1>2, <1>4

-----------------------------------------------------------------------------
(* Sequences.                                                               *)

(* A prefix of a sequence.                                                  *)
LEMMA PrefixFacts ==
  ASSUME NEW S, NEW h \in Seq(S), NEW n \in 0 .. Len(h)
  PROVE  /\ SubSeq(h, 1, n) \in Seq(S) /\ Len(SubSeq(h, 1, n)) = n
         /\ \A i \in 1 .. n : SubSeq(h, 1, n)[i] = h[i]
  OBVIOUS

(* Two sequences with the same members are the same.                        *)
LEMMA SameMembers ==
  ASSUME NEW S, NEW h \in Seq(S), NEW k \in Seq(S), Len(h) = Len(k),
         \A i \in 1 .. Len(h) : h[i] = k[i]
  PROVE  h = k
  OBVIOUS

(* A prefix grows member by member up to the whole.                         *)
LEMMA PrefixGrows ==
  ASSUME NEW S, NEW h \in Seq(S)
  PROVE  /\ SubSeq(h, 1, Len(h)) = h /\ SubSeq(h, 1, 0) = <<>>
         /\ \A n \in 1 .. Len(h) : Append(SubSeq(h, 1, n - 1), h[n]) = SubSeq(h, 1, n)
<1>1. Len(h) \in Nat /\ Len(h) \in 0 .. Len(h) /\ 0 \in 0 .. Len(h)
  OBVIOUS
<1>2. SubSeq(h, 1, Len(h)) = h
  BY <1>1, PrefixFacts, SameMembers
<1>3. SubSeq(h, 1, 0) = <<>>
  OBVIOUS
<1>4. ASSUME NEW n \in 1 .. Len(h)
      PROVE  Append(SubSeq(h, 1, n - 1), h[n]) = SubSeq(h, 1, n)
  <2> DEFINE p == SubSeq(h, 1, n - 1)
             q == SubSeq(h, 1, n)
             a == Append(p, h[n])
  <2>1. n - 1 \in 0 .. Len(h) /\ n \in 0 .. Len(h) /\ h[n] \in S /\ n \in Nat
    BY <1>1
  <2>2. p \in Seq(S) /\ Len(p) = n - 1 /\ \A i \in 1 .. n - 1 : p[i] = h[i]
    BY <2>1, PrefixFacts
  <2>3. q \in Seq(S) /\ Len(q) = n /\ \A i \in 1 .. n : q[i] = h[i]
    BY <2>1, PrefixFacts
  <2> HIDE DEF p, q
  <2>4. a \in Seq(S) /\ Len(a) = n /\ \A i \in 1 .. n : a[i] = h[i]
    BY <2>1, <2>2
  <2> HIDE DEF a
  <2>5. a = q
    BY <2>3, <2>4, SameMembers
  <2> QED
    BY <2>5 DEF a, p, q
<1> QED
  BY <1>2, <1>3, <1>4

(* The last member of a sequence, and the sequence before it.               *)
LEMMA FrontFacts ==
  ASSUME NEW S, NEW h \in Seq(S), NEW b \in S
  PROVE  Front(Append(h, b)) = h /\ Last(Append(h, b)) = b /\ Append(h, b) # <<>>
<1> DEFINE k == Append(h, b)
<1>1. k \in Seq(S) /\ Len(k) = Len(h) + 1 /\ Len(h) \in Nat
      /\ k[Len(h) + 1] = b /\ \A i \in 1 .. Len(h) : k[i] = h[i]
  OBVIOUS
<1> HIDE DEF k
<1>2. Len(h) \in 0 .. Len(k) /\ Len(k) - 1 = Len(h)
  BY <1>1
<1>3. SubSeq(k, 1, Len(h)) = h
  BY <1>1, <1>2, PrefixFacts, SameMembers
<1>4. Front(k) = h
  BY <1>2, <1>3 DEF Front
<1>5. Last(k) = b
  BY <1>1 DEF Last
<1>6. k # <<>>
  BY <1>1
<1> QED
  BY <1>4, <1>5, <1>6 DEF k

(* A sequence that is not empty is its front and its last member.           *)
LEMMA Splits ==
  ASSUME NEW S, NEW h \in Seq(S), h # <<>>
  PROVE  /\ Len(h) >= 1 /\ Front(h) \in Seq(S) /\ Last(h) \in S
         /\ Front(h) = SubSeq(h, 1, Len(h) - 1) /\ Last(h) = h[Len(h)]
         /\ h = Append(Front(h), Last(h)) /\ Len(Front(h)) = Len(h) - 1
<1>1. Len(h) \in Nat /\ Len(h) >= 1
  OBVIOUS
<1>2. Front(h) = SubSeq(h, 1, Len(h) - 1) /\ Last(h) = h[Len(h)]
  BY DEF Front, Last
<1>3. Len(h) - 1 \in 0 .. Len(h) /\ Len(h) \in 1 .. Len(h) /\ h[Len(h)] \in S
  BY <1>1
<1>4. SubSeq(h, 1, Len(h) - 1) \in Seq(S) /\ Len(SubSeq(h, 1, Len(h) - 1)) = Len(h) - 1
  BY <1>3, PrefixFacts
<1>5. Append(SubSeq(h, 1, Len(h) - 1), h[Len(h)]) = SubSeq(h, 1, Len(h)) /\ SubSeq(h, 1, Len(h)) = h
  BY <1>3, PrefixGrows
<1> QED
  BY <1>1, <1>2, <1>3, <1>4, <1>5

(* One sequence after another.                                              *)
LEMMA ConcatFacts ==
  ASSUME NEW S, NEW u \in Seq(S), NEW v \in Seq(S)
  PROVE  /\ u \o v \in Seq(S) /\ Len(u \o v) = Len(u) + Len(v)
         /\ \A i \in 1 .. Len(u) : (u \o v)[i] = u[i]
         /\ \A i \in 1 .. Len(v) : (u \o v)[Len(u) + i] = v[i]
<1>1. u \o v \in Seq(S) /\ Len(u \o v) = Len(u) + Len(v)
  OBVIOUS
<1>2. \A i \in 1 .. Len(u) : (u \o v)[i] = u[i]
  OBVIOUS
<1>3. ASSUME NEW i \in 1 .. Len(v)
      PROVE  (u \o v)[Len(u) + i] = v[i]
  <2>1. Len(u) + i \in 1 .. Len(u) + Len(v) /\ Len(u) + i > Len(u) /\ (Len(u) + i) - Len(u) = i
    OBVIOUS
  <2> QED
    BY <2>1
<1> QED
  BY <1>1, <1>2, <1>3

(* The members may be taken from a larger set.                              *)
LEMMA SeqLarger ==
  ASSUME NEW S, NEW T, S \subseteq T, NEW h \in Seq(S)
  PROVE  h \in Seq(T)
  OBVIOUS
=============================================================================
