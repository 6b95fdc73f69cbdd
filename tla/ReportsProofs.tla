--------------------------- MODULE ReportsProofs ---------------------------
(***************************************************************************)
(* What holds of Reports for every set of orders, ticket types and         *)
(* check-ins, every amount and price.  The reports are sums over           *)
(* finite sets: the first part proves what a sum is, by induction, stated  *)
(* with sets because a theorem cannot be applied to an operator here.      *)
(***************************************************************************)
EXTENDS Reports, FiniteSetTheorems, WellFoundedInduction, TLAPS

-----------------------------------------------------------------------------
(* Induction                                                               *)

LEMMA SmallestNat ==
  ASSUME NEW N, N \subseteq Nat, N # {}
  PROVE  \E m \in N : \A k \in N : m <= k
  <1> DEFINE Less == {p \in Nat \X Nat : p[1] < p[2]}
  <1>1. IsWellFoundedOn(Less, Nat)
    BY NatLessThanWellFounded DEF OpToRel
  <1> HIDE DEF Less
  <1>2. PICK m \in N : \A k \in N : ~(<<k, m>> \in Less)
    BY <1>1, WFMin
  <1>3. ASSUME NEW k \in N, ~(m <= k) PROVE FALSE
    <2>1. <<k, m>> \in Less
      BY <1>3 DEF Less
    <2> QED BY <1>2, <2>1
  <1> QED BY <1>3

\* A set of numbers with 0 and every successor has them all.
LEMMA AllNumbers ==
  ASSUME NEW P, 0 \in P, \A n \in Nat : n \in P => n + 1 \in P
  PROVE  Nat \subseteq P
  <1> SUFFICES ASSUME Nat \ P # {} PROVE FALSE
    OBVIOUS
  <1>1. PICK m \in Nat \ P : \A k \in Nat \ P : m <= k
    BY SmallestNat
  <1>2. m - 1 \in Nat /\ (m - 1) + 1 = m
    BY <1>1
  <1>3. m - 1 \in P
    BY <1>1, <1>2
  <1> QED BY <1>1, <1>2, <1>3

\* A set of subsets that has a subset when it has all the smaller ones, has all.
LEMMA AllSubsets ==
  ASSUME NEW S, IsFiniteSet(S), NEW P,
         \A s \in SUBSET S :
             (\A r \in SUBSET S : Cardinality(r) < Cardinality(s) => r \in P) => s \in P
  PROVE  SUBSET S \subseteq P
  <1> SUFFICES ASSUME NEW s0 \in SUBSET S, s0 \notin P PROVE FALSE
    OBVIOUS
  <1> DEFINE N == {n \in Nat : \E s \in SUBSET S : s \notin P /\ Cardinality(s) = n}
  <1>1. \A s \in SUBSET S : Cardinality(s) \in Nat
    BY FS_Subset, FS_CardinalityType
  <1>2. N # {} /\ N \subseteq Nat
    BY <1>1
  <1>3. PICK m \in N : \A k \in N : m <= k
    BY <1>2, SmallestNat
  <1>4. PICK s \in SUBSET S : s \notin P /\ Cardinality(s) = m
    BY <1>3
  <1>5. ASSUME NEW r \in SUBSET S, Cardinality(r) < Cardinality(s), r \notin P PROVE FALSE
    <2>1. Cardinality(r) \in N
      BY <1>1, <1>5
    <2> QED BY <2>1, <1>1, <1>3, <1>4, <1>5
  <1> QED BY <1>4, <1>5

-----------------------------------------------------------------------------
(* Sums                                                                    *)

Chosen(s) == CHOOSE x \in s : TRUE

\* The function that SumFunctionOnSet defines: the sums over all subsets.
SumsTo(f, g, S) ==
    g = [s \in SUBSET S |-> IF s = {} THEN 0 ELSE f[Chosen(s)] + g[s \ {Chosen(s)}]]

Sums(f, S) == CHOOSE g : SumsTo(f, g, S)

LEMMA SumIsSums ==
  ASSUME NEW f, NEW S
  PROVE  SumFunctionOnSet(f, S) = Sums(f, S)[S]
  BY DEF SumFunctionOnSet, FoldFunctionOnSet, MapThenFoldSet, Sums, SumsTo, Chosen

LEMMA ChosenIsIn == ASSUME NEW s, s # {} PROVE Chosen(s) \in s
  BY DEF Chosen

LEMMA OneLess ==
  ASSUME NEW s, IsFiniteSet(s), NEW x \in s
  PROVE  /\ IsFiniteSet(s \ {x}) /\ Cardinality(s \ {x}) \in Nat /\ Cardinality(s) \in Nat
         /\ Cardinality(s) = Cardinality(s \ {x}) + 1
  <1>1. IsFiniteSet(s \ {x}) /\ Cardinality(s \ {x}) = Cardinality(s) - 1
    BY FS_RemoveElement
  <1>2. Cardinality(s) \in Nat
    BY FS_CardinalityType
  <1>3. Cardinality(s \ {x}) \in Nat
    BY <1>1, FS_CardinalityType
  <1> QED BY <1>1, <1>2, <1>3

\* There is such a function: it is built up, one more element at a time.
LEMMA SumsExist ==
  ASSUME NEW S, IsFiniteSet(S), NEW f, \A x \in S : f[x] \in Nat
  PROVE  \E g \in [SUBSET S -> Nat] : SumsTo(f, g, S)
  <1> DEFINE Small(n) == {s \in SUBSET S : Cardinality(s) <= n}
             Adds(g, s) == g[s] = IF s = {} THEN 0 ELSE f[Chosen(s)] + g[s \ {Chosen(s)}]
             P == {n \in Nat : \E g \in [Small(n) -> Nat] : \A s \in Small(n) : Adds(g, s)}
  <1>0. \A s \in SUBSET S : IsFiniteSet(s) /\ Cardinality(s) \in Nat
    BY FS_Subset, FS_CardinalityType
  <1>1. 0 \in P
    <2>1. \A s \in Small(0) : s = {}
      <3> SUFFICES ASSUME NEW s \in Small(0) PROVE s = {}
        OBVIOUS
      <3>1. Cardinality(s) = 0 /\ IsFiniteSet(s)
        BY <1>0
      <3> QED BY <3>1, FS_EmptySet
    <2>2. [s \in Small(0) |-> 0] \in [Small(0) -> Nat]
      OBVIOUS
    <2>3. \A s \in Small(0) : Adds([r \in Small(0) |-> 0], s)
      BY <2>1
    <2> HIDE DEF Small, Adds
    <2> QED BY <2>2, <2>3
  <1>2. ASSUME NEW n \in Nat, n \in P PROVE n + 1 \in P
    <2>1. PICK g \in [Small(n) -> Nat] : \A s \in Small(n) : Adds(g, s)
      BY <1>2
    <2> DEFINE h == [s \in Small(n + 1) |-> IF s \in Small(n) THEN g[s]
                                            ELSE f[Chosen(s)] + g[s \ {Chosen(s)}]]
    <2>2. ASSUME NEW s \in SUBSET S, s # {}
          PROVE  /\ Chosen(s) \in S /\ f[Chosen(s)] \in Nat
                 /\ Cardinality(s) \in Nat /\ Cardinality(s \ {Chosen(s)}) \in Nat
                 /\ Cardinality(s) = Cardinality(s \ {Chosen(s)}) + 1
      <3>1. Chosen(s) \in s
        BY <2>2, ChosenIsIn
      <3> QED BY <3>1, <1>0, OneLess
    <2>3. ASSUME NEW s \in Small(n + 1), s # {}
          PROVE  s \ {Chosen(s)} \in Small(n)
      BY <2>2, <2>3
    <2>4. {} \in Small(n) /\ {} \in Small(n + 1)
      BY FS_EmptySet
    <2>5. \A s \in Small(n) : s \in Small(n + 1)
      BY <1>0
    <2>6. h \in [Small(n + 1) -> Nat]
      <3> SUFFICES ASSUME NEW s \in Small(n + 1), s \notin Small(n)
                   PROVE  f[Chosen(s)] + g[s \ {Chosen(s)}] \in Nat
        BY <2>1
      <3>1. s # {}
        BY <2>4
      <3> QED BY <3>1, <2>1, <2>2, <2>3
    <2>7. ASSUME NEW s \in Small(n + 1) PROVE Adds(h, s)
      <3>1. CASE s = {}
        BY <3>1, <2>1, <2>4
      <3>2. CASE s # {}
        <4>1. s \ {Chosen(s)} \in Small(n) /\ s \ {Chosen(s)} \in Small(n + 1)
          BY <3>2, <2>3, <2>5
        <4>2. h[s \ {Chosen(s)}] = g[s \ {Chosen(s)}]
          BY <4>1
        <4>3. h[s] = f[Chosen(s)] + g[s \ {Chosen(s)}]
          BY <3>2, <2>1
        <4> QED BY <3>2, <4>2, <4>3
      <3> QED BY <3>1, <3>2
    <2> HIDE DEF Small, Adds, h
    <2> QED BY <2>6, <2>7
  <1>3. Nat \subseteq P
    BY <1>1, <1>2, AllNumbers
  <1>4. Cardinality(S) \in Nat
    BY FS_CardinalityType
  <1>5. Small(Cardinality(S)) = SUBSET S
    BY FS_Subset
  <1>6. PICK g \in [Small(Cardinality(S)) -> Nat] : \A s \in Small(Cardinality(S)) : Adds(g, s)
    BY <1>3, <1>4
  <1>7. g \in [SUBSET S -> Nat] /\ \A s \in SUBSET S : Adds(g, s)
    BY <1>5, <1>6
  <1> HIDE DEF Small
  <1>8. SumsTo(f, g, S)
    BY <1>7 DEF SumsTo
  <1> QED BY <1>7, <1>8

\* There is no other.
LEMMA SumsUnique ==
  ASSUME NEW S, IsFiniteSet(S), NEW f, NEW g, NEW h, SumsTo(f, g, S), SumsTo(f, h, S)
  PROVE  g = h
  <1> DEFINE P == {s \in SUBSET S : g[s] = h[s]}
  <1>1. \A s \in SUBSET S : g[s] = IF s = {} THEN 0 ELSE f[Chosen(s)] + g[s \ {Chosen(s)}]
    BY DEF SumsTo
  <1>2. \A s \in SUBSET S : h[s] = IF s = {} THEN 0 ELSE f[Chosen(s)] + h[s \ {Chosen(s)}]
    BY DEF SumsTo
  <1>3. ASSUME NEW s \in SUBSET S,
               \A r \in SUBSET S : Cardinality(r) < Cardinality(s) => r \in P
        PROVE  s \in P
    <2>1. CASE s = {}
      BY <2>1, <1>1, <1>2
    <2>2. CASE s # {}
      <3>1. Chosen(s) \in s /\ IsFiniteSet(s)
        BY <2>2, ChosenIsIn, FS_Subset
      <3>2. Cardinality(s \ {Chosen(s)}) < Cardinality(s)
        BY <3>1, OneLess
      <3>3. s \ {Chosen(s)} \in P
        BY <3>2, <1>3
      <3> QED BY <2>2, <3>3, <1>1, <1>2
    <2> QED BY <2>1, <2>2
  <1>4. SUBSET S \subseteq P
    BY <1>3, AllSubsets
  <1>5. g = [s \in SUBSET S |-> g[s]] /\ h = [s \in SUBSET S |-> h[s]]
    BY DEF SumsTo
  <1> QED BY <1>4, <1>5

\* (A term for the difference would hide the match from the provers.)
IsRest(r, s, x) == r = s \ {x}

\* The order in which the elements are added does not matter.
LEMMA AnyOrder ==
  ASSUME NEW S, IsFiniteSet(S), NEW f, \A x \in S : f[x] \in Nat,
         NEW g \in [SUBSET S -> Nat], SumsTo(f, g, S)
  PROVE  \A s, r \in SUBSET S : \A x \in s : IsRest(r, s, x) => g[s] = f[x] + g[r]
  <1> DEFINE P == {s \in SUBSET S : \A x \in s : g[s] = f[x] + g[s \ {x}]}
  <1>1. ASSUME NEW s \in SUBSET S,
               \A r \in SUBSET S : Cardinality(r) < Cardinality(s) => r \in P
        PROVE  s \in P
    <2> SUFFICES ASSUME NEW x \in s PROVE g[s] = f[x] + g[s \ {x}]
      OBVIOUS
    <2> DEFINE c == Chosen(s)
    <2>1. c \in s /\ IsFiniteSet(s)
      BY ChosenIsIn, FS_Subset
    <2>2. g[s] = f[c] + g[s \ {c}]
      BY DEF SumsTo
    <2> HIDE DEF c
    <2>3. CASE x = c
      BY <2>2, <2>3
    <2>4. CASE x # c
      <3>1. s \ {c} \in P /\ s \ {x} \in P
        <4>1. \A y \in s : s \ {y} \in SUBSET S /\ Cardinality(s \ {y}) < Cardinality(s)
          BY <2>1, OneLess
        <4> HIDE DEF P
        <4> QED BY <1>1, <2>1, <4>1
      <3>2. g[s \ {c}] = f[x] + g[(s \ {c}) \ {x}]
        BY <3>1, <2>4
      <3>3. g[s \ {x}] = f[c] + g[(s \ {x}) \ {c}]
        BY <3>1, <2>1, <2>4
      <3>4. (s \ {c}) \ {x} = (s \ {x}) \ {c}
        OBVIOUS
      <3>5. f[x] \in Nat /\ f[c] \in Nat
        BY <2>1
      <3>6. g[(s \ {c}) \ {x}] \in Nat
        <4>1. (s \ {c}) \ {x} \in SUBSET S
          OBVIOUS
        <4> QED BY <4>1
      <3>7. PICK z \in Nat : z = g[(s \ {c}) \ {x}]
        BY <3>6
      <3>8. g[s \ {c}] = f[x] + z /\ g[s \ {x}] = f[c] + z
        BY <3>2, <3>3, <3>4, <3>7
      <3>9. PICK m \in Nat, n \in Nat : m = f[x] /\ n = f[c]
        BY <3>5
      <3>10. n + (m + z) = m + (n + z)
        OBVIOUS
      <3> QED BY <2>2, <3>8, <3>9, <3>10
    <2> QED BY <2>3, <2>4
  <1>2. SUBSET S \subseteq P
    BY <1>1, AllSubsets
  <1> QED BY <1>2 DEF IsRest

\* One function has the sums of all subsets.
LEMMA SumOfPart ==
  ASSUME NEW S, IsFiniteSet(S), NEW f, NEW g, SumsTo(f, g, S), NEW T \in SUBSET S
  PROVE  SumFunctionOnSet(f, T) = g[T]
  <1> DEFINE h == [s \in SUBSET T |-> g[s]]
  <1>1. SumsTo(f, h, T)
    <2>1. ASSUME NEW s \in SUBSET T
          PROVE  g[s] = IF s = {} THEN 0 ELSE f[Chosen(s)] + h[s \ {Chosen(s)}]
      <3>1. g[s] = IF s = {} THEN 0 ELSE f[Chosen(s)] + g[s \ {Chosen(s)}]
        BY DEF SumsTo
      <3>2. h[s \ {Chosen(s)}] = g[s \ {Chosen(s)}]
        OBVIOUS
      <3> QED BY <3>1, <3>2
    <2>2. [s \in SUBSET T |-> g[s]]
            = [s \in SUBSET T |-> IF s = {} THEN 0 ELSE f[Chosen(s)] + h[s \ {Chosen(s)}]]
      BY <2>1
    <2> QED BY <2>2 DEF SumsTo
  <1>2. SumsTo(f, Sums(f, T), T)
    BY <1>1 DEF Sums
  <1>3. IsFiniteSet(T)
    BY FS_Subset
  <1> HIDE DEF h
  <1>4. Sums(f, T) = h
    BY <1>1, <1>2, <1>3, SumsUnique
  <1>5. h[T] = g[T]
    BY DEF h
  <1> QED BY <1>4, <1>5, SumIsSums

LEMMA SumOfNone == ASSUME NEW f PROVE SumFunctionOnSet(f, {}) = 0
  <1> DEFINE g == [s \in SUBSET {} |-> 0]
  <1>1. SumsTo(f, g, {})
    BY DEF SumsTo
  <1>2. g[{}] = 0
    OBVIOUS
  <1> HIDE DEF g
  <1> QED BY <1>1, <1>2, FS_EmptySet, SumOfPart

\* What a sum is when an element is taken out of it.
LEMMA SumTakes ==
  ASSUME NEW S, IsFiniteSet(S), NEW f, \A y \in S : f[y] \in Nat, NEW x \in S
  PROVE  /\ SumFunctionOnSet(f, S) = f[x] + SumFunctionOnSet(f, S \ {x})
         /\ SumFunctionOnSet(f, S \ {x}) \in Nat
  <1>1. PICK g \in [SUBSET S -> Nat] : SumsTo(f, g, S)
    BY SumsExist
  <1>2. SumFunctionOnSet(f, S) = g[S] /\ SumFunctionOnSet(f, S \ {x}) = g[S \ {x}]
    BY <1>1, SumOfPart
  <1>3. g[S] = f[x] + g[S \ {x}]
    <2>1. \A s, r \in SUBSET S : \A y \in s : IsRest(r, s, y) => g[s] = f[y] + g[r]
      BY <1>1, AnyOrder
    <2>2. S \ {x} \in SUBSET S /\ S \in SUBSET S /\ IsRest(S \ {x}, S, x)
      BY DEF IsRest
    <2> QED BY <2>1, <2>2
  <1> QED BY <1>1, <1>2, <1>3

LEMMA SumIsNat ==
  ASSUME NEW S, IsFiniteSet(S), NEW f, \A y \in S : f[y] \in Nat
  PROVE  SumFunctionOnSet(f, S) \in Nat
  <1>1. PICK g \in [SUBSET S -> Nat] : SumsTo(f, g, S)
    BY SumsExist
  <1> QED BY <1>1, SumOfPart

LEMMA SumAdds ==
  ASSUME NEW S, IsFiniteSet(S), NEW f, NEW x, x \notin S, \A y \in S \cup {x} : f[y] \in Nat
  PROVE  SumFunctionOnSet(f, S \cup {x}) = f[x] + SumFunctionOnSet(f, S)
  <1>1. (S \cup {x}) \ {x} = S
    OBVIOUS
  <1>2. IsFiniteSet(S \cup {x})
    BY FS_AddElement
  <1>3. SumFunctionOnSet(f, S \cup {x}) = f[x] + SumFunctionOnSet(f, (S \cup {x}) \ {x})
    BY <1>2, SumTakes
  <1> QED BY <1>1, <1>3

\* A sum depends on what is summed only.
LEMMA SumSame ==
  ASSUME NEW S, IsFiniteSet(S), NEW f, NEW h, \A y \in S : f[y] \in Nat /\ h[y] = f[y]
  PROVE  SumFunctionOnSet(f, S) = SumFunctionOnSet(h, S)
  <1>1. PICK g \in [SUBSET S -> Nat] : SumsTo(f, g, S)
    BY SumsExist
  <1>2. \A s \in SUBSET S : s # {} => f[Chosen(s)] = h[Chosen(s)]
    BY ChosenIsIn
  <1>3. SumsTo(h, g, S)
    <2>1. [s \in SUBSET S |-> IF s = {} THEN 0 ELSE f[Chosen(s)] + g[s \ {Chosen(s)}]]
          = [s \in SUBSET S |-> IF s = {} THEN 0 ELSE h[Chosen(s)] + g[s \ {Chosen(s)}]]
      BY <1>2
    <2> QED BY <1>1, <2>1 DEF SumsTo
  <1> QED BY <1>1, <1>3, SumOfPart

\* Two parts make the whole.
LEMMA SumOfTwo ==
  ASSUME NEW S, IsFiniteSet(S), NEW T, IsFiniteSet(T), S \cap T = {},
         NEW f, \A y \in S \cup T : f[y] \in Nat
  PROVE  SumFunctionOnSet(f, S \cup T) = SumFunctionOnSet(f, S) + SumFunctionOnSet(f, T)
  <1> DEFINE Goal(t) == SumFunctionOnSet(f, S \cup t)
                          = SumFunctionOnSet(f, S) + SumFunctionOnSet(f, t)
             P == {t \in SUBSET T : Goal(t)}
  <1>1. ASSUME NEW t \in SUBSET T,
               \A r \in SUBSET T : Cardinality(r) < Cardinality(t) => r \in P
        PROVE  t \in P
    <2>1. SumFunctionOnSet(f, S) \in Nat
      BY SumIsNat
    <2>2. CASE t = {}
      <3>1. S \cup t = S
        BY <2>2
      <3> QED BY <2>1, <2>2, <3>1, SumOfNone
    <2>3. CASE t # {}
      <3>1. PICK x \in t : TRUE
        BY <2>3
      <3> DEFINE r == t \ {x}
      <3>2. r \in SUBSET T /\ IsFiniteSet(t) /\ IsFiniteSet(r) /\ Cardinality(r) < Cardinality(t)
        BY FS_Subset, OneLess
      <3>3. Goal(r)
        BY <3>2, <1>1
      <3>4. x \notin r /\ x \notin S \cup r /\ r \cup {x} = t /\ (S \cup r) \cup {x} = S \cup t
        OBVIOUS
      <3>5. IsFiniteSet(S \cup r)
        BY <3>2, FS_Union
      <3>6. \A y \in S \cup t : f[y] \in Nat
        OBVIOUS
      <3> HIDE DEF r, Goal
      <3>7. SumFunctionOnSet(f, (S \cup r) \cup {x}) = f[x] + SumFunctionOnSet(f, S \cup r)
        <4>1. \A y \in (S \cup r) \cup {x} : f[y] \in Nat
          BY <3>4, <3>6
        <4> QED BY <4>1, <3>4, <3>5, SumAdds
      <3>8. SumFunctionOnSet(f, r \cup {x}) = f[x] + SumFunctionOnSet(f, r)
        <4>1. \A y \in r \cup {x} : f[y] \in Nat
          BY <3>4, <3>6
        <4> QED BY <4>1, <3>2, <3>4, SumAdds
      <3>9. SumFunctionOnSet(f, r) \in Nat
        BY <3>2, <3>4, <3>6, SumIsNat
      <3>10. f[x] \in Nat
        BY <3>6
      <3>11. SumFunctionOnSet(f, S \cup t) = f[x] + SumFunctionOnSet(f, S \cup r)
        BY <3>4, <3>7
      <3>12. SumFunctionOnSet(f, t) = f[x] + SumFunctionOnSet(f, r)
        BY <3>4, <3>8
      <3>13. SumFunctionOnSet(f, S \cup r) = SumFunctionOnSet(f, S) + SumFunctionOnSet(f, r)
        BY <3>3 DEF Goal
      <3>14. SumFunctionOnSet(f, S \cup t) = SumFunctionOnSet(f, S) + SumFunctionOnSet(f, t)
        BY <2>1, <3>9, <3>10, <3>11, <3>12, <3>13
      <3> QED BY <3>14 DEF Goal
    <2> QED BY <2>2, <2>3
  <1> HIDE DEF Goal
  <1>2. SUBSET T \subseteq P
    BY <1>1, AllSubsets
  <1>3. Goal(T)
    BY <1>2
  <1> QED BY <1>3 DEF Goal

LEMMA Times == ASSUME NEW a \in Nat, NEW b \in Nat PROVE a * b \in Nat /\ a * (b + 1) = a * b + a
  OBVIOUS

LEMMA SumOfEqual ==
  ASSUME NEW S, IsFiniteSet(S), NEW a \in Nat, NEW f, \A y \in S : f[y] = a
  PROVE  SumFunctionOnSet(f, S) = a * Cardinality(S)
  <1> DEFINE Goal(t) == SumFunctionOnSet(f, t) = a * Cardinality(t)
             P == {t \in SUBSET S : Goal(t)}
  <1>1. ASSUME NEW t \in SUBSET S,
               \A r \in SUBSET S : Cardinality(r) < Cardinality(t) => r \in P
        PROVE  t \in P
    <2>1. CASE t = {}
      BY <2>1, SumOfNone, FS_EmptySet
    <2>2. CASE t # {}
      <3>1. PICK x \in t : TRUE
        BY <2>2
      <3> DEFINE r == t \ {x}
      <3>2. /\ r \in SUBSET S /\ IsFiniteSet(r) /\ Cardinality(r) \in Nat
            /\ Cardinality(t) = Cardinality(r) + 1 /\ Cardinality(r) < Cardinality(t)
        BY FS_Subset, OneLess
      <3>3. Goal(r)
        BY <3>2, <1>1
      <3>4. x \notin r /\ r \cup {x} = t /\ \A y \in r \cup {x} : f[y] \in Nat
        OBVIOUS
      <3> HIDE DEF r, Goal
      <3>5. SumFunctionOnSet(f, r \cup {x}) = f[x] + SumFunctionOnSet(f, r)
        BY <3>2, <3>4, SumAdds
      <3>6. f[x] = a
        OBVIOUS
      <3>7. SumFunctionOnSet(f, t) = a + a * Cardinality(r)
        BY <3>3, <3>4, <3>5, <3>6 DEF Goal
      <3>8. a * Cardinality(t) = a * Cardinality(r) + a /\ a * Cardinality(r) \in Nat
        BY <3>2, Times
      <3> QED BY <3>7, <3>8 DEF Goal
    <2> QED BY <2>1, <2>2
  <1> HIDE DEF Goal
  <1>2. SUBSET S \subseteq P
    BY <1>1, AllSubsets
  <1>3. Goal(S)
    BY <1>2
  <1> QED BY <1>3 DEF Goal

\* What a sum becomes when the same is put for every element of a part.
LEMMA SumChanges ==
  ASSUME NEW S, IsFiniteSet(S), NEW B \in SUBSET S, NEW f, NEW h, NEW a \in Nat, NEW b \in Nat,
         \A y \in S \ B : f[y] \in Nat /\ h[y] = f[y],
         \A y \in B : f[y] = a /\ h[y] = b
  PROVE  SumFunctionOnSet(h, S) + a * Cardinality(B) = SumFunctionOnSet(f, S) + b * Cardinality(B)
  <1> DEFINE R == S \ B
  <1>1. IsFiniteSet(B) /\ IsFiniteSet(R) /\ R \cap B = {} /\ R \cup B = S
    BY FS_Subset
  <1>2. \A y \in R \cup B : f[y] \in Nat /\ h[y] \in Nat
    OBVIOUS
  <1>3. \A y \in R : f[y] \in Nat /\ h[y] = f[y]
    OBVIOUS
  <1> HIDE DEF R
  <1>4. SumFunctionOnSet(f, R \cup B) = SumFunctionOnSet(f, R) + SumFunctionOnSet(f, B)
    BY <1>1, <1>2, SumOfTwo
  <1>5. SumFunctionOnSet(h, R \cup B) = SumFunctionOnSet(h, R) + SumFunctionOnSet(h, B)
    BY <1>1, <1>2, SumOfTwo
  <1>6. SumFunctionOnSet(f, R) = SumFunctionOnSet(h, R)
    BY <1>1, <1>3, SumSame
  <1>7. SumFunctionOnSet(f, B) = a * Cardinality(B) /\ SumFunctionOnSet(h, B) = b * Cardinality(B)
    BY <1>1, SumOfEqual
  <1>8. SumFunctionOnSet(f, R) \in Nat
    BY <1>1, <1>2, SumIsNat
  <1>9. a * Cardinality(B) \in Nat /\ b * Cardinality(B) \in Nat
    BY <1>1, FS_CardinalityType, Times
  <1>10. /\ SumFunctionOnSet(f, S) = SumFunctionOnSet(f, R) + SumFunctionOnSet(f, B)
         /\ SumFunctionOnSet(h, S) = SumFunctionOnSet(h, R) + SumFunctionOnSet(h, B)
    BY <1>1, <1>4, <1>5
  <1> QED BY <1>6, <1>7, <1>8, <1>9, <1>10

\* Two functions, summed together.
LEMMA SumPlus ==
  ASSUME NEW S, IsFiniteSet(S), NEW f, NEW g, NEW h,
         \A y \in S : f[y] \in Nat /\ g[y] \in Nat /\ h[y] = f[y] + g[y]
  PROVE  SumFunctionOnSet(h, S) = SumFunctionOnSet(f, S) + SumFunctionOnSet(g, S)
  <1> DEFINE Goal(t) == SumFunctionOnSet(h, t) = SumFunctionOnSet(f, t) + SumFunctionOnSet(g, t)
             P == {t \in SUBSET S : Goal(t)}
  <1>1. ASSUME NEW t \in SUBSET S,
               \A r \in SUBSET S : Cardinality(r) < Cardinality(t) => r \in P
        PROVE  t \in P
    <2>1. CASE t = {}
      BY <2>1, SumOfNone
    <2>2. CASE t # {}
      <3>1. PICK x \in t : TRUE
        BY <2>2
      <3> DEFINE r == t \ {x}
      <3>2. r \in SUBSET S /\ IsFiniteSet(r) /\ Cardinality(r) < Cardinality(t)
        BY FS_Subset, OneLess
      <3>3. Goal(r)
        BY <3>2, <1>1
      <3>4. x \notin r /\ r \cup {x} = t
        OBVIOUS
      <3>5. \A y \in t : f[y] \in Nat /\ g[y] \in Nat /\ h[y] \in Nat /\ h[y] = f[y] + g[y]
        OBVIOUS
      <3> HIDE DEF r, Goal
      <3>6. SumFunctionOnSet(f, t) = f[x] + SumFunctionOnSet(f, r)
        BY <3>2, <3>4, <3>5, SumAdds
      <3>7. SumFunctionOnSet(g, t) = g[x] + SumFunctionOnSet(g, r)
        BY <3>2, <3>4, <3>5, SumAdds
      <3>8. SumFunctionOnSet(h, t) = h[x] + SumFunctionOnSet(h, r)
        BY <3>2, <3>4, <3>5, SumAdds
      <3>9. SumFunctionOnSet(f, r) \in Nat /\ SumFunctionOnSet(g, r) \in Nat
        BY <3>2, <3>4, <3>5, SumIsNat
      <3>10. f[x] \in Nat /\ g[x] \in Nat /\ h[x] = f[x] + g[x]
        BY <3>5
      <3>11. SumFunctionOnSet(h, r) = SumFunctionOnSet(f, r) + SumFunctionOnSet(g, r)
        BY <3>3 DEF Goal
      <3>12. SumFunctionOnSet(h, t) = SumFunctionOnSet(f, t) + SumFunctionOnSet(g, t)
        BY <3>6, <3>7, <3>8, <3>9, <3>10, <3>11
      <3> QED BY <3>12 DEF Goal
    <2> QED BY <2>1, <2>2
  <1> HIDE DEF Goal
  <1>2. SUBSET S \subseteq P
    BY <1>1, AllSubsets
  <1>3. Goal(S)
    BY <1>2
  <1> QED BY <1>3 DEF Goal

\* What a sum becomes when one element changes.
LEMMA SumChangesOne ==
  ASSUME NEW S, IsFiniteSet(S), NEW x \in S, NEW f, NEW h,
         \A y \in S : f[y] \in Nat /\ h[y] \in Nat, \A y \in S : y # x => h[y] = f[y]
  PROVE  SumFunctionOnSet(h, S) + f[x] = SumFunctionOnSet(f, S) + h[x]
  <1>1. /\ SumFunctionOnSet(f, S) = f[x] + SumFunctionOnSet(f, S \ {x})
        /\ SumFunctionOnSet(f, S \ {x}) \in Nat
    BY SumTakes
  <1>2. SumFunctionOnSet(h, S) = h[x] + SumFunctionOnSet(h, S \ {x})
    BY SumTakes
  <1> DEFINE R == S \ {x}
  <1>3. IsFiniteSet(R) /\ \A y \in R : f[y] \in Nat /\ h[y] = f[y]
    BY FS_Subset
  <1> HIDE DEF R
  <1>4. SumFunctionOnSet(f, R) = SumFunctionOnSet(h, R)
    BY <1>3, SumSame
  <1> QED BY <1>1, <1>2, <1>4 DEF R

-----------------------------------------------------------------------------
(* Tickets                                                                 *)

Block(s) == {s} \X (1..Amount[s])

LEMMA BlockOf ==
  ASSUME NEW s \in Sales
  PROVE  /\ IsFiniteSet(Block(s)) /\ Cardinality(Block(s)) = Amount[s]
         /\ Block(s) = {k \in Stubs : k[1] = s}
  <1>1. Amount[s] \in Nat /\ Amount[s] > 0
    BY ReportsAssumption
  <1>2. IsFiniteSet(1..Amount[s]) /\ Cardinality(1..Amount[s]) = Amount[s]
    <2>1. PICK n \in Nat : n = Amount[s] /\ n > 0
      BY <1>1
    <2>2. /\ IsFiniteSet(1..n)
          /\ Cardinality(1..n) = IF 1 > n THEN 0 ELSE n - 1 + 1
      BY FS_Interval
    <2> QED BY <2>1, <2>2
  <1>3. IsFiniteSet({s}) /\ Cardinality({s}) = 1
    BY FS_Singleton
  <1>4. IsFiniteSet(Block(s)) /\ Cardinality(Block(s)) = 1 * Amount[s]
    <2>1. /\ IsFiniteSet({s} \X (1..Amount[s]))
          /\ Cardinality({s} \X (1..Amount[s])) = Cardinality({s}) * Cardinality(1..Amount[s])
      BY <1>2, <1>3, FS_Product
    <2> QED BY <2>1, <1>2, <1>3 DEF Block
  <1> QED BY <1>1, <1>4 DEF Block, Stubs

LEMMA StubsFinite == IsFiniteSet(Stubs) /\ \A k \in Stubs : k[1] \in Sales /\ Line(k) \in Lines
  <1> DEFINE T == {Block(s) : s \in Sales}
             f == [s \in Sales |-> Block(s)]
  <1>1. f \in Surjection(Sales, T)
    BY DEF Surjection
  <1>2. IsFiniteSet(T)
    BY <1>1, FS_Surjection, ReportsAssumption
  <1>3. \A X \in T : IsFiniteSet(X)
    BY BlockOf
  <1>4. UNION T = Stubs
    BY DEF Block, Stubs
  <1> HIDE DEF T
  <1>5. IsFiniteSet(UNION T)
    BY <1>2, <1>3, FS_UNION
  <1>6. \A k \in Stubs : k[1] \in Sales
    BY DEF Stubs
  <1> QED BY <1>4, <1>5, <1>6, ReportsAssumption DEF Line

LEMMA CheckedInFinite ==
  ASSUME NEW t
  PROVE  IsFiniteSet(CheckedIn(t)) /\ Cardinality(CheckedIn(t)) \in Nat
  <1>1. IsFiniteSet(CheckedIn(t))
    BY StubsFinite, FS_Subset DEF CheckedIn
  <1> QED BY <1>1, FS_CardinalityType

\* Nobody is checked out again.
LEMMA CheckedInGrows ==
  ASSUME \A k \in Stubs : stub[k] = "CHECKED_IN" => stub'[k] = "CHECKED_IN", NEW t
  PROVE  /\ Cardinality(CheckedIn(t)) <= Cardinality(CheckedIn(t)')
         /\ Cardinality(CheckedIn(t)) \in Nat /\ Cardinality(CheckedIn(t)') \in Nat
  <1> DEFINE now == CheckedIn(t)
             then == CheckedIn(t)'
  <1>1. now \subseteq then /\ then \subseteq Stubs
    BY DEF CheckedIn, Line
  <1>2. Cardinality(now) \in Nat
    BY CheckedInFinite
  <1> HIDE DEF now, then
  <1>3. IsFiniteSet(then)
    BY <1>1, StubsFinite, FS_Subset
  <1>4. Cardinality(now) <= Cardinality(then) /\ Cardinality(then) \in Nat
    BY <1>1, <1>3, FS_Subset, FS_CardinalityType
  <1> QED BY <1>2, <1>4 DEF now, then

LEMMA StatsAre ==
  /\ EventStats.revenue = OrganizerTotal /\ EventStats.sold = TotalSold
  /\ \A t \in Lines : EventStats.checkedIn[t] = Cardinality(CheckedIn(t))
  BY DEF EventStats

-----------------------------------------------------------------------------
(* The invariant                                                           *)

\* An order has its tickets from its payment on, and pays once.
TicketsOfPaid ==
    /\ \A k \in Stubs : stub[k] = "none" <=> bill[k[1]] = "PENDING"
    /\ \A s \in Sales : pay[s].at = "in" => bill[s] = "PENDING"

\* What was sold: what the column says, and what edits took out of it.
HowMany == [t \in Lines |-> soldOf[t] + wiped[t]]

\* What a payment read, and what it added, was sold.
SoldIsRead ==
    \A s \in Sales :
        /\ pay[s].at = "in" => pay[s].sold <= HowMany[LineOf[s]]
        /\ pay[s].at = "paid" => pay[s].sold + Amount[s] <= HowMany[LineOf[s]]

\* What an edit loaded was sold.
EditsAreOld == \A e \in Edits, t \in Lines : edit[e].sold[t] <= HowMany[t]

\* A check-in is about one ticket, that was issued, and counted no others than
\* are checked in.
ScansAreReal ==
    \A g \in Scans :
        scan[g].at # "out" =>
            /\ \E k \in Stubs : scan[g].stubs = {k} /\ stub[k] # "none"
            /\ scan[g].at = "counted" => scan[g].count <= Cardinality(CheckedIn(ScanLine(g)))

ReportsInv ==
    /\ ReportsTypeOK /\ TicketsOfPaid /\ SoldIsRead /\ EditsAreOld /\ ScansAreReal
    /\ ReportsAgree /\ DashboardNotAhead

LEMMA CountType ==
  ASSUME ReportsTypeOK
  PROVE  HowMany \in [Lines -> Nat] /\ \A t \in Lines : HowMany[t] = soldOf[t] + wiped[t]
  BY DEF ReportsTypeOK, HowMany

-----------------------------------------------------------------------------
(* The reports keep agreeing                                               *)

Printed == {k \in Stubs : stub[k] # "none"}

CountWorth == [t \in Lines |-> Price[t] * HowMany[t]]
CountTotal == SumFunctionOnSet(CountWorth, Lines)
CountSold == SumFunctionOnSet(HowMany, Lines)

LEMMA Distributes ==
  ASSUME NEW a \in Nat, NEW b \in Nat, NEW c \in Nat
  PROVE  a * (b + c) = a * b + a * c
  OBVIOUS

\* What is in a column and what was taken out of it, summed apart or together.
LEMMA Together ==
  ASSUME NEW f \in [Lines -> Nat], NEW w \in [Lines -> Nat]
  PROVE  /\ SumFunctionOnSet([t \in Lines |-> Price[t] * f[t]], Lines)
              + SumFunctionOnSet([t \in Lines |-> Price[t] * w[t]], Lines)
            = SumFunctionOnSet([t \in Lines |-> Price[t] * [u \in Lines |-> f[u] + w[u]][t]], Lines)
         /\ SumFunctionOnSet(f, Lines) + SumFunctionOnSet(w, Lines)
            = SumFunctionOnSet([u \in Lines |-> f[u] + w[u]], Lines)
  <1> DEFINE c == [u \in Lines |-> f[u] + w[u]]
             F == [t \in Lines |-> Price[t] * f[t]]
             W == [t \in Lines |-> Price[t] * w[t]]
             C == [t \in Lines |-> Price[t] * c[t]]
  <1>1. IsFiniteSet(Lines) /\ \A t \in Lines : Price[t] \in Nat
    BY ReportsAssumption
  <1>2. \A t \in Lines : f[t] \in Nat /\ w[t] \in Nat /\ c[t] = f[t] + w[t]
    OBVIOUS
  <1>3. ASSUME NEW t \in Lines
        PROVE  F[t] \in Nat /\ W[t] \in Nat /\ C[t] = F[t] + W[t]
    <2>1. F[t] = Price[t] * f[t] /\ W[t] = Price[t] * w[t] /\ C[t] = Price[t] * (f[t] + w[t])
      BY <1>2
    <2>2. Price[t] \in Nat /\ f[t] \in Nat /\ w[t] \in Nat
      BY <1>1, <1>2
    <2> HIDE DEF F, W, C
    <2>3. Price[t] * f[t] \in Nat /\ Price[t] * w[t] \in Nat
      BY <2>2, Times
    <2>4. Price[t] * (f[t] + w[t]) = Price[t] * f[t] + Price[t] * w[t]
      BY <2>2, Distributes
    <2> QED BY <2>1, <2>3, <2>4
  <1> HIDE DEF c, F, W, C
  <1>4. SumFunctionOnSet(C, Lines) = SumFunctionOnSet(F, Lines) + SumFunctionOnSet(W, Lines)
    BY <1>1, <1>3, SumPlus
  <1>5. SumFunctionOnSet(c, Lines) = SumFunctionOnSet(f, Lines) + SumFunctionOnSet(w, Lines)
    BY <1>1, <1>2, SumPlus
  <1> QED BY <1>4, <1>5 DEF c, F, W, C

LEMMA AgreeIs ==
  ASSUME ReportsTypeOK
  PROVE  ReportsAgree <=> /\ AdminTotal = AdminLines
                          /\ CountTotal = AdminTotal + SumFunctionOnSet(Worth, Billed("REFUNDED"))
                          /\ CountSold = Cardinality(Printed)
  <1>1. soldOf \in [Lines -> Nat] /\ wiped \in [Lines -> Nat]
    BY DEF ReportsTypeOK
  <1>2. OrganizerTotal + SumFunctionOnSet(WipedWorth, Lines) = CountTotal
    BY <1>1, Together DEF OrganizerTotal, LineWorth, WipedWorth, CountTotal, CountWorth, HowMany
  <1>3. TotalSold + SumFunctionOnSet(wiped, Lines) = CountSold
    BY <1>1, Together DEF TotalSold, CountSold, HowMany
  <1> QED BY <1>2, <1>3, StatsAre DEF ReportsAgree, Printed

LEMMA AgreeIsNext ==
  ASSUME ReportsTypeOK', AdminTotal' = AdminLines',
         CountTotal' = AdminTotal' + SumFunctionOnSet(Worth, Billed("REFUNDED"))',
         CountSold' = Cardinality(Printed)'
  PROVE  ReportsAgree'
  <1> DEFINE f == soldOf'
             w == wiped'
  <1>1. f \in [Lines -> Nat] /\ w \in [Lines -> Nat]
    BY DEF ReportsTypeOK
  <1> HIDE DEF f, w
  <1>2. OrganizerTotal' + SumFunctionOnSet(WipedWorth, Lines)' = CountTotal'
    BY <1>1, Together DEF OrganizerTotal, LineWorth, WipedWorth, CountTotal, CountWorth, HowMany, f, w
  <1>3. TotalSold' + SumFunctionOnSet(wiped, Lines)' = CountSold'
    BY <1>1, Together DEF TotalSold, CountSold, HowMany, f, w
  <1> QED BY <1>2, <1>3 DEF ReportsAgree, EventStats, Printed

\* What is summed are numbers.
LEMMA Numbers ==
  ASSUME ReportsTypeOK
  PROVE  /\ \A s \in Sales : Worth[s] \in Nat /\ Worth[s] = Price[LineOf[s]] * Amount[s]
         /\ \A k \in Stubs : StubPrice[k] \in Nat
         /\ \A t \in Lines : CountWorth[t] \in Nat /\ HowMany[t] \in Nat
         /\ \A b : IsFiniteSet(Billed(b)) /\ Billed(b) \subseteq Sales
  <1>1. \A s \in Sales : Price[LineOf[s]] \in Nat /\ Amount[s] \in Nat
    BY ReportsAssumption
  <1>2. \A s \in Sales : Worth[s] = Price[LineOf[s]] * Amount[s]
    BY DEF Worth
  <1>3. \A s \in Sales : Worth[s] \in Nat
    BY <1>1, <1>2, Times
  <1>4. \A k \in Stubs : StubPrice[k] \in Nat
    BY StubsFinite, ReportsAssumption DEF StubPrice
  <1>5. \A t \in Lines : Price[t] \in Nat /\ HowMany[t] \in Nat
    BY ReportsAssumption, CountType
  <1>6. \A t \in Lines : CountWorth[t] \in Nat
    BY <1>5, Times DEF CountWorth
  <1>7. \A b : Billed(b) \subseteq Sales
    BY DEF Billed
  <1>8. \A b : IsFiniteSet(Billed(b))
    BY <1>7, FS_Subset, ReportsAssumption
  <1> QED BY <1>2, <1>3, <1>4, <1>5, <1>6, <1>7, <1>8

\* The initial state.
LEMMA ReportsStart == ReportsInit => ReportsInv
  <1> SUFFICES ASSUME ReportsInit PROVE ReportsInv
    OBVIOUS
  <1>1. ReportsTypeOK
    BY DEF ReportsInit, ReportsTypeOK, Bill, Stub, NoPay, NoScan, NoEdit
  <1>0. \A t \in Lines : soldOf[t] = 0 /\ wiped[t] = 0 /\ HowMany[t] = 0
    BY DEF ReportsInit, HowMany
  <1>2. TicketsOfPaid /\ SoldIsRead /\ ScansAreReal
    BY StubsFinite DEF ReportsInit, TicketsOfPaid, SoldIsRead, ScansAreReal, NoPay, NoScan
  <1>e. EditsAreOld
    BY <1>0 DEF ReportsInit, EditsAreOld, NoEdit
  <1>3. DashboardNotAhead
    BY <1>0, StatsAre, CheckedInFinite DEF ReportsInit, DashboardNotAhead
  <1>4. Billed("COMPLETED") = {} /\ Billed("REFUNDED") = {}
    BY DEF ReportsInit, Billed
  <1>5. AdminTotal = 0 /\ SumFunctionOnSet(Worth, Billed("REFUNDED")) = 0
    BY <1>4, SumOfNone DEF AdminTotal
  <1>6. AdminLines = 0
    <2>1. \A k \in Stubs : StubPrice[k] = 0
      BY DEF StubPrice, ReportsInit
    <2>2. AdminLines = 0 * Cardinality(Stubs)
      BY <2>1, StubsFinite, SumOfEqual DEF AdminLines
    <2> QED BY <2>2, StubsFinite, FS_CardinalityType
  <1>7. CountTotal = 0
    <2>1. \A t \in Lines : CountWorth[t] = 0
      BY <1>0, ReportsAssumption DEF CountWorth
    <2>2. CountTotal = 0 * Cardinality(Lines)
      BY <2>1, ReportsAssumption, SumOfEqual DEF CountTotal
    <2> QED BY <2>2, ReportsAssumption, FS_CardinalityType
  <1>8. CountSold = 0
    <2>2. CountSold = 0 * Cardinality(Lines)
      BY <1>0, ReportsAssumption, SumOfEqual DEF CountSold
    <2> QED BY <2>2, ReportsAssumption, FS_CardinalityType
  <1>9. Printed = {}
    BY DEF ReportsInit, Printed
  <1>10. ReportsAgree
    BY <1>1, <1>5, <1>6, <1>7, <1>8, <1>9, AgreeIs, FS_EmptySet
  <1> QED BY <1>1, <1>2, <1>e, <1>3, <1>10 DEF ReportsInv

\* Steps that touch neither an order nor what is sold, and issue no ticket.
LEMMA AgreeStays ==
  ASSUME ReportsTypeOK, ReportsTypeOK', ReportsAgree, bill' = bill, HowMany' = HowMany,
         \A k \in Stubs : stub'[k] = "none" <=> stub[k] = "none"
  PROVE  ReportsAgree'
  <1>1. StubPrice' = StubPrice /\ CountWorth' = CountWorth /\ Printed' = Printed
    BY DEF StubPrice, CountWorth, Printed
  <1>2. AdminTotal' = AdminTotal /\ AdminLines' = AdminLines
    BY <1>1 DEF AdminTotal, AdminLines, Billed
  <1>3. CountTotal' = CountTotal /\ CountSold' = CountSold
    BY <1>1 DEF CountTotal, CountSold
  <1>4. SumFunctionOnSet(Worth, Billed("REFUNDED"))' = SumFunctionOnSet(Worth, Billed("REFUNDED"))
    BY DEF Billed
  <1> QED BY <1>1, <1>2, <1>3, <1>4, AgreeIs, AgreeIsNext

\* A payment adds the worth of its order to each report, and its tickets.
LEMMA PayAgrees ==
  ASSUME ReportsInv, ReportsTypeOK', NEW s \in Sales, PayCommit(s)
  PROVE  ReportsAgree'
  <1> DEFINE t == LineOf[s]
             P == Price[t]
             A == Amount[s]
             C == Billed("COMPLETED")
             R == Billed("REFUNDED")
  <1>i. ReportsTypeOK /\ TicketsOfPaid /\ ReportsAgree
    BY DEF ReportsInv
  <1>p. pay[s].at = "in" /\ bill[s] = "PENDING"
    BY <1>i DEF PayCommit, TicketsOfPaid
  <1>n. P \in Nat /\ A \in Nat /\ t \in Lines /\ Worth[s] = P * A /\ P * A \in Nat
    BY ReportsAssumption, Numbers, <1>i
  <1>b. \A r \in Sales : bill'[r] = IF r = s THEN "COMPLETED" ELSE bill[r]
    BY <1>i DEF PayCommit, ReportsTypeOK
  <1> HIDE DEF t, P, A
  <1>1. C' = C \cup {s} /\ s \notin C /\ R' = R
    BY <1>b, <1>p DEF Billed
  <1>2. AdminTotal' = P * A + AdminTotal /\ AdminTotal \in Nat
    <2>1. IsFiniteSet(C) /\ \A r \in C \cup {s} : Worth[r] \in Nat
      BY <1>i, Numbers
    <2>2. SumFunctionOnSet(Worth, C \cup {s}) = Worth[s] + SumFunctionOnSet(Worth, C)
      BY <1>1, <2>1, SumAdds
    <2>3. SumFunctionOnSet(Worth, C) \in Nat
      BY <2>1, SumIsNat
    <2>4. AdminTotal' = SumFunctionOnSet(Worth, C')
      BY DEF AdminTotal, Worth
    <2> QED BY <1>1, <1>n, <2>2, <2>3, <2>4 DEF AdminTotal
  <1>3. SumFunctionOnSet(Worth, R)' = SumFunctionOnSet(Worth, R) /\ SumFunctionOnSet(Worth, R) \in Nat
    <2>1. SumFunctionOnSet(Worth, R)' = SumFunctionOnSet(Worth, R')
      BY DEF Worth
    <2>2. IsFiniteSet(R) /\ \A r \in R : Worth[r] \in Nat
      BY <1>i, Numbers
    <2> QED BY <1>1, <2>1, <2>2, SumIsNat
  <1>4. AdminLines' = P * A + AdminLines /\ AdminLines \in Nat
    <2> DEFINE f == StubPrice
               h == StubPrice'
    <2>1. \A k \in Stubs \ Block(s) : f[k] \in Nat /\ h[k] = f[k]
      <3>1. \A k \in Stubs \ Block(s) : k[1] # s /\ k[1] \in Sales
        BY BlockOf, StubsFinite
      <3>2. \A k \in Stubs \ Block(s) : stub'[k] = stub[k] /\ bill'[k[1]] = bill[k[1]]
        BY <3>1, <1>b DEF PayCommit
      <3> QED BY <3>2, <1>i, Numbers DEF StubPrice, Line
    <2>2. \A k \in Block(s) : k \in Stubs /\ k[1] = s
      BY BlockOf
    <2>3. \A k \in Block(s) : f[k] = 0
      BY <1>p, <2>2 DEF StubPrice
    <2>4. \A k \in Block(s) : h[k] = P
      BY <1>b, <2>2 DEF StubPrice, PayCommit, Line, P, t
    <2> HIDE DEF f, h
    <2>5. /\ SumFunctionOnSet(h, Stubs) + 0 * Cardinality(Block(s))
               = SumFunctionOnSet(f, Stubs) + P * Cardinality(Block(s))
      <3>1. Block(s) \in SUBSET Stubs
        BY <2>2
      <3>2. IsFiniteSet(Stubs) /\ 0 \in Nat
        BY StubsFinite
      <3> QED BY <1>n, <2>1, <2>3, <2>4, <3>1, <3>2, SumChanges
    <2>6. Cardinality(Block(s)) = A
      BY BlockOf DEF A
    <2>7. SumFunctionOnSet(f, Stubs) \in Nat
      BY <1>i, StubsFinite, Numbers, SumIsNat DEF f
    <2>8. IsFiniteSet(Stubs) /\ \A k \in Stubs : h[k] \in Nat
      BY <1>n, <2>1, <2>4, StubsFinite
    <2>9. SumFunctionOnSet(h, Stubs) \in Nat
      BY <2>8, SumIsNat
    <2>10. SumFunctionOnSet(h, Stubs) = P * A + SumFunctionOnSet(f, Stubs)
      BY <1>n, <2>5, <2>6, <2>7, <2>9
    <2>11. AdminLines = SumFunctionOnSet(f, Stubs) /\ AdminLines' = SumFunctionOnSet(h, Stubs)
      BY DEF AdminLines, f, h, Stubs
    <2> QED BY <2>7, <2>10, <2>11
  <1>s. \A u \in Lines : HowMany[u] \in Nat /\ HowMany'[u] = IF u = t THEN HowMany[u] + A ELSE HowMany[u]
    <2> SUFFICES ASSUME NEW u \in Lines
                 PROVE  HowMany[u] \in Nat /\ HowMany'[u] = IF u = t THEN HowMany[u] + A ELSE HowMany[u]
      OBVIOUS
    <2>1. soldOf[u] \in Nat /\ wiped[u] \in Nat /\ A \in Nat
      BY <1>i, <1>n DEF ReportsTypeOK
    <2>2. soldOf'[u] = (IF u = t THEN soldOf[u] + A ELSE soldOf[u]) /\ wiped'[u] = wiped[u]
      BY <1>i DEF PayCommit, ReportsTypeOK, t, A
    <2>3. HowMany[u] = soldOf[u] + wiped[u] /\ HowMany'[u] = soldOf'[u] + wiped'[u]
      BY DEF HowMany
    <2> QED BY <2>1, <2>2, <2>3
  <1>5. CountTotal' = P * A + CountTotal /\ CountTotal \in Nat
    <2> DEFINE f == CountWorth
               h == CountWorth'
    <2>1. \A u \in Lines : f[u] \in Nat
      BY <1>i, Numbers
    <2>2. \A u \in Lines : u # t => h[u] = f[u]
      BY <1>s DEF CountWorth
    <2>3. h[t] = f[t] + P * A
      <3>1. f[t] = P * HowMany[t] /\ h[t] = P * (HowMany[t] + A)
        BY <1>n, <1>s DEF CountWorth, P
      <3>2. PICK x \in Nat : x = HowMany[t]
        BY <1>n, <1>s
      <3>3. P * (x + A) = P * x + P * A
        BY <1>n
      <3> QED BY <3>1, <3>2, <3>3
    <2>4. \A u \in Lines : h[u] \in Nat
      BY <1>n, <2>1, <2>2, <2>3
    <2> HIDE DEF f, h
    <2>5. SumFunctionOnSet(h, Lines) + f[t] = SumFunctionOnSet(f, Lines) + h[t]
      BY <1>n, <2>1, <2>2, <2>4, ReportsAssumption, SumChangesOne
    <2>6. SumFunctionOnSet(h, Lines) \in Nat /\ SumFunctionOnSet(f, Lines) \in Nat
      BY <2>1, <2>4, ReportsAssumption, SumIsNat
    <2>7. SumFunctionOnSet(h, Lines) = P * A + SumFunctionOnSet(f, Lines)
      <3>1. f[t] \in Nat
        BY <1>n, <2>1
      <3> QED BY <1>n, <2>3, <2>5, <2>6, <3>1
    <2> QED BY <2>6, <2>7 DEF CountTotal, f, h
  <1>6. CountSold' = A + CountSold /\ CountSold \in Nat
    <2> DEFINE f == HowMany
               h == HowMany'
    <2>1. \A u \in Lines : f[u] \in Nat /\ h[u] \in Nat
      BY <1>n, <1>s
    <2>2. \A u \in Lines : u # t => h[u] = f[u]
      BY <1>s
    <2>3. h[t] = f[t] + A /\ f[t] \in Nat
      BY <1>n, <1>s
    <2> HIDE DEF f, h
    <2>4. SumFunctionOnSet(h, Lines) + f[t] = SumFunctionOnSet(f, Lines) + h[t]
      BY <1>n, <2>1, <2>2, ReportsAssumption, SumChangesOne
    <2>5. SumFunctionOnSet(h, Lines) \in Nat /\ SumFunctionOnSet(f, Lines) \in Nat
      BY <2>1, ReportsAssumption, SumIsNat
    <2>6. SumFunctionOnSet(h, Lines) = A + SumFunctionOnSet(f, Lines)
      BY <1>n, <2>3, <2>4, <2>5
    <2> QED BY <2>5, <2>6 DEF CountSold, f, h
  <1>7. Cardinality(Printed)' = A + Cardinality(Printed)
    <2>1. Printed' = Printed \cup Block(s) /\ Printed \cap Block(s) = {}
      <3>1. \A k \in Stubs : stub'[k] = IF k[1] = s THEN "UNCHECKED" ELSE stub[k]
        BY DEF PayCommit
      <3>2. \A k \in Stubs : k[1] = s => stub[k] = "none"
        BY <1>i, <1>p DEF TicketsOfPaid
      <3> QED BY <3>1, <3>2, BlockOf DEF Printed
    <2>2. IsFiniteSet(Printed) /\ Cardinality(Printed) \in Nat
      <3>1. IsFiniteSet(Printed)
        BY StubsFinite, FS_Subset DEF Printed
      <3> QED BY <3>1, FS_CardinalityType
    <2>3. IsFiniteSet(Block(s)) /\ Cardinality(Block(s)) = A
      BY BlockOf DEF A
    <2>4. Cardinality(Printed \cup Block(s))
            = Cardinality(Printed) + Cardinality(Block(s)) - Cardinality(Printed \cap Block(s))
      BY <2>2, <2>3, FS_Union
    <2>5. Cardinality(Printed \cap Block(s)) = 0
      BY <2>1, FS_EmptySet
    <2> QED BY <1>n, <2>1, <2>2, <2>3, <2>4, <2>5
  <1>8. AdminTotal' = AdminLines'
    BY <1>i, <1>2, <1>4, AgreeIs
  <1>9. CountTotal' = AdminTotal' + SumFunctionOnSet(Worth, Billed("REFUNDED"))'
    BY <1>i, <1>n, <1>2, <1>3, <1>5, AgreeIs
  <1>10. CountSold' = Cardinality(Printed)'
    BY <1>i, <1>6, <1>7, AgreeIs
  <1> QED BY <1>8, <1>9, <1>10, AgreeIsNext

\* A refund takes the worth of its order out of the reports of the admin.
LEMMA RefundAgrees ==
  ASSUME ReportsInv, ReportsTypeOK', NEW s \in Sales, RefundBill(s)
  PROVE  ReportsAgree'
  <1> DEFINE P == Price[LineOf[s]]
             A == Amount[s]
             C == Billed("COMPLETED")
             R == Billed("REFUNDED")
  <1>i. ReportsTypeOK /\ TicketsOfPaid /\ ReportsAgree
    BY DEF ReportsInv
  <1>p. bill[s] = "COMPLETED" /\ stub' = stub /\ HowMany' = HowMany
    BY DEF RefundBill, HowMany
  <1>n. P \in Nat /\ A \in Nat /\ Worth[s] = P * A /\ P * A \in Nat
    BY ReportsAssumption, Numbers, <1>i
  <1>b. \A r \in Sales : bill'[r] = IF r = s THEN "REFUNDED" ELSE bill[r]
    BY <1>i DEF RefundBill, ReportsTypeOK
  <1>w. /\ \A r \in Sales : Worth[r] \in Nat
        /\ IsFiniteSet(C) /\ C \subseteq Sales /\ IsFiniteSet(R) /\ R \subseteq Sales
    BY <1>i, Numbers
  <1> HIDE DEF P, A
  <1>1. C' = C \ {s} /\ s \in C /\ R' = R \cup {s} /\ s \notin R
    BY <1>b, <1>p DEF Billed
  <1>2. AdminTotal = P * A + AdminTotal' /\ AdminTotal' \in Nat
    <2>1. /\ SumFunctionOnSet(Worth, C) = Worth[s] + SumFunctionOnSet(Worth, C \ {s})
          /\ SumFunctionOnSet(Worth, C \ {s}) \in Nat
      <3>1. \A r \in C : Worth[r] \in Nat
        BY <1>w
      <3> QED BY <1>1, <1>w, <3>1, SumTakes
    <2>2. AdminTotal' = SumFunctionOnSet(Worth, C')
      BY DEF AdminTotal, Worth
    <2> QED BY <1>1, <1>n, <2>1, <2>2 DEF AdminTotal
  <1>3. /\ SumFunctionOnSet(Worth, R)' = P * A + SumFunctionOnSet(Worth, R)
        /\ SumFunctionOnSet(Worth, R) \in Nat
    <2>1. SumFunctionOnSet(Worth, R)' = SumFunctionOnSet(Worth, R')
      BY DEF Worth
    <2>2. \A r \in R \cup {s} : Worth[r] \in Nat
      BY <1>w
    <2>3. SumFunctionOnSet(Worth, R \cup {s}) = Worth[s] + SumFunctionOnSet(Worth, R)
      BY <1>1, <1>w, <2>2, SumAdds
    <2>4. SumFunctionOnSet(Worth, R) \in Nat
      BY <1>w, <2>2, SumIsNat
    <2> QED BY <1>1, <1>n, <2>1, <2>3, <2>4
  <1>4. AdminLines = P * A + AdminLines' /\ AdminLines' \in Nat
    <2> DEFINE f == StubPrice
               h == StubPrice'
    <2>1. \A k \in Stubs \ Block(s) : f[k] \in Nat /\ h[k] = f[k]
      <3>1. \A k \in Stubs \ Block(s) : k[1] # s /\ k[1] \in Sales
        BY BlockOf, StubsFinite
      <3>2. \A k \in Stubs \ Block(s) : bill'[k[1]] = bill[k[1]]
        BY <3>1, <1>b
      <3> QED BY <3>2, <1>i, <1>p, Numbers DEF StubPrice, Line
    <2>2. \A k \in Block(s) : k \in Stubs /\ k[1] = s /\ stub[k] # "none"
      BY <1>i, <1>p, BlockOf DEF TicketsOfPaid
    <2>3. \A k \in Block(s) : f[k] = P
      BY <1>p, <2>2 DEF StubPrice, Line, P
    <2>4. \A k \in Block(s) : h[k] = 0
      BY <1>b, <2>2 DEF StubPrice
    <2> HIDE DEF f, h
    <2>5. /\ SumFunctionOnSet(h, Stubs) + P * Cardinality(Block(s))
               = SumFunctionOnSet(f, Stubs) + 0 * Cardinality(Block(s))
      <3>1. Block(s) \in SUBSET Stubs
        BY <2>2
      <3>2. IsFiniteSet(Stubs) /\ 0 \in Nat
        BY StubsFinite
      <3> QED BY <1>n, <2>1, <2>3, <2>4, <3>1, <3>2, SumChanges
    <2>6. Cardinality(Block(s)) = A
      BY BlockOf DEF A
    <2>7. SumFunctionOnSet(f, Stubs) \in Nat
      BY <1>i, StubsFinite, Numbers, SumIsNat DEF f
    <2>8. IsFiniteSet(Stubs) /\ \A k \in Stubs : h[k] \in Nat
      BY <2>1, <2>4, StubsFinite
    <2>9. SumFunctionOnSet(h, Stubs) \in Nat
      BY <2>8, SumIsNat
    <2>10. SumFunctionOnSet(f, Stubs) = P * A + SumFunctionOnSet(h, Stubs)
      BY <1>n, <2>5, <2>6, <2>7, <2>9
    <2>11. AdminLines = SumFunctionOnSet(f, Stubs) /\ AdminLines' = SumFunctionOnSet(h, Stubs)
      BY DEF AdminLines, f, h, Stubs
    <2> QED BY <2>9, <2>10, <2>11
  <1>5. CountTotal' = CountTotal /\ CountSold' = CountSold /\ Printed' = Printed
    BY <1>p DEF CountTotal, CountWorth, CountSold, Printed
  <1>6. AdminTotal' = AdminLines'
    BY <1>i, <1>n, <1>2, <1>4, AgreeIs
  <1>7. CountTotal' = AdminTotal' + SumFunctionOnSet(Worth, Billed("REFUNDED"))'
    BY <1>i, <1>n, <1>2, <1>3, <1>5, AgreeIs
  <1>8. CountSold' = Cardinality(Printed)'
    BY <1>i, <1>5, AgreeIs
  <1> QED BY <1>6, <1>7, <1>8, AgreeIsNext

-----------------------------------------------------------------------------
(* The dashboard keeps behind, and the steps                               *)

LEMMA ScanOf ==
  ASSUME ReportsInv, NEW g \in Scans, scan[g].at # "out"
  PROVE  \E k \in Stubs : /\ scan[g].stubs = {k} /\ stub[k] # "none"
                          /\ ScanLine(g) = Line(k) /\ ScanLine(g) \in Lines
  <1>1. PICK k \in Stubs : scan[g].stubs = {k} /\ stub[k] # "none"
    BY DEF ReportsInv, ScansAreReal
  <1>2. (CHOOSE i \in scan[g].stubs : TRUE) = k
    BY <1>1
  <1> QED BY <1>1, <1>2, StubsFinite DEF ScanLine

\* The tickets stay issued and checked in, and nothing is taken back from
\* what was sold: what was shown, read or counted is not ahead.
LEMMA NothingGoesAhead ==
  ASSUME ReportsInv, ReportsTypeOK',
         \A k \in Stubs : stub[k] = "CHECKED_IN" => stub'[k] = "CHECKED_IN",
         \A k \in Stubs : stub[k] # "none" => stub'[k] # "none",
         \A t \in Lines : HowMany[t] <= HowMany'[t]
  PROVE  /\ shownSold' = shownSold /\ shownIn' = shownIn => DashboardNotAhead'
         /\ scan' = scan => ScansAreReal'
         /\ \A s \in Sales : pay'[s] = pay[s] =>
               /\ pay'[s].at = "in" => pay'[s].sold <= HowMany'[LineOf[s]]
               /\ pay'[s].at = "paid" => pay'[s].sold + Amount[s] <= HowMany'[LineOf[s]]
         /\ edit' = edit => EditsAreOld'
  <1>i. /\ ReportsTypeOK /\ SoldIsRead /\ EditsAreOld /\ ScansAreReal /\ DashboardNotAhead
    BY DEF ReportsInv
  <1>k. \A t \in Lines : HowMany[t] \in Nat /\ HowMany'[t] \in Nat
    <2>1. soldOf' \in [Lines -> Nat] /\ wiped' \in [Lines -> Nat]
      BY DEF ReportsTypeOK
    <2> QED BY <2>1, <1>i, CountType DEF HowMany
  <1>t. \A t \in Lines : /\ HowMany[t] \in Nat /\ HowMany'[t] \in Nat
                         /\ shownSold[t] \in Nat /\ shownIn[t] \in Nat
    BY <1>i, <1>k DEF ReportsTypeOK
  <1>c. \A t : /\ Cardinality(CheckedIn(t)) <= Cardinality(CheckedIn(t)')
              /\ Cardinality(CheckedIn(t)) \in Nat /\ Cardinality(CheckedIn(t)') \in Nat
    BY CheckedInGrows
  <1>1. ASSUME shownSold' = shownSold, shownIn' = shownIn PROVE DashboardNotAhead'
    <2> SUFFICES ASSUME NEW t \in Lines
                 PROVE  shownSold'[t] <= HowMany'[t] /\ shownIn'[t] <= Cardinality(CheckedIn(t)')
      BY DEF DashboardNotAhead, EventStats, CheckedIn, Line, HowMany
    <2>1. shownSold[t] <= HowMany[t] /\ shownIn[t] <= Cardinality(CheckedIn(t))
      BY <1>i, StatsAre DEF DashboardNotAhead, HowMany
    <2> QED BY <1>1, <1>t, <1>c, <2>1
  <1>2. ASSUME scan' = scan PROVE ScansAreReal'
    <2> SUFFICES ASSUME NEW g \in Scans, scan[g].at # "out"
                 PROVE  /\ \E k \in Stubs : scan[g].stubs = {k} /\ stub'[k] # "none"
                        /\ scan[g].at = "counted"
                             => scan[g].count <= Cardinality(CheckedIn(ScanLine(g)))'
      BY <1>2 DEF ScansAreReal
    <2>1. PICK t : t = ScanLine(g)
      OBVIOUS
    <2>2. ScanLine(g)' = t
      BY <1>2, <2>1 DEF ScanLine, Line
    <2>3. CheckedIn(ScanLine(g))' = CheckedIn(t)'
      BY <2>2 DEF CheckedIn
    <2>4. scan[g].count \in Nat
      BY <1>i DEF ReportsTypeOK
    <2> QED BY <1>i, <1>c, <2>1, <2>3, <2>4 DEF ScansAreReal
  <1>3. ASSUME NEW s \in Sales, pay'[s] = pay[s]
        PROVE  /\ pay'[s].at = "in" => pay'[s].sold <= HowMany'[LineOf[s]]
               /\ pay'[s].at = "paid" => pay'[s].sold + Amount[s] <= HowMany'[LineOf[s]]
    <2>1. LineOf[s] \in Lines /\ Amount[s] \in Nat /\ pay[s].sold \in Nat
      BY <1>i, ReportsAssumption DEF ReportsTypeOK
    <2> QED BY <1>3, <1>i, <1>t, <2>1 DEF SoldIsRead
  <1>4. ASSUME edit' = edit PROVE EditsAreOld'
    <2> SUFFICES ASSUME NEW e \in Edits, NEW t \in Lines PROVE edit[e].sold[t] <= HowMany'[t]
      BY <1>4 DEF EditsAreOld
    <2>1. edit[e].sold[t] \in Nat /\ edit[e].sold[t] <= HowMany[t] /\ HowMany[t] <= HowMany'[t]
      BY <1>i DEF ReportsTypeOK, EditsAreOld
    <2> QED BY <1>t, <2>1
  <1> QED BY <1>1, <1>2, <1>3, <1>4

LEMMA PayStep ==
  ASSUME ReportsInv, NEW s \in Sales, PayRead(s) \/ PayCommit(s) \/ PayShow(s)
  PROVE  ReportsInv'
  <1>i. /\ ReportsTypeOK /\ TicketsOfPaid /\ SoldIsRead /\ EditsAreOld /\ ScansAreReal
        /\ ReportsAgree /\ DashboardNotAhead
    BY DEF ReportsInv
  <1>s. /\ LineOf[s] \in Lines /\ Amount[s] \in Nat /\ soldOf[LineOf[s]] \in Nat
        /\ pay[s].sold \in Nat /\ HowMany[LineOf[s]] \in Nat
        /\ soldOf[LineOf[s]] <= HowMany[LineOf[s]]
    BY <1>i, ReportsAssumption DEF ReportsTypeOK, HowMany
  <1>w. edit' = edit /\ wiped' = wiped
    BY DEF PayRead, PayCommit, PayShow
  <1>c. \A t \in Lines : HowMany[t] \in Nat
    BY <1>i, CountType
  <1>1. CASE PayRead(s)
    <2>1. ReportsTypeOK'
      BY <1>1, <1>i, <1>s DEF PayRead, ReportsTypeOK
    <2>2. TicketsOfPaid'
      BY <1>1, <1>i DEF PayRead, ReportsTypeOK, TicketsOfPaid
    <2>0. HowMany' = HowMany
      BY <1>1, <1>w DEF PayRead, HowMany
    <2>3. \A t \in Lines : HowMany[t] <= HowMany'[t]
      BY <2>0, <1>c
    <2>4. DashboardNotAhead' /\ ScansAreReal' /\ EditsAreOld'
      BY <1>1, <1>w, <2>1, <2>3, NothingGoesAhead DEF PayRead
    <2>5. ReportsAgree'
      BY <1>1, <1>i, <2>0, <2>1, AgreeStays DEF PayRead
    <2>6. SoldIsRead'
      <3>1. \A r \in Sales : r # s => pay'[r] = pay[r]
        BY <1>1, <1>i DEF PayRead, ReportsTypeOK
      <3>2. pay'[s] = [at |-> "in", sold |-> soldOf[LineOf[s]]]
        BY <1>1, <1>i DEF PayRead, ReportsTypeOK
      <3> QED BY <2>0, <3>1, <3>2, <1>i, <1>s DEF SoldIsRead
    <2> QED BY <2>1, <2>2, <2>4, <2>5, <2>6 DEF ReportsInv
  <1>2. CASE PayCommit(s)
    <2>0. /\ \A r \in Sales : bill'[r] = IF r = s THEN "COMPLETED" ELSE bill[r]
          /\ \A k \in Stubs : stub'[k] = IF k[1] = s THEN "UNCHECKED" ELSE stub[k]
          /\ \A t \in Lines : soldOf'[t] = IF t = LineOf[s] THEN soldOf[t] + Amount[s] ELSE soldOf[t]
          /\ wiped' = wiped
          /\ \A r \in Sales : r # s => pay'[r] = pay[r]
          /\ pay'[s].at = "paid" /\ pay'[s].sold = pay[s].sold
          /\ pay[s].at = "in" /\ bill[s] = "PENDING"
          /\ scan' = scan /\ shownSold' = shownSold /\ shownIn' = shownIn
      BY <1>2, <1>i DEF PayCommit, ReportsTypeOK, TicketsOfPaid
    <2>1. ReportsTypeOK'
      BY <1>2, <1>i, <1>s DEF PayCommit, ReportsTypeOK, Bill, Stub
    <2>2. TicketsOfPaid'
      BY <2>0, <1>i, StubsFinite DEF TicketsOfPaid
    <2>8. \A t \in Lines : HowMany'[t] = IF t = LineOf[s] THEN HowMany[t] + Amount[s] ELSE HowMany[t]
      BY <2>0, <1>i, <1>s DEF ReportsTypeOK, HowMany
    <2>3. \A t \in Lines : HowMany[t] <= HowMany'[t]
      BY <2>8, <1>c, <1>s
    <2>4. \A k \in Stubs : k[1] = s => stub[k] = "none"
      BY <2>0, <1>i DEF TicketsOfPaid
    <2>5. /\ DashboardNotAhead' /\ ScansAreReal' /\ EditsAreOld'
          /\ \A r \in Sales : pay'[r] = pay[r] =>
               /\ pay'[r].at = "in" => pay'[r].sold <= HowMany'[LineOf[r]]
               /\ pay'[r].at = "paid" => pay'[r].sold + Amount[r] <= HowMany'[LineOf[r]]
      BY <2>0, <1>w, <2>1, <2>3, <2>4, NothingGoesAhead
    <2>6. SoldIsRead'
      <3>1. pay[s].sold <= HowMany[LineOf[s]]
        BY <2>0, <1>i DEF SoldIsRead
      <3>2. pay'[s].sold + Amount[s] <= HowMany'[LineOf[s]]
        BY <2>0, <2>8, <3>1, <1>s
      <3> QED BY <2>0, <2>5, <3>2 DEF SoldIsRead
    <2>7. ReportsAgree'
      BY <1>2, <2>1, PayAgrees
    <2> QED BY <2>1, <2>2, <2>5, <2>6, <2>7 DEF ReportsInv
  <1>3. CASE PayShow(s)
    <2>1. ReportsTypeOK'
      BY <1>3, <1>i, <1>s DEF PayShow, ReportsTypeOK, NoPay
    <2>2. TicketsOfPaid'
      BY <1>3, <1>i DEF PayShow, ReportsTypeOK, TicketsOfPaid, NoPay
    <2>0. HowMany' = HowMany
      BY <1>3, <1>w DEF PayShow, HowMany
    <2>3. \A t \in Lines : HowMany[t] <= HowMany'[t]
      BY <2>0, <1>c
    <2>4. ScansAreReal' /\ EditsAreOld'
      BY <1>3, <1>w, <2>1, <2>3, NothingGoesAhead DEF PayShow
    <2>5. ReportsAgree'
      BY <1>3, <1>i, <2>0, <2>1, AgreeStays DEF PayShow
    <2>6. SoldIsRead'
      BY <1>3, <1>i, <2>0 DEF PayShow, ReportsTypeOK, SoldIsRead, NoPay
    <2>7. DashboardNotAhead'
      <3>1. pay[s].sold + Amount[s] <= HowMany[LineOf[s]]
        BY <1>3, <1>i DEF PayShow, SoldIsRead
      <3>3. pay[s].sold + Amount[s] <= soldOf[LineOf[s]] + wiped[LineOf[s]]
        BY <3>1, <1>s DEF HowMany
      <3>2. \A t \in Lines : shownSold'[t] = IF t = LineOf[s] THEN pay[s].sold + Amount[s]
                                             ELSE shownSold[t]
        BY <1>3, <1>i DEF PayShow, ReportsTypeOK
      <3> QED BY <1>3, <1>i, <3>3, <3>2 DEF PayShow, DashboardNotAhead, EventStats, CheckedIn, Line
    <2> QED BY <2>1, <2>2, <2>4, <2>5, <2>6, <2>7 DEF ReportsInv
  <1> QED BY <1>1, <1>2, <1>3

LEMMA RefundStep ==
  ASSUME ReportsInv, NEW s \in Sales, RefundBill(s) \/ RefundStubs(s)
  PROVE  ReportsInv'
  <1>i. /\ ReportsTypeOK /\ TicketsOfPaid /\ SoldIsRead /\ EditsAreOld /\ ScansAreReal
        /\ ReportsAgree /\ DashboardNotAhead
    BY DEF ReportsInv
  <1>0. /\ pay' = pay /\ soldOf' = soldOf /\ scan' = scan
        /\ shownSold' = shownSold /\ shownIn' = shownIn
        /\ edit' = edit /\ wiped' = wiped /\ HowMany' = HowMany
    BY DEF RefundBill, RefundStubs, HowMany
  <1>1. \A k \in Stubs : \/ stub'[k] = stub[k]
                         \/ stub[k] = "UNCHECKED" /\ stub'[k] = "CANCELLED"
    BY <1>i DEF RefundBill, RefundStubs
  <1>2. ReportsTypeOK'
    <2>1. CASE RefundBill(s)
      BY <2>1, <1>i DEF RefundBill, ReportsTypeOK, Bill
    <2>2. CASE RefundStubs(s)
      <3>1. stub' \in [Stubs -> Stub]
        BY <2>2, <1>i DEF RefundStubs, ReportsTypeOK, Stub
      <3> QED BY <2>2, <3>1, <1>i DEF RefundStubs, ReportsTypeOK
    <2> QED BY <2>1, <2>2
  <1>3. \A r \in Sales : bill'[r] = "PENDING" <=> bill[r] = "PENDING"
    BY <1>i DEF RefundBill, RefundStubs, ReportsTypeOK
  <1>4. TicketsOfPaid'
    BY <1>i, <1>0, <1>1, <1>3, StubsFinite DEF TicketsOfPaid
  <1>5. \A t \in Lines : HowMany[t] <= HowMany'[t]
    BY <1>0, <1>i, CountType
  <1>6. DashboardNotAhead' /\ ScansAreReal' /\ EditsAreOld'
    BY <1>0, <1>1, <1>2, <1>5, NothingGoesAhead
  <1>7. SoldIsRead'
    BY <1>0, <1>i DEF SoldIsRead
  <1>8. ReportsAgree'
    <2>1. CASE RefundBill(s)
      BY <2>1, <1>2, RefundAgrees
    <2>2. CASE RefundStubs(s)
      <3>1. bill' = bill
        BY <2>2 DEF RefundStubs
      <3> QED BY <3>1, <1>0, <1>1, <1>2, <1>i, AgreeStays
    <2> QED BY <2>1, <2>2
  <1> QED BY <1>2, <1>4, <1>6, <1>7, <1>8 DEF ReportsInv

\* The steps of one check-in leave the others where they are.
LEMMA ScanStep ==
  ASSUME ReportsInv, NEW g \in Scans,
         (\E k \in Stubs : ScanRead(g, k)) \/ ScanSave(g) \/ ScanCount(g) \/ ScanShow(g)
  PROVE  ReportsInv'
  <1>i. /\ ReportsTypeOK /\ TicketsOfPaid /\ SoldIsRead /\ EditsAreOld /\ ScansAreReal
        /\ ReportsAgree /\ DashboardNotAhead
    BY DEF ReportsInv
  <1>0. /\ bill' = bill /\ pay' = pay /\ soldOf' = soldOf /\ shownSold' = shownSold
        /\ edit' = edit /\ wiped' = wiped
        /\ \A o \in Scans : o # g => scan'[o] = scan[o]
    BY <1>i DEF ScanRead, ScanSave, ScanCount, ScanShow, ReportsTypeOK
  <1>k. HowMany' = HowMany
    BY <1>0 DEF HowMany
  <1>1. \A k \in Stubs : \/ stub'[k] = stub[k]
                         \/ stub[k] # "none" /\ stub'[k] = "CHECKED_IN"
    <2>1. CASE ScanSave(g)
      <3>1. PICK k \in Stubs : scan[g].stubs = {k} /\ stub[k] # "none"
        BY <2>1, ScanOf DEF ScanSave
      <3> QED BY <2>1, <3>1 DEF ScanSave
    <2>2. CASE ~ScanSave(g)
      BY <2>2 DEF ScanRead, ScanCount, ScanShow
    <2> QED BY <2>1, <2>2
  <1>c. \A t : /\ Cardinality(CheckedIn(t)) <= Cardinality(CheckedIn(t)')
              /\ Cardinality(CheckedIn(t)) \in Nat /\ Cardinality(CheckedIn(t)') \in Nat
    BY <1>1, CheckedInGrows
  <1>2. ReportsTypeOK'
    <2>1. CASE \E k \in Stubs : ScanRead(g, k)
      BY <2>1, <1>i DEF ScanRead, ReportsTypeOK
    <2>2. CASE ScanSave(g)
      BY <2>2, <1>i DEF ScanSave, ReportsTypeOK, Stub
    <2>3. CASE ScanCount(g)
      <3>1. Cardinality(CheckedIn(ScanLine(g))) \in Nat
        BY <1>c
      <3>2. PICK n \in Nat : n = Cardinality(CheckedIn(ScanLine(g)))
        BY <3>1
      <3>3. scan' = [scan EXCEPT ![g].at = "counted", ![g].count = n]
        BY <2>3, <3>2 DEF ScanCount
      <3> DEFINE Scan == [at: {"out", "read", "saved", "counted"}, stubs: SUBSET Stubs, count: Nat]
      <3>4. scan \in [Scans -> Scan] /\ scan[g] \in Scan
        BY <1>i DEF ReportsTypeOK
      <3>5. [scan[g] EXCEPT !.at = "counted", !.count = n] \in Scan
        BY <3>2, <3>4
      <3>6. scan' = [scan EXCEPT ![g] = [scan[g] EXCEPT !.at = "counted", !.count = n]]
        BY <3>3, <3>4
      <3> HIDE DEF Scan
      <3>7. scan' \in [Scans -> Scan]
        BY <3>4, <3>5, <3>6
      <3> QED BY <2>3, <3>7, <1>i DEF ScanCount, ReportsTypeOK, Scan
    <2>4. CASE ScanShow(g)
      BY <2>4, <1>i DEF ScanShow, ReportsTypeOK, NoScan
    <2> QED BY <2>1, <2>2, <2>3, <2>4
  <1>3. TicketsOfPaid'
    BY <1>i, <1>0, <1>1 DEF TicketsOfPaid
  <1>4. SoldIsRead'
    BY <1>0, <1>k, <1>i DEF SoldIsRead
  <1>5. ReportsAgree'
    BY <1>0, <1>k, <1>1, <1>2, <1>i, AgreeStays
  <1>6. \A t \in Lines : HowMany[t] <= HowMany'[t]
    BY <1>k, <1>i, CountType
  <1>9. EditsAreOld'
    BY <1>0, <1>k, <1>i DEF EditsAreOld
  <1>7. DashboardNotAhead'
    <2>1. CASE shownIn' = shownIn
      BY <2>1, <1>0, <1>1, <1>2, <1>6, NothingGoesAhead
    <2>2. CASE ScanShow(g)
      <3>1. PICK t \in Lines : t = ScanLine(g)
        BY <2>2, ScanOf DEF ScanShow
      <3>2. scan[g].count <= Cardinality(CheckedIn(t)) /\ scan[g].count \in Nat
        BY <2>2, <3>1, <1>i DEF ScanShow, ScansAreReal, ReportsTypeOK
      <3>3. \A u \in Lines : shownIn'[u] = IF u = t THEN scan[g].count ELSE shownIn[u]
        BY <2>2, <3>1, <1>i DEF ScanShow, ReportsTypeOK
      <3> SUFFICES ASSUME NEW u \in Lines
                   PROVE  /\ shownSold'[u] <= soldOf'[u] + wiped'[u]
                          /\ shownIn'[u] <= Cardinality(CheckedIn(u)')
        BY DEF DashboardNotAhead, EventStats, CheckedIn, Line
      <3>4. shownSold[u] <= soldOf[u] + wiped[u] /\ shownIn[u] <= Cardinality(CheckedIn(u)) /\ shownIn[u] \in Nat
        BY <1>i, StatsAre DEF DashboardNotAhead, ReportsTypeOK
      <3>5. PICK m \in Nat, n \in Nat : m = Cardinality(CheckedIn(u)) /\ n = Cardinality(CheckedIn(u)') /\ m <= n
        BY <1>c
      <3>6. shownIn'[u] <= m
        BY <3>2, <3>3, <3>4, <3>5
      <3> QED BY <1>0, <3>2, <3>3, <3>4, <3>5, <3>6
    <2> QED BY <2>1, <2>2 DEF ScanRead, ScanSave, ScanCount
  <1>8. ScansAreReal'
    <2> SUFFICES ASSUME NEW o \in Scans, scan'[o].at # "out"
                 PROVE  /\ \E k \in Stubs : scan'[o].stubs = {k} /\ stub'[k] # "none"
                        /\ scan'[o].at = "counted"
                             => scan'[o].count <= Cardinality(CheckedIn(ScanLine(o)))'
      BY DEF ScansAreReal
    \* A check-in that was under way, with the ticket it had.
    <2>1. ASSUME scan[o].at # "out", scan'[o].stubs = scan[o].stubs,
                 scan'[o].at = "counted" => scan[o].at = "counted" /\ scan'[o].count = scan[o].count
          PROVE  /\ \E k \in Stubs : scan'[o].stubs = {k} /\ stub'[k] # "none"
                 /\ scan'[o].at = "counted"
                      => scan'[o].count <= Cardinality(CheckedIn(ScanLine(o)))'
      <3>1. PICK k \in Stubs : scan[o].stubs = {k} /\ stub[k] # "none"
        BY <2>1, ScanOf
      <3>2. PICK t : t = ScanLine(o)
        OBVIOUS
      <3>3. ScanLine(o)' = t
        BY <2>1, <3>2 DEF ScanLine, Line
      <3>4. CheckedIn(ScanLine(o))' = CheckedIn(t)'
        BY <3>3 DEF CheckedIn
      <3>5. scan[o].count \in Nat
        BY <1>i DEF ReportsTypeOK
      <3>6. scan[o].at = "counted" => scan[o].count <= Cardinality(CheckedIn(t))
        BY <2>1, <3>2, <1>i DEF ScansAreReal
      <3> QED BY <1>1, <1>c, <2>1, <3>1, <3>4, <3>5, <3>6
    <2>2. CASE o # g
      BY <2>1, <2>2, <1>0
    <2>3. CASE o = g /\ \E k \in Stubs : ScanRead(g, k)
      BY <2>3, <1>i DEF ScanRead, ReportsTypeOK
    <2>4. CASE o = g /\ ScanSave(g)
      BY <2>1, <2>4, <1>i DEF ScanSave, ReportsTypeOK
    <2>5. CASE o = g /\ ScanCount(g)
      <3>1. /\ scan[g].at = "saved" /\ scan'[g].stubs = scan[g].stubs
            /\ scan'[g].count = Cardinality(CheckedIn(ScanLine(g))) /\ stub' = stub
        BY <2>5, <1>i DEF ScanCount, ReportsTypeOK
      <3>2. PICK k \in Stubs : scan[g].stubs = {k} /\ stub[k] # "none"
        BY <3>1, ScanOf
      <3>3. ScanLine(g)' = ScanLine(g)
        BY <3>1 DEF ScanLine, Line
      <3>4. CheckedIn(ScanLine(g))' = CheckedIn(ScanLine(g))
        BY <3>1, <3>3 DEF CheckedIn, Line
      <3>5. Cardinality(CheckedIn(ScanLine(g))) \in Nat
        BY <1>c
      <3> QED BY <2>5, <3>1, <3>2, <3>4, <3>5
    <2>6. CASE o = g /\ ScanShow(g)
      BY <2>6, <1>i DEF ScanShow, ReportsTypeOK, NoScan
    <2> QED BY <2>2, <2>3, <2>4, <2>5, <2>6
  <1> QED BY <1>2, <1>3, <1>4, <1>5, <1>7, <1>8, <1>9 DEF ReportsInv

\* An edit changes what is in the column and what was taken out of it, not their
\* sum: what it loaded was sold.
LEMMA EditStep ==
  ASSUME ReportsInv, NEW e \in Edits,
         EditLoad(e) \/ EditRefuse(e) \/ EditCompare(e) \/ EditWrite(e)
  PROVE  ReportsInv'
  <1>i. /\ ReportsTypeOK /\ TicketsOfPaid /\ SoldIsRead /\ EditsAreOld /\ ScansAreReal
        /\ ReportsAgree /\ DashboardNotAhead
    BY DEF ReportsInv
  <1>0. /\ bill' = bill /\ pay' = pay /\ stub' = stub /\ scan' = scan
        /\ shownSold' = shownSold /\ shownIn' = shownIn
    BY DEF EditLoad, EditRefuse, EditCompare, EditWrite
  <1>1. \A t \in Lines : /\ edit[e].sold[t] \in Nat /\ soldOf[t] \in Nat /\ wiped[t] \in Nat
                         /\ edit[e].sold[t] <= soldOf[t] + wiped[t]
    BY <1>i DEF ReportsTypeOK, EditsAreOld, HowMany
  <1>2. ReportsTypeOK'
    <2>1. CASE EditLoad(e)
      BY <2>1, <1>i DEF EditLoad, ReportsTypeOK
    <2>2. CASE EditRefuse(e)
      BY <2>2, <1>i DEF EditRefuse, ReportsTypeOK, NoEdit
    <2>3. CASE EditCompare(e)
      <3>1. {t \in OfSessions : edit[e].sold[t] # soldOf[t]} \in SUBSET Lines
        BY ReportsAssumption
      <3>2. PICK differ \in SUBSET Lines :
                differ = {t \in OfSessions : edit[e].sold[t] # soldOf[t]}
        BY <3>1
      <3>3. edit' = [edit EXCEPT ![e].at = "compared", ![e].lines = differ]
        BY <2>3, <3>2 DEF EditCompare
      <3> DEFINE Edit == [at: {"out", "loaded", "compared"}, sold: [Lines -> Nat],
                          lines: SUBSET Lines]
      <3>4. edit \in [Edits -> Edit] /\ edit[e] \in Edit
        BY <1>i DEF ReportsTypeOK
      <3>5. [edit[e] EXCEPT !.at = "compared", !.lines = differ] \in Edit
        BY <3>2, <3>4
      <3>6. edit' = [edit EXCEPT ![e] = [edit[e] EXCEPT !.at = "compared", !.lines = differ]]
        BY <3>3, <3>4
      <3> HIDE DEF Edit
      <3>7. edit' \in [Edits -> Edit]
        BY <3>4, <3>5, <3>6
      <3> QED BY <2>3, <3>7, <1>0, <1>i DEF EditCompare, ReportsTypeOK, Edit
    <2>4. CASE EditWrite(e)
      <3>1. soldOf' \in [Lines -> Nat]
        BY <2>4, <1>1 DEF EditWrite
      <3>2. wiped' \in [Lines -> Nat]
        BY <2>4, <1>1 DEF EditWrite
      <3> QED BY <2>4, <3>1, <3>2, <1>i DEF EditWrite, ReportsTypeOK, NoEdit
    <2> QED BY <2>1, <2>2, <2>3, <2>4
  <1>3. HowMany' = HowMany
    <2>1. CASE EditWrite(e)
      <3>1. \A t \in Lines : soldOf'[t] + wiped'[t] = soldOf[t] + wiped[t]
        BY <2>1, <1>1 DEF EditWrite
      <3> QED BY <3>1 DEF HowMany
    <2>2. CASE ~EditWrite(e)
      BY <2>2 DEF EditLoad, EditRefuse, EditCompare, HowMany
    <2> QED BY <2>1, <2>2
  <1>4. \A t \in Lines : HowMany[t] <= HowMany'[t] /\ HowMany[t] \in Nat
    BY <1>3, <1>i, CountType
  <1>5. TicketsOfPaid' /\ SoldIsRead'
    BY <1>0, <1>3, <1>i DEF TicketsOfPaid, SoldIsRead
  <1>6. DashboardNotAhead' /\ ScansAreReal'
    BY <1>0, <1>2, <1>4, NothingGoesAhead
  <1>7. ReportsAgree'
    BY <1>0, <1>2, <1>3, <1>i, AgreeStays
  <1>8. EditsAreOld'
    <2>1. \A o \in Edits, t \in Lines : \/ edit'[o].sold[t] = edit[o].sold[t]
                                        \/ edit'[o].sold[t] = soldOf[t]
                                        \/ edit'[o].sold[t] = 0
      BY <1>i DEF EditLoad, EditRefuse, EditCompare, EditWrite, ReportsTypeOK, NoEdit
    <2>2. \A t \in Lines : soldOf[t] <= HowMany[t] /\ 0 <= HowMany[t]
      BY <1>1 DEF HowMany
    <2> QED BY <2>1, <2>2, <1>3, <1>i DEF EditsAreOld
  <1> QED BY <1>2, <1>5, <1>6, <1>7, <1>8 DEF ReportsInv

LEMMA ReportsStep == ReportsInv /\ [ReportsNext]_reportVars => ReportsInv'
  <1> SUFFICES ASSUME ReportsInv, [ReportsNext]_reportVars PROVE ReportsInv'
    OBVIOUS
  <1>1. CASE UNCHANGED reportVars
    <2>1. bill' = bill /\ pay' = pay /\ soldOf' = soldOf /\ stub' = stub /\ scan' = scan
          /\ shownSold' = shownSold /\ shownIn' = shownIn /\ edit' = edit /\ wiped' = wiped
          /\ HowMany' = HowMany
      BY <1>1 DEF reportVars, HowMany
    <2>2. ReportsTypeOK' /\ TicketsOfPaid' /\ SoldIsRead'
      BY <2>1 DEF ReportsInv, ReportsTypeOK, TicketsOfPaid, SoldIsRead
    <2>3. \A t \in Lines : HowMany[t] <= HowMany'[t]
      BY <2>1, CountType DEF ReportsInv
    <2>4. DashboardNotAhead' /\ ScansAreReal' /\ EditsAreOld'
      BY <2>1, <2>2, <2>3, NothingGoesAhead
    <2>5. ReportsAgree'
      BY <2>1, <2>2, AgreeStays DEF ReportsInv
    <2> QED BY <2>2, <2>4, <2>5 DEF ReportsInv
  <1> QED BY <1>1, PayStep, RefundStep, ScanStep, EditStep DEF ReportsNext

\* What is sold, printed, checked in and shown hangs together.
THEOREM ReportsInductive == ReportsSpec => []ReportsInv
  BY ReportsStart, ReportsStep, PTL DEF ReportsSpec

\* The variables of Reports have their types.
THEOREM ReportsTypeCorrect == ReportsSpec => []ReportsTypeOK
  <1>1. ReportsInv => ReportsTypeOK
    BY DEF ReportsInv
  <1> QED BY <1>1, ReportsInductive, PTL

\* The reports of admin and organizer, each summed over a table of its own,
\* agree whatever is paid, checked in and refunded, but for what was refunded
\* and what edits of the event wrote over.
THEOREM ReportsKeepAgreeing == ReportsSpec => []ReportsAgree
  <1>1. ReportsInv => ReportsAgree
    BY DEF ReportsInv
  <1> QED BY <1>1, ReportsInductive, PTL

\* The dashboard shows what was, never what is not yet.
THEOREM DashboardStaysBehind == ReportsSpec => []DashboardNotAhead
  <1>1. ReportsInv => DashboardNotAhead
    BY DEF ReportsInv
  <1> QED BY <1>1, ReportsInductive, PTL
=============================================================================
