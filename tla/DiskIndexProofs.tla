--------------------------- MODULE DiskIndexProofs ---------------------------
(***************************************************************************)
(* Theorems about the disk tier's index, for any keys, sizes and           *)
(* front-ends, and any clock.                                              *)
(***************************************************************************)
EXTENDS DiskIndex, FiniteSetTheorems, NaturalsInduction, WellFoundedInduction, TLAPS

-----------------------------------------------------------------------------
(* Least elements.  The proofs by induction below take the least of the    *)
(* sets, or of the numbers, for which the claim fails.                     *)

\* A non-empty collection of subsets of a finite set has a minimal member.
LEMMA LeastSet ==
    ASSUME NEW S, IsFiniteSet(S), NEW T \in SUBSET SUBSET S, T # {}
    PROVE  \E x \in T : \A y \in T : y \subseteq x => y = x
<1>1. IsWellFoundedOn(StrictSubsetOrdering(S), FiniteSubsetsOf(S))
  BY FS_StrictSubsetOrderingWellFounded, Zenon
<1>2. T \subseteq FiniteSubsetsOf(S)
  BY FS_Subset, Zenon DEF FiniteSubsetsOf
<1>3. PICK x \in T : \A y \in T : <<y, x>> \notin StrictSubsetOrdering(S)
  BY <1>1, <1>2, WFMin, Zenon
<1> QED
  BY <1>3, Zenon DEF StrictSubsetOrdering

\* A non-empty set of natural numbers has a least element.
LEMMA LeastNumber ==
    ASSUME NEW T \in SUBSET Nat, T # {}
    PROVE  \E x \in T : \A y \in T : x <= y
<1>1. IsWellFoundedOn(OpToRel(<, Nat), Nat)
  BY NatLessThanWellFounded, Zenon
<1>2. PICK x \in T : \A y \in T : <<y, x>> \notin OpToRel(<, Nat)
  BY <1>1, WFMin, Zenon
<1>3. \A y \in T : ~(y < x)
  BY <1>2, Zenon DEF OpToRel
<1> QED
  BY <1>3

-----------------------------------------------------------------------------
(* Sums.                                                                   *)

Pick(s) == CHOOSE x \in s : TRUE

\* g gives the sum of f on each subset of S, as SumFunctionOnSet computes it.
Sums(f, S, g) ==
    g = [s \in SUBSET S |-> IF s = {} THEN 0 ELSE f[Pick(s)] + g[s \ {Pick(s)}]]

SumsOn(f, S) == CHOOSE g : Sums(f, S, g)

\* SumFunctionOnSet, written with the recursive function behind it.
LEMMA SumUnfold ==
    ASSUME NEW f, NEW S
    PROVE  SumFunctionOnSet(f, S) = SumsOn(f, S)[S]
BY Zenon DEF SumFunctionOnSet, FoldFunctionOnSet, MapThenFoldSet, SumsOn, Sums, Pick

\* The element a fold takes next is one of the set.
LEMMA PickIn ==
    ASSUME NEW s, s # {}
    PROVE  Pick(s) \in s
BY Zenon DEF Pick

\* What the sum of a set is does not depend on the set it is a part of.
LEMMA SumsAgree ==
    ASSUME NEW f, NEW S, NEW T, IsFiniteSet(S), NEW g, NEW h, Sums(f, S, g), Sums(f, T, h)
    PROVE  \A s \in SUBSET (S \cap T) : g[s] = h[s]
<1> DEFINE Bad == {s \in SUBSET (S \cap T) : g[s] # h[s]}
<1> SUFFICES ASSUME Bad # {} PROVE FALSE
  BY Zenon
<1>1. PICK s \in Bad : \A y \in Bad : y \subseteq s => y = s
  <2>1. Bad \in SUBSET SUBSET S
    BY Zenon
  <2> HIDE DEF Bad
  <2> QED
    BY <2>1, LeastSet
<1>2. s \in SUBSET S /\ s \in SUBSET T /\ g[s] # h[s]
  BY Zenon
<1>3. s # {}
  BY <1>2, Zenon DEF Sums
<1>4. PICK u : u = s \ {Pick(s)}
  BY Zenon
<1>5. u \in SUBSET (S \cap T) /\ u \subseteq s /\ u # s
  BY <1>2, <1>3, <1>4, PickIn, Zenon
<1>6. g[u] = h[u]
  BY <1>1, <1>5, Zenon
<1>7. g[s] = f[Pick(s)] + g[u] /\ h[s] = f[Pick(s)] + h[u]
  BY <1>2, <1>3, <1>4, Zenon DEF Sums
<1> QED
  BY <1>2, <1>6, <1>7, Zenon

\* The sums of all subsets of a finite set are there.
LEMMA SumsExist ==
    ASSUME NEW f, NEW S, IsFiniteSet(S)
    PROVE  Sums(f, S, SumsOn(f, S))
<1> DEFINE Bad == {T \in SUBSET S : ~Sums(f, T, SumsOn(f, T))}
<1> SUFFICES ASSUME Bad # {} PROVE FALSE
  BY Zenon
<1>1. PICK T \in Bad : \A y \in Bad : y \subseteq T => y = T
  <2>1. Bad \in SUBSET SUBSET S
    BY Zenon
  <2> HIDE DEF Bad
  <2> QED
    BY <2>1, LeastSet
<1>2. T \in SUBSET S /\ \A U \in SUBSET T : U # T => Sums(f, U, SumsOn(f, U)) /\ IsFiniteSet(U)
  BY <1>1, FS_Subset, Zenon
<1> DEFINE g == [s \in SUBSET T |->
                   IF s = {} THEN 0 ELSE f[Pick(s)] + SumsOn(f, s \ {Pick(s)})[s \ {Pick(s)}]]
<1>3. ASSUME NEW s \in SUBSET T, s # {} PROVE g[s \ {Pick(s)}] = SumsOn(f, s \ {Pick(s)})[s \ {Pick(s)}]
  <2>1. PICK u : u = s \ {Pick(s)}
    BY Zenon
  <2>2. u \in SUBSET T /\ u # T
    BY <1>3, <2>1, PickIn, Zenon
  <2>3. Sums(f, u, SumsOn(f, u)) /\ u \in SUBSET u
    BY <1>2, <2>2, Zenon
  <2>4. CASE u = {}
    <3>1. g[u] = 0
      BY <2>2, <2>4, Zenon
    <3>2. SumsOn(f, u)[u] = 0
      BY <2>3, <2>4, Zenon DEF Sums
    <3> QED
      BY <2>1, <3>1, <3>2, Zenon
  <2>5. CASE u # {}
    <3>1. PICK w : w = u \ {Pick(u)}
      BY Zenon
    <3>2. w \in SUBSET T /\ w # T /\ w \in SUBSET u
      BY <2>2, <2>5, <3>1, PickIn, Zenon
    <3>3. SumsOn(f, u)[w] = SumsOn(f, w)[w]
      BY <1>2, <2>2, <2>3, <3>2, SumsAgree
    <3>4. SumsOn(f, u)[u] = f[Pick(u)] + SumsOn(f, u)[w]
      BY <2>3, <2>5, <3>1, Zenon DEF Sums
    <3>5. g[u] = f[Pick(u)] + SumsOn(f, w)[w]
      BY <2>2, <2>5, <3>1, Zenon
    <3> QED
      BY <2>1, <3>3, <3>4, <3>5, Zenon
  <2> QED
    BY <2>4, <2>5, Zenon
<1>4. Sums(f, T, g)
  BY <1>3, Zenon DEF Sums
<1>5. Sums(f, T, SumsOn(f, T))
  BY <1>4, Zenon DEF SumsOn
<1> QED
  BY <1>1, <1>5, Zenon

\* The sum as a definition by recursion on the set.
LEMMA SumDef ==
    ASSUME NEW f, NEW S, IsFiniteSet(S)
    PROVE  /\ S = {} => SumFunctionOnSet(f, S) = 0
           /\ S # {} => SumFunctionOnSet(f, S) = f[Pick(S)] + SumFunctionOnSet(f, S \ {Pick(S)})
<1>1. Sums(f, S, SumsOn(f, S)) /\ SumFunctionOnSet(f, S) = SumsOn(f, S)[S] /\ S \in SUBSET S
  BY SumsExist, SumUnfold, Zenon
<1>2. CASE S = {}
  BY <1>1, <1>2, Zenon DEF Sums
<1>3. CASE S # {}
  <2>1. PICK u : u = S \ {Pick(S)}
    BY Zenon
  <2>2. IsFiniteSet(u) /\ u \in SUBSET (S \cap u)
    BY <2>1, FS_Subset, Zenon
  <2>3. SumsOn(f, S)[S] = f[Pick(S)] + SumsOn(f, S)[u]
    BY <1>1, <1>3, <2>1, Zenon DEF Sums
  <2>4. SumsOn(f, S)[u] = SumsOn(f, u)[u]
    BY <1>1, <2>2, SumsExist, SumsAgree
  <2> QED
    BY <1>1, <1>3, <2>1, <2>3, <2>4, SumUnfold, Zenon
<1> QED
  BY <1>2, <1>3, Zenon

\* A sum of naturals is one.
LEMMA SumNat ==
    ASSUME NEW f, NEW S, IsFiniteSet(S), \A x \in S : f[x] \in Nat
    PROVE  SumFunctionOnSet(f, S) \in Nat
<1> DEFINE Bad == {T \in SUBSET S : SumFunctionOnSet(f, T) \notin Nat}
<1> SUFFICES ASSUME Bad # {} PROVE FALSE
  BY Zenon
<1>1. PICK T \in Bad : \A y \in Bad : y \subseteq T => y = T
  <2>1. Bad \in SUBSET SUBSET S
    BY Zenon
  <2> HIDE DEF Bad
  <2> QED
    BY <2>1, LeastSet
<1>2. IsFiniteSet(T) /\ T # {}
  <2>1. IsFiniteSet(T)
    BY FS_Subset, Zenon
  <2>2. T = {} => SumFunctionOnSet(f, T) = 0
    BY <2>1, SumDef, Zenon
  <2> QED
    BY <1>1, <2>1, <2>2
<1>3. PICK u : u = T \ {Pick(T)}
  BY Zenon
<1>4. SumFunctionOnSet(f, u) \in Nat /\ f[Pick(T)] \in Nat
  BY <1>1, <1>2, <1>3, PickIn
<1>5. SumFunctionOnSet(f, T) = f[Pick(T)] + SumFunctionOnSet(f, u)
  BY <1>2, <1>3, SumDef, Zenon
<1> QED
  BY <1>4, <1>5

\* Any element may be the first to be taken out.
LEMMA SumTake ==
    ASSUME NEW f, NEW S, IsFiniteSet(S), \A x \in S : f[x] \in Nat, NEW e \in S
    PROVE  SumFunctionOnSet(f, S) = f[e] + SumFunctionOnSet(f, S \ {e})
<1> DEFINE Takes(T) == \A x \in T : SumFunctionOnSet(f, T) = f[x] + SumFunctionOnSet(f, T \ {x})
           Bad == {T \in SUBSET S : ~Takes(T)}
<1> SUFFICES ASSUME Bad # {} PROVE FALSE
  BY Zenon
<1>1. PICK T \in Bad : \A y \in Bad : y \subseteq T => y = T
  <2>1. Bad \in SUBSET SUBSET S
    BY Zenon
  <2> HIDE DEF Bad
  <2> QED
    BY <2>1, LeastSet
<1>2. \A U \in SUBSET T : U # T => Takes(U)
  BY <1>1, Zenon
<1>3. PICK x \in T : SumFunctionOnSet(f, T) # f[x] + SumFunctionOnSet(f, T \ {x})
  BY <1>1, Zenon
<1>4. PICK c : c = Pick(T)
  BY Zenon
<1>5. IsFiniteSet(T) /\ c \in T /\ SumFunctionOnSet(f, T) = f[c] + SumFunctionOnSet(f, T \ {c})
  BY <1>3, <1>4, SumDef, PickIn, FS_Subset, Zenon
<1>6. c # x
  BY <1>3, <1>5, Zenon
<1>7. SumFunctionOnSet(f, T \ {c}) = f[x] + SumFunctionOnSet(f, (T \ {c}) \ {x})
  BY <1>2, <1>3, <1>5, <1>6, Zenon
<1>8. SumFunctionOnSet(f, T \ {x}) = f[c] + SumFunctionOnSet(f, (T \ {x}) \ {c})
  BY <1>2, <1>3, <1>5, <1>6, Zenon
<1>9. PICK w : w = (T \ {c}) \ {x}
  BY Zenon
<1>10. w = (T \ {x}) \ {c} /\ w \in SUBSET S
  BY <1>1, <1>9, Zenon
<1>11. SumFunctionOnSet(f, w) \in Nat /\ f[c] \in Nat /\ f[x] \in Nat
  BY <1>1, <1>3, <1>5, <1>10, SumNat, FS_Subset, Zenon
<1> QED
  BY <1>3, <1>5, <1>7, <1>8, <1>9, <1>10, <1>11

\* Adding one element adds its value.
LEMMA SumPut ==
    ASSUME NEW f, NEW S, IsFiniteSet(S), NEW e, e \notin S, \A x \in S \cup {e} : f[x] \in Nat
    PROVE  SumFunctionOnSet(f, S \cup {e}) = f[e] + SumFunctionOnSet(f, S)
<1>1. PICK T : T = S \cup {e}
  BY Zenon
<1>2. T \ {e} = S /\ e \in T /\ IsFiniteSet(T)
  BY <1>1, FS_AddElement, Zenon
<1> QED
  BY <1>1, <1>2, SumTake

\* The sum of a set is that of a part and of the rest.
LEMMA SumSplit ==
    ASSUME NEW f, NEW S, IsFiniteSet(S), \A x \in S : f[x] \in Nat, NEW P \in SUBSET S
    PROVE  SumFunctionOnSet(f, S) = SumFunctionOnSet(f, P) + SumFunctionOnSet(f, S \ P)
<1> DEFINE Bad == {T \in SUBSET S :
                     SumFunctionOnSet(f, S) # SumFunctionOnSet(f, T) + SumFunctionOnSet(f, S \ T)}
<1> SUFFICES ASSUME Bad # {} PROVE FALSE
  BY Zenon
<1>1. PICK T \in Bad : \A y \in Bad : y \subseteq T => y = T
  <2>1. Bad \in SUBSET SUBSET S
    BY Zenon
  <2> HIDE DEF Bad
  <2> QED
    BY <2>1, LeastSet
<1>2. IsFiniteSet(T) /\ T # {}
  <2>1. S \ {} = S /\ SumFunctionOnSet(f, {}) = 0 /\ SumFunctionOnSet(f, S) \in Nat
    BY SumDef, SumNat, FS_EmptySet, Zenon
  <2>2. {} \notin Bad
    BY <2>1
  <2> QED
    BY <1>1, <2>2, FS_Subset, Zenon
<1>3. PICK c \in T : TRUE
  BY <1>2, Zenon
<1>4. PICK u : u = T \ {c}
  BY Zenon
<1>5. u \in SUBSET S /\ u # T /\ u \subseteq T /\ IsFiniteSet(u) /\ IsFiniteSet(S \ T)
  BY <1>4, FS_Subset, Zenon
<1>6. SumFunctionOnSet(f, S) = SumFunctionOnSet(f, u) + SumFunctionOnSet(f, S \ u)
  BY <1>1, <1>5, Zenon
<1>7. SumFunctionOnSet(f, T) = f[c] + SumFunctionOnSet(f, u)
  BY <1>2, <1>4, SumTake
<1>8. S \ u = (S \ T) \cup {c} /\ c \notin S \ T
  BY <1>4, Zenon
<1>9. SumFunctionOnSet(f, S \ u) = f[c] + SumFunctionOnSet(f, S \ T)
  BY <1>5, <1>8, SumPut, Zenon
<1>10. SumFunctionOnSet(f, u) \in Nat /\ SumFunctionOnSet(f, S \ T) \in Nat /\ f[c] \in Nat
  BY <1>5, SumNat, Zenon
<1> QED
  BY <1>6, <1>7, <1>9, <1>10

\* The sum looks at the elements of the set only.
LEMMA SumSame ==
    ASSUME NEW f, NEW g, NEW S, IsFiniteSet(S), \A x \in S : f[x] = g[x]
    PROVE  SumFunctionOnSet(f, S) = SumFunctionOnSet(g, S)
<1> DEFINE Bad == {T \in SUBSET S : SumFunctionOnSet(f, T) # SumFunctionOnSet(g, T)}
<1> SUFFICES ASSUME Bad # {} PROVE FALSE
  BY Zenon
<1>1. PICK T \in Bad : \A y \in Bad : y \subseteq T => y = T
  <2>1. Bad \in SUBSET SUBSET S
    BY Zenon
  <2> HIDE DEF Bad
  <2> QED
    BY <2>1, LeastSet
<1>2. IsFiniteSet(T) /\ T # {}
  BY SumDef, FS_Subset, Zenon
<1>3. PICK u : u = T \ {Pick(T)}
  BY Zenon
<1>4. SumFunctionOnSet(f, u) = SumFunctionOnSet(g, u) /\ f[Pick(T)] = g[Pick(T)]
  <2>1. Pick(T) \in T /\ T \in SUBSET S
    BY <1>2, PickIn, Zenon
  <2>2. u \in SUBSET S /\ u \subseteq T /\ u # T
    BY <1>3, <2>1, Zenon
  <2>3. u \notin Bad
    BY <1>1, <2>2, Zenon
  <2> QED
    BY <2>1, <2>2, <2>3, Zenon
<1> QED
  BY <1>2, <1>3, <1>4, SumDef

\* Nothing adds up to nothing.
LEMMA SumZero ==
    ASSUME NEW f, NEW S, IsFiniteSet(S), \A x \in S : f[x] = 0
    PROVE  SumFunctionOnSet(f, S) = 0
<1> DEFINE Bad == {T \in SUBSET S : SumFunctionOnSet(f, T) # 0}
<1> SUFFICES ASSUME Bad # {} PROVE FALSE
  BY Zenon
<1>1. PICK T \in Bad : \A y \in Bad : y \subseteq T => y = T
  <2>1. Bad \in SUBSET SUBSET S
    BY Zenon
  <2> HIDE DEF Bad
  <2> QED
    BY <2>1, LeastSet
<1>2. IsFiniteSet(T) /\ T # {}
  BY SumDef, FS_Subset, Zenon
<1>3. PICK u : u = T \ {Pick(T)}
  BY Zenon
<1>4. SumFunctionOnSet(f, u) = 0 /\ f[Pick(T)] = 0
  BY <1>1, <1>2, <1>3, PickIn, Zenon
<1> QED
  BY <1>2, <1>3, <1>4, SumDef

-----------------------------------------------------------------------------
(* Lists.                                                                  *)

Keeps(s, ks, m, g) ==
    g = [i \in 0 .. m |-> IF i = 0 THEN <<>>
                          ELSE IF s[i] \in ks THEN Append(g[i - 1], s[i]) ELSE g[i - 1]]

\* Filter, written with the recursive function behind it.
LEMMA FilterUnfold ==
    ASSUME NEW s, NEW ks
    PROVE  Filter(s, ks) = (CHOOSE g : Keeps(s, ks, Len(s), g))[Len(s)]
BY Zenon DEF Filter, Keeps

\* That recursive function satisfies its equations.
LEMMA KeepsExist ==
    ASSUME NEW s, NEW ks, NEW m \in Nat
    PROVE  \E g : Keeps(s, ks, m, g)
<1> DEFINE Bad == {i \in Nat : ~\E g : Keeps(s, ks, i, g)}
<1> SUFFICES ASSUME Bad # {} PROVE FALSE
  BY Zenon
<1>1. PICK i \in Bad : \A y \in Bad : i <= y
  <2>1. Bad \in SUBSET Nat
    BY Zenon
  <2> HIDE DEF Bad
  <2> QED
    BY <2>1, LeastNumber, Zenon
<1>2. i # 0
  <2>1. Keeps(s, ks, 0, [j \in 0 .. 0 |-> <<>>])
    BY DEF Keeps
  <2> QED
    BY <2>1, Zenon
<1>3. i \in Nat /\ i - 1 \in Nat /\ i - 1 \notin Bad
  BY <1>1, <1>2
<1>4. PICK h : Keeps(s, ks, i - 1, h)
  BY <1>3, Zenon
<1> DEFINE last == IF s[i] \in ks THEN Append(h[i - 1], s[i]) ELSE h[i - 1]
           g == [j \in 0 .. i |-> IF j < i THEN h[j] ELSE last]
<1>5. ASSUME NEW j \in 0 .. i
      PROVE  g[j] = IF j = 0 THEN <<>>
                    ELSE IF s[j] \in ks THEN Append(g[j - 1], s[j]) ELSE g[j - 1]
  <2>1. CASE j = i
    BY <1>2, <1>3, <2>1
  <2>2. CASE j < i
    <3>1. j \in 0 .. i - 1 /\ (j # 0 => j - 1 \in 0 .. i - 1)
      BY <1>3, <2>2
    <3>2. h[j] = IF j = 0 THEN <<>>
                 ELSE IF s[j] \in ks THEN Append(h[j - 1], s[j]) ELSE h[j - 1]
      BY <1>4, <3>1, Zenon DEF Keeps
    <3>3. g[j] = h[j] /\ (j # 0 => g[j - 1] = h[j - 1])
      BY <1>3, <2>2, <3>1
    <3> QED
      BY <3>2, <3>3, Zenon
  <2> QED
    BY <1>3, <2>1, <2>2
<1>6. Keeps(s, ks, i, g)
  BY <1>5, Zenon DEF Keeps
<1> QED
  BY <1>1, <1>6, Zenon

\* q has the keys of ks among the first i of s, in their order.
Picked(s, ks, i, q) ==
    /\ \A a \in DOMAIN q : \E j \in 1 .. i : s[j] = q[a] /\ s[j] \in ks
    /\ \A j \in 1 .. i : s[j] \in ks => \E a \in DOMAIN q : q[a] = s[j]
    /\ \A a, b \in DOMAIN q : a < b => \E j, l \in 1 .. i : j < l /\ s[j] = q[a] /\ s[l] = q[b]

\* The keys kept of one position more.
LEMMA PickedNext ==
    ASSUME NEW K, NEW s \in Seq(K), NEW ks, NEW i \in 1 .. Len(s), NEW q \in Seq(K), Picked(s, ks, i - 1, q)
    PROVE  LET r == IF s[i] \in ks THEN Append(q, s[i]) ELSE q
           IN  r \in Seq(K) /\ Picked(s, ks, i, r)
<1>1. \A j \in 1 .. i : j = i \/ j \in 1 .. i - 1
  OBVIOUS
<1>2. \A j \in 1 .. i - 1 : j \in 1 .. i /\ j < i
  OBVIOUS
<1>3. i \in 1 .. i /\ s[i] \in K
  OBVIOUS
<1>4. CASE s[i] \notin ks
  BY <1>1, <1>2, <1>4 DEF Picked
<1>5. CASE s[i] \in ks
  <2>1. PICK r : r = Append(q, s[i])
    BY Zenon
  <2>2. /\ r \in Seq(K) /\ DOMAIN r = 1 .. Len(q) + 1 /\ r[Len(q) + 1] = s[i]
        /\ \A a \in DOMAIN q : a \in DOMAIN r /\ r[a] = q[a] /\ a < Len(q) + 1
        /\ \A a \in DOMAIN r : a = Len(q) + 1 \/ a \in DOMAIN q
    BY <1>3, <2>1
  <2>3. ASSUME NEW a \in DOMAIN r PROVE \E j \in 1 .. i : s[j] = r[a] /\ s[j] \in ks
    <3>1. CASE a = Len(q) + 1
      BY <1>3, <1>5, <2>2, <3>1, Zenon
    <3>2. CASE a \in DOMAIN q
      <4>1. PICK j \in 1 .. i - 1 : s[j] = q[a] /\ s[j] \in ks
        BY <3>2, Zenon DEF Picked
      <4> QED
        BY <1>2, <2>2, <3>2, <4>1, Zenon
    <3> QED
      BY <2>2, <3>1, <3>2, Zenon
  <2>4. \A j \in 1 .. i : s[j] \in ks => \E a \in DOMAIN r : r[a] = s[j]
    BY <1>1, <2>2 DEF Picked
  <2>5. ASSUME NEW a \in DOMAIN r, NEW b \in DOMAIN r, a < b
        PROVE  \E j, l \in 1 .. i : j < l /\ s[j] = r[a] /\ s[l] = r[b]
    <3>1. a \in DOMAIN q
      BY <2>2, <2>5
    <3>2. CASE b \in DOMAIN q
      <4>1. PICK j, l \in 1 .. i - 1 : j < l /\ s[j] = q[a] /\ s[l] = q[b]
        BY <2>5, <3>1, <3>2, Zenon DEF Picked
      <4>2. r[a] = q[a] /\ r[b] = q[b] /\ j \in 1 .. i /\ l \in 1 .. i
        BY <1>2, <2>2, <3>1, <3>2, Zenon
      <4> QED
        BY <4>1, <4>2, Zenon
    <3>3. CASE b = Len(q) + 1
      BY <1>2, <1>3, <2>2, <3>1, <3>3 DEF Picked
    <3> QED
      BY <2>2, <3>2, <3>3, Zenon
  <2>6. Picked(s, ks, i, r)
    BY <2>3, <2>4, <2>5, Zenon DEF Picked
  <2> QED
    BY <1>5, <2>1, <2>2, <2>6, Zenon
<1> QED
  BY <1>4, <1>5, Zenon

\* Filter keeps the keys it should, in their order.
LEMMA FilterPicked ==
    ASSUME NEW K, NEW s \in Seq(K), NEW ks
    PROVE  Filter(s, ks) \in Seq(K) /\ Picked(s, ks, Len(s), Filter(s, ks))
<1>1. PICK g : Keeps(s, ks, Len(s), g) /\ Filter(s, ks) = g[Len(s)]
  <2>1. Len(s) \in Nat
    OBVIOUS
  <2>2. \E g : Keeps(s, ks, Len(s), g)
    BY <2>1, KeepsExist, Zenon
  <2> QED
    BY <2>2, FilterUnfold, Zenon
<1> DEFINE Bad == {i \in 0 .. Len(s) : ~(g[i] \in Seq(K) /\ Picked(s, ks, i, g[i]))}
<1> SUFFICES ASSUME Bad # {} PROVE FALSE
  BY <1>1
<1>2. PICK i \in Bad : \A y \in Bad : i <= y
  <2>1. Bad \in SUBSET Nat
    OBVIOUS
  <2> HIDE DEF Bad
  <2> QED
    BY <2>1, LeastNumber, Zenon
<1>3. i # 0
  <2>1. g[0] = <<>>
    BY <1>1 DEF Keeps
  <2>2. g[0] \in Seq(K) /\ Picked(s, ks, 0, g[0])
    BY <2>1 DEF Picked
  <2> QED
    BY <1>2, <2>2, Zenon
<1>4. i \in 1 .. Len(s) /\ i - 1 \in 0 .. Len(s) /\ i - 1 \notin Bad
  BY <1>2, <1>3
<1>5. g[i - 1] \in Seq(K) /\ Picked(s, ks, i - 1, g[i - 1])
  BY <1>4, Zenon
<1>6. g[i] = IF s[i] \in ks THEN Append(g[i - 1], s[i]) ELSE g[i - 1]
  BY <1>1, <1>3, <1>4, i \in 0 .. Len(s), Zenon DEF Keeps
<1>7. g[i] \in Seq(K) /\ Picked(s, ks, i, g[i])
  BY <1>4, <1>5, <1>6, PickedNext
<1> QED
  BY <1>2, <1>7, Zenon

\* Filter keeps the keys of ks, each as often and in the same order.
LEMMA FilterOK ==
    ASSUME NEW K, NEW s \in Seq(K), NEW ks
    PROVE  LET q == Filter(s, ks) IN
           /\ q \in Seq(K)
           /\ Range(q) = Range(s) \cap ks
           /\ IsInjective(s) => IsInjective(q)
           /\ \A a, b \in DOMAIN q : a < b => \E j, l \in DOMAIN s : j < l /\ s[j] = q[a] /\ s[l] = q[b]
<1>1. PICK q : q = Filter(s, ks)
  BY Zenon
<1>2. q \in Seq(K) /\ Picked(s, ks, Len(s), q) /\ DOMAIN s = 1 .. Len(s) /\ DOMAIN q = 1 .. Len(q)
  BY <1>1, FilterPicked
<1>3. \A a, b \in DOMAIN q : a < b => \E j, l \in DOMAIN s : j < l /\ s[j] = q[a] /\ s[l] = q[b]
  <2>1. ASSUME NEW a \in DOMAIN q, NEW b \in DOMAIN q, a < b
        PROVE  \E j, l \in DOMAIN s : j < l /\ s[j] = q[a] /\ s[l] = q[b]
    <3>1. PICK j \in 1 .. Len(s), l \in 1 .. Len(s) : j < l /\ s[j] = q[a] /\ s[l] = q[b]
      BY <1>2, <2>1, Zenon DEF Picked
    <3>2. j \in DOMAIN s /\ l \in DOMAIN s
      BY <1>2, <3>1, Zenon
    <3> QED
      BY <3>1, <3>2, Zenon
  <2> QED
    BY <2>1, Zenon
<1>4. Range(q) = Range(s) \cap ks
  <2>1. ASSUME NEW a \in DOMAIN q PROVE q[a] \in Range(s) \cap ks
    <3>1. PICK j \in 1 .. Len(s) : s[j] = q[a] /\ s[j] \in ks
      BY <1>2, Zenon DEF Picked
    <3> QED
      BY <1>2, <3>1, Zenon DEF Range
  <2>2. ASSUME NEW j \in DOMAIN s, s[j] \in ks PROVE s[j] \in Range(q)
    <3>1. PICK a \in DOMAIN q : q[a] = s[j]
      BY <1>2, <2>2, Zenon DEF Picked
    <3> QED
      BY <3>1, Zenon DEF Range
  <2> QED
    BY <2>1, <2>2, Zenon DEF Range
<1>5. ASSUME IsInjective(s), NEW a \in DOMAIN q, NEW b \in DOMAIN q, q[a] = q[b] PROVE a = b
  BY <1>2, <1>3, <1>5 DEF IsInjective
<1>6. IsInjective(s) => IsInjective(q)
  BY <1>5, Zenon DEF IsInjective
<1> QED
  BY <1>1, <1>2, <1>3, <1>4, <1>6

-----------------------------------------------------------------------------
(* The totals of a group of keys G, for the sizes z.                       *)

Has(z) == {k \in Keys : z[k] # Absent}

Total(z, G) == SumFunctionOnSet(z, Has(z) \cap G)

Count(z, G) == Cardinality(Has(z) \cap G)

Sized(z) == z \in [Keys -> Nat]

Writes(z, k, s, y) == y = [z EXCEPT ![k] = s]

Drops(z, ks, y) == y = [k \in Keys |-> IF k \in ks THEN Absent ELSE z[k]]

Less(z, ks, e) ==
    [f \in Frontends |->
       [entries |-> e[f].entries - Cardinality(ks \cap Has(z) \cap OfFrontend(f)),
        bytes   |-> e[f].bytes - SumFunctionOnSet(z, ks \cap OfFrontend(f))]]

One(z, k) == IF z[k] = Absent THEN 0 ELSE 1

\* The sets of keys the index is about are finite.
LEMMA Finite ==
    ASSUME NEW S \in SUBSET Keys
    PROVE  IsFiniteSet(S) /\ Cardinality(S) \in Nat
BY KeysAssumption, FS_Subset, FS_CardinalityType, Zenon

\* Bytes and entries of any set of keys are natural numbers.
LEMMA TotalsNat ==
    ASSUME NEW z, Sized(z), NEW G \in SUBSET Keys
    PROVE  Total(z, G) \in Nat /\ Count(z, G) \in Nat
<1>1. Has(z) \cap G \in SUBSET Keys /\ \A x \in Has(z) \cap G : z[x] \in Nat
  BY Zenon DEF Has, Sized
<1> QED
  BY <1>1, Finite, SumNat, Zenon DEF Total, Count

\* One entry is written (index.go set, addIfAbsent).
LEMMA PutTotals ==
    ASSUME NEW z, Sized(z), NEW k \in Keys, NEW s \in Nat \ {0}, NEW G \in SUBSET Keys,
           NEW y, Writes(z, k, s, y)
    PROVE  /\ k \in G => /\ Total(y, G) = Total(z, G) - z[k] + s
                         /\ Count(y, G) = Count(z, G) - One(z, k) + 1
           /\ k \notin G => Total(y, G) = Total(z, G) /\ Count(y, G) = Count(z, G)
<1> USE DEF Sized, Writes, Total, Count
<1>1. PICK A : A = (Has(z) \cap G) \ {k}
  BY Zenon
<1>2. /\ A \in SUBSET Keys /\ IsFiniteSet(A) /\ k \notin A /\ Cardinality(A) \in Nat
      /\ \A x \in A : y[x] = z[x] /\ z[x] \in Nat
  BY <1>1, Finite, Zenon DEF Has
<1>3. SumFunctionOnSet(y, A) = SumFunctionOnSet(z, A) /\ SumFunctionOnSet(z, A) \in Nat
  BY <1>2, SumSame, SumNat, Zenon
<1>4. CASE k \notin G
  <2>1. Has(y) \cap G = A /\ Has(z) \cap G = A
    BY <1>1, <1>4, Zenon DEF Has
  <2> QED
    BY <1>3, <1>4, <2>1, Zenon
<1>5. CASE k \in G
  <2>1. Has(y) \cap G = A \cup {k}
    BY <1>1, <1>5, Zenon DEF Has, Absent
  <2>2. y[k] = s /\ \A x \in A \cup {k} : y[x] \in Nat
    BY <1>2, Zenon
  <2>3. SumFunctionOnSet(y, A \cup {k}) = s + SumFunctionOnSet(z, A)
    BY <1>2, <1>3, <2>2, SumPut, Zenon
  <2>4. Cardinality(A \cup {k}) = Cardinality(A) + 1
    BY <1>2, FS_AddElement, Zenon
  <2>5. /\ SumFunctionOnSet(y, Has(y) \cap G) = s + SumFunctionOnSet(z, A)
        /\ Cardinality(Has(y) \cap G) = Cardinality(A) + 1
    BY <2>1, <2>3, <2>4, Zenon
  <2>6. CASE z[k] = Absent
    <3>1. Has(z) \cap G = A
      BY <1>1, <2>6, Zenon DEF Has
    <3>2. One(z, k) = 0 /\ z[k] = 0
      BY <2>6, Zenon DEF One, Absent
    <3>3. PICK a, b : a = SumFunctionOnSet(z, A) /\ b = Cardinality(A)
      BY Zenon
    <3>4. a \in Nat /\ b \in Nat
      BY <1>2, <1>3, <3>3, Zenon
    <3>5. s + a = a - 0 + s /\ b + 1 = b - 0 + 1
      BY <3>4
    <3> QED
      BY <1>5, <2>5, <3>1, <3>2, <3>3, <3>5, Zenon
  <2>7. CASE z[k] # Absent
    <3>1. Has(z) \cap G = A \cup {k}
      BY <1>1, <1>5, <2>7, Zenon DEF Has
    <3>2. SumFunctionOnSet(z, A \cup {k}) = z[k] + SumFunctionOnSet(z, A)
      BY <1>2, SumPut, Zenon
    <3>3. One(z, k) = 1 /\ z[k] \in Nat
      BY <2>7, Zenon DEF One
    <3>4. PICK a, b : a = SumFunctionOnSet(z, A) /\ b = Cardinality(A)
      BY Zenon
    <3>5. a \in Nat /\ b \in Nat
      BY <1>2, <1>3, <3>4, Zenon
    <3>6. s + a = (z[k] + a) - z[k] + s /\ b + 1 = (b + 1) - 1 + 1
      BY <3>3, <3>5
    <3> QED
      BY <1>5, <2>4, <2>5, <3>1, <3>2, <3>3, <3>4, <3>6, Zenon
  <2> QED
    BY <2>6, <2>7, Zenon
<1> QED
  BY <1>4, <1>5, Zenon

\* Entries are removed (index.go removeLocked).
LEMMA DropTotals ==
    ASSUME NEW z, Sized(z), NEW ks \in SUBSET Keys, NEW G \in SUBSET Keys, NEW y, Drops(z, ks, y)
    PROVE  /\ Total(y, G) = Total(z, G) - SumFunctionOnSet(z, ks \cap G)
           /\ Count(y, G) = Count(z, G) - Cardinality(ks \cap Has(z) \cap G)
<1> USE DEF Sized, Drops, Total, Count
<1>1. PICK A, B, C : A = Has(y) \cap G /\ B = ks \cap Has(z) \cap G /\ C = Has(z) \cap G
  BY Zenon
<1>2. /\ A \in SUBSET Keys /\ B \in SUBSET C /\ C \in SUBSET Keys /\ A = C \ B /\ C \cap B = B
      /\ \A x \in A : y[x] = z[x]
      /\ \A x \in Keys : z[x] \in Nat
  BY <1>1, Zenon DEF Has
<1>3. IsFiniteSet(A) /\ IsFiniteSet(B) /\ IsFiniteSet(C) /\ IsFiniteSet(ks \cap G)
  BY <1>2, Finite, Zenon
<1>4. SumFunctionOnSet(y, A) = SumFunctionOnSet(z, A)
  BY <1>2, <1>3, SumSame, Zenon
<1>5. SumFunctionOnSet(z, C) = SumFunctionOnSet(z, B) + SumFunctionOnSet(z, A)
  BY <1>2, <1>3, SumSplit
<1>6. SumFunctionOnSet(z, ks \cap G) = SumFunctionOnSet(z, B)
  <2>1. B \in SUBSET (ks \cap G) /\ \A x \in ks \cap G : z[x] \in Nat
    BY <1>1, <1>2, Zenon
  <2>2. SumFunctionOnSet(z, ks \cap G) = SumFunctionOnSet(z, B) + SumFunctionOnSet(z, (ks \cap G) \ B)
    BY <1>3, <2>1, SumSplit
  <2>3. IsFiniteSet((ks \cap G) \ B) /\ \A x \in (ks \cap G) \ B : z[x] = 0
    BY <1>1, Finite, Zenon DEF Has, Absent
  <2>4. SumFunctionOnSet(z, (ks \cap G) \ B) = 0
    BY <2>3, SumZero, Zenon
  <2>5. SumFunctionOnSet(z, B) \in Nat
    BY <1>2, <1>3, SumNat, Zenon
  <2> QED
    BY <2>2, <2>4, <2>5
<1>7. SumFunctionOnSet(z, A) \in Nat /\ SumFunctionOnSet(z, B) \in Nat
  BY <1>2, <1>3, SumNat, Zenon
<1>8. Cardinality(A) = Cardinality(C) - Cardinality(B)
  BY <1>2, <1>3, FS_Difference, Zenon
<1> QED
  BY <1>1, <1>4, <1>5, <1>6, <1>7, <1>8

-----------------------------------------------------------------------------
(* The inductive invariant.                                                *)

\* The totals of the sizes z are u bytes, c entries and, by front-end, e.
Numbers(z, u, c, e) ==
    /\ u = Total(z, Keys) /\ c = Count(z, Keys) /\ DOMAIN e = Frontends
    /\ \A f \in Frontends :
          e[f].entries = Count(z, OfFrontend(f)) /\ e[f].bytes = Total(z, OfFrontend(f))

\* q lists the keys of ks, each once.
Lists(q, ks) == q \in Seq(Keys) /\ IsInjective(q) /\ Range(q) = ks

\* q goes from the newest to the oldest, as far as a clock reading tells.
Newest(q) == \A i, j \in DOMAIN q : i < j => at[q[j]] <= at[q[i]] + Skew

IInv ==
    /\ Lists(list, Has(size)) /\ Numbers(size, used, n, fe)
    /\ Sized(size) /\ (\A k \in Keys : size[k] # Absent => size[k] \in Sizes)
    /\ at \in [Keys -> Nat]
    /\ cold \in BOOLEAN /\ tombs \subseteq Keys /\ now \in Nat
    /\ \A k \in Keys : at[k] <= now
    /\ ~cold => Newest(list)

\* The front-ends partition the keys.
LEMMA FrontendSets ==
    /\ \A f \in Frontends : OfFrontend(f) \in SUBSET Keys
    /\ \A k \in Keys : FrontendOf[k] \in Frontends /\ \A f \in Frontends : k \in OfFrontend(f) <=> f = FrontendOf[k]
BY FrontendsAssumption, Zenon DEF OfFrontend

-----------------------------------------------------------------------------
(* The totals.                                                             *)

\* An entry replaces another one, or none (index.go set).
LEMMA SetNumbers ==
    ASSUME NEW z, Sized(z), NEW k \in Keys, NEW s \in Nat \ {0}, NEW y, Writes(z, k, s, y),
           NEW u, NEW c, NEW e, Numbers(z, u, c, e)
    PROVE  Numbers(y, u - z[k] + s, c - One(z, k) + 1,
                   account(account(e, FrontendOf[k], -One(z, k), -z[k]), FrontendOf[k], 1, s))
<1>1. PICK g : g = FrontendOf[k]
  BY Zenon
<1>2. g \in Frontends /\ \A f \in Frontends : OfFrontend(f) \in SUBSET Keys /\ (k \in OfFrontend(f) <=> f = g)
  BY <1>1, FrontendSets, Zenon
<1>3. PICK d : d = account(account(e, g, -One(z, k), -z[k]), g, 1, s)
  BY Zenon
<1>4. /\ DOMAIN d = Frontends
      /\ \A f \in Frontends \ {g} : d[f] = e[f]
      /\ d[g].entries = e[g].entries + (-One(z, k)) + 1
      /\ d[g].bytes = e[g].bytes + (-z[k]) + s
  BY <1>2, <1>3, Zenon DEF account, Numbers
<1>5. z[k] \in Nat /\ One(z, k) \in Nat
  BY Zenon DEF One, Sized
<1>6. ASSUME NEW f \in Frontends
      PROVE  d[f].entries = Count(y, OfFrontend(f)) /\ d[f].bytes = Total(y, OfFrontend(f))
  <2>1. PICK G : G = OfFrontend(f)
    BY Zenon
  <2>2. G \in SUBSET Keys /\ (k \in G <=> f = g) /\ e[f].entries = Count(z, G) /\ e[f].bytes = Total(z, G)
    BY <1>2, <2>1, Zenon DEF Numbers
  <2>3. CASE f # g
    BY <1>4, <2>1, <2>2, <2>3, PutTotals
  <2>4. CASE f = g
    <3>1. Total(y, G) = Total(z, G) - z[k] + s /\ Count(y, G) = Count(z, G) - One(z, k) + 1
      BY <2>2, <2>4, PutTotals
    <3>2. Total(z, G) \in Nat /\ Count(z, G) \in Nat
      BY <2>2, TotalsNat, Zenon
    <3>3. /\ Count(z, G) + (-One(z, k)) + 1 = Count(z, G) - One(z, k) + 1
          /\ Total(z, G) + (-z[k]) + s = Total(z, G) - z[k] + s
      BY <1>5, <3>2, Zenon
    <3> QED
      BY <1>4, <2>1, <2>2, <2>4, <3>1, <3>3, Zenon
  <2> QED
    BY <2>3, <2>4, Zenon
<1>7. Total(y, Keys) = u - z[k] + s /\ Count(y, Keys) = c - One(z, k) + 1
  <2>1. PICK G \in SUBSET Keys : G = Keys
    BY Zenon
  <2>2. k \in G
    BY <2>1, Zenon
  <2>3. Total(y, G) = Total(z, G) - z[k] + s /\ Count(y, G) = Count(z, G) - One(z, k) + 1
    BY <2>2, PutTotals
  <2> QED
    BY <2>1, <2>3, Zenon DEF Numbers
<1> QED
  BY <1>1, <1>3, <1>4, <1>6, <1>7, Zenon DEF Numbers

\* An entry is new (index.go addIfAbsent).
LEMMA AddNumbers ==
    ASSUME NEW z, Sized(z), NEW k \in Keys, NEW s \in Nat \ {0}, NEW y, Writes(z, k, s, y),
           NEW u, NEW c, NEW e, Numbers(z, u, c, e), z[k] = Absent
    PROVE  Numbers(y, u + s, c + 1, account(e, FrontendOf[k], 1, s))
<1>1. PICK g : g = FrontendOf[k]
  BY Zenon
<1>2. z[k] = 0 /\ One(z, k) = 0 /\ g \in Frontends
  BY <1>1, FrontendSets, Zenon DEF One, Absent
<1>3. /\ u \in Nat /\ c \in Nat
      /\ e[g].entries \in Nat /\ e[g].bytes \in Nat
  BY <1>2, TotalsNat, FrontendSets, Keys \in SUBSET Keys DEF Numbers
<1>4. u - z[k] + s = u + s /\ c - One(z, k) + 1 = c + 1
  BY <1>2, <1>3
<1>5. account(account(e, g, -One(z, k), -z[k]), g, 1, s) = account(e, g, 1, s)
  BY <1>2, <1>3 DEF account, Numbers
<1> QED
  BY <1>1, <1>4, <1>5, SetNumbers, Zenon

\* Entries go (index.go removeLocked).
LEMMA DropNumbers ==
    ASSUME NEW z, Sized(z), NEW ks \in SUBSET Keys, NEW y, Drops(z, ks, y),
           NEW u, NEW c, NEW e, Numbers(z, u, c, e)
    PROVE  Numbers(y, u - SumFunctionOnSet(z, ks), c - Cardinality(ks \cap Has(z)), Less(z, ks, e))
<1>1. ks \cap Keys = ks /\ ks \cap Has(z) \cap Keys = ks \cap Has(z) /\ Keys \in SUBSET Keys
  BY Zenon DEF Has
<1>2. ASSUME NEW G \in SUBSET Keys
      PROVE  /\ Total(y, G) = Total(z, G) - SumFunctionOnSet(z, ks \cap G)
             /\ Count(y, G) = Count(z, G) - Cardinality(ks \cap Has(z) \cap G)
  BY DropTotals
<1>3. \A f \in Frontends :
        /\ Total(y, OfFrontend(f)) = Total(z, OfFrontend(f)) - SumFunctionOnSet(z, ks \cap OfFrontend(f))
        /\ Count(y, OfFrontend(f)) = Count(z, OfFrontend(f)) - Cardinality(ks \cap Has(z) \cap OfFrontend(f))
  BY <1>2, FrontendSets, Zenon
<1>4. Total(y, Keys) = u - SumFunctionOnSet(z, ks) /\ Count(y, Keys) = c - Cardinality(ks \cap Has(z))
  BY <1>1, <1>2, Zenon DEF Numbers
<1> QED
  BY <1>3, <1>4, Zenon DEF Numbers, Less

-----------------------------------------------------------------------------
(* The LRU list.                                                           *)

Pushed(k, q, r) == \A i \in DOMAIN r : (i = 1 /\ r[i] = k) \/ (i - 1 \in DOMAIN q /\ r[i] = q[i - 1])

\* A key that is not in the list is put in front (index.go linkFront).
LEMMA PushLists ==
    ASSUME NEW q, NEW ks, Lists(q, ks), NEW k \in Keys, k \notin ks, NEW r, r = <<k>> \o q
    PROVE  /\ Lists(r, ks \cup {k})
           /\ Pushed(k, q, r)
<1>1. r = <<k>> \o q
  BY Zenon
<1>2. q \in Seq(Keys) /\ IsInjective(q) /\ Range(q) = ks
  BY Zenon DEF Lists
<1>3. r \in Seq(Keys) /\ DOMAIN r = 1 .. Len(q) + 1 /\ DOMAIN q = 1 .. Len(q) /\ Len(q) \in Nat
  BY <1>1, <1>2
<1>4. /\ r[1] = k
      /\ \A i \in DOMAIN q : i + 1 \in DOMAIN r /\ r[i + 1] = q[i]
  BY <1>1, <1>2, <1>3
<1>5. \A i \in DOMAIN r : i = 1 \/ (i - 1 \in DOMAIN q /\ r[i] = q[i - 1])
  BY <1>1, <1>2, <1>3
<1>6. \A i \in DOMAIN q : q[i] \in ks
  BY <1>2, Zenon DEF Range
<1>7. Range(r) = ks \cup {k}
  <2>1. ASSUME NEW i \in DOMAIN r PROVE r[i] \in ks \cup {k}
    BY <1>4, <1>5, <1>6, Zenon
  <2>2. ASSUME NEW x \in ks PROVE x \in Range(r)
    <3>1. PICK i \in DOMAIN q : x = q[i]
      BY <1>2, Zenon DEF Range
    <3> QED
      BY <1>4, <3>1, Zenon DEF Range
  <2>3. k \in Range(r)
    BY <1>3, <1>4 DEF Range
  <2> QED
    BY <2>1, <2>2, <2>3, Zenon DEF Range
<1>8. ASSUME NEW a \in DOMAIN r, NEW b \in DOMAIN r, r[a] = r[b] PROVE a = b
  <2>1. CASE a = 1
    BY <1>3, <1>4, <1>5, <1>6, <1>8, <2>1, Zenon
  <2>2. CASE b = 1
    BY <1>3, <1>4, <1>5, <1>6, <1>8, <2>2
  <2>3. CASE a # 1 /\ b # 1
    <3>1. a - 1 \in DOMAIN q /\ b - 1 \in DOMAIN q /\ q[a - 1] = q[b - 1]
      BY <1>5, <1>8, <2>3, Zenon
    <3>2. a - 1 = b - 1
      BY <1>2, <3>1, Zenon DEF IsInjective
    <3> QED
      BY <1>3, <3>2
  <2> QED
    BY <2>1, <2>2, <2>3, Zenon
<1>9. IsInjective(r)
  BY <1>8, Zenon DEF IsInjective
<1>10. Lists(r, ks \cup {k})
  BY <1>3, <1>7, <1>9, Zenon DEF Lists
<1>11. Pushed(k, q, r)
  <2>1. ASSUME NEW i \in DOMAIN r PROVE (i = 1 /\ r[i] = k) \/ (i - 1 \in DOMAIN q /\ r[i] = q[i - 1])
    <3>1. i = 1 => r[i] = k
      BY <1>4, Zenon
    <3> QED
      BY <1>5, <3>1, Zenon
  <2> QED
    BY <2>1, Zenon DEF Pushed
<1> QED
  BY <1>10, <1>11, Zenon

\* The entries that are unlinked go, and the others stay in their order
\* (index.go unlink).
LEMMA UnlinkLists ==
    ASSUME NEW q, NEW ks, Lists(q, ks), NEW T
    PROVE  /\ Lists(Filter(q, T), ks \cap T)
           /\ Newest(q) => Newest(Filter(q, T))
<1>1. PICK r : r = Filter(q, T)
  BY Zenon
<1>2. q \in Seq(Keys) /\ IsInjective(q) /\ Range(q) = ks
  BY Zenon DEF Lists
<1>3. /\ r \in Seq(Keys) /\ Range(r) = Range(q) \cap T
      /\ IsInjective(q) => IsInjective(r)
      /\ \A a, b \in DOMAIN r : a < b => \E j, l \in DOMAIN q : j < l /\ q[j] = r[a] /\ q[l] = r[b]
  BY <1>1, <1>2, FilterOK
<1>4. ASSUME Newest(q), NEW a \in DOMAIN r, NEW b \in DOMAIN r, a < b
      PROVE  at[r[b]] <= at[r[a]] + Skew
  <2>1. PICK j, l \in DOMAIN q : j < l /\ q[j] = r[a] /\ q[l] = r[b]
    BY <1>3, <1>4, Zenon
  <2> QED
    BY <1>4, <2>1, Zenon DEF Newest
<1> QED
  BY <1>1, <1>2, <1>3, <1>4, Zenon DEF Lists, Newest

\* The list is rebuilt from the entries (disk.go sortEntriesByAccess).
LEMMA SortLists ==
    ASSUME sortByAccess, NEW z, z = size, at \in [Keys -> Nat]
    PROVE  /\ Lists(list', Has(z))
           /\ \A i, j \in DOMAIN list' : i < j => at[list'[j]] <= at[list'[i]] + Skew
<1>1. PICK q, L : q = list' /\ L = Listed
  BY Zenon
<1>2. /\ q \in [1 .. Cardinality(L) -> L] /\ IsInjective(q)
      /\ \A i, j \in DOMAIN q : i < j => at[q[i]] >= at[q[j]]
  BY <1>1, Zenon DEF sortByAccess
<1>3. L = Has(z) /\ L \in SUBSET Keys
  BY <1>1, Zenon DEF Has, Listed
<1>4. IsFiniteSet(L) /\ Cardinality(L) \in Nat
  BY <1>3, Finite, Zenon
<1>5. q \in Seq(Keys)
  BY <1>2, <1>3, <1>4
<1>6. Range(q) = L
  <2>1. q \in Injection(1 .. Cardinality(L), L)
    BY <1>2, Zenon DEF Injection, IsInjective
  <2>2. Cardinality(1 .. Cardinality(L)) = Cardinality(L)
    BY <1>4, FS_Interval
  <2>3. q \in Surjection(1 .. Cardinality(L), L)
    BY <1>4, <2>1, <2>2, FS_Injection, Zenon
  <2> QED
    BY <1>2, <2>3 DEF Surjection, Range
<1>7. \A i, j \in DOMAIN q : i < j => at[q[j]] <= at[q[i]] + Skew
  <2>1. \A i \in DOMAIN q : at[q[i]] \in Nat
    BY <1>2, <1>3, Zenon
  <2> QED
    BY <1>2, <2>1, ClockAssumption
<1> QED
  BY <1>1, <1>2, <1>3, <1>5, <1>6, <1>7, Zenon DEF Lists

\* The entry in front is stamped with a recent reading of the clock, or the
\* index is cold (index.go set, addIfAbsent, touch).
LEMMA PushOK ==
    ASSUME IInv, NEW k \in Keys, NEW t \in 0 .. now, ~cold => now - t <= Skew,
           NEW q, NEW ks, Lists(q, ks), k \notin ks, ~cold => Newest(q),
           list' = <<k>> \o q, at' = [at EXCEPT ![k] = t], UNCHANGED <<cold, now>>
    PROVE  /\ Lists(list', ks \cup {k})
           /\ at' \in [Keys -> Nat] /\ (\A x \in Keys : at'[x] <= now') /\ now' \in Nat /\ cold' \in BOOLEAN
           /\ ~cold' => Newest(list)'
<1>1. /\ Lists(list', ks \cup {k})
      /\ \A i \in DOMAIN list' : (i = 1 /\ list'[i] = k) \/ (i - 1 \in DOMAIN q /\ list'[i] = q[i - 1])
  <2>1. PICK r : r = list'
    BY Zenon
  <2>2. r = <<k>> \o q
    BY <2>1, Zenon
  <2>3. /\ Lists(r, ks \cup {k})
        /\ Pushed(k, q, r)
    BY <2>2, PushLists, Zenon
  <2> QED
    BY <2>1, <2>3, Zenon DEF Pushed
<1>2. at \in [Keys -> Nat] /\ now \in Nat /\ cold \in BOOLEAN /\ \A x \in Keys : at[x] <= now
  BY Zenon DEF IInv
<1>3. at' \in [Keys -> Nat] /\ at'[k] = t /\ \A x \in Keys \ {k} : at'[x] = at[x]
  BY <1>2
<1>4. \A x \in Keys : at'[x] <= now'
  BY <1>2, <1>3
<1>5. \A i \in DOMAIN q : q[i] \in Keys \ {k}
  BY DEF Lists, Range
<1>6. ASSUME ~cold, NEW i \in DOMAIN list', NEW j \in DOMAIN list', i < j
      PROVE  at'[list'[j]] <= at'[list'[i]] + Skew
  <2>1. i \in Nat /\ j \in Nat /\ 1 <= i /\ Skew \in Nat
    BY <1>1, ClockAssumption DEF Lists
  <2>2. j - 1 \in DOMAIN q /\ list'[j] = q[j - 1]
    BY <1>1, <1>6, <2>1
  <2>3. CASE i = 1 /\ list'[i] = k
    <3>1. at'[list'[j]] \in Nat /\ at'[list'[j]] <= now
      BY <1>2, <1>3, <1>5, <2>2, Zenon
    <3>2. at'[list'[i]] = t
      BY <1>3, <2>3, Zenon
    <3>3. now \in Nat /\ t \in 0 .. now /\ now - t <= Skew /\ Skew \in Nat
      BY <1>2, <1>6, <2>1, Zenon
    <3>4. \A x \in Nat : x <= now => x <= t + Skew
      BY <3>3
    <3> QED
      BY <3>1, <3>2, <3>4, Zenon
  <2>4. CASE i - 1 \in DOMAIN q /\ list'[i] = q[i - 1]
    <3>1. at[q[j - 1]] <= at[q[i - 1]] + Skew
      BY <1>6, <2>1, <2>2, <2>4 DEF Newest
    <3> QED
      BY <1>3, <1>5, <2>2, <2>4, <3>1, Zenon
  <2> QED
    BY <1>1, <2>3, <2>4, Zenon
<1> QED
  BY <1>1, <1>2, <1>3, <1>4, <1>6, Zenon DEF Newest

\* The steps.
LEMMA SetOK ==
    ASSUME IInv, NEW k \in Keys, NEW s \in Sizes, NEW t \in Reading, set(k, s, t)
    PROVE  IInv'
<1>1. PICK q, ks : q = Filter(list, Keys \ {k}) /\ ks = Has(size) \cap (Keys \ {k})
  BY Zenon
<1>2. Lists(q, ks) /\ (~cold => Newest(q)) /\ k \notin ks
  BY <1>1, UnlinkLists, Zenon DEF IInv
<1>3. t \in 0 .. now /\ now - t <= Skew /\ s \in Nat \ {0}
  BY SizesAssumption, Zenon DEF Reading
<1>4. list' = <<k>> \o q /\ at' = [at EXCEPT ![k] = t] /\ UNCHANGED <<cold, now>>
  BY <1>1, Zenon DEF set, unlink
<1>5. /\ Lists(list', ks \cup {k})
      /\ at' \in [Keys -> Nat] /\ (\A x \in Keys : at'[x] <= now') /\ now' \in Nat /\ cold' \in BOOLEAN
      /\ ~cold' => Newest(list)'
  BY <1>2, <1>3, <1>4, PushOK, Zenon
<1>6. Sized(size) /\ Writes(size, k, s, size') /\ tombs' \subseteq Keys
  BY Zenon DEF IInv, set, Writes
<1>7. Sized(size') /\ Has(size') = ks \cup {k} /\ \A x \in Keys : size'[x] # Absent => size'[x] \in Sizes
  BY <1>1, <1>3, <1>6, Zenon DEF Sized, Writes, Has, IInv, Absent
<1>8. Numbers(size, used, n, fe)'
  <2>1. /\ used' = used - size[k] + s /\ n' = n - One(size, k) + 1
        /\ fe' = account(account(fe, FrontendOf[k], -One(size, k), -size[k]), FrontendOf[k], 1, s)
    BY Zenon DEF set, One
  <2>2. Numbers(size', used - size[k] + s, n - One(size, k) + 1,
                account(account(fe, FrontendOf[k], -One(size, k), -size[k]), FrontendOf[k], 1, s))
    BY <1>3, <1>6, SetNumbers, Zenon DEF IInv
  <2> QED
    BY <2>1, <2>2, Zenon
<1> QED
  BY <1>5, <1>6, <1>7, <1>8, Zenon DEF IInv

\* The walk's and observe's insertion keeps the invariant (index.go
\* addIfAbsent).
LEMMA AddOK ==
    ASSUME IInv, NEW k \in Keys, NEW s \in Sizes, NEW t \in 0 .. now, ~cold => now - t <= Skew,
           addIfAbsent(k, s, t)
    PROVE  IInv'
<1>1. PICK ks : ks = Has(size)
  BY Zenon
<1>2. Lists(list, ks) /\ (~cold => Newest(list)) /\ k \notin ks /\ s \in Nat \ {0}
  BY <1>1, SizesAssumption, Zenon DEF IInv, addIfAbsent, Has
<1>3. list' = <<k>> \o list /\ at' = [at EXCEPT ![k] = t] /\ UNCHANGED <<cold, now>>
  BY Zenon DEF addIfAbsent
<1>4. /\ Lists(list', ks \cup {k})
      /\ at' \in [Keys -> Nat] /\ (\A x \in Keys : at'[x] <= now') /\ now' \in Nat /\ cold' \in BOOLEAN
      /\ ~cold' => Newest(list)'
  BY <1>2, <1>3, PushOK, Zenon
<1>5. Sized(size) /\ Writes(size, k, s, size') /\ tombs' \subseteq Keys /\ size[k] = Absent
  BY Zenon DEF IInv, addIfAbsent, Writes
<1>6. Sized(size') /\ Has(size') = ks \cup {k} /\ \A x \in Keys : size'[x] # Absent => size'[x] \in Sizes
  BY <1>1, <1>2, <1>5, Zenon DEF Sized, Writes, Has, IInv, Absent
<1>7. Numbers(size, used, n, fe)'
  <2>1. used' = used + s /\ n' = n + 1 /\ fe' = account(fe, FrontendOf[k], 1, s)
    BY Zenon DEF addIfAbsent
  <2>2. Numbers(size', used + s, n + 1, account(fe, FrontendOf[k], 1, s))
    BY <1>2, <1>5, AddNumbers, Zenon DEF IInv
  <2> QED
    BY <2>1, <2>2, Zenon
<1> QED
  BY <1>4, <1>5, <1>6, <1>7, Zenon DEF IInv

\* A hit keeps the invariant (index.go touch).
LEMMA TouchOK ==
    ASSUME IInv, NEW k \in Keys, NEW t \in Reading, touch(k, t)
    PROVE  IInv'
<1>1. PICK q, ks : q = Filter(list, Keys \ {k}) /\ ks = Has(size) \cap (Keys \ {k})
  BY Zenon
<1>2. Lists(q, ks) /\ (~cold => Newest(q)) /\ k \notin ks
  BY <1>1, UnlinkLists, Zenon DEF IInv
<1>3. t \in 0 .. now /\ now - t <= Skew /\ Has(size) = ks \cup {k}
  BY <1>1, Zenon DEF Reading, touch, Has
<1>4. list' = <<k>> \o q /\ at' = [at EXCEPT ![k] = t] /\ UNCHANGED <<cold, now>>
  BY <1>1, Zenon DEF touch, unlink
<1>5. /\ Lists(list', ks \cup {k})
      /\ at' \in [Keys -> Nat] /\ (\A x \in Keys : at'[x] <= now') /\ now' \in Nat /\ cold' \in BOOLEAN
      /\ ~cold' => Newest(list)'
  BY <1>2, <1>3, <1>4, PushOK, Zenon
<1>6. UNCHANGED <<size, used, n, fe, tombs>>
  BY Zenon DEF touch
<1> QED
  BY <1>3, <1>5, <1>6, Zenon DEF IInv

\* Removing any set of keys keeps the invariant (index.go removeLocked).
LEMMA RemoveOK ==
    ASSUME IInv, NEW ks \in SUBSET Keys, removeAll(ks)
    PROVE  IInv'
<1>1. Lists(list', Has(size) \cap (Keys \ ks)) /\ (Newest(list) => Newest(list'))
  BY UnlinkLists, Zenon DEF IInv, removeAll, unlink
<1>2. UNCHANGED <<at, cold, now>> /\ tombs' \subseteq Keys
  BY Zenon DEF removeAll, IInv
<1>3. Sized(size) /\ Drops(size, ks, size')
  BY Zenon DEF IInv, removeAll, Drops
<1>4. /\ Sized(size') /\ Has(size') = Has(size) \cap (Keys \ ks)
      /\ \A x \in Keys : size'[x] # Absent => size'[x] \in Sizes
  BY <1>3, Zenon DEF Sized, Drops, Has, IInv, Absent
<1>5. Numbers(size, used, n, fe)'
  <2>1. /\ used' = used - SumFunctionOnSet(size, ks) /\ n' = n - Cardinality(ks \cap Has(size))
        /\ fe' = Less(size, ks, fe)
    BY Zenon DEF removeAll, Bytes, Listed, Has, Less
  <2>2. Numbers(size', used - SumFunctionOnSet(size, ks), n - Cardinality(ks \cap Has(size)),
                Less(size, ks, fe))
    BY <1>3, DropNumbers, Zenon DEF IInv
  <2> QED
    BY <2>1, <2>2, Zenon
<1>6. ~cold' => Newest(list)'
  BY <1>1, <1>2, Zenon DEF IInv, Newest
<1> QED
  BY <1>1, <1>2, <1>4, <1>5, <1>6, Zenon DEF IInv

\* takeLRU takes entries of the front-ends it is asked for.
LEMMA Candidates ==
    ASSUME IInv, NEW frontends
    PROVE  LET c == Filter(FromTail, {k \in Keys : FrontendOf[k] \in frontends}) IN
           Lists(c, {k \in Has(size) : FrontendOf[k] \in frontends})
<1>1. PICK r : r = FromTail
  BY Zenon
<1>2. list \in Seq(Keys) /\ IsInjective(list) /\ Range(list) = Has(size)
  BY Zenon DEF IInv, Lists
<1>3. r \in Seq(Keys) /\ DOMAIN r = DOMAIN list /\ DOMAIN list = 1 .. Len(list) /\ Len(list) \in Nat
  BY <1>1, <1>2 DEF FromTail
<1>4. \A i \in DOMAIN list : Len(list) - i + 1 \in DOMAIN list /\ r[i] = list[Len(list) - i + 1]
  BY <1>1, <1>2, <1>3 DEF FromTail
<1>5. IsInjective(r)
  <2>1. ASSUME NEW a \in DOMAIN r, NEW b \in DOMAIN r, r[a] = r[b] PROVE a = b
    <3>1. Len(list) - a + 1 = Len(list) - b + 1
      BY <1>2, <1>3, <1>4, <2>1, Zenon DEF IsInjective
    <3> QED
      BY <1>3, <3>1
  <2> QED
    BY <2>1, Zenon DEF IsInjective
<1>6. Range(r) = Has(size)
  <2>1. \A i \in DOMAIN r : r[i] \in Range(list)
    BY <1>3, <1>4, Zenon DEF Range
  <2>2. ASSUME NEW i \in DOMAIN list PROVE list[i] \in Range(r)
    <3>1. Len(list) - i + 1 \in DOMAIN r /\ r[Len(list) - i + 1] = list[i]
      BY <1>3, <1>4
    <3> QED
      BY <3>1, Zenon DEF Range
  <2> QED
    BY <1>2, <2>1, <2>2, Zenon DEF Range
<1>7. Lists(r, Has(size))
  BY <1>3, <1>5, <1>6, Zenon DEF Lists
<1>8. PICK T : T = {k \in Keys : FrontendOf[k] \in frontends}
  BY Zenon
<1>9. Has(size) \cap T = {k \in Has(size) : FrontendOf[k] \in frontends}
  BY <1>8, Zenon DEF Has
<1>10. Lists(Filter(r, T), Has(size) \cap T)
  BY <1>7, UnlinkLists, Zenon
<1> QED
  BY <1>1, <1>8, <1>9, <1>10, Zenon

\* What takeLRU removes.
Victims(bytes, frontends) ==
    LET c == Filter(FromTail, {k \in Keys : FrontendOf[k] \in frontends})
        before(i) == Bytes({c[j] : j \in 1 .. i - 1})
    IN  {c[i] : i \in {i \in DOMAIN c : before(i) < bytes}}

\* Only entries of the index are evicted (index.go takeLRU).
LEMMA VictimsAreListed ==
    ASSUME IInv, NEW bytes, NEW frontends
    PROVE  Victims(bytes, frontends) \in SUBSET {k \in Has(size) : FrontendOf[k] \in frontends}
<1>1. PICK c : c = Filter(FromTail, {k \in Keys : FrontendOf[k] \in frontends})
  BY Zenon
<1>2. \A i \in DOMAIN c : c[i] \in {k \in Has(size) : FrontendOf[k] \in frontends}
  <2>1. PICK ks : ks = {k \in Has(size) : FrontendOf[k] \in frontends}
    BY Zenon
  <2>2. Lists(c, ks)
    BY <1>1, <2>1, Candidates, Zenon
  <2> QED
    BY <2>1, <2>2, Zenon DEF Lists, Range
<1> QED
  BY <1>1, <1>2, Zenon DEF Victims

\* Eviction keeps the invariant (index.go takeLRU).
LEMMA EvictOK ==
    ASSUME IInv, Evict
    PROVE  IInv'
<1>1. PICK bytes, frontends : takeLRU(bytes, frontends)
  BY Zenon DEF Evict
<1>2. removeAll(Victims(bytes, frontends))
  BY <1>1, Zenon DEF takeLRU, Victims
<1>3. Victims(bytes, frontends) \in SUBSET Keys
  BY VictimsAreListed, Zenon DEF Has
<1> QED
  BY <1>2, <1>3, RemoveOK, Zenon

\* The end of the walk keeps the invariant (index.go finishWalk).
LEMMA FinishOK ==
    ASSUME IInv, finishWalk
    PROVE  IInv'
<1>1. at \in [Keys -> Nat] /\ sortByAccess /\ UNCHANGED <<size, at, used, n, fe, now>> /\ cold' = FALSE /\ tombs' = {}
  BY Zenon DEF IInv, finishWalk
<1>2. /\ Lists(list', Has(size))
      /\ \A i, j \in DOMAIN list' : i < j => at[list'[j]] <= at[list'[i]] + Skew
  BY <1>1, SortLists, Zenon
<1> QED
  BY <1>1, <1>2, Zenon DEF IInv, Newest

\* The totals that load counts are those it finds again (index.go load).
LEMMA LoadOK ==
    ASSUME IInv, load
    PROVE  IInv'
<1>1. at \in [Keys -> Nat] /\ sortByAccess /\ UNCHANGED <<size, at, cold, now>> /\ tombs' = {}
  BY Zenon DEF IInv, load
<1>2. /\ Lists(list', Has(size))
      /\ \A i, j \in DOMAIN list' : i < j => at[list'[j]] <= at[list'[i]] + Skew
  BY <1>1, SortLists, Zenon
<1>3. Has(size) = Listed /\ Has(size) \cap Keys = Has(size)
  BY Zenon DEF Has, Listed
<1>4. Numbers(size, used', n', fe')
  <2>1. used' = Total(size, Keys) /\ n' = Count(size, Keys)
    BY <1>3, Zenon DEF load, Total, Count, Bytes
  <2>2. DOMAIN fe' = Frontends
    BY Zenon DEF load
  <2>3. ASSUME NEW f \in Frontends
        PROVE  fe'[f].entries = Count(size, OfFrontend(f)) /\ fe'[f].bytes = Total(size, OfFrontend(f))
    BY <1>3, Zenon DEF load, Total, Count, Bytes
  <2> QED
    BY <2>1, <2>2, <2>3, Zenon DEF Numbers
<1> QED
  BY <1>1, <1>2, <1>4, Zenon DEF IInv, Newest

\* An index without entries.
LEMMA EmptyOK ==
    ASSUME NEW z, z = [k \in Keys |-> Absent]
    PROVE  /\ Sized(z) /\ Has(z) = {} /\ Lists(<<>>, {})
           /\ Numbers(z, 0, 0, [f \in Frontends |-> [entries |-> 0, bytes |-> 0]])
<1>1. Sized(z) /\ Has(z) = {}
  BY Zenon DEF Sized, Has, Absent
<1>2. Lists(<<>>, {})
  BY DEF Lists, IsInjective, Range
<1>3. \A G : Has(z) \cap G = {}
  BY <1>1, Zenon
<1>4. \A G : Total(z, G) = 0 /\ Count(z, G) = 0
  BY <1>3, FS_EmptySet, SumDef, Zenon DEF Total, Count
<1> QED
  BY <1>1, <1>2, <1>4, Zenon DEF Numbers

\* Every step keeps the invariant.
LEMMA IndexStepOK ==
    ASSUME IInv, [Next]_vars
    PROVE  IInv'
<1>1. ASSUME NEW k \in Keys, NEW s \in Sizes, NEW t \in Reading, set(k, s, t) \/ addIfAbsent(k, s, t) PROVE IInv'
  BY <1>1, SetOK, AddOK, Zenon DEF Reading
<1>2. ASSUME NEW k \in Keys, NEW t \in Reading, touch(k, t) PROVE IInv'
  BY <1>2, TouchOK, Zenon
<1>3. ASSUME NEW k \in Keys, remove(k) PROVE IInv'
  BY <1>3, RemoveOK, Zenon DEF remove
<1>4. CASE Walk
  BY <1>4, AddOK, Zenon DEF Walk
<1>5. CASE newIndex
  <2>1. at' \in [Keys -> Nat] /\ \A k \in Keys : at'[k] = 0
    BY <1>5, Zenon DEF newIndex
  <2>2. UNCHANGED now /\ now \in Nat /\ cold' = TRUE /\ tombs' = {}
    BY <1>5, Zenon DEF newIndex, IInv
  <2>3. /\ Lists(list', Has(size')) /\ Numbers(size', used', n', fe') /\ Sized(size')
        /\ \A k \in Keys : size'[k] = Absent
    BY <1>5, EmptyOK, Zenon DEF newIndex
  <2> QED
    BY <2>1, <2>2, <2>3 DEF IInv
<1>6. CASE Tick
  BY <1>6 DEF Tick, IInv, Newest
<1>7. CASE UNCHANGED vars
  BY <1>7, Zenon DEF vars, IInv, Newest
<1> QED
  BY <1>1, <1>2, <1>3, <1>4, <1>5, <1>6, <1>7, EvictOK, FinishOK, LoadOK, Zenon DEF Next

\* The list, the totals and the clock readings are as the invariant says in
\* every state.
THEOREM Invariant == Spec => []IInv
<1>1. Init => IInv
  <2> SUFFICES ASSUME Init PROVE IInv
    BY Zenon
  <2>1. at \in [Keys -> Nat] /\ \A k \in Keys : at[k] = 0
    BY Zenon DEF Init
  <2>2. /\ Lists(list, Has(size)) /\ Numbers(size, used, n, fe) /\ Sized(size)
        /\ \A k \in Keys : size[k] = Absent
    BY EmptyOK, Zenon DEF Init
  <2> QED
    BY <2>1, <2>2 DEF IInv, Init
<1>2. IInv /\ [Next]_vars => IInv'
  BY IndexStepOK, Zenon
<1> QED
  BY <1>1, <1>2, PTL DEF Spec

\* The list holds every entry once, and the totals of bytes and entries, of
\* the volume and of each front-end, are those of the map after any sequence
\* of operations (index.go account, set, addIfAbsent, removeLocked, takeLRU,
\* load), whatever the number of keys and front-ends.
THEOREM TotalsAreExact == Spec => []TotalsExact
<1>1. IInv => TotalsExact
  <2> SUFFICES ASSUME IInv PROVE TotalsExact
    BY Zenon
  <2>1. Has(size) = Listed /\ Has(size) \cap Keys = Has(size)
    BY Zenon DEF Has, Listed
  <2>2. IsInjective(list) /\ Range(list) = Listed
    BY <2>1, Zenon DEF IInv, Lists
  <2>3. used = Bytes(Listed) /\ n = Cardinality(Listed)
    BY <2>1, Zenon DEF IInv, Numbers, Total, Count, Bytes
  <2>4. ASSUME NEW f \in Frontends
        PROVE  /\ fe[f].entries = Cardinality(Listed \cap OfFrontend(f))
               /\ fe[f].bytes = Bytes(Listed \cap OfFrontend(f))
    BY <2>1, Zenon DEF IInv, Numbers, Total, Count, Bytes
  <2> QED
    BY <2>2, <2>3, <2>4, Zenon DEF TotalsExact
<1> QED
  BY <1>1, Invariant, PTL

-----------------------------------------------------------------------------
(* Eviction.                                                               *)

\* The first i keys of c.
First(c, i) == {c[j] : j \in 1 .. i}

\* The victims are the first candidates, as few as account for the bytes.
Enough(c, bytes, m) ==
    /\ m \in 0 .. Len(c)
    /\ m < Len(c) => Bytes(First(c, m)) >= bytes
    /\ Len(c) > 0 => m > 0 /\ Bytes(First(c, m - 1)) < bytes

\* More entries have no fewer bytes.
LEMMA BytesGrow ==
    ASSUME Sized(size), NEW S \in SUBSET Keys, NEW T \in SUBSET S
    PROVE  Bytes(T) \in Nat /\ Bytes(S) \in Nat /\ Bytes(T) <= Bytes(S)
<1>1. IsFiniteSet(S) /\ IsFiniteSet(T) /\ IsFiniteSet(S \ T) /\ \A k \in S : size[k] \in Nat
  BY Finite, Zenon DEF Sized
<1>2. SumFunctionOnSet(size, T) \in Nat /\ SumFunctionOnSet(size, S \ T) \in Nat
  BY <1>1, SumNat, Zenon
<1>3. SumFunctionOnSet(size, S) = SumFunctionOnSet(size, T) + SumFunctionOnSet(size, S \ T)
  BY <1>1, SumSplit
<1> QED
  BY <1>2, <1>3 DEF Bytes

\* The victims are the first candidates from the tail, as many as the bytes
\* asked for take and no more (index.go takeLRU).
LEMMA VictimsAreFirst ==
    ASSUME IInv, NEW bytes \in Nat \ {0}, NEW frontends,
           NEW c, c = Filter(FromTail, {k \in Keys : FrontendOf[k] \in frontends})
    PROVE  \E m : Enough(c, bytes, m) /\ Victims(bytes, frontends) = First(c, m)
<1>1. c \in Seq(Keys) /\ DOMAIN c = 1 .. Len(c) /\ Len(c) \in Nat /\ Sized(size)
  <2>1. Lists(c, {k \in Has(size) : FrontendOf[k] \in frontends})
    BY Candidates, Zenon
  <2>2. c \in Seq(Keys)
    BY <2>1, Zenon DEF Lists
  <2> QED
    BY <2>2 DEF IInv
<1>2. Victims(bytes, frontends) = {c[i] : i \in {i \in DOMAIN c : Bytes(First(c, i - 1)) < bytes}}
  BY Zenon DEF Victims, First
<1>3. ASSUME NEW i \in 0 .. Len(c), NEW j \in 0 .. Len(c), i <= j
      PROVE  /\ Bytes(First(c, i)) \in Nat /\ Bytes(First(c, j)) \in Nat
             /\ Bytes(First(c, i)) <= Bytes(First(c, j))
  <2>1. First(c, j) \in SUBSET Keys /\ First(c, i) \in SUBSET First(c, j)
    BY <1>1, <1>3 DEF First
  <2> QED
    BY <1>1, <2>1, BytesGrow, Zenon
<1>4. Bytes(First(c, 0)) = 0
  <2>1. First(c, 0) = {}
    BY DEF First
  <2> QED
    BY <2>1, FS_EmptySet, SumDef, Zenon DEF Bytes
<1>5. ASSUME NEW m \in 0 .. Len(c), \A i \in DOMAIN c : Bytes(First(c, i - 1)) < bytes <=> i <= m
      PROVE  Victims(bytes, frontends) = First(c, m)
  <2>1. {i \in DOMAIN c : Bytes(First(c, i - 1)) < bytes} = 1 .. m
    <3>1. \A i \in 1 .. m : i \in DOMAIN c /\ i <= m
      BY <1>1
    <3>2. \A i \in DOMAIN c : i <= m => i \in 1 .. m
      BY <1>1
    <3> QED
      BY <1>5, <3>1, <3>2, Zenon
  <2> QED
    BY <1>2, <2>1, Zenon DEF First
<1>6. PICK Over : Over = {i \in 1 .. Len(c) : Bytes(First(c, i - 1)) >= bytes}
  BY Zenon
<1>7. CASE Over = {}
  <2>1. \A i \in DOMAIN c : Bytes(First(c, i - 1)) < bytes
    <3>1. \A i \in DOMAIN c : i - 1 \in 0 .. Len(c) /\ ~(Bytes(First(c, i - 1)) >= bytes)
      BY <1>1, <1>6, <1>7
    <3>2. \A i \in DOMAIN c : Bytes(First(c, i - 1)) \in Nat
      BY <1>3, <3>1
    <3> QED
      BY <3>1, <3>2
  <2>2. \A i \in DOMAIN c : i <= Len(c)
    BY <1>1
  <2>3. Victims(bytes, frontends) = First(c, Len(c))
    <3>1. Len(c) \in 0 .. Len(c)
      BY <1>1
    <3>2. \A i \in DOMAIN c : Bytes(First(c, i - 1)) < bytes <=> i <= Len(c)
      BY <2>1, <2>2, Zenon
    <3> QED
      BY <1>5, <3>1, <3>2, Zenon
  <2>4. Enough(c, bytes, Len(c))
    <3>1. Len(c) > 0 => Len(c) \in DOMAIN c
      BY <1>1
    <3>2. Len(c) \in 0 .. Len(c) /\ ~(Len(c) < Len(c))
      BY <1>1
    <3> QED
      BY <2>1, <3>1, <3>2, Zenon DEF Enough
  <2> QED
    BY <2>3, <2>4, Zenon
<1>8. CASE Over # {}
  <2>1. PICK o \in Over : \A y \in Over : o <= y
    <3>1. Over \in SUBSET Nat
      BY <1>1, <1>6
    <3> QED
      BY <1>8, <3>1, LeastNumber, Zenon
  <2>2. PICK m : m = o - 1
    BY Zenon
  <2>3. o \in 1 .. Len(c) /\ m \in 0 .. Len(c) /\ Bytes(First(c, m)) >= bytes
    BY <1>1, <1>6, <2>1, <2>2
  <2>4. m # 0
    BY <1>4, <2>3
  <2>5. ASSUME NEW i \in DOMAIN c PROVE Bytes(First(c, i - 1)) < bytes <=> i <= m
    <3>1. i \in 1 .. Len(c) /\ i - 1 \in 0 .. Len(c) /\ i \in Nat /\ m \in Nat
      BY <1>1, <2>3
    <3>2. Bytes(First(c, i - 1)) \in Nat
      BY <1>3, <3>1
    <3>3. CASE i <= m
      <4>1. i \notin Over
        BY <2>1, <2>2, <2>3, <3>1, <3>3
      <4> QED
        BY <1>6, <3>1, <3>2, <3>3, <4>1
    <3>4. CASE m < i
      <4>1. m <= i - 1
        BY <3>1, <3>4
      <4>2. Bytes(First(c, m)) \in Nat /\ Bytes(First(c, m)) <= Bytes(First(c, i - 1))
        BY <1>3, <2>3, <3>1, <4>1, Zenon
      <4> QED
        BY <2>3, <3>1, <3>2, <3>4, <4>2
    <3> QED
      BY <3>1, <3>3, <3>4
  <2>6. m \in DOMAIN c /\ m <= m
    BY <1>1, <2>3, <2>4
  <2>7. Enough(c, bytes, m)
    BY <2>3, <2>4, <2>5, <2>6 DEF Enough
  <2>8. Victims(bytes, frontends) = First(c, m)
    BY <1>5, <2>3, <2>5, Zenon
  <2> QED
    BY <2>7, <2>8, Zenon
<1> QED
  BY <1>7, <1>8, Zenon

\* IndexSpec adds up the same way.
LEMMA SameSum ==
    ASSUME NEW f, NEW S
    PROVE  /\ Abstract!SumFunctionOnSet(f, S) = SumFunctionOnSet(f, S)
           /\ Abstract!SumFunction(f) = SumFunction(f)
<1>1. \A T : Abstract!SumFunctionOnSet(f, T) = SumFunctionOnSet(f, T)
  BY Zenon DEF SumFunctionOnSet, FoldFunctionOnSet, MapThenFoldSet,
               Abstract!SumFunctionOnSet, Abstract!FoldFunctionOnSet, Abstract!MapThenFoldSet
<1> QED
  BY <1>1, Zenon DEF SumFunction, Abstract!SumFunction

\* The victims are some that the specification of takeLRU allows.
LEMMA EvictImplements ==
    ASSUME IInv, Evict
    PROVE  [Abstract!IndexNext]_(Abstract!index)
<1>1. PICK bytes \in 1 .. used, frontends \in {{f} : f \in Frontends} \cup {Frontends} :
         takeLRU(bytes, frontends)
  BY Zenon DEF Evict
<1>2. PICK c, v : /\ c = Filter(FromTail, {k \in Keys : FrontendOf[k] \in frontends})
                  /\ v = Victims(bytes, frontends)
  BY Zenon
<1>3. removeAll(v)
  BY <1>1, <1>2, Zenon DEF takeLRU, Victims
<1>4. PICK group \in {OfFrontend(f) : f \in Frontends} \cup {Keys} :
         group = {k \in Keys : FrontendOf[k] \in frontends}
  <2>1. CASE \E f \in Frontends : frontends = {f}
    <3>1. PICK f \in Frontends : frontends = {f}
      BY <2>1, Zenon
    <3>2. OfFrontend(f) = {k \in Keys : FrontendOf[k] \in frontends}
      BY <3>1, Zenon DEF OfFrontend
    <3> QED
      BY <3>2, Zenon
  <2>2. CASE frontends = Frontends
    BY <2>2, FrontendSets, Zenon
  <2> QED
    BY <1>1, <2>1, <2>2, Zenon
<1>5. used \in Nat /\ Sized(size) /\ bytes \in Nat \ {0}
  <2>1. used = Total(size, Keys) /\ Sized(size)
    BY Zenon DEF IInv, Numbers
  <2>2. used \in Nat
    BY <2>1, TotalsNat, Zenon
  <2> QED
    BY <1>1, <2>1, <2>2
<1>6. bytes \in 1 .. SumFunction(size)
  <2>1. SumFunction(size) = Bytes(Keys)
    BY <1>5, Zenon DEF SumFunction, Bytes, Sized
  <2>2. Has(size) \cap Keys \in SUBSET Keys /\ Keys \in SUBSET Keys
    BY Zenon
  <2>3. Bytes(Has(size) \cap Keys) <= Bytes(Keys) /\ Bytes(Keys) \in Nat
    BY <1>5, <2>2, BytesGrow, Zenon
  <2>4. used = Bytes(Has(size) \cap Keys)
    BY Zenon DEF IInv, Numbers, Total, Bytes
  <2> QED
    BY <1>1, <1>5, <2>1, <2>3, <2>4
<1>7. PICK entries : entries = Has(size) \cap group
  BY Zenon
<1>8. Lists(c, entries)
  <2>1. entries = {k \in Has(size) : FrontendOf[k] \in frontends}
    BY <1>4, <1>7, Zenon DEF Has
  <2> QED
    BY <1>2, <2>1, Candidates, Zenon
<1>9. PICK m : Enough(c, bytes, m) /\ v = First(c, m)
  BY <1>2, <1>5, VictimsAreFirst
<1>10. c \in Seq(Keys) /\ IsInjective(c) /\ Range(c) = entries /\ DOMAIN c = 1 .. Len(c) /\ Len(c) \in Nat
  BY <1>8 DEF Lists
<1>11. m \in 0 .. Len(c) /\ (m < Len(c) => Bytes(v) >= bytes)
  BY <1>9, Zenon DEF Enough
<1>12. v \in SUBSET entries /\ (m = Len(c) => v = entries)
  BY <1>9, <1>10, <1>11 DEF First, Range
<1>13. CASE Len(c) = 0
  <2>1. v = {}
    BY <1>9, <1>11, <1>13 DEF First
  <2>2. size' = size /\ tombs' = tombs /\ cold' = cold
    BY <1>3, <1>5, <2>1, Zenon DEF removeAll, Sized
  <2> QED
    BY <2>2, Zenon DEF Abstract!index
<1>14. CASE Len(c) > 0
  <2>1. PICK last : last = c[m]
    BY Zenon
  <2>2. m \in 1 .. Len(c) /\ Bytes(First(c, m - 1)) < bytes
    BY <1>9, <1>10, <1>11, <1>14 DEF Enough
  <2>3. v \ {last} = First(c, m - 1) /\ last \in v
    <3>1. \A i \in 1 .. m : i \in DOMAIN c /\ (i # m => i \in 1 .. m - 1 /\ c[i] # c[m])
      BY <1>10, <2>2 DEF IsInjective
    <3>2. \A i \in 1 .. m - 1 : i \in 1 .. m /\ i # m
      BY <1>10, <2>2
    <3>3. m \in 1 .. m
      BY <2>2
    <3> QED
      BY <1>9, <2>1, <3>1, <3>2, <3>3, Zenon DEF First
  <2>4. v = entries \/ Bytes(v) >= bytes
    BY <1>10, <1>11, <1>12
  <2>5. entries = Abstract!Indexed \cap group
    BY <1>7, Zenon DEF Has, Abstract!Indexed, Absent, Abstract!Absent
  <2>6. v \in Abstract!takeLRU(bytes, group)
    <3>1. v \in SUBSET entries /\ (v = entries \/ SumFunctionOnSet(size, v) >= bytes)
      BY <1>12, <2>4, Zenon DEF Bytes
    <3>2. \E l \in v : SumFunctionOnSet(size, v \ {l}) < bytes
      BY <2>2, <2>3, Zenon DEF Bytes
    <3> QED
      BY <2>5, <3>1, <3>2, SameSum, Zenon DEF Abstract!takeLRU
  <2>7. Abstract!removeLocked(v) /\ UNCHANGED cold
    BY <1>3, Zenon DEF removeAll, Abstract!removeLocked, Absent, Abstract!Absent
  <2>8. \E i \in 1 .. Abstract!SumFunction(size), frontend \in {OfFrontend(f) : f \in Frontends} \cup {Keys} :
          \E victims \in Abstract!takeLRU(i, frontend) : Abstract!removeLocked(victims) /\ UNCHANGED cold
    BY <1>4, <1>6, <2>6, <2>7, SameSum, Zenon
  <2> QED
    BY <2>8, Zenon DEF Abstract!IndexNext
<1> QED
  BY <1>10, <1>13, <1>14

\* Every step of the list and the totals is one of the abstract index.
LEMMA StepImplements ==
    ASSUME IInv, IInv', [Next]_vars
    PROVE  [Abstract!IndexNext]_(Abstract!index)
<1>1. ASSUME NEW k \in Keys, NEW s \in Sizes, NEW t, set(k, s, t) PROVE Abstract!IndexNext
  <2>1. Abstract!set(k, s) /\ UNCHANGED cold
    BY <1>1, Zenon DEF set, Abstract!set
  <2> QED
    BY <2>1, Zenon DEF Abstract!IndexNext
<1>2. ASSUME NEW k \in Keys, NEW s \in Sizes, NEW t, addIfAbsent(k, s, t) PROVE Abstract!IndexNext
  <2>1. Abstract!addIfAbsent(k, s) /\ UNCHANGED cold
    BY <1>2, Zenon DEF addIfAbsent, Abstract!addIfAbsent, Absent, Abstract!Absent
  <2> QED
    BY <2>1, Zenon DEF Abstract!IndexNext
<1>3. ASSUME NEW k \in Keys, remove(k) PROVE Abstract!IndexNext
  <2>1. Abstract!removeLocked({k}) /\ UNCHANGED cold
    BY <1>3, Zenon DEF remove, removeAll, Abstract!removeLocked, Absent, Abstract!Absent
  <2> QED
    BY <2>1, Zenon DEF Abstract!IndexNext
<1>4. CASE UNCHANGED <<size, cold, tombs>>
  BY <1>4, Zenon DEF Abstract!index
<1>5. ASSUME NEW k, NEW t, touch(k, t) PROVE [Abstract!IndexNext]_(Abstract!index)
  BY <1>4, <1>5, Zenon DEF touch
<1>6. CASE finishWalk
  BY <1>6, Zenon DEF finishWalk, Abstract!finishWalk, Abstract!IndexNext
<1>7. CASE newIndex
  <2>1. Abstract!IndexRestart
    BY <1>7, Zenon DEF newIndex, Abstract!IndexRestart, Abstract!NoEntries, Absent, Abstract!Absent
  <2> QED
    BY <2>1, Zenon DEF Abstract!IndexNext
<1>8. CASE load
  <2>1. size' = size /\ cold = FALSE /\ cold' = FALSE /\ tombs' = {}
    BY <1>8, Zenon DEF load, IInv
  <2>2. DOMAIN size = Keys /\ \A k \in Keys : size[k] \in Sizes \cup {0}
    BY Zenon DEF IInv, Sized, Absent
  <2>3. size' \in [Keys -> Sizes \cup {0}]
    <3>1. size = [k \in Keys |-> size[k]]
      BY Zenon DEF IInv, Sized
    <3> QED
      BY <2>1, <2>2, <3>1, Zenon
  <2>4. Abstract!IndexRestart
    BY <2>1, <2>3, Zenon DEF Abstract!IndexRestart, Abstract!Absent
  <2> QED
    BY <2>4, Zenon DEF Abstract!IndexNext
<1> QED
  BY <1>1, <1>2, <1>3, <1>4, <1>5, <1>6, <1>7, <1>8, EvictImplements, Zenon DEF Next, Walk, Tick, vars

\* The LRU list and the totals implement the index that the rest of the disk
\* tier is built on (index.go): every operation changes the entries and the
\* tombstones as module IndexSpec says, and what takeLRU takes accounts for
\* the bytes asked for with no entry to spare.
THEOREM IndexIsImplemented == Spec => ImplementsIndex
<1>1. Init => Abstract!IndexInit
  BY Zenon DEF Init, Abstract!IndexInit, Abstract!NoEntries, Absent, Abstract!Absent
<1>2. IInv /\ IInv' /\ [Next]_vars => [Abstract!IndexNext]_(Abstract!index)
  BY StepImplements, Zenon
<1> QED
  BY <1>1, <1>2, Invariant, PTL DEF Spec, ImplementsIndex, Abstract!IndexSpecification

\* Of two candidates, the one nearer to the tail is tried first.
LEMMA TailFirst ==
    ASSUME IInv, ~cold, NEW T, NEW c, c = Filter(FromTail, T), NEW a \in DOMAIN c, NEW b \in DOMAIN c, a < b
    PROVE  at[c[a]] <= at[c[b]] + Skew
<1>1. PICK r : r = FromTail
  BY Zenon
<1>2. list \in Seq(Keys) /\ Newest(list)
  BY Zenon DEF IInv, Lists
<1>3. r \in Seq(Keys) /\ DOMAIN r = 1 .. Len(list) /\ DOMAIN list = 1 .. Len(list) /\ Len(list) \in Nat
  BY <1>1, <1>2 DEF FromTail
<1>4. \A i \in DOMAIN list : Len(list) - i + 1 \in DOMAIN list /\ r[i] = list[Len(list) - i + 1]
  BY <1>1, <1>2, <1>3 DEF FromTail
<1>5. PICK j, l \in DOMAIN r : j < l /\ r[j] = c[a] /\ r[l] = c[b]
  <2>1. \A x, y \in DOMAIN c : x < y => \E j, l \in DOMAIN r : j < l /\ r[j] = c[x] /\ r[l] = c[y]
    <3>1. c \in Seq(Keys) /\ Picked(r, T, Len(r), c)
      BY <1>1, <1>3, FilterPicked, Zenon
    <3>2. DOMAIN r = 1 .. Len(r)
      BY <1>3
    <3>3. \A x, y \in DOMAIN c : x < y => \E j, l \in 1 .. Len(r) : j < l /\ r[j] = c[x] /\ r[l] = c[y]
      BY <3>1, Zenon DEF Picked
    <3> QED
      BY <3>2, <3>3
  <2> QED
    BY <2>1, Zenon
<1>6. PICK i, h : i = Len(list) - l + 1 /\ h = Len(list) - j + 1
  BY Zenon
<1>7. i \in DOMAIN list /\ h \in DOMAIN list /\ i < h /\ list[h] = c[a] /\ list[i] = c[b]
  BY <1>3, <1>4, <1>5, <1>6
<1> QED
  BY <1>2, <1>7, Zenon DEF Newest

\* Eviction is least-recently-used: once the index is warm, an entry that an
\* eviction takes was not used after one of the same front-end that it leaves,
\* by more than the age of a clock reading (index.go takeLRU).
THEOREM OldestAreEvicted == Spec => EvictsOldest
<1>1. ASSUME IInv, ~cold, Evict, NEW v \in Listed, NEW k \in Listed,
             size'[v] = Absent, size'[k] # Absent, FrontendOf[v] = FrontendOf[k]
      PROVE  at[v] <= at[k] + Skew
  <2>1. PICK bytes \in 1 .. used, frontends \in SUBSET Frontends : takeLRU(bytes, frontends)
    BY <1>1, Zenon DEF Evict
  <2>2. PICK c, T : /\ T = {x \in Keys : FrontendOf[x] \in frontends}
                    /\ c = Filter(FromTail, T)
    BY Zenon
  <2>3. bytes \in Nat \ {0} /\ Has(size) = Listed
    <3>1. used = Total(size, Keys) /\ Sized(size)
      BY <1>1, Zenon DEF IInv, Numbers
    <3>2. used \in Nat
      BY <3>1, TotalsNat, Zenon
    <3> QED
      BY <2>1, <3>2 DEF Has, Listed
  <2>4. PICK m : Enough(c, bytes, m) /\ Victims(bytes, frontends) = First(c, m)
    BY <1>1, <2>2, <2>3, VictimsAreFirst
  <2>5. removeAll(First(c, m))
    <3>1. removeAll(Victims(bytes, frontends))
      BY <2>1, Zenon DEF takeLRU, Victims
    <3> QED
      BY <2>4, <3>1, Zenon
  <2>6. v \in First(c, m) /\ k \notin First(c, m)
    BY <1>1, <2>5, Zenon DEF removeAll, Listed
  <2>7. PICK ks : ks = {x \in Has(size) : FrontendOf[x] \in frontends}
    BY Zenon
  <2>8. Lists(c, ks)
    BY <1>1, <2>2, <2>7, Candidates, Zenon
  <2>9. DOMAIN c = 1 .. Len(c) /\ Len(c) \in Nat /\ Range(c) = ks /\ m \in 0 .. Len(c)
    BY <2>4, <2>8 DEF Lists, Enough
  <2>10. PICK a \in 1 .. m : v = c[a]
    BY <2>6, Zenon DEF First
  <2>11. a \in DOMAIN c /\ v \in ks
    BY <2>9, <2>10 DEF Range
  <2>12. k \in ks
    BY <1>1, <2>3, <2>7, <2>11, Zenon
  <2>13. PICK b \in DOMAIN c : k = c[b]
    BY <2>9, <2>12, Zenon DEF Range
  <2>14. b \notin 1 .. m
    BY <2>6, <2>13, Zenon DEF First
  <2>15. a < b
    BY <2>9, <2>10, <2>13, <2>14
  <2> QED
    BY <1>1, <2>2, <2>10, <2>11, <2>13, <2>15, TailFirst, Zenon
<1>2. IInv /\ [Next]_vars =>
        [~cold /\ Evict =>
           \A v, k \in Listed :
              /\ size'[v] = Absent /\ size'[k] # Absent
              /\ FrontendOf[v] = FrontendOf[k]
              => at[v] <= at[k] + Skew]_vars
  BY <1>1, Zenon
<1> QED
  BY <1>2, Invariant, PTL DEF Spec, EvictsOldest
=============================================================================
