----------------------------- MODULE SumTheorems -----------------------------
(***************************************************************************)
(* Facts about the sum of a function over a finite set, SumFunctionOnSet,  *)
(* and the least element of a set of naturals, by which they are proved.   *)
(***************************************************************************)
EXTENDS Integers, FiniteSets, Functions, FiniteSetTheorems, WellFoundedInduction, TLAPS

\* Every nonempty set of naturals has a least element: an induction on n is a
\* search for the least n that fails.
LEMMA LeastNat ==
    ASSUME NEW T, T \subseteq Nat, T # {}
    PROVE  \E n \in T : \A m \in T : n <= m
<1>1. PICK n \in T : \A m \in T : ~(<<m, n>> \in OpToRel(<, Nat))
  BY NatLessThanWellFounded, WFMin
<1>2. \A m \in T : ~(m < n)
  BY <1>1 DEF OpToRel
<1> QED
  BY <1>2

-----------------------------------------------------------------------------
(* The sum as a recursion on the set *)

Pick(s) == CHOOSE x \in s : TRUE
Remainder(s) == s \ {Pick(s)}

SumOf(f, sum, s) == IF s = {} THEN 0 ELSE f[Pick(s)] + sum[Remainder(s)]

SumTable(f, sum, S) == [s \in SUBSET S |-> SumOf(f, sum, s)]

Sums(f, S) == CHOOSE sum : sum = SumTable(f, sum, S)

\* The library's sum is this recursion.
LEMMA SumUnfolds ==
    ASSUME NEW f, NEW S
    PROVE  SumFunctionOnSet(f, S) = Sums(f, S)[S]
BY DEF SumFunctionOnSet, FoldFunctionOnSet, MapThenFoldSet, Sums, SumTable, SumOf, Pick, Remainder

\* A set that is not empty loses one element.
LEMMA RemainderIsSmaller ==
    ASSUME NEW s, IsFiniteSet(s), s # {}
    PROVE  /\ Pick(s) \in s /\ Remainder(s) \subseteq s /\ IsFiniteSet(Remainder(s))
           /\ Cardinality(s) \in Nat /\ Cardinality(Remainder(s)) \in Nat
           /\ Cardinality(Remainder(s)) = Cardinality(s) - 1
<1>1. Pick(s) \in s
  BY DEF Pick
<1> QED
  BY <1>1, FS_RemoveElement, FS_CardinalityType DEF Remainder

\* The recursion has a solution: one for the sets up to a size extends to the next.
LEMMA SumsExist ==
    ASSUME NEW f, NEW S, IsFiniteSet(S)
    PROVE  Sums(f, S) = SumTable(f, Sums(f, S), S)
<1> USE DEF SumTable
<1> DEFINE Solves(sum, n) == \A s \in SUBSET S : Cardinality(s) <= n => sum[s] = SumOf(f, sum, s)
           Unsolved == {n \in Nat : ~\E sum : Solves(sum, n)}
<1>1. \A s \in SUBSET S : IsFiniteSet(s) /\ Cardinality(s) \in Nat /\ Cardinality(s) <= Cardinality(S)
  BY FS_Subset, FS_CardinalityType
<1>2. \E sum : Solves(sum, 0)
  <2> DEFINE sum == [s \in SUBSET S |-> 0]
  <2>1. ASSUME NEW s \in SUBSET S, Cardinality(s) <= 0 PROVE sum[s] = SumOf(f, sum, s)
    <3>1. s = {}
      BY <1>1, <2>1, FS_EmptySet
    <3> QED
      BY <3>1 DEF SumOf
  <2> QED
    BY <2>1
<1>3. ASSUME NEW n \in Nat, NEW sum, Solves(sum, n) PROVE \E next : Solves(next, n + 1)
  <2> DEFINE next == [s \in SUBSET S |-> IF Cardinality(s) <= n THEN sum[s] ELSE SumOf(f, sum, s)]
  <2>1. ASSUME NEW s \in SUBSET S, Cardinality(s) <= n + 1 PROVE next[s] = SumOf(f, sum, s)
    BY <1>3, <2>1
  <2>2. ASSUME NEW s \in SUBSET S, Cardinality(s) <= n PROVE next[s] = sum[s]
    BY <2>2
  <2> HIDE DEF next
  <2>3. ASSUME NEW s \in SUBSET S, Cardinality(s) <= n + 1 PROVE SumOf(f, next, s) = SumOf(f, sum, s)
    <3>1. CASE s = {}
      BY <3>1 DEF SumOf
    <3>2. CASE s # {}
      <4>1. Remainder(s) \in SUBSET S /\ Cardinality(Remainder(s)) <= n
        BY <1>1, <2>3, <3>2, RemainderIsSmaller
      <4>2. next[Remainder(s)] = sum[Remainder(s)]
        BY <2>2, <4>1
      <4> QED
        BY <3>2, <4>2 DEF SumOf
    <3> QED
      BY <3>1, <3>2
  <2>4. Solves(next, n + 1)
    BY <2>1, <2>3
  <2> QED
    BY <2>4
<1> HIDE DEF Solves
<1>4. \A n \in Nat : \E sum : Solves(sum, n)
  <2> SUFFICES ASSUME Unsolved # {} PROVE FALSE
    OBVIOUS
  <2>1. PICK n \in Unsolved : \A m \in Unsolved : n <= m
    BY LeastNat
  <2>2. n # 0 /\ n \in Nat
    BY <1>2, <2>1
  <2>3. n - 1 \in Nat /\ n - 1 \notin Unsolved
    BY <2>1, <2>2
  <2>4. PICK sum : Solves(sum, n - 1)
    BY <2>3
  <2>5. \E next : Solves(next, (n - 1) + 1)
    BY <1>3, <2>3, <2>4
  <2> QED
    BY <2>1, <2>2, <2>5
<1>5. PICK sum : Solves(sum, Cardinality(S))
  BY <1>1, <1>4
<1>6. \A s \in SUBSET S : sum[s] = SumOf(f, sum, s)
  BY <1>1, <1>5 DEF Solves
<1> DEFINE total == [s \in SUBSET S |-> sum[s]]
<1>7. ASSUME NEW s \in SUBSET S PROVE SumOf(f, total, s) = SumOf(f, sum, s)
  <2>1. Remainder(s) \in SUBSET S
    BY DEF Remainder
  <2> QED
    BY <2>1 DEF SumOf
<1>8. total = [s \in SUBSET S |-> SumOf(f, total, s)]
  <2>1. \A s \in SUBSET S : sum[s] = SumOf(f, total, s)
    BY <1>6, <1>7
  <2>2. [s \in SUBSET S |-> sum[s]] = [s \in SUBSET S |-> SumOf(f, total, s)]
    <3> HIDE DEF total
    <3> QED
      BY <2>1
  <2> QED
    BY <2>2
<1> HIDE DEF total
<1> QED
  BY <1>8 DEF Sums

\* The recursion holds at every subset.
LEMMA SumsRecur ==
    ASSUME NEW f, NEW S, IsFiniteSet(S), NEW s \in SUBSET S
    PROVE  Sums(f, S)[s] = SumOf(f, Sums(f, S), s)
<1> DEFINE sum == Sums(f, S)
<1>1. sum = SumTable(f, sum, S)
  BY SumsExist
<1> HIDE DEF sum
<1>2. SumTable(f, sum, S)[s] = SumOf(f, sum, s)
  BY DEF SumTable
<1>3. sum[s] = SumOf(f, sum, s)
  BY <1>1, <1>2
<1> QED
  BY <1>3 DEF sum

\* The sums over the subsets of a set are those over the subsets of a larger one.
LEMMA SumsAgree ==
    ASSUME NEW f, NEW S, NEW T \in SUBSET S, IsFiniteSet(S)
    PROVE  \A s \in SUBSET T : Sums(f, T)[s] = Sums(f, S)[s]
<1> DEFINE Differ == {n \in Nat : \E s \in SUBSET T : Cardinality(s) = n /\ Sums(f, T)[s] # Sums(f, S)[s]}
<1>1. IsFiniteSet(T) /\ \A s \in SUBSET T : IsFiniteSet(s) /\ Cardinality(s) \in Nat
  BY FS_Subset, FS_CardinalityType
<1>2. \A s \in SUBSET T : Sums(f, T)[s] = SumOf(f, Sums(f, T), s) /\ Sums(f, S)[s] = SumOf(f, Sums(f, S), s)
  BY <1>1, SumsRecur
<1> SUFFICES ASSUME Differ # {} PROVE FALSE
  BY <1>1
<1>3. PICK n \in Differ : \A m \in Differ : n <= m
  BY LeastNat
<1>4. PICK s \in SUBSET T : Cardinality(s) = n /\ Sums(f, T)[s] # Sums(f, S)[s]
  BY <1>3
<1>5. s # {}
  BY <1>2, <1>4 DEF SumOf
<1>6. Remainder(s) \in SUBSET T /\ Cardinality(Remainder(s)) \in Nat /\ Cardinality(Remainder(s)) < n
  BY <1>1, <1>4, <1>5, RemainderIsSmaller
<1>7. Sums(f, T)[Remainder(s)] = Sums(f, S)[Remainder(s)]
  BY <1>3, <1>6
<1> QED
  BY <1>2, <1>4, <1>5, <1>7 DEF SumOf

-----------------------------------------------------------------------------
(* What the modules use of it *)

\* Nothing adds up to zero.
THEOREM SumEmpty ==
    ASSUME NEW f
    PROVE  SumFunctionOnSet(f, {}) = 0
<1>1. IsFiniteSet({})
  BY FS_EmptySet
<1>2. Sums(f, {})[{}] = SumOf(f, Sums(f, {}), {})
  BY <1>1, SumsRecur
<1> QED
  BY <1>2, SumUnfolds DEF SumOf

\* One element may be taken out first: the one the recursion picks.
LEMMA SumPicks ==
    ASSUME NEW f, NEW s, IsFiniteSet(s), s # {}
    PROVE  SumFunctionOnSet(f, s) = f[Pick(s)] + SumFunctionOnSet(f, Remainder(s))
<1>1. Sums(f, s)[s] = SumOf(f, Sums(f, s), s)
  BY SumsRecur
<1>2. Remainder(s) \in SUBSET s
  BY DEF Remainder
<1>3. Sums(f, Remainder(s))[Remainder(s)] = Sums(f, s)[Remainder(s)]
  BY <1>2, SumsAgree
<1> QED
  BY <1>1, <1>3, SumUnfolds DEF SumOf

\* Naturals add up to a natural.
THEOREM SumIsNat ==
    ASSUME NEW f, NEW S, IsFiniteSet(S), \A x \in S : f[x] \in Nat
    PROVE  SumFunctionOnSet(f, S) \in Nat
<1> DEFINE Wrong == {n \in Nat : \E s \in SUBSET S : Cardinality(s) = n /\ SumFunctionOnSet(f, s) \notin Nat}
<1>1. \A s \in SUBSET S : IsFiniteSet(s) /\ Cardinality(s) \in Nat
  BY FS_Subset, FS_CardinalityType
<1> SUFFICES ASSUME Wrong # {} PROVE FALSE
  BY <1>1
<1>2. PICK n \in Wrong : \A m \in Wrong : n <= m
  BY LeastNat
<1>3. PICK s \in SUBSET S : Cardinality(s) = n /\ SumFunctionOnSet(f, s) \notin Nat
  BY <1>2
<1>4. s # {}
  BY <1>3, SumEmpty
<1>5. Pick(s) \in S /\ Remainder(s) \in SUBSET S /\ Cardinality(Remainder(s)) \in Nat /\ Cardinality(Remainder(s)) < n
  BY <1>1, <1>3, <1>4, RemainderIsSmaller
<1>6. SumFunctionOnSet(f, Remainder(s)) \in Nat
  BY <1>2, <1>5
<1>7. SumFunctionOnSet(f, s) = f[Pick(s)] + SumFunctionOnSet(f, Remainder(s))
  BY <1>1, <1>4, SumPicks
<1> QED
  BY <1>3, <1>5, <1>6, <1>7

\* Only the values on the set count.
THEOREM SumDepends ==
    ASSUME NEW f, NEW g, NEW S, IsFiniteSet(S), \A x \in S : f[x] = g[x]
    PROVE  SumFunctionOnSet(f, S) = SumFunctionOnSet(g, S)
<1> DEFINE Wrong == {n \in Nat : \E s \in SUBSET S :
                       Cardinality(s) = n /\ SumFunctionOnSet(f, s) # SumFunctionOnSet(g, s)}
<1>1. \A s \in SUBSET S : IsFiniteSet(s) /\ Cardinality(s) \in Nat
  BY FS_Subset, FS_CardinalityType
<1> SUFFICES ASSUME Wrong # {} PROVE FALSE
  BY <1>1
<1>2. PICK n \in Wrong : \A m \in Wrong : n <= m
  BY LeastNat
<1>3. PICK s \in SUBSET S : Cardinality(s) = n /\ SumFunctionOnSet(f, s) # SumFunctionOnSet(g, s)
  BY <1>2
<1>4. s # {}
  BY <1>3, SumEmpty
<1>5. Pick(s) \in S /\ Remainder(s) \in SUBSET S /\ Cardinality(Remainder(s)) \in Nat /\ Cardinality(Remainder(s)) < n
  BY <1>1, <1>3, <1>4, RemainderIsSmaller
<1>6. SumFunctionOnSet(f, Remainder(s)) = SumFunctionOnSet(g, Remainder(s))
  BY <1>2, <1>5
<1>7. /\ SumFunctionOnSet(f, s) = f[Pick(s)] + SumFunctionOnSet(f, Remainder(s))
      /\ SumFunctionOnSet(g, s) = g[Pick(s)] + SumFunctionOnSet(g, Remainder(s))
  BY <1>1, <1>4, SumPicks
<1> QED
  BY <1>3, <1>5, <1>6, <1>7

\* Nothing adds up to nothing.
THEOREM SumZero ==
    ASSUME NEW f, NEW S, IsFiniteSet(S), \A x \in S : f[x] = 0
    PROVE  SumFunctionOnSet(f, S) = 0
<1> DEFINE Wrong == {n \in Nat : \E s \in SUBSET S : Cardinality(s) = n /\ SumFunctionOnSet(f, s) # 0}
<1>1. \A s \in SUBSET S : IsFiniteSet(s) /\ Cardinality(s) \in Nat
  BY FS_Subset, FS_CardinalityType
<1> SUFFICES ASSUME Wrong # {} PROVE FALSE
  BY <1>1
<1>2. PICK n \in Wrong : \A m \in Wrong : n <= m
  BY LeastNat
<1>3. PICK s \in SUBSET S : Cardinality(s) = n /\ SumFunctionOnSet(f, s) # 0
  BY <1>2
<1>4. s # {}
  BY <1>3, SumEmpty
<1>5. Pick(s) \in S /\ Remainder(s) \in SUBSET S /\ Cardinality(Remainder(s)) \in Nat /\ Cardinality(Remainder(s)) < n
  BY <1>1, <1>3, <1>4, RemainderIsSmaller
<1>6. SumFunctionOnSet(f, Remainder(s)) = 0
  BY <1>2, <1>5
<1>7. SumFunctionOnSet(f, s) = f[Pick(s)] + SumFunctionOnSet(f, Remainder(s))
  BY <1>1, <1>4, SumPicks
<1> QED
  BY <1>3, <1>5, <1>6, <1>7

\* The order of the elements does not count: any of them may be taken out.
LEMMA SumRemoves ==
    ASSUME NEW f, NEW S, IsFiniteSet(S), \A x \in S : f[x] \in Nat, NEW a \in S
    PROVE  SumFunctionOnSet(f, S) = f[a] + SumFunctionOnSet(f, S \ {a})
<1> DEFINE Total(s) == SumFunctionOnSet(f, s)
           Wrong == {n \in Nat : \E s \in SUBSET S : Cardinality(s) = n /\ \E b \in s : Total(s) # f[b] + Total(s \ {b})}
<1>1. \A s \in SUBSET S : IsFiniteSet(s) /\ Cardinality(s) \in Nat
  BY FS_Subset, FS_CardinalityType
<1>2. \A s \in SUBSET S : Total(s) \in Nat
  BY <1>1, SumIsNat
<1>3. \A s \in SUBSET S : s # {} => /\ Pick(s) \in s /\ Remainder(s) \in SUBSET S /\ Cardinality(Remainder(s)) < Cardinality(s)
                                   /\ Total(s) = f[Pick(s)] + Total(Remainder(s))
  BY <1>1, RemainderIsSmaller, SumPicks
<1> HIDE DEF Total
<1> SUFFICES ASSUME Wrong # {} PROVE FALSE
  BY <1>1 DEF Total
<1>4. PICK n \in Wrong : \A m \in Wrong : n <= m
  BY LeastNat
<1>5. PICK s \in SUBSET S : Cardinality(s) = n /\ \E b \in s : Total(s) # f[b] + Total(s \ {b})
  BY <1>4
<1>6. ASSUME NEW u \in SUBSET S, NEW b \in u, Cardinality(u) < n PROVE Total(u) = f[b] + Total(u \ {b})
  <2>1. Cardinality(u) \in Nat /\ Cardinality(u) \notin Wrong
    BY <1>1, <1>4, <1>6
  <2> QED
    BY <2>1
<1>7. PICK b \in s : Total(s) # f[b] + Total(s \ {b})
  BY <1>5
<1> DEFINE c == Pick(s)
           t == Remainder(s)
<1>8. c \in s /\ t = s \ {c} /\ t \in SUBSET S /\ Cardinality(t) < n /\ Total(s) = f[c] + Total(t)
  BY <1>3, <1>5, <1>7 DEF Remainder
<1>9. b # c
  BY <1>7, <1>8
<1>10. Total(t) = f[b] + Total(t \ {b})
  BY <1>6, <1>7, <1>8, <1>9
\* the other order, of a set as small
<1>11. Total(s \ {b}) = f[c] + Total((s \ {b}) \ {c})
  <2>1. Cardinality(s \ {b}) < n
    BY <1>1, <1>5, <1>7, FS_RemoveElement
  <2>2. s \ {b} \in SUBSET S /\ c \in s \ {b}
    BY <1>8, <1>9
  <2> QED
    BY <1>6, <2>1, <2>2
<1>12. (s \ {b}) \ {c} = t \ {b}
  BY <1>8
<1>13. f[b] \in Nat /\ f[c] \in Nat /\ Total(t \ {b}) \in Nat
  BY <1>2, <1>7, <1>8
<1> HIDE DEF c, t
<1> QED
  BY <1>7, <1>8, <1>10, <1>11, <1>12, <1>13

\* One more element.
THEOREM SumAdds ==
    ASSUME NEW f, NEW S, IsFiniteSet(S), NEW a, a \notin S, \A x \in S \union {a} : f[x] \in Nat
    PROVE  SumFunctionOnSet(f, S \union {a}) = f[a] + SumFunctionOnSet(f, S)
<1>1. IsFiniteSet(S \union {a}) /\ (S \union {a}) \ {a} = S
  BY FS_AddElement
<1> QED
  BY <1>1, SumRemoves

\* One value changes.
THEOREM SumChanges ==
    ASSUME NEW f, NEW g, NEW S, IsFiniteSet(S), \A x \in S : f[x] \in Nat /\ g[x] \in Nat, NEW a \in S,
           \A x \in S \ {a} : f[x] = g[x]
    PROVE  SumFunctionOnSet(g, S) = SumFunctionOnSet(f, S) - f[a] + g[a]
<1>1. IsFiniteSet(S \ {a})
  BY FS_RemoveElement
<1>2. SumFunctionOnSet(f, S \ {a}) = SumFunctionOnSet(g, S \ {a})
  BY <1>1, SumDepends
<1>3. SumFunctionOnSet(f, S \ {a}) \in Nat
  BY <1>1, SumIsNat
<1>4. /\ SumFunctionOnSet(f, S) = f[a] + SumFunctionOnSet(f, S \ {a})
      /\ SumFunctionOnSet(g, S) = g[a] + SumFunctionOnSet(g, S \ {a})
  BY SumRemoves
<1> QED
  BY <1>2, <1>3, <1>4

\* Values covered by those of two other functions add up to what those do.
THEOREM SumCovered ==
    ASSUME NEW f, NEW g, NEW h, NEW S, IsFiniteSet(S),
           \A x \in S : f[x] \in Nat /\ g[x] \in Nat /\ h[x] \in Nat /\ f[x] <= g[x] + h[x]
    PROVE  SumFunctionOnSet(f, S) <= SumFunctionOnSet(g, S) + SumFunctionOnSet(h, S)
<1> DEFINE Below(s) == SumFunctionOnSet(f, s) <= SumFunctionOnSet(g, s) + SumFunctionOnSet(h, s)
           Wrong == {n \in Nat : \E s \in SUBSET S : Cardinality(s) = n /\ ~Below(s)}
<1>1. \A s \in SUBSET S : IsFiniteSet(s) /\ Cardinality(s) \in Nat
  BY FS_Subset, FS_CardinalityType
<1> SUFFICES ASSUME Wrong # {} PROVE FALSE
  BY <1>1
<1>2. PICK n \in Wrong : \A m \in Wrong : n <= m
  BY LeastNat
<1>3. PICK s \in SUBSET S : Cardinality(s) = n /\ ~Below(s)
  BY <1>2
<1>4. s # {}
  <2>1. SumFunctionOnSet(f, {}) = 0 /\ SumFunctionOnSet(g, {}) = 0 /\ SumFunctionOnSet(h, {}) = 0
    BY SumEmpty
  <2> QED
    BY <1>3, <2>1
<1>5. Pick(s) \in S /\ Remainder(s) \in SUBSET S /\ Cardinality(Remainder(s)) \in Nat /\ Cardinality(Remainder(s)) < n
  BY <1>1, <1>3, <1>4, RemainderIsSmaller
<1>6. Below(Remainder(s))
  BY <1>2, <1>5
<1>7. /\ SumFunctionOnSet(f, s) = f[Pick(s)] + SumFunctionOnSet(f, Remainder(s))
      /\ SumFunctionOnSet(g, s) = g[Pick(s)] + SumFunctionOnSet(g, Remainder(s))
      /\ SumFunctionOnSet(h, s) = h[Pick(s)] + SumFunctionOnSet(h, Remainder(s))
  BY <1>1, <1>4, SumPicks
<1>8. /\ SumFunctionOnSet(f, Remainder(s)) \in Nat /\ SumFunctionOnSet(g, Remainder(s)) \in Nat
      /\ SumFunctionOnSet(h, Remainder(s)) \in Nat
  BY <1>1, <1>5, SumIsNat
<1> QED
  BY <1>3, <1>5, <1>6, <1>7, <1>8

\* Smaller values add up to no more.
THEOREM SumAtMost ==
    ASSUME NEW f, NEW g, NEW S, IsFiniteSet(S), \A x \in S : f[x] \in Nat /\ g[x] \in Nat /\ f[x] <= g[x]
    PROVE  SumFunctionOnSet(f, S) <= SumFunctionOnSet(g, S)
<1> DEFINE zero == [x \in S |-> 0]
<1>1. SumFunctionOnSet(zero, S) = 0
  BY SumZero
<1>2. \A x \in S : zero[x] = 0
  OBVIOUS
<1> HIDE DEF zero
<1>3. SumFunctionOnSet(f, S) <= SumFunctionOnSet(g, S) + SumFunctionOnSet(zero, S)
  <2>1. \A x \in S : f[x] \in Nat /\ g[x] \in Nat /\ zero[x] \in Nat /\ f[x] <= g[x] + zero[x]
    BY <1>2
  <2> QED
    BY <2>1, SumCovered
<1> QED
  BY <1>1, <1>3, SumIsNat

\* A set adds up to a part of it and the rest.
THEOREM SumSplits ==
    ASSUME NEW f, NEW S, IsFiniteSet(S), \A x \in S : f[x] \in Nat, NEW T \in SUBSET S
    PROVE  SumFunctionOnSet(f, S) = SumFunctionOnSet(f, T) + SumFunctionOnSet(f, S \ T)
<1> DEFINE Whole(s) == SumFunctionOnSet(f, (S \ T) \cup s) = SumFunctionOnSet(f, s) + SumFunctionOnSet(f, S \ T)
           Wrong == {n \in Nat : \E s \in SUBSET T : Cardinality(s) = n /\ ~Whole(s)}
<1>1. \A s \in SUBSET S : IsFiniteSet(s) /\ Cardinality(s) \in Nat
  BY FS_Subset, FS_CardinalityType
<1> SUFFICES ASSUME Wrong # {} PROVE FALSE
  <2>1. (S \ T) \cup T = S
    OBVIOUS
  <2>2. Cardinality(T) \in Nat /\ Cardinality(T) \notin Wrong => Whole(T)
    OBVIOUS
  <2> QED
    BY <1>1, <2>1, <2>2
<1>2. PICK n \in Wrong : \A m \in Wrong : n <= m
  BY LeastNat
<1>3. PICK s \in SUBSET T : Cardinality(s) = n /\ ~Whole(s)
  BY <1>2
<1>4. IsFiniteSet(S \ T) /\ SumFunctionOnSet(f, S \ T) \in Nat
  BY <1>1, SumIsNat
<1>5. s # {}
  <2>1. (S \ T) \cup {} = S \ T
    OBVIOUS
  <2>2. SumFunctionOnSet(f, {}) = 0
    BY SumEmpty
  <2>3. Whole({})
    BY <1>4, <2>1, <2>2
  <2> QED
    BY <1>3, <2>3
<1> DEFINE c == Pick(s)
           t == Remainder(s)
<1>6. /\ c \in s /\ t \in SUBSET T /\ c \notin t /\ s = t \cup {c}
      /\ Cardinality(t) \in Nat /\ Cardinality(t) < n
  BY <1>1, <1>3, <1>5, RemainderIsSmaller DEF Remainder
<1> HIDE DEF c, t
<1>7. Whole(t)
  <2>1. Cardinality(t) \notin Wrong
    <3>1. n \in Nat /\ Cardinality(t) \in Nat /\ ~(n <= Cardinality(t))
      BY <1>6
    <3> HIDE DEF Wrong
    <3> QED
      BY <1>2, <3>1
  <2> QED
    BY <1>6, <2>1
<1>8. SumFunctionOnSet(f, s) = f[c] + SumFunctionOnSet(f, t)
  <2>1. IsFiniteSet(t) /\ \A x \in t \cup {c} : f[x] \in Nat
    BY <1>1, <1>3, <1>6
  <2> QED
    BY <1>6, <2>1, SumAdds
<1>9. SumFunctionOnSet(f, (S \ T) \cup s) = f[c] + SumFunctionOnSet(f, (S \ T) \cup t)
  <2>1. (S \ T) \cup s = ((S \ T) \cup t) \cup {c} /\ c \notin (S \ T) \cup t
    BY <1>3, <1>6
  <2>2. IsFiniteSet((S \ T) \cup t) /\ \A x \in ((S \ T) \cup t) \cup {c} : f[x] \in Nat
    BY <1>1, <1>3, <1>6
  <2> QED
    BY <2>1, <2>2, SumAdds
<1>10. SumFunctionOnSet(f, t) \in Nat /\ f[c] \in Nat
  BY <1>1, <1>3, <1>6, SumIsNat
<1> QED
  BY <1>3, <1>4, <1>7, <1>8, <1>9, <1>10

\* A part adds up to no more than the whole.
THEOREM SumOfPart ==
    ASSUME NEW f, NEW S, IsFiniteSet(S), \A x \in S : f[x] \in Nat, NEW T \in SUBSET S
    PROVE  SumFunctionOnSet(f, T) <= SumFunctionOnSet(f, S)
<1>1. IsFiniteSet(T) /\ IsFiniteSet(S \ T)
  BY FS_Subset
<1>2. SumFunctionOnSet(f, T) \in Nat /\ SumFunctionOnSet(f, S \ T) \in Nat
  BY <1>1, SumIsNat
<1> QED
  BY <1>2, SumSplits

=============================================================================
