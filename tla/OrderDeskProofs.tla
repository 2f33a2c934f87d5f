--------------------------- MODULE OrderDeskProofs ---------------------------
(***************************************************************************)
(* The rules of the order ledger, for any number of orders, any            *)
(* quantities, any number of crashes, with notices and orders placed       *)
(* elsewhere.  Three invariants, each resting on the one before:           *)
(*                                                                         *)
(*   Inv       an order is checked against the open ones and against the   *)
(*             client ids before an await and written after it: what the   *)
(*             checks have found still holds when the order is written.    *)
(*   Verdicts  what a verdict was based on (the baseline, the totals and   *)
(*             the orders they explain) is still a bound on what the       *)
(*             broker has when the verdict is given.                       *)
(*   Fills     the fills booked are the broker's: by order, by client and  *)
(*             in the sum of a symbol and side.                            *)
(*                                                                         *)
(* Day totals and fills are sums over orders; the first part has the facts *)
(* about sums.                                                             *)
(***************************************************************************)
EXTENDS OrderDesk, FiniteSetTheorems, WellFoundedInduction, TLAPS

-----------------------------------------------------------------------------
(* Sums over finite sets: what MapThenSumSet computes for every function   *)
(* of integers and every finite set.  Its definition takes the elements in *)
(* the order CHOOSE gives them; the lemmas make a sum independent of it.   *)
(* Each induction is an argument about the least counterexample.           *)

SumOf(f, S) == MapThenSumSet(LAMBDA x : f[x], S)

First(s)   == CHOOSE x \in s : TRUE
Body(f, g, s) == IF s = {} THEN 0 ELSE f[First(s)] + g[s \ {First(s)}]
Rec(f, S, g) == g = [s \in SUBSET S |-> Body(f, g, s)]
Iter(f, S) == CHOOSE g : Rec(f, S, g)

Ints(f, S) == IsFiniteSet(S) /\ \A x \in S : f[x] \in Int

\* A nonempty set of numbers has a least one.
LEMMA Least ==
    ASSUME NEW T, T \subseteq Nat, T # {}
    PROVE  \E m \in T : \A n \in Nat : n < m => n \notin T
  <1>1. PICK R : R = OpToRel(<, Nat)
    OBVIOUS
  <1>2. IsWellFoundedOn(R, Nat)
    BY <1>1, NatLessThanWellFounded
  <1>3. \A x, y \in Nat : <<y, x>> \in R <=> y < x
    BY <1>1 DEF OpToRel
  <1>4. PICK m \in T : \A n \in T : ~ (<<n, m>> \in R)
    BY <1>2, WFMin
  <1>5. \A n \in T : ~(n < m)
    BY <1>3, <1>4, Zenon
  <1> QED BY <1>5

\* A sum is the value of the iteration at the set itself.
LEMMA SumIsIter == ASSUME NEW f, NEW S PROVE SumOf(f, S) = Iter(f, S)[S]
  BY DEF SumOf, MapThenSumSet, MapThenFoldSet, Iter, Rec, Body, First

\* A nonempty set without its first element is smaller by one.
LEMMA Smaller ==
    ASSUME NEW s, IsFiniteSet(s), NEW x \in s
    PROVE  /\ IsFiniteSet(s \ {x}) /\ Cardinality(s \ {x}) \in Nat /\ Cardinality(s) \in Nat
           /\ Cardinality(s) = Cardinality(s \ {x}) + 1
  <1>1. Cardinality(s) \in Nat /\ IsFiniteSet(s \ {x})
    BY FS_CardinalityType, FS_RemoveElement
  <1>2. Cardinality(s \ {x}) \in Nat
    BY <1>1, FS_CardinalityType
  <1>3. Cardinality(s \ {x}) = Cardinality(s) - 1
    BY FS_RemoveElement
  <1> QED BY <1>1, <1>2, <1>3

\* The first element of a nonempty set is in it.
LEMMA FirstIn == ASSUME NEW s, s # {} PROVE First(s) \in s
  BY DEF First

\* The iteration exists: it can be built for larger and larger subsets.
LEMMA IterExists ==
    ASSUME NEW f, NEW S, IsFiniteSet(S)
    PROVE  Rec(f, S, Iter(f, S))
  <1> DEFINE Good(g, n) == /\ g = [s \in SUBSET S |-> g[s]]
                           /\ \A s \in SUBSET S : Cardinality(s) <= n => g[s] = Body(f, g, s)
             Bad == {n \in Nat : ~ \E g : Good(g, n)}
  <1>0. \A s \in SUBSET S : IsFiniteSet(s) /\ Cardinality(s) \in Nat
    BY FS_Subset, FS_CardinalityType
  <1>1. \E g : Good(g, 0)
    <2> DEFINE z == [s \in SUBSET S |-> 0]
    <2>1. \A s \in SUBSET S : Cardinality(s) <= 0 => s = {}
      BY <1>0, FS_EmptySet
    <2>2. \A s \in SUBSET S : Cardinality(s) <= 0 => z[s] = Body(f, z, s)
      BY <2>1 DEF Body
    <2>3. z = [s \in SUBSET S |-> z[s]]
      OBVIOUS
    <2> HIDE DEF z
    <2> QED BY <2>2, <2>3
  <1>2. ASSUME NEW n \in Nat, NEW g, Good(g, n) PROVE \E h : Good(h, n + 1)
    <2> DEFINE h == [s \in SUBSET S |-> IF Cardinality(s) <= n THEN g[s] ELSE Body(f, g, s)]
    <2>1. ASSUME NEW s \in SUBSET S, Cardinality(s) <= n + 1 PROVE h[s] = Body(f, h, s)
      <3>1. CASE s = {}
        <4>1. Cardinality(s) <= n
          BY <3>1, FS_EmptySet
        <4> QED BY <1>2, <3>1, <4>1 DEF Body
      <3>2. CASE s # {}
        <4>1. First(s) \in s
          BY <3>2, FirstIn
        <4>2. s \ {First(s)} \in SUBSET S
              /\ Cardinality(s) = Cardinality(s \ {First(s)}) + 1
              /\ Cardinality(s \ {First(s)}) \in Nat
          BY <1>0, <4>1, Smaller
        <4>3. Cardinality(s \ {First(s)}) <= n
          BY <2>1, <4>2
        <4>4. h[s \ {First(s)}] = g[s \ {First(s)}]
          BY <4>2, <4>3
        <4>5. Body(f, h, s) = Body(f, g, s)
          BY <4>4 DEF Body
        <4>6. h[s] = Body(f, g, s)
          <5>1. h[s] = IF Cardinality(s) <= n THEN g[s] ELSE Body(f, g, s)
            OBVIOUS
          <5>2. Cardinality(s) <= n => g[s] = Body(f, g, s)
            BY <1>2
          <5> QED BY <5>1, <5>2
        <4> QED BY <4>5, <4>6
      <3> QED BY <3>1, <3>2
    <2>2. h = [s \in SUBSET S |-> h[s]]
      OBVIOUS
    <2> HIDE DEF h
    <2> QED BY <2>1, <2>2
  <1>3. Bad = {}
    <2> SUFFICES ASSUME Bad # {} PROVE FALSE
      OBVIOUS
    <2>1. Bad \subseteq Nat
      OBVIOUS
    <2>2. PICK m \in Bad : \A n \in Nat : n < m => n \notin Bad
      <3> HIDE DEF Bad
      <3> QED BY <2>1, Least
    <2>3. m \in Nat /\ ~ \E g : Good(g, m)
      OBVIOUS
    <2>4. m # 0
      <3> HIDE DEF Good
      <3> QED BY <1>1, <2>3
    <2>5. m - 1 \in Nat /\ m - 1 < m /\ (m - 1) + 1 = m
      BY <2>3, <2>4
    <2>6. m - 1 \notin Bad
      BY <2>2, <2>5
    <2>7. \E g : Good(g, m - 1)
      <3> HIDE DEF Good
      <3> QED BY <2>5, <2>6
    <2>8. \E h : Good(h, (m - 1) + 1)
      <3> HIDE DEF Good
      <3> QED BY <1>2, <2>5, <2>7
    <2> HIDE DEF Good
    <2> QED BY <2>3, <2>5, <2>8
  <1>4. PICK g : Good(g, Cardinality(S))
    <2>1. Cardinality(S) \in Nat
      BY FS_CardinalityType
    <2> HIDE DEF Good
    <2> QED BY <1>3, <2>1
  <1>5. \A s \in SUBSET S : Cardinality(s) <= Cardinality(S)
    BY FS_Subset
  <1>6. Rec(f, S, g)
    BY <1>4, <1>5 DEF Rec
  <1> QED BY <1>6, Zenon DEF Iter

\* What the recursive equation says at one subset.
LEMMA RecAt ==
    ASSUME NEW f, NEW S, NEW g, Rec(f, S, g), NEW s \in SUBSET S
    PROVE  g[s] = Body(f, g, s)
  <1>1. PICK h : h = [t \in SUBSET S |-> Body(f, g, t)]
    OBVIOUS
  <1>2. h[s] = Body(f, g, s)
    BY <1>1
  <1>3. g = h
    BY <1>1, Zenon DEF Rec
  <1> QED BY ONLY <1>2, <1>3, Zenon

\* The value of the iteration at a subset.
LEMMA IterAt ==
    ASSUME NEW f, NEW S, IsFiniteSet(S), NEW s \in SUBSET S
    PROVE  Iter(f, S)[s] = Body(f, Iter(f, S), s)
  <1>1. Rec(f, S, Iter(f, S))
    BY IterExists, Zenon
  <1> QED BY <1>1, RecAt, Zenon

\* Every subset has the same value in the iteration over a larger set.
LEMMA IterSame ==
    ASSUME NEW f, NEW S, IsFiniteSet(S), NEW T \in SUBSET S
    PROVE  \A s \in SUBSET T : Iter(f, T)[s] = Iter(f, S)[s]
  <1> DEFINE Bad == {n \in Nat : \E s \in SUBSET T : Cardinality(s) = n
                                       /\ Iter(f, T)[s] # Iter(f, S)[s]}
  <1>0. \A s \in SUBSET T : IsFiniteSet(s) /\ Cardinality(s) \in Nat
    BY FS_Subset, FS_CardinalityType
  <1>1. IsFiniteSet(T)
    BY FS_Subset
  <1>2. \A s \in SUBSET T : /\ Iter(f, T)[s] = Body(f, Iter(f, T), s)
                            /\ Iter(f, S)[s] = Body(f, Iter(f, S), s)
    <2> SUFFICES ASSUME NEW s \in SUBSET T
                 PROVE  /\ Iter(f, T)[s] = Body(f, Iter(f, T), s)
                        /\ Iter(f, S)[s] = Body(f, Iter(f, S), s)
      OBVIOUS
    <2>1. s \in SUBSET S
      OBVIOUS
    <2> QED BY <1>1, <2>1, IterAt
  <1>3. Bad = {}
    <2> SUFFICES ASSUME Bad # {} PROVE FALSE
      OBVIOUS
    <2>1. Bad \subseteq Nat
      OBVIOUS
    <2>2. PICK m \in Bad : \A n \in Nat : n < m => n \notin Bad
      <3> HIDE DEF Bad
      <3> QED BY <2>1, Least
    <2>3. PICK s \in SUBSET T : Cardinality(s) = m /\ Iter(f, T)[s] # Iter(f, S)[s]
      OBVIOUS
    <2>4. s # {}
      BY <1>2, <2>3 DEF Body
    <2>5. First(s) \in s
      BY <2>4, FirstIn
    <2> DEFINE r == s \ {First(s)}
    <2>6. r \in SUBSET T /\ Cardinality(r) \in Nat /\ Cardinality(r) < m
      BY <1>0, <2>3, <2>5, Smaller
    <2>7. Iter(f, T)[r] = Iter(f, S)[r]
      BY <2>2, <2>6
    <2>8. Body(f, Iter(f, T), s) = Body(f, Iter(f, S), s)
      BY <2>4, <2>7 DEF Body
    <2> QED BY <1>2, <2>3, <2>8
  <1>4. ASSUME NEW s \in SUBSET T PROVE Iter(f, T)[s] = Iter(f, S)[s]
    BY <1>0, <1>3
  <1> QED BY <1>4

\* The sum over nothing.
LEMMA SumEmpty == ASSUME NEW f PROVE SumOf(f, {}) = 0
  <1>1. Iter(f, {})[{}] = Body(f, Iter(f, {}), {})
    <2>1. {} \in SUBSET {} /\ IsFiniteSet({})
      BY FS_EmptySet
    <2> QED BY <2>1, IterAt
  <1> QED BY <1>1, SumIsIter DEF Body

\* The sum over a set is its first element's value and the sum of the rest.
LEMMA SumFirst ==
    ASSUME NEW f, NEW S, IsFiniteSet(S), S # {}
    PROVE  SumOf(f, S) = f[First(S)] + SumOf(f, S \ {First(S)})
  <1> DEFINE r == S \ {First(S)}
  <1>1. Iter(f, S)[S] = f[First(S)] + Iter(f, S)[r]
    <2>1. S \in SUBSET S
      OBVIOUS
    <2>2. Iter(f, S)[S] = Body(f, Iter(f, S), S)
      BY <2>1, IterAt
    <2> QED BY <2>2 DEF Body
  <1>2. Iter(f, r)[r] = Iter(f, S)[r]
    <2>1. r \in SUBSET S /\ r \in SUBSET r
      OBVIOUS
    <2> HIDE DEF r
    <2> QED BY <2>1, IterSame
  <1> QED BY <1>1, <1>2, SumIsIter

\* The sum of integers is an integer, and any element may be taken out first.
THEOREM SumRemove ==
    ASSUME NEW f, NEW S, IsFiniteSet(S), \A x \in S : f[x] \in Int
    PROVE  /\ SumOf(f, S) \in Int
           /\ \A x \in S : SumOf(f, S) = f[x] + SumOf(f, S \ {x})
  <1> DEFINE Good(s) == /\ SumOf(f, s) \in Int
                        /\ \A x \in s : SumOf(f, s) = f[x] + SumOf(f, s \ {x})
             Bad == {n \in Nat : \E s \in SUBSET S : Cardinality(s) = n /\ ~Good(s)}
  <1>0. \A s \in SUBSET S : IsFiniteSet(s) /\ Cardinality(s) \in Nat
    BY FS_Subset, FS_CardinalityType
  <1>1. Bad = {}
    <2> SUFFICES ASSUME Bad # {} PROVE FALSE
      OBVIOUS
    <2>1. Bad \subseteq Nat
      OBVIOUS
    <2>2. PICK m \in Bad : \A n \in Nat : n < m => n \notin Bad
      <3> HIDE DEF Bad
      <3> QED BY <2>1, Least
    <2>3. PICK s \in SUBSET S : Cardinality(s) = m /\ ~Good(s)
      OBVIOUS
    <2>4. \A r \in SUBSET S : Cardinality(r) < m => Good(r)
      <3> HIDE DEF Good
      <3>1. m \in Nat
        BY <2>1
      <3> QED BY <1>0, <2>2, <3>1
    <2>5. s # {}
      BY <2>3, SumEmpty
    <2> DEFINE c == First(s)
    <2>6. c \in s /\ f[c] \in Int
      BY <2>5, FirstIn
    <2>7. \A x \in s : s \ {x} \in SUBSET S /\ Good(s \ {x})
      <3> SUFFICES ASSUME NEW x \in s PROVE s \ {x} \in SUBSET S /\ Good(s \ {x})
        OBVIOUS
      <3>1. Cardinality(s \ {x}) < m
        BY <1>0, <2>3, Smaller
      <3> HIDE DEF Good
      <3> QED BY <2>4, <3>1
    <2>8. SumOf(f, s) = f[c] + SumOf(f, s \ {c})
      BY <1>0, <2>5, SumFirst
    <2>9. SumOf(f, s) \in Int
      BY <2>6, <2>7, <2>8
    <2>10. ASSUME NEW x \in s PROVE SumOf(f, s) = f[x] + SumOf(f, s \ {x})
      <3>1. CASE x = c
        BY <2>8, <3>1
      <3>2. CASE x # c
        <4>1. x \in s \ {c} /\ c \in s \ {x} /\ f[x] \in Int
          BY <2>6, <3>2
        <4> DEFINE d == SumOf(f, s \ {x, c})
        <4>2. (s \ {c}) \ {x} = s \ {x, c} /\ (s \ {x}) \ {c} = s \ {x, c}
          OBVIOUS
        <4>3. SumOf(f, s \ {c}) = f[x] + d
          BY <2>6, <2>7, <4>1, <4>2
        <4>4. SumOf(f, s \ {x}) = f[c] + d
          BY <2>7, <4>1, <4>2
        <4>5. d \in Int
          <5>1. (s \ {c}) \ {x} \in SUBSET S /\ Cardinality((s \ {c}) \ {x}) < m
            <6>1. Cardinality(s \ {c}) < m /\ Cardinality(s \ {c}) \in Nat
                  /\ IsFiniteSet(s \ {c})
              BY <1>0, <2>3, <2>6, Smaller
            <6>2. Cardinality((s \ {c}) \ {x}) \in Nat
                  /\ Cardinality(s \ {c}) = Cardinality((s \ {c}) \ {x}) + 1
              BY <4>1, <6>1, Smaller
            <6>3. m \in Nat
              BY <2>1
            <6> QED BY <6>1, <6>2, <6>3
          <5> QED BY <2>4, <4>2, <5>1
        <4> HIDE DEF d, c
        <4> QED BY <2>6, <2>8, <4>1, <4>3, <4>4, <4>5
      <3> QED BY <3>1, <3>2
    <2> QED BY <2>3, <2>9, <2>10
  <1>2. Good(S)
    <2> HIDE DEF Good
    <2>1. S \in SUBSET S
      OBVIOUS
    <2> QED BY <1>0, <1>1, <2>1
  <1> QED BY <1>2

\* One element more.
THEOREM SumAdd ==
    ASSUME NEW f, NEW S, Ints(f, S), NEW x, x \notin S, f[x] \in Int
    PROVE  SumOf(f, S \cup {x}) = f[x] + SumOf(f, S) /\ SumOf(f, S) \in Int
  <1>1. IsFiniteSet(S \cup {x}) /\ \A y \in S \cup {x} : f[y] \in Int
    BY FS_AddElement DEF Ints
  <1>2. (S \cup {x}) \ {x} = S
    OBVIOUS
  <1>3. SumOf(f, S \cup {x}) = f[x] + SumOf(f, (S \cup {x}) \ {x})
    BY <1>1, SumRemove
  <1> QED BY <1>2, <1>3, SumRemove DEF Ints

\* Among the subsets of a finite set that are bad there is one that is not
\* without any of its elements.
LEMMA LeastSet ==
    ASSUME NEW S, IsFiniteSet(S), NEW Bad, Bad \subseteq SUBSET S, Bad # {}
    PROVE  \E s \in Bad : \A x \in s : s \ {x} \notin Bad
  <1> DEFINE T == {Cardinality(s) : s \in Bad}
  <1>0. \A s \in SUBSET S : IsFiniteSet(s) /\ Cardinality(s) \in Nat
    BY FS_Subset, FS_CardinalityType
  <1>1. T \subseteq Nat /\ T # {}
    BY <1>0
  <1>2. PICK m \in T : \A n \in Nat : n < m => n \notin T
    <2> HIDE DEF T
    <2> QED BY <1>1, Least
  <1>3. PICK s \in Bad : Cardinality(s) = m
    OBVIOUS
  <1>4. ASSUME NEW x \in s, s \ {x} \in Bad PROVE FALSE
    <2>1. Cardinality(s \ {x}) \in T
      BY <1>4
    <2>2. Cardinality(s \ {x}) \in Nat /\ Cardinality(s) = Cardinality(s \ {x}) + 1
      BY <1>0, <1>4, Smaller
    <2>3. Cardinality(s \ {x}) < m
      BY <1>3, <2>2
    <2> HIDE DEF T
    <2> QED BY <1>2, <2>1, <2>2, <2>3
  <1> QED BY <1>4

\* A sum of smaller numbers is smaller.
THEOREM SumLeq ==
    ASSUME NEW f, NEW g, NEW S, IsFiniteSet(S),
           \A x \in S : f[x] \in Int /\ g[x] \in Int /\ f[x] <= g[x]
    PROVE  SumOf(f, S) <= SumOf(g, S)
  <1> DEFINE Bad == {s \in SUBSET S : ~(SumOf(f, s) <= SumOf(g, s))}
  <1>1. ASSUME Bad # {} PROVE FALSE
    <2>1. Bad \subseteq SUBSET S
      OBVIOUS
    <2>2. PICK s \in Bad : \A x \in s : s \ {x} \notin Bad
      <3> HIDE DEF Bad
      <3> QED BY <1>1, <2>1, LeastSet
    <2>3. s \in SUBSET S /\ IsFiniteSet(s)
      BY FS_Subset
    <2>4. s # {}
      <3>1. SumOf(f, {}) = 0 /\ SumOf(g, {}) = 0
        BY SumEmpty
      <3> QED BY <3>1
    <2>5. PICK x : x \in s
      BY <2>4
    <2>6. SumOf(f, s \ {x}) <= SumOf(g, s \ {x})
      BY <2>2, <2>3, <2>5
    <2>7. IsFiniteSet(s \ {x}) /\ \A y \in s : f[y] \in Int /\ g[y] \in Int /\ f[y] <= g[y]
      BY <2>3, FS_RemoveElement
    <2>8. SumOf(f, s) = f[x] + SumOf(f, s \ {x}) /\ SumOf(g, s) = g[x] + SumOf(g, s \ {x})
      BY <2>3, <2>5, <2>7, SumRemove
    <2>9. SumOf(f, s \ {x}) \in Int /\ SumOf(g, s \ {x}) \in Int
      BY <2>7, SumRemove
    <2>10. ~(SumOf(f, s) <= SumOf(g, s))
      BY <2>2
    <2> QED BY <2>5, <2>6, <2>7, <2>8, <2>9, <2>10
  <1>2. SumOf(f, S) <= SumOf(g, S)
    <2>1. S \in SUBSET S
      OBVIOUS
    <2> QED BY <1>1, <2>1
  <1> QED BY <1>2

\* A sum looks at nothing but the elements of its set.
THEOREM SumSame ==
    ASSUME NEW f, NEW g, NEW S, IsFiniteSet(S), \A x \in S : f[x] \in Int /\ f[x] = g[x]
    PROVE  SumOf(f, S) = SumOf(g, S)
  <1>1. \A x \in S : f[x] \in Int /\ g[x] \in Int /\ f[x] <= g[x] /\ g[x] <= f[x]
    OBVIOUS
  <1>2. SumOf(f, S) \in Int /\ SumOf(g, S) \in Int
    BY <1>1, SumRemove
  <1>3. SumOf(f, S) <= SumOf(g, S)
    BY <1>1, SumLeq
  <1>4. SumOf(g, S) <= SumOf(f, S)
    BY <1>1, SumLeq
  <1> QED BY <1>2, <1>3, <1>4

\* A sum over one element.
LEMMA SumOne == ASSUME NEW f, NEW x, f[x] \in Int PROVE SumOf(f, {x}) = f[x]
  <1>1. IsFiniteSet({x}) /\ \A y \in {x} : f[y] \in Int
    BY FS_Singleton
  <1>2. SumOf(f, {x}) = f[x] + SumOf(f, {x} \ {x})
    BY <1>1, SumRemove
  <1>3. {x} \ {x} = {}
    OBVIOUS
  <1> QED BY <1>2, <1>3, SumEmpty

\* A sum over two sets that have nothing in common.
THEOREM SumSplit ==
    ASSUME NEW f, NEW S, NEW T, IsFiniteSet(S), IsFiniteSet(T), S \cap T = {},
           \A x \in S \cup T : f[x] \in Int
    PROVE  SumOf(f, S \cup T) = SumOf(f, S) + SumOf(f, T)
  <1> DEFINE Bad == {t \in SUBSET T : SumOf(f, S \cup t) # SumOf(f, S) + SumOf(f, t)}
  <1>0. SumOf(f, S) \in Int
    BY SumRemove
  <1>1. ASSUME Bad # {} PROVE FALSE
    <2>1. Bad \subseteq SUBSET T
      OBVIOUS
    <2>2. PICK t \in Bad : \A x \in t : t \ {x} \notin Bad
      <3> HIDE DEF Bad
      <3> QED BY <1>1, <2>1, LeastSet
    <2>3. t \in SUBSET T /\ IsFiniteSet(t) /\ IsFiniteSet(S \cup t)
      BY FS_Subset, FS_Union
    <2>4. t # {}
      <3> SUFFICES ASSUME t = {} PROVE FALSE
        OBVIOUS
      <3>1. S \cup t = S
        OBVIOUS
      <3>2. SumOf(f, S \cup t) = SumOf(f, S)
        BY ONLY <3>1, Zenon
      <3>3. SumOf(f, t) = 0
        BY SumEmpty
      <3>4. SumOf(f, S \cup t) # SumOf(f, S) + SumOf(f, t)
        BY <2>2
      <3> QED BY <1>0, <3>2, <3>3, <3>4
    <2>5. PICK x : x \in t
      BY <2>4
    <2>6. SumOf(f, S \cup (t \ {x})) = SumOf(f, S) + SumOf(f, t \ {x})
      BY <2>2, <2>3, <2>5
    <2>7. (S \cup t) \ {x} = S \cup (t \ {x})
      BY <2>3, <2>5
    <2>8. SumOf(f, S \cup t) = f[x] + SumOf(f, S \cup (t \ {x}))
      <3>1. \A y \in S \cup t : f[y] \in Int
        BY <2>3
      <3>2. SumOf(f, S \cup t) = f[x] + SumOf(f, (S \cup t) \ {x})
        BY <2>3, <2>5, <3>1, SumRemove
      <3> QED BY ONLY <2>7, <3>2, Zenon
    <2>9. SumOf(f, t) = f[x] + SumOf(f, t \ {x}) /\ f[x] \in Int
      BY <2>3, <2>5, SumRemove
    <2>10. SumOf(f, t \ {x}) \in Int
      <3>1. IsFiniteSet(t \ {x}) /\ \A y \in t \ {x} : f[y] \in Int
        BY <2>3, FS_RemoveElement
      <3> QED BY <3>1, SumRemove
    <2>11. SumOf(f, S \cup t) # SumOf(f, S) + SumOf(f, t)
      BY <2>2
    <2> QED BY <1>0, <2>6, <2>7, <2>8, <2>9, <2>10, <2>11
  <1>2. SumOf(f, S \cup T) = SumOf(f, S) + SumOf(f, T)
    <2>1. T \in SUBSET T
      OBVIOUS
    <2> QED BY <1>1, <2>1
  <1> QED BY <1>2

\* A sum of zeros.
LEMMA SumZero ==
    ASSUME NEW f, NEW S, IsFiniteSet(S), \A x \in S : f[x] = 0
    PROVE  SumOf(f, S) = 0
  <1> DEFINE Bad == {s \in SUBSET S : SumOf(f, s) # 0}
  <1>1. ASSUME Bad # {} PROVE FALSE
    <2>1. Bad \subseteq SUBSET S
      OBVIOUS
    <2>2. PICK s \in Bad : \A x \in s : s \ {x} \notin Bad
      <3> HIDE DEF Bad
      <3> QED BY <1>1, <2>1, LeastSet
    <2>3. s \in SUBSET S /\ IsFiniteSet(s) /\ SumOf(f, s) # 0
      BY FS_Subset
    <2>4. PICK x : x \in s
      BY <2>3, SumEmpty
    <2>5. SumOf(f, s \ {x}) = 0
      BY <2>2, <2>3, <2>4
    <2>6. SumOf(f, s) = f[x] + SumOf(f, s \ {x})
      BY <2>3, <2>4, SumRemove
    <2> QED BY <2>3, <2>4, <2>5, <2>6
  <1>2. S \in SUBSET S
    OBVIOUS
  <1> QED BY <1>1, <1>2

\* A sum of natural numbers is one, and no sum over fewer elements is larger.
THEOREM SumNat ==
    ASSUME NEW f, NEW S, IsFiniteSet(S), \A x \in S : f[x] \in Nat
    PROVE  /\ SumOf(f, S) \in Nat
           /\ \A T \in SUBSET S : SumOf(f, T) \in Nat /\ SumOf(f, T) <= SumOf(f, S)
  <1>1. ASSUME NEW T \in SUBSET S PROVE IsFiniteSet(T) /\ SumOf(f, T) \in Nat
    <2> DEFINE z == [x \in T |-> 0]
    <2>1. IsFiniteSet(T)
      BY FS_Subset
    <2>2. SumOf(z, T) <= SumOf(f, T)
      <3>1. \A x \in T : z[x] \in Int /\ f[x] \in Int /\ z[x] <= f[x]
        OBVIOUS
      <3> HIDE DEF z
      <3> QED BY <2>1, <3>1, SumLeq
    <2>3. SumOf(z, T) = 0
      <3>1. \A x \in T : z[x] = 0
        OBVIOUS
      <3> HIDE DEF z
      <3> QED BY <2>1, <3>1, SumZero
    <2>4. SumOf(f, T) \in Int
      BY <2>1, SumRemove
    <2> HIDE DEF z
    <2> QED BY <2>1, <2>2, <2>3, <2>4
  <1>2. ASSUME NEW T \in SUBSET S PROVE SumOf(f, T) <= SumOf(f, S)
    <2>1. IsFiniteSet(T) /\ SumOf(f, T) \in Nat /\ IsFiniteSet(S \ T) /\ SumOf(f, S \ T) \in Nat
      BY <1>1
    <2>2. T \cup (S \ T) = S /\ T \cap (S \ T) = {}
      OBVIOUS
    <2>3. SumOf(f, T \cup (S \ T)) = SumOf(f, T) + SumOf(f, S \ T)
      BY <2>1, <2>2, SumSplit
    <2>4. SumOf(f, S) = SumOf(f, T) + SumOf(f, S \ T)
      BY ONLY <2>2, <2>3, Zenon
    <2> QED BY <2>1, <2>4
  <1> QED BY <1>1, <1>2

-----------------------------------------------------------------------------
(* The ledger.                                                             *)

\* The types the argument needs; day totals are sums and play no part in it.
Typed ==
    /\ rows \in 0..MaxOrders
    /\ state \in [Ids -> States]
    /\ cid \in [Ids -> ClientIds \cup {0}]
    /\ request \in [Ids -> {"none", "underway", "accepted", "rejected"}]
    /\ submit.pc \in {"idle", "preparing", "baseline", "recorded", "sending"}
    /\ submit.cid \in ClientIds \cup {0}
    /\ submit = [pc |-> submit.pc, cid |-> submit.cid, qty |-> submit.qty,
                 answer |-> submit.answer]

\* Rows that are not there yet are neither in a state nor at the broker.
Fresh == \A i \in Ids : i > rows => state[i] = "none" /\ request[i] = "none"

\* A client id has one row.
OneRow == \A i, j \in Rows : cid[i] = cid[j] => i = j

\* What submit has checked holds until it writes the order.
Checked ==
    submit.pc \in {"preparing", "baseline"} =>
      /\ In(OPEN_STATES) = {} /\ ~Recorded(submit.cid) /\ rows < MaxOrders

\* The order submit has written is the last row and open.
Written ==
    submit.pc \in {"recorded", "sending"} =>
      rows \in Ids /\ state[rows] = "PENDING_SUBMIT"

Inv == Typed /\ Fresh /\ OneRow /\ OneOpenOrder /\ Checked /\ Written

\* A step that writes no row and opens no order.
Quiet ==
    /\ UNCHANGED <<rows, cid>>
    /\ state' \in [Ids -> States]
    /\ \A i \in Ids : /\ state'[i] \in OPEN_STATES => state[i] \in OPEN_STATES
                      /\ state[i] = "none" => state'[i] = "none"

-----------------------------------------------------------------------------
\* The initial state satisfies the invariant: no row, nothing submitted.
LEMMA InitInv == Init => Inv
BY DeskAssumption
   DEF Init, Inv, Typed, Fresh, OneRow, OneOpenOrder, Checked, Written, Rows, In,
       Ids, States, NoSubmit

\* A quiet step that leaves submit alone, or ends it, and leaves the requests
\* alone preserves the invariant, if the order just written stays as it is.
LEMMA QuietStep ==
    ASSUME Inv, Quiet, UNCHANGED request,
           \/ submit' = NoSubmit
           \/ /\ UNCHANGED submit
              /\ submit.pc \in {"recorded", "sending"} => state'[rows] = state[rows]
    PROVE  Inv'
<1>1. Typed'
  BY DEF Inv, Typed, Quiet, NoSubmit
<1>2. Fresh'
  BY DEF Inv, Fresh, Quiet
<1>3. OneRow'
  BY DEF Inv, OneRow, Rows, Quiet
<1>4. In(OPEN_STATES)' \subseteq In(OPEN_STATES)
  BY DeskAssumption DEF Inv, Typed, Quiet, In, Rows, Ids, OPEN_STATES
<1>5. OneOpenOrder'
  BY <1>4 DEF Inv, OneOpenOrder
<1>6. Checked'
  <2>1. CASE submit' = NoSubmit
    BY <2>1 DEF Checked, NoSubmit
  <2>2. CASE UNCHANGED submit
    BY <2>2, <1>4 DEF Inv, Checked, Quiet, Recorded, Rows
  <2> QED BY <2>1, <2>2
<1>7. Written'
  BY DEF Inv, Written, Quiet, NoSubmit
<1> QED BY <1>1, <1>2, <1>3, <1>5, <1>6, <1>7 DEF Inv

\* Every step of submit preserves the invariant.
LEMMA SubmitStep == Inv /\ Submit => Inv'
<1> SUFFICES ASSUME Inv, Submit PROVE Inv'
  OBVIOUS
<1>1. CASE \E c \in ClientIds, q \in 1..MaxQty : SubmitChecked(c, q)
  <2>1. PICK c \in ClientIds, q \in 1..MaxQty : SubmitChecked(c, q)
    BY <1>1
  <2> QED
    BY <2>1 DEF SubmitChecked, Inv, Typed, Fresh, OneRow, OneOpenOrder, Checked,
                Written, OpenOrder, Rows, In, Recorded, ledger, broker
<1>2. CASE SubmitBlocked
  <2>1. Quiet
    BY <1>2 DEF SubmitBlocked, Quiet, ledger, Inv, Typed
  <2> QED BY <1>2, <2>1, QuietStep DEF SubmitBlocked, broker
<1>3. CASE BaselineAnswered
  BY <1>3 DEF BaselineAnswered, Inv, Typed, Fresh, OneRow, OneOpenOrder, Checked,
              Written, Rows, In, Recorded, ledger, broker
<1>4. CASE NewOrder
  <2>1. /\ submit.pc \in {"preparing", "baseline"}
        /\ rows' = rows + 1 /\ rows + 1 \in Ids
        /\ cid' = [cid EXCEPT ![rows + 1] = submit.cid]
        /\ state' = [state EXCEPT ![rows + 1] = "PENDING_SUBMIT"]
        /\ submit' = [submit EXCEPT !.pc = "recorded", !.answer = NoBase]
        /\ UNCHANGED request
    BY <1>4, DeskAssumption DEF NewOrder, Inv, Typed, Checked, Ids, broker
  <2>2. /\ In(OPEN_STATES) = {} /\ ~Recorded(submit.cid)
    BY <2>1 DEF Inv, Checked
  <2>3. Typed'
    <3>1. submit.cid \in ClientIds \cup {0}
      BY DEF Inv, Typed
    <3>2. submit' = [pc |-> "recorded", cid |-> submit.cid, qty |-> submit.qty,
                     answer |-> NoBase]
      BY <2>1 DEF Inv, Typed
    <3>3. /\ rows' \in 0..MaxOrders
          /\ state' \in [Ids -> States] /\ cid' \in [Ids -> ClientIds \cup {0}]
      BY <2>1, <3>1, DeskAssumption DEF Inv, Typed, Ids, States, OPEN_STATES
    <3> QED BY <2>1, <3>1, <3>2, <3>3 DEF Inv, Typed
  <2>4. Fresh'
    BY <2>1 DEF Inv, Typed, Fresh, Ids
  <2>5. OneRow'
    BY <2>1, <2>2 DEF Inv, Typed, OneRow, Recorded, Rows, Ids
  <2>6. OneOpenOrder'
    BY <2>1, <2>2 DEF Inv, Typed, OneOpenOrder, In, Rows, Ids
  <2>7. Checked' /\ Written'
    BY <2>1 DEF Inv, Typed, Checked, Written
  <2> QED BY <2>3, <2>4, <2>5, <2>6, <2>7 DEF Inv
<1>5. CASE SendOrder
  BY <1>5 DEF SendOrder, Inv, Typed, Fresh, OneRow, OneOpenOrder, Checked,
              Written, Rows, In, Recorded, Sent, Ids, ledger
<1>6. ASSUME NEW s \in {"ACCEPTED", "REJECTED", "UNKNOWN"},
             submit.pc = "sending", Mark(s)
      PROVE  Inv'
  <2>1. Quiet
    BY <1>6 DEF Mark, Quiet, Inv, Typed, Written, Sent, States, OPEN_STATES, LIVE_STATES
  <2> QED BY <1>6, <2>1, QuietStep DEF Mark, broker
<1>7. CASE OrderAccepted \/ OrderRejected \/ OrderUncertain
  BY <1>6, <1>7 DEF OrderAccepted, OrderRejected, OrderUncertain
<1> QED BY <1>1, <1>2, <1>3, <1>4, <1>5, <1>7 DEF Submit

\* Applying day totals opens no order: only an open one is settled or filled.
LEMMA ApplyTotalsQuiet == Inv /\ ApplyTotals => Quiet
<1> SUFFICES ASSUME Inv, ApplyTotals PROVE Quiet
  OBVIOUS
<1>1. \A i \in Rows : \/ Resolved(i) \in States /\ Resolved(i) # "none"
                      \/ Resolved(i) = state[i]
  BY DEF Resolved, States, OPEN_STATES, LIVE_STATES
<1>2. \A i \in Rows : Resolved(i) \in OPEN_STATES => state[i] \in OPEN_STATES
  BY DEF Resolved, Unknown, In, OPEN_STATES
<1>3. \A i \in Rows : Take(i) > 0 => i \in Open
  BY DEF Take
<1>4. \A i \in Open : state[i] \in OPEN_STATES
  BY <1>2 DEF Open, Sharing, Live, Unknown, In, FILLABLE_STATES, OPEN_STATES
<1>5. \A i \in Rows : state[i] = "none" => Resolved(i) = "none"
  BY DEF Resolved, Unknown, In
<1> QED
  BY <1>1, <1>2, <1>3, <1>4, <1>5
     DEF ApplyTotals, Quiet, Inv, Typed, FillState, States, LIVE_STATES, OPEN_STATES

\* What a crash makes of a row: one whose order was being written is in doubt, and one
\* row may have been resolved or have expired.
Outcome(i) ==
    \/ state'[i] = state[i] /\ state[i] # "PENDING_SUBMIT"
    \/ state[i] = "PENDING_SUBMIT" /\ state'[i] = "UNKNOWN"
    \/ recon = "answered" /\ i \in Unknown /\ Explained /\ state'[i] = "ACCEPTED"
    \/ recon = "answered" /\ i \in Unknown /\ Extra <= 0 /\ i \in old /\ state'[i] = "NOT_SENT"
    \/ state[i] \in FILLABLE_STATES /\ state'[i] = "EXPIRED"

\* What a crash leaves of the ledger.
LEMMA DiesIs ==
    ASSUME Inv, Dies
    PROVE  /\ \A i \in Ids : Outcome(i)
           /\ state' \in [Ids -> States]
           /\ UNCHANGED <<rows, cid, qty, filled, odno, closed, broker, old, late, fails>>
           /\ submit' = NoSubmit /\ recon' = "idle" /\ answer' = NoBase
           /\ seen' = {} /\ breaks' = {} /\ crashes' = crashes + 1 /\ MoreFaults
           /\ base' = base \/ (submit.pc = "baseline" /\ base' = submit.answer)
           /\ \/ UNCHANGED <<noticed, recent>>
              \/ \E m \in mail : noticed' = noticed \cup {m} /\ recent' = recent \cup {m}
<1>1. state \in [Ids -> States]
  BY DEF Inv, Typed
<1>2. ASSUME NEW st, Die(st), NEW i \in Ids, st[i] = state[i] PROVE Outcome(i)
  BY <1>1, <1>2 DEF Die, Outcome
<1>3. CASE Crash \/ CrashInNewOrder \/ \E m \in mail : CrashInNotice(m)
  <2>1. Die(state)
    BY <1>3 DEF Crash, CrashInNewOrder, CrashInNotice
  <2>2. \A i \in Ids : Outcome(i)
    BY <1>2, <2>1
  <2>3. state' \in [Ids -> States]
    BY <1>1, <2>1 DEF Die, States, OPEN_STATES
  <2> QED BY <1>3, <2>1, <2>2, <2>3 DEF Crash, CrashInNewOrder, CrashInNotice, Die
<1>4. CASE CrashInTotals
  <2>1. PICK st : st = [i \in Ids |-> IF i \in Rows THEN Resolved(i) ELSE state[i]] /\ Die(st)
    BY <1>4 DEF CrashInTotals
  <2>2. recon = "answered"
    BY <1>4 DEF CrashInTotals
  <2>3. ASSUME NEW i \in Ids PROVE Outcome(i) /\ st[i] \in States
    <3>1. CASE st[i] = state[i]
      BY <1>1, <1>2, <2>1, <3>1
    <3>2. CASE st[i] # state[i]
      <4>1. st[i] = Resolved(i) /\ i \in Rows
        BY <2>1, <3>2
      <4>2. \/ i \in Unknown /\ Explained /\ st[i] = "ACCEPTED"
            \/ i \in Unknown /\ Extra <= 0 /\ i \in old /\ st[i] = "NOT_SENT"
        BY <3>2, <4>1 DEF Resolved
      <4>3. state'[i] = st[i]
        BY <2>1, <4>2 DEF Die
      <4> QED BY <2>2, <4>2, <4>3 DEF Outcome, States, LIVE_STATES
    <3> QED BY <3>1, <3>2
  <2>4. state' \in [Ids -> States]
    BY <2>1, <2>3 DEF Die, States, OPEN_STATES
  <2> QED BY <1>4, <2>1, <2>3, <2>4 DEF CrashInTotals, Die
<1>5. CASE CrashInClose
  <2>1. Die(Expired)
    BY <1>5 DEF CrashInClose
  <2>2. ASSUME NEW i \in Ids PROVE Outcome(i) /\ Expired[i] \in States
    <3>1. Expired[i] = IF state[i] \in FILLABLE_STATES THEN "EXPIRED" ELSE state[i]
      BY DEF Expired
    <3>2. CASE state[i] \in FILLABLE_STATES
      BY <2>1, <3>1, <3>2 DEF Die, Outcome, States, LIVE_STATES
    <3>3. CASE state[i] \notin FILLABLE_STATES
      BY <1>1, <1>2, <2>1, <3>1, <3>3
    <3> QED BY <3>2, <3>3
  <2>3. state' \in [Ids -> States]
    BY <2>1, <2>2 DEF Die, States, OPEN_STATES
  <2> QED BY <1>5, <2>1, <2>2, <2>3 DEF CrashInClose, Die
<1> QED BY <1>3, <1>4, <1>5 DEF Dies

\* A crash opens no order.
LEMMA DiesQuiet == ASSUME Inv, Dies PROVE Quiet
<1>1. /\ \A i \in Ids : Outcome(i)
      /\ state' \in [Ids -> States] /\ UNCHANGED <<rows, cid>>
  BY DiesIs
<1>2. \A i \in Ids : /\ state'[i] \in OPEN_STATES => state[i] \in OPEN_STATES
                     /\ state[i] = "none" => state'[i] = "none"
  BY <1>1 DEF Outcome, Unknown, In, OPEN_STATES, FILLABLE_STATES
<1> QED BY <1>1, <1>2 DEF Quiet

\* Every step preserves the invariant.
LEMMA NextInv == Inv /\ [Next]_vars => Inv'
<1> SUFFICES ASSUME Inv, [Next]_vars PROVE Inv'
  OBVIOUS
<1>1. CASE Submit
  BY <1>1, SubmitStep
<1>2. CASE \E m \in mail : OnNotice(m)
  <2>1. PICK m \in mail : OnNotice(m)
    BY <1>2
  <2>2. Quiet
    BY <2>1 DEF OnNotice, NoticeApplies, Quiet, Inv, Typed, FillState, States,
                OPEN_STATES, LIVE_STATES, FILLABLE_STATES
  <2>3. submit.pc \in {"recorded", "sending"} => state'[rows] = state[rows]
    BY <2>1 DEF OnNotice, NoticeApplies, Inv, Typed, Written, FILLABLE_STATES
  <2> QED BY <2>1, <2>2, <2>3, QuietStep DEF OnNotice, desk, broker
<1>3. CASE ReconcileStart \/ TotalsAnswered \/ ReconcileFails
  BY <1>3, QuietStep
     DEF ReconcileStart, TotalsAnswered, ReconcileFails, Quiet, ledger, broker, Inv, Typed
<1>4. CASE ApplyTotals
  <2>1. Quiet
    BY <1>4, ApplyTotalsQuiet
  <2>2. submit.pc \in {"recorded", "sending"} => state'[rows] = state[rows]
    <3> SUFFICES ASSUME submit.pc \in {"recorded", "sending"}
                 PROVE  state'[rows] = state[rows]
      OBVIOUS
    <3>1. rows \in Rows /\ rows \in Ids /\ state[rows] = "PENDING_SUBMIT"
      BY DeskAssumption DEF Inv, Typed, Written, Rows, Ids
    <3>2. rows \notin Unknown /\ rows \notin Sharing
      BY <3>1 DEF Unknown, Sharing, Live, In, LIVE_STATES
    <3>3. Take(rows) = 0 /\ Resolved(rows) = state[rows]
      BY <3>2 DEF Take, Open, Resolved
    <3> QED BY <1>4, <3>1, <3>3 DEF ApplyTotals
  <2> QED BY <1>4, <2>1, <2>2, QuietStep DEF ApplyTotals, broker
<1>5. CASE ReconcileEnd
  <2>1. Quiet
    BY <1>5 DEF ReconcileEnd, Expired, Quiet, Inv, Typed, States, OPEN_STATES, LIVE_STATES,
                FILLABLE_STATES
  <2>2. submit.pc \in {"recorded", "sending"} => state'[rows] = state[rows]
    BY <1>5 DEF ReconcileEnd, Expired, Inv, Typed, Written, FILLABLE_STATES
  <2> QED BY <1>5, <2>1, <2>2, QuietStep DEF ReconcileEnd, Expired, broker
<1>6. CASE Dies
  <2>1. Quiet /\ UNCHANGED request /\ submit' = NoSubmit
    BY <1>6, DiesQuiet, DiesIs DEF broker
  <2> QED BY <2>1, QuietStep
<1>7. ASSUME NEW i \in Ids, BrokerAccepts(i) \/ BrokerRejects(i) PROVE Inv'
  BY <1>7 DEF BrokerAccepts, BrokerRejects, Inv, Typed, Fresh, OneRow,
              OneOpenOrder, Checked, Written, Rows, In, Recorded, ledger, desk
<1>8. CASE \/ \E i \in Ids : BrokerFills(i)
           \/ ExternalOrder \/ ExternalFill \/ TotalsCatchUp
  BY <1>8, QuietStep
     DEF BrokerFills, ExternalOrder, ExternalFill, TotalsCatchUp, Quiet, ledger,
         desk, Inv, Typed
<1>9. CASE Time
  BY <1>9, QuietStep
     DEF Time, GracePasses, NoticeAges, MarketCloses, Quiet, ledger, desk, broker,
         Inv, Typed
<1>10. CASE UNCHANGED vars
  BY <1>10, QuietStep DEF vars, Quiet, ledger, desk, broker, Inv, Typed
<1> QED
  BY <1>1, <1>2, <1>3, <1>4, <1>5, <1>6, <1>7, <1>8, <1>9, <1>10
     DEF Next, Reconcile, Broker

\* The invariant holds in every reachable state.
THEOREM DeskInvariant == Spec => []Inv
BY InitInv, NextInv, PTL DEF Spec

\* Rule 4 (order_desk.py, submit; ledger.py, apply_totals): there is never more
\* than one open order for a symbol and side.
THEOREM AtMostOneOpenOrder == Spec => []OneOpenOrder
<1>1. Inv => OneOpenOrder
  BY DEF Inv
<1> QED BY <1>1, DeskInvariant, PTL

\* Rule 3 (order_desk.py, submit; ledger.py, new_order): no client id is sent
\* to the broker twice.
THEOREM ClientIdSentOnce == Spec => []OncePerClientId
<1>1. Inv => OncePerClientId
  BY DEF Inv, Typed, Fresh, OneRow, OncePerClientId, Rows, Ids
<1> QED BY <1>1, DeskInvariant, PTL

\* Rules 3 and 4 together: whatever the desk forgets or repeats, no second order.
THEOREM OrdersAreSingle == Spec => []NoOrderTwice
  BY AtMostOneOpenOrder, ClientIdSentOnce, PTL DEF NoOrderTwice

-----------------------------------------------------------------------------
(* The verdicts, and what the ledger books as filled.                      *)

Reply == [ord : Nat, fill : Nat]

\* What the tables and the broker can hold of an order.
Filed ==
    /\ qty \in [Ids -> Qtys] /\ \A i \in Ids : IF i \in Rows THEN qty[i] > 0 ELSE qty[i] = 0
    /\ bfilled \in [Ids -> Qtys] /\ (\A i \in Ids : bfilled[i] <= qty[i])
    /\ external \in Reply /\ external.fill <= external.ord /\ totals \in Nat
    /\ old \subseteq Rows
    /\ submit.pc # "idle" => submit.qty \in 1..MaxQty
    /\ submit.pc = "recorded" => request[rows] = "none"

\* What the state of a row says of its order.
Decided ==
    \A i \in Ids :
      /\ state[i] = "none" => i > rows
      /\ state[i] = "REJECTED" => request[i] = "rejected"
      /\ state[i] = "NOT_SENT" => i \in old /\ request[i] # "accepted"
      /\ i \in odno => state[i] \in LIVE_STATES /\ request[i] = "accepted"
      /\ bfilled[i] > 0 => request[i] = "accepted"

\* The baseline is older than every row, and shows nothing but orders placed
\* elsewhere.
Based ==
    /\ base = NoBase => rows = 0
    /\ base # NoBase => base \in Reply /\ base.ord <= external.ord
    /\ submit.pc = "baseline" =>
         base = NoBase /\ submit.answer \in Reply /\ submit.answer.ord <= external.ord
    /\ recon \in {"asked", "answered"} => rows > 0

\* Orders the ledger counts as sent and the broker does not have are covered
\* by what was ordered elsewhere since.
Covered == base # NoBase => Total(qty, Live \ AtBroker) <= external.ord - base.ord

InDoubt == {i \in old : state[i] \in {"PENDING_SUBMIT", "UNKNOWN"}}

\* The answer the desk is about to apply was true of the orders K.
Told(K, e) ==
    /\ answer.ord = Total(qty, K) + e
    /\ AtBroker \cap old \subseteq K
    /\ InDoubt # {} => Total(qty, Live \ K) <= e - base.ord
AnswerWasTrue ==
    recon = "answered" =>
      /\ answer \in Reply
      /\ \E K \in SUBSET AtBroker, e \in base.ord..external.ord : Told(K, e)

Verdicts == Filed /\ Decided /\ Based /\ Covered /\ AnswerWasTrue

\* What the ledger has filled, and what has expired: an order that is open was made
\* after every one that expired.
Settled ==
    /\ filled \in [Ids -> Qtys]
    /\ \A i \in Ids : /\ i > rows => filled[i] = 0
                      /\ state[i] = "EXPIRED" => \A j \in In(OPEN_STATES) : i < j

\* The totals are never ahead of the broker.
TotalsReal ==
    /\ totals <= AllFills
    /\ recon = "answered" /\ external.ord = 0 => answer.fill <= Total(bfilled, Ids)

\* Notices that count were sent.
Read == mail \subseteq Mails /\ noticed \subseteq mail /\ IsFiniteSet(noticed)

\* The types that are left.
Rest ==
    /\ odno \subseteq Rows /\ base \in Answers /\ answer \in Answers
    /\ recon \in {"idle", "asked", "answered", "applied"}
    /\ closed \in BOOLEAN /\ late \in BOOLEAN
    /\ breaks \subseteq seen /\ recent \subseteq noticed
    /\ crashes \in 0..MaxFaults /\ fails \in 0..MaxFaults

Fills == Settled /\ TotalsReal /\ Read /\ Rest /\ FillsWithinOrders /\ FilledAtBroker

-----------------------------------------------------------------------------
(* Sums over orders.                                                       *)

\* The model's sum is the one of SumTheorems.
LEMMA TotalIsSum == ASSUME NEW f, NEW S PROVE Total(f, S) = SumOf(f, S)
BY DEF Total, SumOf

\* The sum over some orders is a number, and not less than over fewer of them.
LEMMA TotalNat ==
    ASSUME NEW f \in [Ids -> Nat], NEW S \in SUBSET Ids
    PROVE  /\ IsFiniteSet(S) /\ Total(f, S) \in Nat
           /\ \A T \in SUBSET S : Total(f, T) <= Total(f, S)
<1>1. IsFiniteSet(S)
  <2>1. MaxOrders \in Nat
    BY DeskAssumption
  <2>2. IsFiniteSet(Ids)
    BY <2>1, FS_Interval DEF Ids
  <2> QED BY <2>2, FS_Subset
<1>2. \A x \in S : f[x] \in Nat
  OBVIOUS
<1>3. /\ SumOf(f, S) \in Nat
      /\ \A T \in SUBSET S : SumOf(f, T) \in Nat /\ SumOf(f, T) <= SumOf(f, S)
  BY <1>1, <1>2, SumNat
<1> QED BY <1>1, <1>3, TotalIsSum

\* The sum over orders of two kinds.
LEMMA TotalSplit ==
    ASSUME NEW f \in [Ids -> Nat], NEW S \in SUBSET Ids, NEW T \in SUBSET Ids, S \cap T = {}
    PROVE  Total(f, S \cup T) = Total(f, S) + Total(f, T)
<1>1. IsFiniteSet(S) /\ IsFiniteSet(T)
  BY TotalNat
<1>2. \A x \in S \cup T : f[x] \in Int
  OBVIOUS
<1>3. SumOf(f, S \cup T) = SumOf(f, S) + SumOf(f, T)
  BY <1>1, <1>2, SumSplit
<1> QED BY <1>3, TotalIsSum

\* The orders of a set that are in another, and the others.
LEMMA TotalParts ==
    ASSUME NEW f \in [Ids -> Nat], NEW S \in SUBSET Ids, NEW T
    PROVE  Total(f, S) = Total(f, S \cap T) + Total(f, S \ T)
<1>1. S \cap T \in SUBSET Ids /\ S \ T \in SUBSET Ids /\ (S \cap T) \cap (S \ T) = {}
  OBVIOUS
<1>2. Total(f, (S \cap T) \cup (S \ T)) = Total(f, S \cap T) + Total(f, S \ T)
  BY <1>1, TotalSplit
<1>3. (S \cap T) \cup (S \ T) = S
  OBVIOUS
<1> QED BY ONLY <1>2, <1>3, Zenon

\* The sum over a set of orders depends on nothing else.
LEMMA TotalSame ==
    ASSUME NEW f \in [Ids -> Nat], NEW g \in [Ids -> Nat], NEW S \in SUBSET Ids,
           \A i \in S : f[i] = g[i]
    PROVE  Total(f, S) = Total(g, S)
<1>1. IsFiniteSet(S) /\ \A x \in S : f[x] \in Int /\ f[x] = g[x]
  BY TotalNat
<1>2. SumOf(f, S) = SumOf(g, S)
  BY <1>1, SumSame
<1> QED BY <1>2, TotalIsSum

\* The sum over one order.
LEMMA TotalOne ==
    ASSUME NEW f \in [Ids -> Nat], NEW i \in Ids PROVE Total(f, {i}) = f[i]
<1>1. f[i] \in Int
  OBVIOUS
<1> QED BY <1>1, SumOne, TotalIsSum

\* One order, and the others.
LEMMA TotalTakeOut ==
    ASSUME NEW f \in [Ids -> Nat], NEW S \in SUBSET Ids, NEW i \in S
    PROVE  Total(f, S) = f[i] + Total(f, S \ {i}) /\ Total(f, S \ {i}) \in Nat /\ f[i] \in Nat
<1>1. IsFiniteSet(S) /\ \A x \in S : f[x] \in Int
  BY TotalNat
<1>2. SumOf(f, S) = f[i] + SumOf(f, S \ {i})
  BY <1>1, SumRemove
<1>3. S \ {i} \in SUBSET Ids
  OBVIOUS
<1>4. Total(f, S \ {i}) \in Nat
  BY <1>3, TotalNat
<1> QED BY <1>2, <1>4, TotalIsSum

\* The sum of smaller numbers is smaller.
LEMMA TotalLeq ==
    ASSUME NEW f \in [Ids -> Nat], NEW g \in [Ids -> Nat], NEW S \in SUBSET Ids,
           \A i \in S : f[i] <= g[i]
    PROVE  Total(f, S) <= Total(g, S)
<1>1. IsFiniteSet(S) /\ \A x \in S : f[x] \in Int /\ g[x] \in Int /\ f[x] <= g[x]
  BY TotalNat
<1>2. SumOf(f, S) <= SumOf(g, S)
  BY <1>1, SumLeq
<1> QED BY <1>2, TotalIsSum

\* The sum of zeros is zero.
LEMMA TotalZero ==
    ASSUME NEW f \in [Ids -> Nat], NEW S \in SUBSET Ids, \A i \in S : f[i] = 0
    PROVE  Total(f, S) = 0
<1>1. IsFiniteSet(S)
  BY TotalNat
<1> QED BY <1>1, SumZero, TotalIsSum

-----------------------------------------------------------------------------
(* What apply_totals decides.                                              *)

\* The orders the broker has are in doubt or counted as sent.
LEMMA AtBrokerPlaced ==
    ASSUME Inv, Decided, NEW i \in AtBroker
    PROVE  i \in Rows /\ (i \in Live \/ state[i] \in {"PENDING_SUBMIT", "UNKNOWN"})
  BY DeskAssumption
     DEF Inv, Typed, Fresh, Decided, AtBroker, Live, In, Rows, Ids, States, OPEN_STATES,
         LIVE_STATES

\* The set of orders a rule looks at.
LEMMA SetsOfOrders ==
    ASSUME Inv
    PROVE  /\ Rows \subseteq Ids /\ AtBroker \in SUBSET Ids /\ Live \in SUBSET Ids
           /\ Unknown \in SUBSET Ids /\ Live \cap Unknown = {}
           /\ Unknown \subseteq In(OPEN_STATES)
  BY DeskAssumption
     DEF Inv, Typed, AtBroker, Live, Unknown, In, Rows, Ids, LIVE_STATES, OPEN_STATES

\* An order that is given up is not at the broker, whatever was ordered
\* elsewhere and whatever happened since the totals were asked for.
LEMMA GivenUpIsNotSent ==
    ASSUME Inv, Verdicts, recon = "answered", NEW i \in Unknown, i \in old, Extra <= 0
    PROVE  request[i] # "accepted"
<1> SUFFICES ASSUME request[i] = "accepted" PROVE FALSE
  OBVIOUS
<1>1. base \in Reply /\ answer \in Reply /\ external \in Reply
  BY DEF Verdicts, Based, AnswerWasTrue, Filed, Inv, Typed
<1>2. PICK K \in SUBSET AtBroker, e \in base.ord..external.ord : Told(K, e)
  BY DEF Verdicts, AnswerWasTrue
<1>3. qty \in [Ids -> Nat] /\ i \in Ids /\ qty[i] > 0
  BY SetsOfOrders DEF Verdicts, Filed, Qtys, Unknown, In
<1>4. i \in K /\ i \notin Live /\ InDoubt # {}
  BY <1>2, <1>3, SetsOfOrders DEF Told, AtBroker, InDoubt, Unknown, In
<1>5. K \in SUBSET Ids /\ Live \in SUBSET Ids
  BY SetsOfOrders
<1>6. Total(qty, Live) = Total(qty, Live \cap K) + Total(qty, Live \ K)
  BY <1>3, <1>5, TotalParts
<1>7. Total(qty, Live \ K) <= e - base.ord
  BY <1>2, <1>4 DEF Told
<1>8. Total(qty, K) = Total(qty, K \cap {i}) + Total(qty, K \ {i})
  BY <1>3, <1>5, TotalParts
<1>9. Total(qty, K \cap {i}) = qty[i]
  <2>1. K \cap {i} = {i}
    BY <1>4
  <2>2. Total(qty, {i}) = qty[i]
    BY <1>3, TotalOne
  <2> QED BY ONLY <2>1, <2>2, Zenon
<1>10. Total(qty, Live \cap K) <= Total(qty, K \ {i})
  BY <1>3, <1>4, <1>5, TotalNat
<1>11. /\ Total(qty, Live) \in Nat /\ Total(qty, Live \cap K) \in Nat /\ Total(qty, Live \ K) \in Nat
       /\ Total(qty, K) \in Nat /\ Total(qty, K \ {i}) \in Nat
  BY <1>3, <1>5, TotalNat
<1>12. answer.ord = Total(qty, K) + e
  BY <1>2 DEF Told
<1>13. answer.ord - base.ord - Total(qty, Live) <= 0
  BY DEF Extra
<1>14. qty[i] \in Nat /\ e \in Int /\ base.ord \in Nat
  BY <1>1, <1>2, <1>3 DEF Reply
<1> HIDE DEF Verdicts, Live
<1> QED BY ONLY <1>3, <1>6, <1>7, <1>8, <1>9, <1>10, <1>11, <1>12, <1>13, <1>14

\* An order that is taken for sent is at the broker, or covered by what was
\* ordered elsewhere.
LEMMA ExplainedIsCovered ==
    ASSUME Inv, Verdicts, recon = "answered", Explained
    PROVE  Total(qty, Sharing \ AtBroker) <= external.ord - base.ord
<1>1. base \in Reply /\ answer \in Reply /\ external \in Reply /\ base # NoBase
  BY DEF Verdicts, Based, AnswerWasTrue, Filed, Inv, Typed
<1>2. PICK K \in SUBSET AtBroker, e \in base.ord..external.ord : Told(K, e)
  BY DEF Verdicts, AnswerWasTrue
<1>3. PICK u \in Unknown : TRUE
  BY DEF Explained
<1>4. Unknown = {u} /\ u \in Ids /\ u \notin Live
  BY <1>3, SetsOfOrders DEF Inv, OneOpenOrder
<1>5. Sharing = Live \cup {u}
  BY <1>4 DEF Sharing
<1>6. qty \in [Ids -> Nat]
  BY DEF Verdicts, Filed, Qtys
<1>7. CASE u \in AtBroker
  <2>1. Sharing \ AtBroker = Live \ AtBroker
    BY <1>5, <1>7
  <2>2. Total(qty, Live \ AtBroker) <= external.ord - base.ord
    BY <1>1 DEF Verdicts, Covered
  <2> QED BY ONLY <2>1, <2>2, Zenon
<1>8. CASE u \notin AtBroker
  <2>1. AtBroker \subseteq Live
    <3> SUFFICES ASSUME NEW i \in AtBroker PROVE i \in Live
      OBVIOUS
    <3>1. i \in Rows /\ (i \in Live \/ state[i] \in {"PENDING_SUBMIT", "UNKNOWN"})
      BY AtBrokerPlaced DEF Verdicts
    <3>2. state[i] \in OPEN_STATES => i = u
      BY <1>3, <3>1, SetsOfOrders DEF Inv, OneOpenOrder, In
    <3> QED BY <1>8, <3>1, <3>2 DEF OPEN_STATES
  <2>2. AtBroker \in SUBSET Ids /\ Live \in SUBSET Ids /\ K \in SUBSET Ids
    BY SetsOfOrders
  <2>3. Total(qty, Live \cup {u}) = Total(qty, Live) + Total(qty, {u})
    BY <1>4, <1>6, <2>2, TotalSplit
  <2>4. Total(qty, Unknown) = Extra
    BY DEF Explained
  <2>5. Total(qty, Live \cup {u}) = Total(qty, (Live \cup {u}) \cap AtBroker)
                                     + Total(qty, (Live \cup {u}) \ AtBroker)
    <3>1. Live \cup {u} \in SUBSET Ids
      BY <1>4, <2>2
    <3> QED BY <1>6, <3>1, TotalParts
  <2>6. (Live \cup {u}) \cap AtBroker = AtBroker
    BY <2>1
  <2>7. Total(qty, (Live \cup {u}) \cap AtBroker) = Total(qty, AtBroker)
    BY ONLY <2>6, Zenon
  <2>8. Total(qty, K) <= Total(qty, AtBroker)
    BY <1>6, <2>2, TotalNat
  <2>9. /\ Total(qty, Live) \in Nat /\ Total(qty, K) \in Nat /\ Total(qty, AtBroker) \in Nat
        /\ Total(qty, {u}) \in Nat /\ Total(qty, (Live \cup {u}) \ AtBroker) \in Nat
    BY <1>4, <1>6, <2>2, TotalNat
  <2>10. Total(qty, {u}) = answer.ord - base.ord - Total(qty, Live)
    BY <1>4, <2>4 DEF Extra
  <2>11. answer.ord = Total(qty, K) + e
    BY <1>2 DEF Told
  <2>12. base.ord \in Nat /\ external.ord \in Nat /\ e \in Int /\ e <= external.ord
    BY <1>1, <1>2 DEF Reply
  <2>13. Total(qty, (Live \cup {u}) \ AtBroker) <= external.ord - base.ord
    BY ONLY <2>3, <2>5, <2>7, <2>8, <2>9, <2>10, <2>11, <2>12
  <2> QED BY ONLY <1>5, <2>13, Zenon
<1> QED BY <1>7, <1>8

-----------------------------------------------------------------------------
(* Each part of Verdicts is preserved.                                     *)

\* A step that leaves the tables alone, and submit or ends it.
LEMMA FiledIf ==
    ASSUME Filed, UNCHANGED <<rows, qty, bfilled, external, totals>>, old' \subseteq Rows,
           submit'.pc # "idle" => submit.pc # "idle" /\ submit'.qty = submit.qty,
           submit'.pc = "recorded" => submit.pc = "recorded" /\ request'[rows] = request[rows]
    PROVE  Filed'
BY DEF Filed, Rows

\* What the tables and the broker can hold stays within its bounds.
LEMMA FiledStep == ASSUME Inv, Filed, [Next]_vars PROVE Filed'
<1>1. ASSUME NEW c \in ClientIds, NEW q \in 1..MaxQty, SubmitChecked(c, q) PROVE Filed'
  BY <1>1 DEF SubmitChecked, Filed, Rows, ledger, broker, time
<1>2. CASE SubmitBlocked \/ BaselineAnswered
  <2>1. UNCHANGED <<rows, qty, bfilled, external, totals, old, request>>
    BY <1>2 DEF SubmitBlocked, BaselineAnswered, ledger, broker, time
  <2>2. CASE SubmitBlocked
    <3>1. submit'.pc = "idle"
      BY <2>2 DEF SubmitBlocked, NoSubmit
    <3>2. old' \subseteq Rows
      BY <2>1 DEF Filed
    <3> QED BY <2>1, <3>1, <3>2, FiledIf
  <2>3. CASE BaselineAnswered
    <3>1. submit.pc = "preparing" /\ submit'.pc = "baseline" /\ submit'.qty = submit.qty
      BY <2>3 DEF BaselineAnswered, Inv, Typed
    <3>2. old' \subseteq Rows
      BY <2>1 DEF Filed
    <3> QED BY <2>1, <3>1, <3>2, FiledIf
  <2> QED BY <1>2, <2>2, <2>3
<1>3. CASE NewOrder
  <2>1. /\ submit.pc # "idle" /\ submit.qty \in 1..MaxQty /\ rows' = rows + 1
        /\ rows + 1 \in Ids
        /\ qty' = [qty EXCEPT ![rows + 1] = submit.qty]
        /\ submit' = [submit EXCEPT !.pc = "recorded", !.answer = NoBase]
        /\ UNCHANGED <<request, bfilled, external, totals, old>>
    BY <1>3, DeskAssumption
       DEF NewOrder, Filed, Inv, Typed, Checked, Ids, broker, time
  <2>2. qty' \in [Ids -> Qtys] /\ \A i \in Ids : IF i \in Rows' THEN qty'[i] > 0 ELSE qty'[i] = 0
    BY <2>1, DeskAssumption DEF Filed, Qtys, Rows, Ids, Inv, Typed
  <2>3. \A i \in Ids : bfilled[i] <= qty'[i]
    <3> SUFFICES ASSUME NEW i \in Ids PROVE bfilled[i] <= qty'[i]
      OBVIOUS
    <3>1. CASE i # rows + 1
      BY <2>1, <3>1 DEF Filed
    <3>2. CASE i = rows + 1
      <4>1. qty'[i] = submit.qty /\ qty[i] = 0 /\ bfilled[i] <= qty[i]
        BY <2>1, <3>2 DEF Filed, Rows, Inv, Typed
      <4> QED BY <2>1, <4>1 DEF Filed, Qtys
    <3> QED BY <3>1, <3>2
  <2>4. request[rows + 1] = "none"
    BY <2>1 DEF Inv, Typed, Fresh
  <2>5. old \subseteq Rows'
    BY <2>1 DEF Filed, Rows, Inv, Typed
  <2>6. submit'.qty = submit.qty
    BY <2>1 DEF Inv, Typed
  <2> QED BY <2>1, <2>2, <2>3, <2>4, <2>5, <2>6 DEF Filed
<1>4. CASE SendOrder
  <2>1. /\ UNCHANGED <<rows, qty, bfilled, external, totals, old>>
        /\ submit.pc = "recorded" /\ submit'.pc = "sending" /\ submit'.qty = submit.qty
    BY <1>4 DEF SendOrder, ledger, time, Inv, Typed
  <2>2. old' \subseteq Rows
    BY <2>1 DEF Filed
  <2> QED BY <2>1, <2>2, FiledIf
<1>5. CASE OrderAccepted \/ OrderRejected \/ OrderUncertain
  <2>1. submit'.pc = "idle" /\ UNCHANGED <<rows, qty, bfilled, external, totals, old>>
    BY <1>5 DEF OrderAccepted, OrderRejected, OrderUncertain, Mark, NoSubmit, broker, time
  <2>2. old' \subseteq Rows
    BY <2>1 DEF Filed
  <2> QED BY <2>1, <2>2, FiledIf
<1>6. ASSUME NEW m \in mail, OnNotice(m) PROVE Filed'
  BY <1>6 DEF OnNotice, Filed, Rows, desk, broker
<1>7. CASE Reconcile \/ ReconcileFails
  BY <1>7 DEF Reconcile, ReconcileStart, TotalsAnswered, ApplyTotals, ReconcileEnd, Expired,
              ReconcileFails, Filed, Rows, ledger, broker, time
<1>8. CASE Dies
  <2>1. submit'.pc = "idle" /\ UNCHANGED <<rows, qty, bfilled, external, totals, old>>
    BY <1>8, DiesIs DEF NoSubmit, broker
  <2>2. old' \subseteq Rows
    BY <2>1 DEF Filed
  <2> QED BY <2>1, <2>2, FiledIf
<1>9. ASSUME NEW i \in Ids, BrokerAccepts(i) \/ BrokerRejects(i) PROVE Filed'
  <2>1. /\ UNCHANGED <<rows, qty, bfilled, external, totals, old, submit>>
        /\ request[i] = "underway" /\ \A j \in Ids : j # i => request'[j] = request[j]
    BY <1>9 DEF BrokerAccepts, BrokerRejects, ledger, desk, time, Inv, Typed
  <2>2. submit.pc = "recorded" => rows \in Ids /\ request[rows] = "none"
    BY DEF Filed, Inv, Written
  <2>3. submit.pc = "recorded" => request'[rows] = request[rows]
    BY <2>1, <2>2
  <2>4. old' \subseteq Rows
    BY <2>1 DEF Filed
  <2> QED BY <2>1, <2>3, <2>4, FiledIf
<1>10. ASSUME NEW i \in Ids, BrokerFills(i) PROVE Filed'
  <2>1. PICK f \in 1..(qty[i] - bfilled[i]) : bfilled' = [bfilled EXCEPT ![i] = @ + f]
    BY <1>10 DEF BrokerFills
  <2>2. qty[i] \in Qtys /\ bfilled[i] \in Qtys
    BY DEF Filed
  <2>3. bfilled[i] + f \in Qtys /\ bfilled[i] + f <= qty[i]
    BY <2>2, DeskAssumption DEF Qtys
  <2>4. bfilled' \in [Ids -> Qtys] /\ \A j \in Ids : bfilled'[j] <= qty[j]
    BY <2>1, <2>3 DEF Filed
  <2> QED BY <1>10, <2>4 DEF BrokerFills, Filed, Rows, ledger, desk, time
<1>11. CASE ExternalOrder \/ ExternalFill
  BY <1>11 DEF ExternalOrder, ExternalFill, Filed, Reply, Rows, ledger, desk, time
<1>12. CASE TotalsCatchUp
  <2>1. bfilled \in [Ids -> Nat] /\ Ids \in SUBSET Ids /\ external.fill \in Nat
    BY DEF Filed, Qtys, Reply
  <2>2. Total(bfilled, Ids) \in Nat
    BY <2>1, TotalNat
  <2>3. AllFills \in Nat
    BY <2>1, <2>2 DEF AllFills
  <2> QED BY <1>12, <2>3 DEF TotalsCatchUp, Filed, Rows, ledger, desk, time
<1>13. CASE Time
  BY <1>13 DEF Time, GracePasses, NoticeAges, MarketCloses, Filed, Rows, ledger, desk, broker
<1>14. CASE UNCHANGED vars
  BY <1>14 DEF vars, ledger, desk, broker, time, Filed, Rows
<1> QED
  BY <1>1, <1>2, <1>3, <1>4, <1>5, <1>6, <1>7, <1>8, <1>9, <1>10, <1>11, <1>12, <1>13, <1>14
     DEF Next, Submit, Broker

\* What a step of apply_totals makes of a row.
LEMMA ApplyEffect ==
    ASSUME Inv, ApplyTotals, NEW i \in Ids
    PROVE  \/ state'[i] = state[i]
           \/ i \in Unknown /\ Explained /\ state'[i] \in {"ACCEPTED", "PARTIAL", "FILLED"}
           \/ i \in Unknown /\ Extra <= 0 /\ i \in old /\ state'[i] = "NOT_SENT"
           \/ i \in Live /\ state[i] \in FILLABLE_STATES /\ state'[i] \in {"PARTIAL", "FILLED"}
<1>1. CASE i \notin Rows
  BY <1>1 DEF ApplyTotals
<1>2. CASE i \in Rows /\ Take(i) > 0
  <2>1. i \in Open /\ state'[i] \in {"PARTIAL", "FILLED"}
    BY <1>2 DEF ApplyTotals, Take, FillState
  <2>2. \/ i \in Unknown /\ Explained
        \/ i \in Live /\ i \notin Unknown
    BY <2>1, SetsOfOrders DEF Open, Sharing
  <2>3. i \notin Unknown => state[i] \in FILLABLE_STATES
    BY <2>1 DEF Open, Resolved
  <2> QED BY <2>1, <2>2, <2>3
<1>3. CASE i \in Rows /\ ~(Take(i) > 0)
  <2>1. state'[i] = Resolved(i)
    BY <1>3 DEF ApplyTotals
  <2> QED BY <2>1 DEF Resolved
<1> QED BY <1>1, <1>2, <1>3

\* The state of a row goes on saying what became of its order.
LEMMA DecidedStep == ASSUME Inv, Verdicts, [Next]_vars PROVE Decided'
<1> USE DEF Verdicts
<1>1. ASSUME NEW c \in ClientIds, NEW q \in 1..MaxQty, SubmitChecked(c, q) PROVE Decided'
  BY <1>1 DEF SubmitChecked, Decided, ledger, broker, time
<1>2. CASE SubmitBlocked \/ BaselineAnswered
  BY <1>2 DEF SubmitBlocked, BaselineAnswered, Decided, ledger, broker, time
<1>3. CASE NewOrder
  BY <1>3, DeskAssumption
     DEF NewOrder, Decided, Filed, broker, time, Inv, Typed, Checked, Fresh, Ids, Rows, LIVE_STATES
<1>4. CASE SendOrder
  BY <1>4 DEF SendOrder, Sent, Decided, Filed, ledger, time, Inv, Typed, Written, LIVE_STATES
<1>5. CASE OrderAccepted \/ OrderRejected \/ OrderUncertain
  BY <1>5 DEF OrderAccepted, OrderRejected, OrderUncertain, Mark, Sent, Decided, broker, time,
              Inv, Typed, Written, LIVE_STATES
<1>6. ASSUME NEW m \in mail, OnNotice(m) PROVE Decided'
  BY <1>6 DEF OnNotice, NoticeApplies, FillState, Decided, desk, broker, Inv, Typed,
              LIVE_STATES, FILLABLE_STATES
<1>7. CASE ApplyTotals
  <2>1. recon = "answered" /\ UNCHANGED <<rows, request, old, odno, bfilled>>
    BY <1>7 DEF ApplyTotals, broker, time
  <2> SUFFICES ASSUME NEW i \in Ids
               PROVE  /\ state'[i] = "none" => i > rows
                      /\ state'[i] = "REJECTED" => request[i] = "rejected"
                      /\ state'[i] = "NOT_SENT" => i \in old /\ request[i] # "accepted"
                      /\ i \in odno => state'[i] \in LIVE_STATES /\ request[i] = "accepted"
                      /\ bfilled[i] > 0 => request[i] = "accepted"
    BY <2>1 DEF Decided
  <2>2. i \in odno => state[i] \in LIVE_STATES /\ i \notin Unknown
    BY DEF Decided, Unknown, In, LIVE_STATES
  <2>3. i \in Unknown /\ Extra <= 0 /\ i \in old => request[i] # "accepted"
    BY <2>1, GivenUpIsNotSent
  <2> HIDE DEF Verdicts
  <2>4. Decided
    BY DEF Verdicts
  <2> QED BY <1>7, <2>2, <2>3, <2>4, ApplyEffect DEF Decided, LIVE_STATES
<1>8. CASE ReconcileStart \/ TotalsAnswered \/ ReconcileFails
  BY <1>8 DEF ReconcileStart, TotalsAnswered, ReconcileFails, Decided, ledger, broker, time
<1>9. CASE ReconcileEnd
  BY <1>9 DEF ReconcileEnd, Expired, Decided, broker, time, Inv, Typed, LIVE_STATES, FILLABLE_STATES
<1>10. CASE Dies
  <2>1. /\ \A i \in Ids : Outcome(i)
        /\ UNCHANGED <<rows, request, old, odno, bfilled>>
    BY <1>10, DiesIs DEF broker
  <2> SUFFICES ASSUME NEW i \in Ids
               PROVE  /\ state'[i] = "none" => i > rows
                      /\ state'[i] = "REJECTED" => request[i] = "rejected"
                      /\ state'[i] = "NOT_SENT" => i \in old /\ request[i] # "accepted"
                      /\ i \in odno => state'[i] \in LIVE_STATES /\ request[i] = "accepted"
                      /\ bfilled[i] > 0 => request[i] = "accepted"
    BY <2>1 DEF Decided
  <2>2. i \in odno => state[i] \in LIVE_STATES /\ i \notin Unknown
    BY DEF Decided, Unknown, In, LIVE_STATES
  <2>3. recon = "answered" /\ i \in Unknown /\ Extra <= 0 /\ i \in old => request[i] # "accepted"
    BY GivenUpIsNotSent
  <2>4. Outcome(i) /\ Decided
    BY <2>1
  <2> HIDE DEF Verdicts
  <2> QED BY <2>2, <2>3, <2>4 DEF Decided, Outcome, LIVE_STATES, FILLABLE_STATES
<1>11. ASSUME NEW i \in Ids, BrokerAccepts(i) \/ BrokerRejects(i) PROVE Decided'
  BY <1>11 DEF BrokerAccepts, BrokerRejects, Decided, ledger, desk, time, Inv, Typed, LIVE_STATES
<1>12. ASSUME NEW i \in Ids, BrokerFills(i) PROVE Decided'
  BY <1>12 DEF BrokerFills, Decided, Filed, ledger, desk, time
<1>13. CASE ExternalOrder \/ ExternalFill \/ TotalsCatchUp
  BY <1>13 DEF ExternalOrder, ExternalFill, TotalsCatchUp, Decided, ledger, desk, time
<1>14. CASE Time
  BY <1>14 DEF Time, GracePasses, NoticeAges, MarketCloses, Decided, ledger, desk, broker
<1>15. CASE UNCHANGED vars
  BY <1>15 DEF vars, ledger, desk, broker, time, Decided
<1> QED
  BY <1>1, <1>2, <1>3, <1>4, <1>5, <1>6, <1>7, <1>8, <1>9, <1>10, <1>11, <1>12, <1>13,
     <1>14, <1>15
     DEF Next, Submit, Reconcile, Broker

\* The baseline stays older than every row.
LEMMA BasedStep == ASSUME Inv, Verdicts, [Next]_vars PROVE Based'
<1>0. Filed /\ Based
  BY DEF Verdicts
<1>1. ASSUME NEW c \in ClientIds, NEW q \in 1..MaxQty, SubmitChecked(c, q) PROVE Based'
  BY <1>0, <1>1 DEF SubmitChecked, Based, ledger, broker
<1>2. CASE SubmitBlocked
  BY <1>0, <1>2 DEF SubmitBlocked, NoSubmit, Based, ledger, broker
<1>3. CASE BaselineAnswered
  <2>1. base = NoBase /\ rows = 0 /\ UNCHANGED <<rows, base, recon, external>>
        /\ submit'.pc = "baseline" /\ submit'.answer = DayTotals
    BY <1>0, <1>3 DEF BaselineAnswered, Based, ledger, broker, Inv, Typed
  <2>2. AtBroker = {}
    BY <2>1 DEF Inv, Fresh, AtBroker, Ids
  <2>3. Total(qty, AtBroker) = 0
    <3>1. Total(qty, {}) = 0
      BY SumEmpty, TotalIsSum
    <3> QED BY ONLY <2>2, <3>1, Zenon
  <2>4. DayTotals \in Reply /\ DayTotals.ord <= external.ord
    BY <1>0, <2>3 DEF Filed, Reply, DayTotals
  <2> QED BY <1>0, <2>1, <2>4 DEF Based
<1>4. CASE NewOrder
  <2>1. /\ rows' = rows + 1 /\ rows \in Nat /\ submit'.pc = "recorded"
        /\ UNCHANGED <<recon, external>>
    BY <1>4, DeskAssumption DEF NewOrder, broker, Inv, Typed
  <2>2. base' # NoBase /\ base' \in Reply /\ base'.ord <= external.ord
    <3>1. CASE submit.pc = "baseline" /\ base' = submit.answer
      BY <1>0, <3>1 DEF Based, Reply, NoBase
    <3>2. CASE base # NoBase /\ base' = base
      BY <1>0, <3>2 DEF Based
    <3> QED BY <1>4, <3>1, <3>2 DEF NewOrder
  <2> QED BY <2>1, <2>2 DEF Based
<1>5. CASE SendOrder
  BY <1>0, <1>5 DEF SendOrder, Based, ledger, Inv, Typed
<1>6. CASE OrderAccepted \/ OrderRejected \/ OrderUncertain
  BY <1>0, <1>6 DEF OrderAccepted, OrderRejected, OrderUncertain, Mark, NoSubmit, Based, broker
<1>7. ASSUME NEW m \in mail, OnNotice(m) PROVE Based'
  BY <1>0, <1>7 DEF OnNotice, Based, desk, broker
<1>8. CASE ReconcileStart
  <2>1. Watched => rows > 0
    BY DEF Watched, Rows, Inv, Typed
  <2> QED BY <1>0, <1>8, <2>1 DEF ReconcileStart, Based, ledger, broker
<1>9. CASE TotalsAnswered \/ ApplyTotals \/ ReconcileEnd \/ ReconcileFails
  BY <1>0, <1>9 DEF TotalsAnswered, ApplyTotals, ReconcileEnd, Expired, ReconcileFails, Based, ledger,
                    broker
<1>10. CASE Dies
  <2>1. /\ UNCHANGED <<rows, external>> /\ submit'.pc = "idle" /\ recon' = "idle"
        /\ base' = base \/ (submit.pc = "baseline" /\ base' = submit.answer)
    BY <1>10, DiesIs DEF NoSubmit, broker
  <2>2. submit.pc = "baseline" =>
          submit.answer # NoBase /\ submit.answer \in Reply /\ submit.answer.ord <= external.ord
    BY <1>0 DEF Based, Reply, NoBase
  <2> QED BY <1>0, <2>1, <2>2 DEF Based
<1>11. ASSUME NEW i \in Ids, BrokerAccepts(i) \/ BrokerRejects(i) \/ BrokerFills(i) PROVE Based'
  BY <1>0, <1>11 DEF BrokerAccepts, BrokerRejects, BrokerFills, Based, ledger, desk
<1>12. CASE ExternalOrder
  <2>1. UNCHANGED <<rows, base, submit, recon>> /\ external'.ord = external.ord + 1
    BY <1>0, <1>12 DEF ExternalOrder, ledger, desk, Filed, Reply
  <2> QED BY <1>0, <2>1 DEF Based, Filed, Reply
<1>13. CASE ExternalFill
  <2>1. UNCHANGED <<rows, base, submit, recon>> /\ external'.ord = external.ord
    BY <1>0, <1>13 DEF ExternalFill, ledger, desk, Filed, Reply
  <2> QED BY <1>0, <2>1 DEF Based
<1>14. CASE TotalsCatchUp \/ Time
  BY <1>0, <1>14 DEF TotalsCatchUp, Time, GracePasses, NoticeAges, MarketCloses, Based, ledger,
                     desk, broker
<1>15. CASE UNCHANGED vars
  BY <1>0, <1>15 DEF vars, ledger, desk, broker, Based
<1> QED
  BY <1>1, <1>2, <1>3, <1>4, <1>5, <1>6, <1>7, <1>8, <1>9, <1>10, <1>11, <1>12, <1>13,
     <1>14, <1>15
     DEF Next, Submit, Reconcile, Broker

\* A step that adds no order the broker does not have to those counted as sent.
LEMMA CoveredIf ==
    ASSUME Inv, Filed, Covered, base \in Reply \/ base = NoBase, UNCHANGED <<base, qty>>,
           Live' \ AtBroker' \subseteq Live \ AtBroker,
           external.ord <= external'.ord, external'.ord \in Nat
    PROVE  Covered'
<1> SUFFICES ASSUME base # NoBase
             PROVE  Total(qty, Live' \ AtBroker') <= external'.ord - base.ord
  BY DEF Covered
<1> DEFINE A == Live' \ AtBroker'
           B == Live \ AtBroker
<1>1. B \in SUBSET Ids /\ A \in SUBSET B
  BY SetsOfOrders
<1>2. qty \in [Ids -> Nat]
  BY DEF Filed, Qtys
<1>3. Total(qty, B) <= external.ord - base.ord
  BY DEF Covered
<1> HIDE DEF A, B
<1>4. Total(qty, A) <= Total(qty, B) /\ Total(qty, A) \in Nat /\ Total(qty, B) \in Nat
  <2>1. A \in SUBSET Ids
    BY <1>1
  <2> QED BY <1>1, <1>2, <2>1, TotalNat
<1>5. base.ord \in Nat /\ external.ord \in Nat
  BY DEF Filed, Reply
<1>6. Total(qty, A) <= external'.ord - base.ord
  BY <1>3, <1>4, <1>5
<1> QED BY <1>6 DEF A

\* Orders counted as sent stay covered.
LEMMA CoveredStep == ASSUME Inv, Verdicts, [Next]_vars PROVE Covered'
<1>0. Filed /\ Based /\ Covered /\ Decided
  BY DEF Verdicts
<1>a. (base \in Reply \/ base = NoBase) /\ external.ord \in Nat
  BY <1>0 DEF Based, Filed, Reply
<1>b. ASSUME UNCHANGED <<base, qty>>, Live' \ AtBroker' \subseteq Live \ AtBroker,
             external' = external
      PROVE  Covered'
  BY <1>0, <1>a, <1>b, CoveredIf
<1>1. CASE \/ \E c \in ClientIds, q \in 1..MaxQty : SubmitChecked(c, q)
           \/ SubmitBlocked \/ BaselineAnswered \/ UNCHANGED vars \/ Time
           \/ ReconcileStart \/ TotalsAnswered \/ ReconcileFails \/ TotalsCatchUp
  <2>1. UNCHANGED <<rows, state, request, base, qty, external>>
    BY <1>1 DEF SubmitChecked, SubmitBlocked, BaselineAnswered, vars, Time, GracePasses,
         NoticeAges, MarketCloses, ReconcileStart, TotalsAnswered, ReconcileFails,
         TotalsCatchUp, ledger, desk, broker
  <2> QED BY <1>b, <2>1 DEF Live, In, Rows, AtBroker
<1>2. CASE NewOrder
  <2>1. /\ rows' = rows + 1 /\ rows \in Nat /\ rows + 1 \in Ids
        /\ state' = [state EXCEPT ![rows + 1] = "PENDING_SUBMIT"]
        /\ qty' = [qty EXCEPT ![rows + 1] = submit.qty]
        /\ UNCHANGED <<request, external>>
    BY <1>2, DeskAssumption DEF NewOrder, broker, Inv, Typed, Checked, Ids
  <2>2. Live' = Live /\ AtBroker' = AtBroker
    BY <2>1 DEF Live, In, Rows, AtBroker, LIVE_STATES, Inv, Typed
  <2>3. Total(qty', Live \ AtBroker) = Total(qty, Live \ AtBroker)
    <3>1. Live \ AtBroker \in SUBSET Ids /\ rows + 1 \notin Live
      BY <2>1, SetsOfOrders DEF Live, In, Rows
    <3>2. qty \in [Ids -> Nat] /\ qty' \in [Ids -> Nat]
      <4>1. Filed'
        BY <1>0, FiledStep
      <4> QED BY <1>0, <4>1 DEF Filed, Qtys
    <3>3. \A i \in Live \ AtBroker : qty'[i] = qty[i]
      BY <2>1, <3>1 DEF Filed
    <3> QED BY <3>1, <3>2, <3>3, TotalSame
  <2>4. CASE base # NoBase /\ base' = base
    BY <1>0, <2>1, <2>2, <2>3, <2>4 DEF Covered
  <2>5. CASE submit.pc = "baseline" /\ base' = submit.answer
    <3>1. rows = 0 /\ submit.answer \in Reply /\ submit.answer.ord <= external.ord
      BY <1>0, <2>5 DEF Based
    <3>2. Live \ AtBroker = {}
      BY <3>1 DEF Live, In, Rows
    <3>3. Total(qty, Live \ AtBroker) = 0
      <4>1. Total(qty, {}) = 0
        BY SumEmpty, TotalIsSum
      <4> QED BY ONLY <3>2, <4>1, Zenon
    <3>4. base'.ord \in Nat /\ base'.ord <= external.ord
      BY <2>5, <3>1 DEF Reply
    <3> QED BY <1>a, <2>1, <2>2, <2>3, <3>3, <3>4 DEF Covered
  <2> QED BY <1>2, <2>4, <2>5 DEF NewOrder
<1>3. CASE SendOrder
  <2>1. AtBroker' = AtBroker /\ UNCHANGED <<rows, state, base, qty, external>>
    BY <1>0, <1>3 DEF SendOrder, Sent, AtBroker, Filed, ledger, Inv, Typed, Written
  <2> QED BY <1>b, <2>1 DEF Live, In, Rows
<1>4. CASE OrderAccepted \/ OrderRejected \/ OrderUncertain
  <2>1. /\ UNCHANGED <<rows, base, qty, external, request>>
        /\ \A i \in Rows : i # rows => state'[i] = state[i]
        /\ state'[rows] \in LIVE_STATES => rows \in AtBroker
    <3>1. rows \in Ids /\ UNCHANGED <<rows, base, qty, external, request>>
      BY <1>4 DEF OrderAccepted, OrderRejected, OrderUncertain, Mark, broker, Inv, Written
    <3>2. PICK s \in {"ACCEPTED", "REJECTED", "UNKNOWN"} :
            state' = [state EXCEPT ![rows] = s] /\ (s = "ACCEPTED" => request[rows] = "accepted")
      BY <1>4 DEF OrderAccepted, OrderRejected, OrderUncertain, Mark, Sent
    <3>3. \A i \in Rows : i # rows => state'[i] = state[i]
      BY <3>2, SetsOfOrders DEF Inv, Typed
    <3>4. state'[rows] = s
      BY <3>1, <3>2 DEF Inv, Typed
    <3> QED BY <3>1, <3>2, <3>3, <3>4 DEF AtBroker, LIVE_STATES
  <2> QED BY <1>b, <2>1 DEF Live, In, Rows, AtBroker
<1>5. ASSUME NEW m \in mail, OnNotice(m) PROVE Covered'
  <2>1. UNCHANGED <<rows, base, qty, external, request>>
    BY <1>5 DEF OnNotice, desk, broker
  <2>2. \A i \in Rows : state'[i] \in LIVE_STATES => state[i] \in LIVE_STATES
    BY <1>5 DEF OnNotice, NoticeApplies, Inv, Typed, LIVE_STATES, FILLABLE_STATES, Rows, Ids
  <2> QED BY <1>b, <2>1, <2>2 DEF Live, In, Rows, AtBroker
<1>c. ASSUME UNCHANGED <<rows, base, qty, external, request>>,
             Live' \subseteq Live \/ (recon = "answered" /\ Explained /\ Live' \subseteq Sharing)
      PROVE  Covered'
  <2>2. AtBroker' = AtBroker
    BY <1>c DEF AtBroker
  <2>4. CASE Live' \subseteq Live
    BY <1>b, <1>c, <2>2, <2>4
  <2>5. CASE recon = "answered" /\ Explained /\ Live' \subseteq Sharing
    <3> DEFINE A == Live' \ AtBroker'
               B == Sharing \ AtBroker
    <3>1. Total(qty, B) <= external.ord - base.ord
      BY <2>5, ExplainedIsCovered
    <3>2. B \in SUBSET Ids /\ A \in SUBSET B
      BY <2>2, <2>5, SetsOfOrders DEF Sharing
    <3>3. qty \in [Ids -> Nat]
      BY <1>0 DEF Filed, Qtys
    <3>4. base.ord \in Nat \/ base = NoBase
      BY <1>a DEF Reply
    <3> SUFFICES ASSUME base # NoBase PROVE Total(qty, A) <= external.ord - base.ord
      BY <1>c DEF Covered
    <3> HIDE DEF A, B
    <3>5. A \in SUBSET Ids
      BY <3>2
    <3>6. Total(qty, A) <= Total(qty, B) /\ Total(qty, A) \in Nat /\ Total(qty, B) \in Nat
      BY <3>2, <3>3, <3>5, TotalNat
    <3> QED BY <1>a, <3>1, <3>4, <3>6
  <2> QED BY <1>c, <2>4, <2>5
<1>6. CASE ApplyTotals
  <2>1. recon = "answered" /\ UNCHANGED <<rows, base, qty, external, request>>
    BY <1>6 DEF ApplyTotals, broker
  <2>2. \A i \in Live' : i \in Live \/ (i \in Unknown /\ Explained)
    <3> SUFFICES ASSUME NEW i \in Live' PROVE i \in Live \/ (i \in Unknown /\ Explained)
      OBVIOUS
    <3>1. i \in Rows /\ i \in Ids /\ state'[i] \in LIVE_STATES
      BY <2>1, SetsOfOrders DEF Live, In, Rows
    <3> QED BY <1>6, <3>1, ApplyEffect DEF LIVE_STATES, Live, In
  <2>3. Live' \subseteq Live \/ (Explained /\ Live' \subseteq Sharing)
    BY <2>2 DEF Sharing
  <2> QED BY <1>c, <2>1, <2>3
<1>10. CASE Dies
  <2>1. /\ UNCHANGED <<rows, qty, external, request>> /\ \A i \in Ids : Outcome(i)
        /\ base' = base \/ (submit.pc = "baseline" /\ base' = submit.answer)
    BY <1>10, DiesIs DEF broker
  <2>2. \A i \in Live' : i \in Live \/ (recon = "answered" /\ i \in Unknown /\ Explained)
    <3> SUFFICES ASSUME NEW i \in Live'
                 PROVE  i \in Live \/ (recon = "answered" /\ i \in Unknown /\ Explained)
      OBVIOUS
    <3>1. i \in Rows /\ i \in Ids /\ state'[i] \in LIVE_STATES
      BY <2>1, SetsOfOrders DEF Live, In, Rows
    <3> QED BY <2>1, <3>1 DEF Outcome, LIVE_STATES, FILLABLE_STATES, Live, In
  <2>3. Live' \subseteq Live \/ (recon = "answered" /\ Explained /\ Live' \subseteq Sharing)
    BY <2>2 DEF Sharing
  <2>4. CASE base' = base
    BY <1>c, <2>1, <2>3, <2>4
  <2>5. CASE submit.pc = "baseline" /\ base' = submit.answer
    <3>1. rows = 0 /\ submit.answer \in Reply /\ submit.answer.ord <= external.ord
      BY <1>0, <2>5 DEF Based
    <3>2. Live' \ AtBroker' = {}
      BY <2>1, <3>1 DEF Live, In, Rows
    <3>3. Total(qty', Live' \ AtBroker') = 0
      <4>1. Total(qty', {}) = 0
        BY SumEmpty, TotalIsSum
      <4> QED BY ONLY <3>2, <4>1, Zenon
    <3>4. base'.ord \in Nat /\ base'.ord <= external.ord
      BY <2>5, <3>1 DEF Reply
    <3> QED BY <1>a, <2>1, <3>3, <3>4 DEF Covered
  <2> QED BY <2>1, <2>4, <2>5
<1>7. CASE ReconcileEnd
  <2>1. /\ UNCHANGED <<rows, base, qty, external, request>>
        /\ \A i \in Ids : state'[i] \in LIVE_STATES => state[i] \in LIVE_STATES
    BY <1>7 DEF ReconcileEnd, Expired, broker, LIVE_STATES, FILLABLE_STATES, Inv, Typed
  <2> QED BY <1>b, <2>1, SetsOfOrders DEF Live, In, Rows, AtBroker
<1>8. ASSUME NEW i \in Ids, BrokerAccepts(i) \/ BrokerRejects(i) \/ BrokerFills(i) PROVE Covered'
  <2>1. UNCHANGED <<rows, state, base, qty, external>> /\ AtBroker \subseteq AtBroker'
    BY <1>8 DEF BrokerAccepts, BrokerRejects, BrokerFills, ledger, AtBroker, Inv, Typed
  <2> QED BY <1>b, <2>1 DEF Live, In, Rows
<1>9. CASE ExternalOrder \/ ExternalFill
  <2>1. UNCHANGED <<rows, state, base, qty, request>>
    BY <1>9 DEF ExternalOrder, ExternalFill, ledger
  <2>2. external.ord <= external'.ord /\ external'.ord \in Nat
    BY <1>0, <1>9 DEF ExternalOrder, ExternalFill, Filed, Reply
  <2>3. Live' \ AtBroker' \subseteq Live \ AtBroker
    BY <2>1 DEF Live, In, Rows, AtBroker
  <2> QED BY <1>0, <1>a, <2>1, <2>2, <2>3, CoveredIf
<1> QED
  BY <1>1, <1>2, <1>3, <1>4, <1>5, <1>6, <1>7, <1>8, <1>9, <1>10
     DEF Next, Submit, Reconcile, Broker

\* An answer that is waiting goes on having been true: orders reach the broker
\* and are counted as sent meanwhile, but none whose grace period was over.
LEMMA AnswerIf ==
    ASSUME Inv, Verdicts, qty' \in [Ids -> Nat], external'.ord \in Nat,
           recon' = "answered" =>
             /\ recon = "answered" /\ UNCHANGED <<answer, base, old>>
             /\ \A i \in Rows : qty'[i] = qty[i]
             /\ AtBroker \subseteq AtBroker' /\ AtBroker' \cap old \subseteq AtBroker
             /\ external.ord <= external'.ord
             /\ InDoubt' # {} => InDoubt # {} /\ Live' \subseteq Live
    PROVE  AnswerWasTrue'
<1> SUFFICES ASSUME recon' = "answered" PROVE AnswerWasTrue'
  BY DEF AnswerWasTrue
<1>1. PICK K \in SUBSET AtBroker, e \in base.ord..external.ord : Told(K, e)
  BY DEF Verdicts, AnswerWasTrue
<1>2. answer \in Reply /\ base \in Reply /\ external \in Reply /\ base # NoBase
  BY DEF Verdicts, AnswerWasTrue, Based, Filed, Inv, Typed
<1>3. K \subseteq Rows /\ Rows \subseteq Ids /\ Live \subseteq Rows
  BY SetsOfOrders, AtBrokerPlaced DEF Live, In, Verdicts
<1>4. qty \in [Ids -> Nat]
  BY DEF Verdicts, Filed, Qtys
<1>5. Total(qty', K) = Total(qty, K)
  BY <1>3, <1>4, TotalSame
<1>6. ASSUME InDoubt' # {} PROVE Total(qty', Live' \ K) <= e - base.ord
  <2> DEFINE A == Live' \ K
             B == Live \ K
  <2>1. A \subseteq B /\ B \subseteq Rows /\ InDoubt # {}
    BY <1>3, <1>6
  <2>2. Total(qty, B) <= e - base.ord
    BY <1>1, <2>1 DEF Told
  <2> HIDE DEF A, B
  <2>3. A \in SUBSET Ids /\ B \in SUBSET Ids /\ \A i \in A : qty'[i] = qty[i]
    BY <1>3, <2>1
  <2>4. Total(qty', A) = Total(qty, A)
    BY <1>4, <2>3, TotalSame
  <2>5. Total(qty, A) <= Total(qty, B) /\ Total(qty, A) \in Nat /\ Total(qty, B) \in Nat
    BY <1>4, <2>1, <2>3, TotalNat
  <2>6. e \in Int /\ base.ord \in Nat
    BY <1>1, <1>2 DEF Reply
  <2>7. Total(qty', A) <= e - base.ord
    BY <2>2, <2>4, <2>5, <2>6
  <2> QED BY <2>7 DEF A
<1>7. Told(K, e)'
  <2>1. answer'.ord = Total(qty', K) + e
    BY <1>1, <1>5 DEF Told
  <2>2. AtBroker' \cap old' \subseteq K
    BY <1>1 DEF Told
  <2> QED BY <1>6, <2>1, <2>2 DEF Told
<1>8. K \in SUBSET AtBroker' /\ e \in base'.ord..external'.ord /\ answer' \in Reply
  BY <1>1, <1>2 DEF Reply
<1> QED BY <1>7, <1>8 DEF AnswerWasTrue

\* A new answer is true, an old one stays so.
LEMMA AnswerStep == ASSUME Inv, Verdicts, [Next]_vars PROVE AnswerWasTrue'
<1>0. Filed /\ Based /\ Covered /\ Decided
  BY DEF Verdicts
<1>a. qty' \in [Ids -> Nat] /\ external'.ord \in Nat /\ qty \in [Ids -> Nat]
  <2>1. Filed'
    BY <1>0, FiledStep
  <2> QED BY <1>0, <2>1 DEF Filed, Qtys, Reply
<1>1. CASE \/ \E c \in ClientIds, q \in 1..MaxQty : SubmitChecked(c, q)
           \/ SubmitBlocked \/ BaselineAnswered \/ UNCHANGED vars \/ TotalsCatchUp
           \/ NoticeAges \/ MarketCloses
  <2>1. UNCHANGED <<rows, state, request, base, qty, external, recon, answer, old>>
    BY <1>1 DEF SubmitChecked, SubmitBlocked, BaselineAnswered, vars, TotalsCatchUp,
         NoticeAges, MarketCloses, ledger, desk, broker, time
  <2>2. external.ord <= external'.ord
    BY <1>a, <2>1
  <2> QED BY <1>a, <2>1, <2>2, AnswerIf DEF Live, In, Rows, AtBroker, InDoubt
<1>2. CASE NewOrder
  <2>1. /\ rows' = rows + 1 /\ rows \in Nat /\ rows + 1 \in Ids
        /\ state' = [state EXCEPT ![rows + 1] = "PENDING_SUBMIT"]
        /\ qty' = [qty EXCEPT ![rows + 1] = submit.qty]
        /\ UNCHANGED <<request, external, recon, answer, old>>
    BY <1>2, DeskAssumption DEF NewOrder, broker, time, Inv, Typed, Checked, Ids
  <2>2. Live' = Live /\ AtBroker' = AtBroker
    BY <2>1 DEF Live, In, Rows, AtBroker, LIVE_STATES, Inv, Typed
  <2>3. rows + 1 \notin old /\ rows + 1 \notin Rows
    BY <1>0, <2>1 DEF Filed, Rows
  <2>4. InDoubt' \subseteq InDoubt
    BY <1>0, <2>1, <2>3 DEF InDoubt, Filed, Inv, Typed
  <2>5. \A i \in Rows : qty'[i] = qty[i]
    BY <2>1, <2>3, SetsOfOrders, <1>a
  <2>6. recon' = "answered" => base' = base
    <3>1. recon' = "answered" => base # NoBase /\ submit.pc # "baseline"
      BY <1>0, <2>1 DEF Based
    <3> QED BY <1>2, <3>1 DEF NewOrder
  <2>7. external.ord <= external'.ord
    BY <1>a, <2>1
  <2> QED BY <1>a, <2>1, <2>2, <2>4, <2>5, <2>6, <2>7, AnswerIf
<1>3. CASE SendOrder
  <2>1. /\ AtBroker' = AtBroker
        /\ UNCHANGED <<rows, state, base, qty, external, recon, answer, old>>
    BY <1>0, <1>3 DEF SendOrder, Sent, AtBroker, Filed, ledger, time, Inv, Typed, Written
  <2>2. external.ord <= external'.ord
    BY <1>a, <2>1
  <2> QED BY <1>a, <2>1, <2>2, AnswerIf DEF Live, In, Rows, InDoubt
<1>4. CASE OrderAccepted \/ OrderRejected \/ OrderUncertain
  <2>1. /\ rows \in Ids /\ state[rows] = "PENDING_SUBMIT"
        /\ UNCHANGED <<rows, base, qty, external, request, recon, answer, old>>
    BY <1>4 DEF OrderAccepted, OrderRejected, OrderUncertain, Mark, broker, time, Inv, Written
  <2>2. PICK s \in {"ACCEPTED", "REJECTED", "UNKNOWN"} : state' = [state EXCEPT ![rows] = s]
    BY <1>4 DEF OrderAccepted, OrderRejected, OrderUncertain, Mark, Sent
  <2>3. state'[rows] = s /\ \A i \in Ids : i # rows => state'[i] = state[i]
    BY <2>1, <2>2 DEF Inv, Typed
  <2>4. InDoubt \subseteq {rows}
    BY <1>0, <2>1 DEF InDoubt, Filed, Inv, OneOpenOrder, In, OPEN_STATES, Rows, Typed
  <2>5. InDoubt' # {} => InDoubt # {} /\ s = "UNKNOWN"
    <3> SUFFICES ASSUME NEW i \in InDoubt' PROVE InDoubt # {} /\ s = "UNKNOWN"
      OBVIOUS
    <3>1. i \in old /\ i \in Ids /\ state'[i] \in {"PENDING_SUBMIT", "UNKNOWN"}
      BY <1>0, <2>1, SetsOfOrders DEF InDoubt, Filed
    <3>2. i = rows
      BY <2>3, <2>4, <3>1 DEF InDoubt
    <3> QED BY <2>1, <2>3, <3>1, <3>2 DEF InDoubt
  <2>6. s = "UNKNOWN" => Live' \subseteq Live
    BY <2>1, <2>3, SetsOfOrders DEF Live, In, Rows, LIVE_STATES
  <2>7. external.ord <= external'.ord /\ AtBroker' = AtBroker
    BY <1>a, <2>1 DEF AtBroker
  <2> QED BY <1>a, <2>1, <2>5, <2>6, <2>7, AnswerIf
<1>5. ASSUME NEW m \in mail, OnNotice(m) PROVE AnswerWasTrue'
  <2>1. UNCHANGED <<rows, base, qty, external, request, recon, answer, old>>
    BY <1>5 DEF OnNotice, desk, broker
  <2>2. \A i \in Ids : /\ state'[i] \in LIVE_STATES => state[i] \in LIVE_STATES
                       /\ state'[i] \in {"PENDING_SUBMIT", "UNKNOWN"} => state'[i] = state[i]
    BY <1>5 DEF OnNotice, NoticeApplies, FillState, Inv, Typed, LIVE_STATES, FILLABLE_STATES
  <2>3. Live' \subseteq Live /\ InDoubt' \subseteq InDoubt
    BY <1>0, <2>1, <2>2, SetsOfOrders DEF Live, In, Rows, InDoubt, Filed
  <2>4. external.ord <= external'.ord /\ AtBroker' = AtBroker
    BY <1>a, <2>1 DEF AtBroker
  <2> QED BY <1>a, <2>1, <2>3, <2>4, AnswerIf
<1>6. CASE TotalsAnswered
  <2>1. /\ recon = "asked" /\ answer' = DayTotals
        /\ UNCHANGED <<rows, state, base, qty, external, request, totals, old>>
    BY <1>6 DEF TotalsAnswered, ledger, broker, time
  <2>2. base \in Reply /\ base # NoBase /\ base.ord <= external.ord /\ external \in Reply
    BY <1>0, <2>1 DEF Based, Filed, Inv, Typed
  <2>3. Total(qty, AtBroker) \in Nat
    BY <1>a, SetsOfOrders, TotalNat
  <2>4. DayTotals \in Reply /\ DayTotals.ord = Total(qty, AtBroker) + external.ord
    BY <1>0, <2>2, <2>3 DEF DayTotals, Reply, Filed
  <2>5. Total(qty, Live \ AtBroker) <= external.ord - base.ord
    BY <1>0, <2>2 DEF Covered
  <2>6. AtBroker' = AtBroker /\ Live' = Live
    BY <2>1 DEF AtBroker, Live, In, Rows
  <2>7. external.ord \in base'.ord..external'.ord
    BY <2>1, <2>2 DEF Reply
  <2>8. \E K \in SUBSET AtBroker', e \in base'.ord..external'.ord : Told(K, e)'
    <3>1. PICK K : K = AtBroker
      OBVIOUS
    <3>2. PICK e : e = external.ord
      OBVIOUS
    <3>3. K \in SUBSET AtBroker' /\ e \in base'.ord..external'.ord
      BY <2>6, <2>7, <3>1, <3>2
    <3>4. Told(K, e)'
      <4>1. answer'.ord = Total(qty', K) + e
        <5>1. Total(qty', K) = Total(qty, AtBroker)
          BY ONLY <2>1, <3>1, Zenon
        <5>2. answer'.ord = Total(qty, AtBroker) + external.ord
          BY <2>1, <2>4
        <5> QED BY <3>2, <5>1, <5>2
      <4>2. AtBroker' \cap old' \subseteq K
        BY <2>6, <3>1
      <4>3. Total(qty', Live' \ K) <= e - base'.ord
        BY <2>1, <2>5, <2>6, <3>1, <3>2
      <4> QED BY <4>1, <4>2, <4>3 DEF Told
    <3> QED BY <3>3, <3>4
  <2> QED BY <2>1, <2>4, <2>8 DEF AnswerWasTrue
<1>7. CASE ReconcileStart \/ ReconcileFails \/ ApplyTotals \/ ReconcileEnd \/ Dies
  <2>1. recon' # "answered"
    BY <1>7, DiesIs DEF ReconcileStart, ReconcileFails, ApplyTotals, ReconcileEnd, Expired
  <2> QED BY <2>1 DEF AnswerWasTrue
<1>8. ASSUME NEW i \in Ids, BrokerAccepts(i) \/ BrokerRejects(i) \/ BrokerFills(i)
      PROVE  AnswerWasTrue'
  <2>1. UNCHANGED <<rows, state, base, qty, external, recon, answer, old>>
    BY <1>8 DEF BrokerAccepts, BrokerRejects, BrokerFills, ledger, desk, time
  <2>2. AtBroker \subseteq AtBroker' /\ AtBroker' \cap old \subseteq AtBroker
    BY <1>8 DEF BrokerAccepts, BrokerRejects, BrokerFills, AtBroker, Inv, Typed
  <2>3. external.ord <= external'.ord
    BY <1>a, <2>1
  <2> QED BY <1>a, <2>1, <2>2, <2>3, AnswerIf DEF Live, In, Rows, InDoubt
<1>9. CASE ExternalOrder \/ ExternalFill
  <2>1. UNCHANGED <<rows, state, base, qty, request, recon, answer, old>>
    BY <1>9 DEF ExternalOrder, ExternalFill, ledger, desk, time
  <2>2. external.ord <= external'.ord
    BY <1>0, <1>9 DEF ExternalOrder, ExternalFill, Filed, Reply
  <2> QED BY <1>a, <2>1, <2>2, AnswerIf DEF Live, In, Rows, AtBroker, InDoubt
<1>10. ASSUME NEW i \in Ids, GracePasses(i) PROVE AnswerWasTrue'
  <2>1. recon' # "answered"
    BY <1>10 DEF GracePasses, desk
  <2> QED BY <2>1 DEF AnswerWasTrue
<1> QED
  BY <1>1, <1>2, <1>3, <1>4, <1>5, <1>6, <1>7, <1>8, <1>9, <1>10
     DEF Next, Submit, Reconcile, Broker, Time

\* Before the first order there is nothing to decide.
LEMMA VerdictsInit == Init => Verdicts
  BY DeskAssumption
     DEF Init, Verdicts, Filed, Decided, Based, Covered, AnswerWasTrue, Ids, Rows, Qtys,
         Reply, NoSubmit, NoBase, LIVE_STATES

\* The invariant and the verdicts hold in every reachable state.
THEOREM VerdictInvariant == Spec => [](Inv /\ Verdicts)
<1>1. Init => Inv /\ Verdicts
  BY InitInv, VerdictsInit
<1>2. Inv /\ Verdicts /\ [Next]_vars => (Inv /\ Verdicts)'
  <2> SUFFICES ASSUME Inv, Verdicts, [Next]_vars PROVE Inv' /\ Verdicts'
    OBVIOUS
  <2>1. Inv'
    BY NextInv
  <2>2. Filed'
    BY FiledStep DEF Verdicts
  <2>3. Decided' /\ Based' /\ Covered' /\ AnswerWasTrue'
    BY DecidedStep, BasedStep, CoveredStep, AnswerStep
  <2> QED BY <2>1, <2>2, <2>3 DEF Verdicts
<1> QED BY <1>1, <1>2, PTL DEF Spec

\* Nothing covered means nothing counted as sent that the broker does not have.
LEMMA CoveredIsThere ==
    ASSUME Inv, Verdicts, external.ord = 0 PROVE Live \subseteq AtBroker
<1> SUFFICES ASSUME NEW i \in Live, i \notin AtBroker PROVE FALSE
  OBVIOUS
<1>1. i \in Rows /\ i \in Ids /\ rows > 0
  BY SetsOfOrders DEF Live, In, Rows, Inv, Typed
<1>2. base \in Reply /\ base # NoBase
  BY <1>1 DEF Verdicts, Based
<1>3. Total(qty, Live \ AtBroker) <= 0 - base.ord
  BY <1>2 DEF Verdicts, Covered
<1>4. qty \in [Ids -> Nat] /\ qty[i] > 0
  BY <1>1 DEF Verdicts, Filed, Qtys
<1>5. Live \ AtBroker \in SUBSET Ids /\ {i} \in SUBSET (Live \ AtBroker)
  BY SetsOfOrders
<1>6. Total(qty, {i}) <= Total(qty, Live \ AtBroker) /\ Total(qty, Live \ AtBroker) \in Nat
  BY <1>4, <1>5, TotalNat
<1>7. Total(qty, {i}) = qty[i]
  BY <1>1, <1>4, TotalOne
<1>8. base.ord \in Nat /\ qty[i] \in Nat
  BY <1>1, <1>2, <1>4 DEF Reply
<1> QED BY ONLY <1>3, <1>4, <1>6, <1>7, <1>8

\* The verdicts follow.
LEMMA VerdictsAreTrue == Inv /\ Verdicts => VerdictIsTrue
<1> SUFFICES ASSUME Inv, Verdicts, NEW i \in Ids
             PROVE  /\ state[i] \in LIVE_STATES => request[i] = "accepted" \/ MayBeForeign(i)
                    /\ state[i] \in {"none", "REJECTED", "NOT_SENT"} => request[i] # "accepted"
  BY DEF VerdictIsTrue
<1>1. external.ord \in Nat /\ Decided
  BY DEF Verdicts, Filed, Reply
<1>2. state[i] \in LIVE_STATES => i \in Live
  BY DEF Live, In, Rows, Ids, Inv, Typed, Fresh, LIVE_STATES
<1>3. state[i] \in LIVE_STATES /\ external.ord = 0 => request[i] = "accepted"
  BY <1>2, CoveredIsThere DEF AtBroker
<1>4. i \in odno => request[i] = "accepted"
  BY <1>1 DEF Decided
<1>5. state[i] \in {"none", "REJECTED", "NOT_SENT"} => request[i] # "accepted"
  BY <1>1 DEF Decided, Inv, Fresh, Typed
<1> QED BY <1>1, <1>3, <1>4, <1>5 DEF MayBeForeign

\* Rules 1 and 2 (ledger.py, apply_totals): what the ledger says of an order is
\* what happened at the broker.
THEOREM LedgerTellsTheTruth == Spec => []VerdictIsTrue
  BY VerdictInvariant, VerdictsAreTrue, PTL

\* Rule 6 (ledger.py, close_day): a day that is made final counts the orders the
\* broker has and no others.
THEOREM FinalDayIsRight == Spec => CloseIsSound
<1> DEFINE Closing ==
      ~closed /\ closed' =>
        \A i \in Ids : /\ request[i] = "accepted" => state'[i] \in LIVE_STATES
                       /\ state'[i] \in LIVE_STATES => request[i] = "accepted" \/ MayBeForeign(i)
<1>1. Inv /\ Verdicts /\ [Next]_vars => [Closing]_vars
  <2> SUFFICES ASSUME Inv, Verdicts, [Next]_vars, ~closed, closed'
               PROVE  \A i \in Ids :
                        /\ request[i] = "accepted" => state'[i] \in LIVE_STATES
                        /\ state'[i] \in LIVE_STATES => request[i] = "accepted" \/ MayBeForeign(i)
    OBVIOUS
  <2>1. ReconcileEnd /\ CanClose
    BY DEF Next, Submit, SubmitChecked, SubmitBlocked, BaselineAnswered, NewOrder, SendOrder,
           OrderAccepted, OrderRejected, OrderUncertain, Mark, OnNotice, Reconcile,
           ReconcileStart, TotalsAnswered, ApplyTotals, ReconcileEnd, Expired, ReconcileFails,
           Dies, Die, Crash, CrashInNewOrder, CrashInTotals, CrashInClose, CrashInNotice,
           Broker, BrokerAccepts, BrokerRejects, BrokerFills, ExternalOrder, ExternalFill,
           TotalsCatchUp, Time, GracePasses, NoticeAges, MarketCloses, vars, ledger
  <2> SUFFICES ASSUME NEW i \in Ids
               PROVE  /\ request[i] = "accepted" => state'[i] \in LIVE_STATES
                      /\ state'[i] \in LIVE_STATES => request[i] = "accepted" \/ MayBeForeign(i)
    OBVIOUS
  <2>2. state'[i] = IF state[i] \in FILLABLE_STATES THEN "EXPIRED" ELSE state[i]
    BY <2>1 DEF ReconcileEnd, Expired
  <2>3. request[i] = "accepted" => state[i] \in LIVE_STATES
    <3> SUFFICES ASSUME request[i] = "accepted" PROVE state[i] \in LIVE_STATES
      OBVIOUS
    <3>1. i \in Rows /\ (i \in Live \/ state[i] \in {"PENDING_SUBMIT", "UNKNOWN"})
      BY AtBrokerPlaced DEF AtBroker, Verdicts
    <3>2. state[i] \notin {"PENDING_SUBMIT", "UNKNOWN"}
      BY <2>1, <3>1 DEF CanClose, In
    <3> QED BY <3>1, <3>2 DEF Live, In
  <2>4. state[i] \in LIVE_STATES => request[i] = "accepted" \/ MayBeForeign(i)
    BY VerdictsAreTrue DEF VerdictIsTrue
  <2> QED BY <2>2, <2>3, <2>4 DEF LIVE_STATES, FILLABLE_STATES
<1> QED BY <1>1, VerdictInvariant, PTL DEF Spec, CloseIsSound

-----------------------------------------------------------------------------
(* What apply_totals books as filled.                                      *)

\* The order that can be filled is the open one.
LEMMA OpenIsOpen ==
    ASSUME Inv, NEW i \in Open
    PROVE  i \in In(OPEN_STATES) /\ i \in Ids /\ \A j \in In(OPEN_STATES) : j = i
<1>1. i \in Rows /\ state[i] \in OPEN_STATES
  BY SetsOfOrders DEF Open, Sharing, Resolved, Live, Unknown, In, FILLABLE_STATES, OPEN_STATES
<1>2. i \in In(OPEN_STATES)
  BY <1>1 DEF In
<1> QED BY <1>1, <1>2, SetsOfOrders DEF Inv, OneOpenOrder

\* The numbers of the rule.
LEMMA RuleNumbers ==
    ASSUME Inv, Verdicts, Fills, recon = "answered"
    PROVE  /\ Left \in [Ids -> Nat] /\ filled \in [Ids -> Nat] /\ bfilled \in [Ids -> Nat]
           /\ Delta \in Int /\ Sharing \in SUBSET Ids /\ Open \in SUBSET Ids
           /\ answer.fill \in Nat /\ base.fill \in Nat /\ Total(filled, Sharing) \in Nat
           /\ base # NoBase
<1>1. base \in Reply /\ answer \in Reply /\ base # NoBase
  BY DEF Verdicts, Based, AnswerWasTrue, Inv, Typed
<1>2. qty \in [Ids -> Nat] /\ filled \in [Ids -> Nat] /\ bfilled \in [Ids -> Nat]
  BY DEF Verdicts, Filed, Fills, Settled, Qtys
<1>3. \A i \in Ids : filled[i] <= qty[i]
  BY <1>2 DEF Fills, Settled, FillsWithinOrders, Rows, Inv, Typed, Ids
<1>4. Left \in [Ids -> Nat]
  BY <1>2, <1>3 DEF Left
<1>5. Sharing \in SUBSET Ids /\ Open \in SUBSET Ids
  BY SetsOfOrders DEF Sharing, Open
<1>6. Total(filled, Sharing) \in Nat
  BY <1>2, <1>5, TotalNat
<1>7. answer.fill \in Nat /\ base.fill \in Nat
  BY <1>1 DEF Reply
<1>8. Delta \in Int
  BY <1>6, <1>7 DEF Delta
<1> QED BY <1>1, <1>2, <1>4, <1>5, <1>6, <1>7, <1>8

\* An order takes what is there to take, and not more than it has left.
LEMMA TakeFits ==
    ASSUME Inv, Verdicts, Fills, recon = "answered", NEW i \in Rows
    PROVE  /\ Take(i) \in Nat /\ Take(i) <= qty[i] - filled[i]
           /\ Take(i) > 0 => i \in Open /\ Take(i) <= Delta
           /\ Absorbs /\ i \in Open => Take(i) = Delta
<1>1. /\ Left \in [Ids -> Nat] /\ Delta \in Int /\ Open \in SUBSET Ids /\ i \in Ids
      /\ Left[i] = qty[i] - filled[i]
  BY RuleNumbers, SetsOfOrders DEF Left
<1>2. CASE ~(Absorbs /\ i \in Open)
  BY <1>1, <1>2 DEF Take
<1>3. CASE Absorbs /\ i \in Open
  <2>1. \A j \in Open : j = i
    BY <1>3, OpenIsOpen
  <2>2. {j \in Open : j < i} = {}
    <3>1. i \in Int
      BY <1>1, DeskAssumption DEF Ids
    <3> QED BY <2>1, <3>1
  <2>3. Total(Left, {j \in Open : j < i}) = 0
    <3>1. Total(Left, {}) = 0
      BY SumEmpty, TotalIsSum
    <3> QED BY ONLY <2>2, <3>1, Zenon
  <2>4. Open = {i}
    BY <1>3, <2>1
  <2>5. Total(Left, Open) = Left[i]
    <3>1. Total(Left, {i}) = Left[i]
      BY <1>1, TotalOne
    <3> QED BY ONLY <2>4, <3>1, Zenon
  <2>6. Delta > 0 /\ Delta <= Left[i]
    BY <1>3, <2>5 DEF Absorbs, Room
  <2>7. PICK r : r = Delta - Total(Left, {j \in Open : j < i})
    OBVIOUS
  <2>8. r = Delta
    BY ONLY <2>7, <2>3, <1>1
  <2>9. Take(i) = IF r <= 0 THEN 0 ELSE IF r < Left[i] THEN r ELSE Left[i]
    BY <1>3, <2>7 DEF Take, Share
  <2>10. Left[i] \in Nat
    BY <1>1
  <2>11. Take(i) = Delta
    BY ONLY <1>1, <2>6, <2>8, <2>9, <2>10
  <2> QED BY <1>1, <1>3, <2>6, <2>11
<1> QED BY <1>2, <1>3

\* An order made after another one expired.
LateFor(i) == \E j \in Rows : j < i /\ state[j] = "EXPIRED"

\* What the broker has filled of every other order is in the ledger: it is
\* filled, or was never there, unless it expired.
LEMMA OthersAreBooked ==
    ASSUME Inv, Verdicts, Fills, recon = "answered", external.ord = 0, NEW i \in Open,
           ~LateFor(i)
    PROVE  filled[i] + Delta <= bfilled[i]
<1> DEFINE S == Sharing \ {i}
           T == (Ids \ {i}) \ Sharing
<1>1. /\ filled \in [Ids -> Nat] /\ bfilled \in [Ids -> Nat] /\ Sharing \in SUBSET Ids
      /\ answer.fill \in Nat /\ base.fill \in Nat /\ i \in Ids /\ i \in Sharing
  BY RuleNumbers DEF Open
<1>2. answer.fill <= Total(bfilled, Ids)
  BY DEF Fills, TotalsReal
<1>3. \A j \in In(OPEN_STATES) : j = i
  BY OpenIsOpen
<1>4. \A j \in S : bfilled[j] <= filled[j]
  <2> SUFFICES ASSUME NEW j \in S PROVE bfilled[j] <= filled[j]
    OBVIOUS
  <2>1. j \in Ids /\ j \in Rows /\ j # i /\ (j \in Live \/ j \in Unknown)
    BY <1>1, SetsOfOrders DEF Sharing, Live, Unknown, In
  <2>2. state[j] \notin OPEN_STATES
    BY <1>3, <2>1 DEF In
  <2>3. j \in Live
    BY <2>1, <2>2, SetsOfOrders DEF Unknown, In, OPEN_STATES
  <2>4. state[j] # "EXPIRED"
    <3>1. i \in In(OPEN_STATES)
      BY OpenIsOpen
    <3> QED BY <2>1, <3>1 DEF Fills, Settled, LateFor
  <2>5. state[j] = "FILLED"
    BY <2>2, <2>3, <2>4 DEF Live, In, LIVE_STATES, OPEN_STATES
  <2>6. filled[j] = qty[j] /\ bfilled[j] <= qty[j]
    BY <2>1, <2>5 DEF Fills, FillsWithinOrders, Verdicts, Filed
  <2> QED BY <2>6
<1>5. \A j \in T : bfilled[j] = 0
  <2> SUFFICES ASSUME NEW j \in T, bfilled[j] # 0 PROVE FALSE
    OBVIOUS
  <2>1. j \in Ids /\ j # i /\ j \notin Live
    BY DEF Sharing
  <2>2. bfilled[j] > 0
    BY <1>1, <2>1
  <2>3. j \in AtBroker
    BY <2>1, <2>2 DEF Verdicts, Decided, AtBroker
  <2>4. j \in Rows /\ state[j] \in {"PENDING_SUBMIT", "UNKNOWN"}
    BY <2>1, <2>3, AtBrokerPlaced DEF Verdicts
  <2> QED BY <1>3, <2>1, <2>4 DEF In, OPEN_STATES
<1>6. S \in SUBSET Ids /\ T \in SUBSET Ids
  BY <1>1
<1>7. Total(bfilled, S) <= Total(filled, S)
  BY <1>1, <1>4, <1>6, TotalLeq
<1>8. Total(bfilled, T) = 0
  BY <1>1, <1>5, <1>6, TotalZero
<1>9. Total(bfilled, Ids) = bfilled[i] + Total(bfilled, S)
  <2>1. S \cap T = {} /\ {i} \cap (S \cup T) = {} /\ {i} \cup (S \cup T) = Ids
    BY <1>1
  <2>2. Total(bfilled, S \cup T) = Total(bfilled, S) + Total(bfilled, T)
    <3> HIDE DEF S, T
    <3> QED BY <1>1, <1>6, <2>1, TotalSplit
  <2>3. Total(bfilled, {i} \cup (S \cup T)) = Total(bfilled, {i}) + Total(bfilled, S \cup T)
    <3>1. {i} \in SUBSET Ids /\ S \cup T \in SUBSET Ids
      BY <1>1, <1>6
    <3> HIDE DEF S, T
    <3> QED BY <1>1, <2>1, <3>1, TotalSplit
  <2>4. Total(bfilled, {i} \cup (S \cup T)) = Total(bfilled, Ids)
    BY ONLY <2>1, Zenon
  <2>5. Total(bfilled, {i}) = bfilled[i]
    BY <1>1, TotalOne
  <2>6. Total(bfilled, S) \in Nat /\ bfilled[i] \in Nat
    BY <1>1, <1>6, TotalNat
  <2> HIDE DEF S, T
  <2>7. Total(bfilled, S \cup T) = Total(bfilled, S)
    BY <1>8, <2>2, <2>6
  <2>8. Total(bfilled, Ids) = bfilled[i] + Total(bfilled, S \cup T)
    BY ONLY <2>3, <2>4, <2>5, Zenon
  <2> QED BY ONLY <2>7, <2>8, Zenon
<1>10. Total(filled, Sharing) = filled[i] + Total(filled, S)
  <2>1. Total(filled, Sharing) = Total(filled, Sharing \cap {i}) + Total(filled, Sharing \ {i})
    BY ONLY <1>1, TotalParts
  <2>2. Sharing \cap {i} = {i}
    BY <1>1
  <2>3. Total(filled, Sharing \cap {i}) = Total(filled, {i})
    BY ONLY <2>2, Zenon
  <2>4. Total(filled, {i}) = filled[i]
    BY <1>1, TotalOne
  <2> QED BY <2>1, <2>3, <2>4
<1>11. /\ Total(bfilled, S) \in Nat /\ Total(filled, S) \in Nat
       /\ filled[i] \in Nat /\ bfilled[i] \in Nat
  <2> HIDE DEF S
  <2> QED BY <1>1, <1>6, TotalNat
<1>12. Delta = answer.fill - base.fill - Total(filled, Sharing)
  BY DEF Delta
<1> HIDE DEF S, T
<1> QED BY ONLY <1>1, <1>2, <1>7, <1>9, <1>10, <1>11, <1>12

-----------------------------------------------------------------------------
(* Each part of Fills is preserved.                                        *)

\* The types that are left stay what they are.
LEMMA RestStep == ASSUME Inv, Verdicts, Fills, [Next]_vars PROVE Rest'
<1>0. Rest /\ Filed /\ Based /\ external.ord \in Nat
  BY DEF Fills, Verdicts, Filed, Reply
<1>1. CASE \/ \E c \in ClientIds, q \in 1..MaxQty : SubmitChecked(c, q)
           \/ SubmitBlocked \/ BaselineAnswered \/ SendOrder \/ OrderRejected \/ OrderUncertain
  BY <1>0, <1>1 DEF SubmitChecked, SubmitBlocked, BaselineAnswered, SendOrder, OrderRejected,
       OrderUncertain, Mark, ledger, time, Rest, Rows
<1>2. CASE NewOrder
  <2>1. base' \in Answers
    BY <1>0, <1>2 DEF NewOrder, Based, Rest, Answers, Reply
  <2>2. odno \subseteq Rows'
    BY <1>0, <1>2 DEF NewOrder, Rest, Rows, Inv, Typed
  <2> QED BY <1>0, <1>2, <2>1, <2>2 DEF NewOrder, time, Rest
<1>3. CASE OrderAccepted
  <2>1. rows \in Rows
    BY <1>3, DeskAssumption DEF OrderAccepted, Inv, Typed, Written, Rows, Ids
  <2> QED BY <1>0, <1>3, <2>1 DEF OrderAccepted, Sent, Mark, time, Rest, Rows
<1>4. ASSUME NEW m \in mail, OnNotice(m) PROVE Rest'
  BY <1>0, <1>4 DEF OnNotice, desk, Rest, Rows
<1>5. CASE ReconcileStart \/ ApplyTotals
  BY <1>0, <1>5 DEF ReconcileStart, ApplyTotals, ledger, time, Rest, Rows, Answers
<1>6. CASE TotalsAnswered
  <2>1. DayTotals \in Reply
    <3>1. qty \in [Ids -> Nat] /\ AtBroker \in SUBSET Ids
      BY <1>0, SetsOfOrders DEF Filed, Qtys
    <3>2. Total(qty, AtBroker) \in Nat
      BY <3>1, TotalNat
    <3> QED BY <1>0, <3>2 DEF DayTotals, Reply, Filed
  <2> QED BY <1>0, <1>6, <2>1 DEF TotalsAnswered, ledger, time, Rest, Rows, Answers, Reply
<1>7. CASE ReconcileFails
  <2>1. fails + 1 \in 0..MaxFaults
    BY <1>0, <1>7, DeskAssumption DEF ReconcileFails, MoreFaults, Rest
  <2> QED BY <1>0, <1>7, <2>1 DEF ReconcileFails, ledger, Rest, Rows
<1>8. CASE ReconcileEnd
  <2>1. Confirmed \subseteq found
    BY DEF Confirmed
  <2> QED BY <1>0, <1>8, <2>1 DEF ReconcileEnd, Expired, time, Rest, Rows
<1>9. CASE Dies
  <2>1. /\ UNCHANGED <<rows, odno, closed, late, fails>>
        /\ recon' = "idle" /\ answer' = NoBase /\ seen' = {} /\ breaks' = {}
        /\ crashes' = crashes + 1 /\ MoreFaults
    BY <1>9, DiesIs
  <2>2. crashes' \in 0..MaxFaults
    BY <1>0, <2>1, DeskAssumption DEF MoreFaults, Rest
  <2>3. base' \in Answers
    <3>1. base' = base \/ (submit.pc = "baseline" /\ base' = submit.answer)
      BY <1>9, DiesIs
    <3> QED BY <1>0, <3>1 DEF Based, Rest, Answers, Reply
  <2>4. recent' \subseteq noticed'
    <3>1. \/ UNCHANGED <<noticed, recent>>
          \/ \E m \in mail : noticed' = noticed \cup {m} /\ recent' = recent \cup {m}
      BY <1>9, DiesIs
    <3> QED BY <1>0, <3>1 DEF Rest
  <2> QED BY <1>0, <2>1, <2>2, <2>3, <2>4 DEF Rest, Rows, Answers
<1>10. CASE Broker
  BY <1>0, <1>10 DEF Broker, BrokerAccepts, BrokerRejects, BrokerFills, ExternalOrder,
       ExternalFill, TotalsCatchUp, ledger, desk, time, Rest, Rows
<1>11. CASE Time
  BY <1>0, <1>11 DEF Time, GracePasses, NoticeAges, MarketCloses, ledger, desk, Rest, Rows
<1>12. CASE UNCHANGED vars
  BY <1>0, <1>12 DEF vars, ledger, desk, time, Rest, Rows
<1> QED
  BY <1>1, <1>2, <1>3, <1>4, <1>5, <1>6, <1>7, <1>8, <1>9, <1>10, <1>11, <1>12
     DEF Next, Submit, Reconcile

\* Notices that count are among those sent.
LEMMA ReadStep == ASSUME Inv, Verdicts, Fills, [Next]_vars PROVE Read'
<1>0. Read /\ Filed
  BY DEF Fills, Verdicts
<1>1. ASSUME NEW m \in mail, OnNotice(m) PROVE Read'
  <2>1. IsFiniteSet(noticed \cup {m})
    BY <1>0, FS_AddElement DEF Read
  <2> QED BY <1>0, <1>1, <2>1 DEF OnNotice, broker, Read
<1>2. ASSUME NEW i \in Ids, BrokerFills(i) PROVE Read'
  <2>1. PICK f \in 1..(qty[i] - bfilled[i]) :
          mail' = IF Notices THEN mail \cup {[id |-> i, upto |-> bfilled[i] + f, qty |-> f]}
                             ELSE mail
    BY <1>2 DEF BrokerFills
  <2>2. qty[i] \in Qtys /\ bfilled[i] \in Qtys
    BY <1>0 DEF Filed
  <2>3. bfilled[i] + f \in Qtys /\ f \in Qtys
    BY <2>2, DeskAssumption DEF Qtys
  <2>4. [id |-> i, upto |-> bfilled[i] + f, qty |-> f] \in Mails
    BY <2>3 DEF Mails
  <2>5. UNCHANGED noticed
    BY <1>2 DEF BrokerFills, ledger
  <2> QED BY <1>0, <2>1, <2>4, <2>5 DEF Read
<1>3. CASE Submit
  BY <1>0, <1>3 DEF Submit, SubmitChecked, SubmitBlocked, BaselineAnswered, NewOrder, SendOrder,
       OrderAccepted, OrderRejected, OrderUncertain, Mark, ledger, broker, Read
<1>4. CASE Reconcile \/ ReconcileFails
  BY <1>0, <1>4 DEF Reconcile, ReconcileStart, TotalsAnswered, ApplyTotals, ReconcileEnd, Expired,
       ReconcileFails, ledger, broker, Read
<1>6. CASE Dies
  <2>1. /\ UNCHANGED mail
        /\ noticed' = noticed \/ \E m \in mail : noticed' = noticed \cup {m}
    BY <1>6, DiesIs DEF broker
  <2>2. noticed' \subseteq mail /\ IsFiniteSet(noticed')
    BY <1>0, <2>1, FS_AddElement DEF Read
  <2> QED BY <1>0, <2>1, <2>2 DEF Read
<1>5. CASE \/ \E i \in Ids : BrokerAccepts(i) \/ BrokerRejects(i)
           \/ ExternalOrder \/ ExternalFill \/ TotalsCatchUp \/ Time \/ UNCHANGED vars
  BY <1>0, <1>5 DEF BrokerAccepts, BrokerRejects, ExternalOrder, ExternalFill, TotalsCatchUp,
       Time, GracePasses, NoticeAges, MarketCloses, vars, ledger, broker, Read
<1> QED BY <1>1, <1>2, <1>3, <1>4, <1>5, <1>6 DEF Next, Broker

\* The totals stay behind the broker.
LEMMA TotalsRealStep == ASSUME Inv, Verdicts, Fills, [Next]_vars PROVE TotalsReal'
<1>0. TotalsReal /\ Filed /\ external \in Reply /\ totals \in Nat
  BY DEF Fills, Verdicts, Filed
<1>a. bfilled \in [Ids -> Nat] /\ Total(bfilled, Ids) \in Nat
  <2>1. bfilled \in [Ids -> Nat] /\ Ids \in SUBSET Ids
    BY <1>0 DEF Filed, Qtys
  <2> QED BY <2>1, TotalNat
<1>1. CASE Submit
  BY <1>0, <1>1 DEF Submit, SubmitChecked, SubmitBlocked, BaselineAnswered, NewOrder, SendOrder,
       OrderAccepted, OrderRejected, OrderUncertain, Mark, broker, TotalsReal, AllFills
<1>2. ASSUME NEW m \in mail, OnNotice(m) PROVE TotalsReal'
  BY <1>0, <1>2 DEF OnNotice, desk, broker, TotalsReal, AllFills
<1>3. CASE ReconcileStart \/ ApplyTotals \/ ReconcileEnd \/ ReconcileFails
  BY <1>0, <1>3 DEF ReconcileStart, ApplyTotals, ReconcileEnd, Expired, ReconcileFails, broker,
       TotalsReal, AllFills
<1>10. CASE Dies
  <2>1. UNCHANGED <<bfilled, external, totals>> /\ recon' = "idle"
    BY <1>10, DiesIs DEF broker
  <2> QED BY <1>0, <2>1 DEF TotalsReal, AllFills
<1>4. CASE TotalsAnswered
  <2>1. answer'.fill = totals /\ UNCHANGED <<bfilled, external, totals>>
    BY <1>4 DEF TotalsAnswered, DayTotals, broker
  <2>2. external.ord = 0 => external.fill = 0
    BY <1>0 DEF Filed, Reply
  <2>3. external.ord = 0 => totals <= Total(bfilled, Ids)
    BY <1>0, <1>a, <2>2 DEF TotalsReal, AllFills
  <2> QED BY <1>0, <2>1, <2>3 DEF TotalsReal, AllFills
<1>5. ASSUME NEW i \in Ids, BrokerFills(i) PROVE TotalsReal'
  <2>1. PICK f \in 1..(qty[i] - bfilled[i]) : bfilled' = [bfilled EXCEPT ![i] = @ + f]
    BY <1>5 DEF BrokerFills
  <2>2. bfilled' \in [Ids -> Nat] /\ \A j \in Ids : bfilled[j] <= bfilled'[j]
    BY <1>a, <2>1
  <2>3. Total(bfilled, Ids) <= Total(bfilled', Ids) /\ Total(bfilled', Ids) \in Nat
    <3>1. Ids \in SUBSET Ids
      OBVIOUS
    <3> QED BY <1>a, <2>2, <3>1, TotalLeq, TotalNat
  <2>4. UNCHANGED <<recon, answer, external, totals>>
    BY <1>5 DEF BrokerFills, desk
  <2>5. totals <= Total(bfilled', Ids) + external.fill
    BY <1>0, <1>a, <2>3 DEF TotalsReal, AllFills, Reply
  <2>6. recon = "answered" => answer.fill \in Nat
    BY DEF Verdicts, AnswerWasTrue, Reply
  <2>7. recon = "answered" /\ external.ord = 0 => answer.fill <= Total(bfilled', Ids)
    BY <1>0, <1>a, <2>3, <2>6 DEF TotalsReal
  <2> QED BY <2>4, <2>5, <2>7 DEF TotalsReal, AllFills
<1>6. CASE ExternalOrder
  <2>1. /\ external'.fill = external.fill /\ external'.ord # 0
        /\ UNCHANGED <<bfilled, totals>>
    BY <1>0, <1>6 DEF ExternalOrder, Reply
  <2> QED BY <1>0, <2>1 DEF TotalsReal, AllFills
<1>7. CASE ExternalFill
  <2>1. /\ external'.fill = external.fill + 1 /\ external'.ord = external.ord
        /\ UNCHANGED <<bfilled, totals, recon, answer>>
    BY <1>0, <1>7 DEF ExternalFill, Reply, desk
  <2> QED BY <1>0, <1>a, <2>1 DEF TotalsReal, AllFills, Reply
<1>8. CASE TotalsCatchUp
  <2>1. AllFills' = AllFills /\ UNCHANGED <<bfilled, external, recon, answer>>
    BY <1>8 DEF TotalsCatchUp, AllFills, desk
  <2>2. totals' = AllFills /\ AllFills \in Nat
    BY <1>0, <1>a, <1>8 DEF TotalsCatchUp, AllFills, Reply
  <2>3. totals' <= AllFills
    BY <2>2
  <2> QED BY <1>0, <2>1, <2>3 DEF TotalsReal
<1>9. CASE (\E i \in Ids : BrokerAccepts(i) \/ BrokerRejects(i)) \/ Time \/ UNCHANGED vars
  BY <1>0, <1>9 DEF BrokerAccepts, BrokerRejects, Time, GracePasses, NoticeAges, MarketCloses,
       vars, desk, broker, TotalsReal, AllFills
<1> QED
  BY <1>1, <1>2, <1>3, <1>4, <1>5, <1>6, <1>7, <1>8, <1>9, <1>10 DEF Next, Reconcile, Broker

\* What a step of apply_totals makes of the fills.
LEMMA ApplyFills ==
    ASSUME Inv, Verdicts, Fills, ApplyTotals, NEW i \in Ids
    PROVE  /\ i \notin Rows => filled'[i] = filled[i]
           /\ i \in Rows => /\ filled'[i] = filled[i] + Take(i) /\ Take(i) \in Nat
                            /\ filled'[i] <= qty[i]
           /\ filled'[i] \in Qtys
<1>1. recon = "answered" /\ filled[i] \in Qtys /\ qty[i] \in Qtys
  BY DEF ApplyTotals, Fills, Settled, Verdicts, Filed
<1>2. filled'[i] = filled[i] + IF i \in Rows THEN Take(i) ELSE 0
  BY DEF ApplyTotals
<1>3. i \in Rows => Take(i) \in Nat /\ Take(i) <= qty[i] - filled[i]
  BY <1>1, TakeFits
<1>4. MaxQty \in Nat
  BY DeskAssumption
<1> HIDE DEF Fills, Verdicts, Inv, ApplyTotals
<1> QED BY <1>1, <1>2, <1>3, <1>4 DEF Qtys

\* A quiet step opens no order.
LEMMA QuietOpensNone == ASSUME Inv, Quiet PROVE In(OPEN_STATES)' \subseteq In(OPEN_STATES)
  BY DeskAssumption DEF Inv, Typed, Quiet, In, Rows, Ids, OPEN_STATES

\* A quiet step that lets an order expire leaves none open: it was the only one.
LEMMA ExpiredIsLast ==
    ASSUME Inv, Quiet, NEW i \in Ids, state[i] \in FILLABLE_STATES, state'[i] = "EXPIRED"
    PROVE  In(OPEN_STATES)' = {}
<1>1. i \in In(OPEN_STATES)
  BY DeskAssumption DEF In, Rows, Ids, Inv, Typed, Fresh, OPEN_STATES, FILLABLE_STATES
<1>2. \A j \in In(OPEN_STATES) : j = i
  BY <1>1 DEF Inv, OneOpenOrder
<1>3. In(OPEN_STATES)' \subseteq In(OPEN_STATES)
  BY QuietOpensNone
<1>4. i \notin In(OPEN_STATES)'
  BY DEF In, OPEN_STATES
<1> QED BY <1>2, <1>3, <1>4

\* A step that fills nothing, and lets nothing expire that leaves an order open.
LEMMA SettledIf ==
    ASSUME Inv, Settled, UNCHANGED <<rows, filled>>,
           In(OPEN_STATES)' \subseteq In(OPEN_STATES),
           \A i \in Ids : state'[i] = "EXPIRED" => state[i] = "EXPIRED" \/ In(OPEN_STATES)' = {}
    PROVE  Settled'
  BY DEF Settled

\* Nothing is filled beyond its quantity, and nothing expires but at the close.
LEMMA SettledStep == ASSUME Inv, Verdicts, Fills, [Next]_vars PROVE Settled'
<1>0. Settled
  BY DEF Fills
<1>1. ASSUME NEW c \in ClientIds, NEW q \in 1..MaxQty, SubmitChecked(c, q) PROVE Settled'
  BY <1>0, <1>1, SettledIf DEF SubmitChecked, ledger, In, Rows
<1>2. CASE SubmitBlocked \/ BaselineAnswered \/ SendOrder
  BY <1>0, <1>2, SettledIf DEF SubmitBlocked, BaselineAnswered, SendOrder, NoSubmit, ledger,
       In, Rows
<1>3. CASE NewOrder
  <2>1. /\ rows' = rows + 1 /\ rows \in Nat /\ rows + 1 \in Ids /\ UNCHANGED filled
        /\ submit.pc # "idle"
        /\ state' = [state EXCEPT ![rows + 1] = "PENDING_SUBMIT"]
    BY <1>3, DeskAssumption DEF NewOrder, Inv, Typed, Checked, Ids
  <2>2. ASSUME NEW i \in Ids, state'[i] = "EXPIRED", NEW j \in In(OPEN_STATES)' PROVE i < j
    <3>0. state \in [Ids -> States] /\ Fresh /\ Ids \subseteq Nat
      BY DEF Inv, Typed, Ids
    <3>5. i # rows + 1
      BY <2>1, <2>2, <3>0
    <3>6. state[i] = "EXPIRED"
      BY <2>1, <2>2, <3>0, <3>5
    <3>1. state[i] = "EXPIRED" /\ i <= rows /\ i \in Nat
      BY <2>1, <3>0, <3>6 DEF Fresh
    <3>2. j \in Rows' /\ state'[j] \in OPEN_STATES
      BY DEF In
    <3>3. CASE j = rows + 1
      BY <2>1, <3>1, <3>3
    <3>4. CASE j # rows + 1
      <4>1. j \in Rows /\ state[j] \in OPEN_STATES
        BY <2>1, <3>2, <3>4 DEF Rows, Inv, Typed, Ids
      <4> QED BY <1>0, <3>1, <4>1 DEF Settled, In
    <3> QED BY <3>3, <3>4
  <2>3. \A i \in Ids : i > rows + 1 => filled[i] = 0
    BY <1>0, <2>1, DeskAssumption DEF Settled, Ids
  <2> QED BY <1>0, <2>1, <2>2, <2>3 DEF Settled
<1>4. ASSUME NEW s \in {"ACCEPTED", "REJECTED", "UNKNOWN"}, submit.pc = "sending", Mark(s)
      PROVE  Settled'
  <2>1. Quiet
    BY <1>4 DEF Mark, Quiet, Inv, Typed, Written, Sent, States, OPEN_STATES, LIVE_STATES
  <2>2. In(OPEN_STATES)' \subseteq In(OPEN_STATES)
    BY <2>1, QuietOpensNone
  <2>3. \A i \in Ids : state'[i] = "EXPIRED" => state[i] = "EXPIRED"
    BY <1>4 DEF Mark, Sent, Inv, Typed
  <2> QED BY <1>0, <1>4, <2>2, <2>3, SettledIf DEF Mark, NoSubmit
<1>5. CASE OrderAccepted \/ OrderRejected \/ OrderUncertain
  BY <1>4, <1>5 DEF OrderAccepted, OrderRejected, OrderUncertain
<1>6. ASSUME NEW m \in mail, OnNotice(m) PROVE Settled'
  <2>1. /\ NoticeApplies(m) /\ m \in Mails /\ m.id \in Ids
        /\ filled' = [filled EXCEPT ![m.id] = @ + m.qty]
        /\ state' = [state EXCEPT ![m.id] = FillState(m.id, filled[m.id] + m.qty)]
        /\ UNCHANGED <<rows, closed, submit>>
    BY <1>6 DEF OnNotice, desk, Fills, Read, Mails
  <2>2. state[m.id] \in FILLABLE_STATES /\ m.id \in Rows
    BY <2>1 DEF NoticeApplies, Rows, Ids, Inv, Typed, Fresh, FILLABLE_STATES
  <2>3. m.qty \in Qtys /\ filled[m.id] \in Qtys /\ qty[m.id] \in Qtys
        /\ m.qty <= qty[m.id] - filled[m.id]
    BY <1>0, <2>1 DEF Mails, Settled, NoticeApplies, Verdicts, Filed
  <2>4. filled[m.id] + m.qty \in Qtys
    BY <2>3, DeskAssumption DEF Qtys
  <2>5. filled' \in [Ids -> Qtys]
    BY <1>0, <2>1, <2>4 DEF Settled
  <2>6. In(OPEN_STATES)' \subseteq In(OPEN_STATES)
    BY <2>1, <2>2 DEF In, Rows, Inv, Typed, OPEN_STATES, FILLABLE_STATES
  <2>7. \A i \in Ids : state'[i] = "EXPIRED" => state[i] = "EXPIRED"
    BY <2>1 DEF FillState, Inv, Typed
  <2>8. \A i \in Ids : i > rows => filled'[i] = 0
    BY <1>0, <2>1, <2>2, DeskAssumption DEF Settled, Rows, Ids, Inv, Typed
  <2> QED BY <1>0, <2>1, <2>5, <2>6, <2>7, <2>8 DEF Settled
<1>7. CASE ReconcileStart \/ TotalsAnswered \/ ReconcileFails
  BY <1>0, <1>7, SettledIf DEF ReconcileStart, TotalsAnswered, ReconcileFails, ledger, In, Rows
<1>8. CASE ApplyTotals
  <2>1. UNCHANGED <<rows, closed, submit>>
    BY <1>8 DEF ApplyTotals
  <2>2. In(OPEN_STATES)' \subseteq In(OPEN_STATES)
    BY <1>8, ApplyTotalsQuiet, QuietOpensNone
  <2>3. \A i \in Ids : state'[i] = "EXPIRED" => state[i] = "EXPIRED"
    BY <1>8, ApplyEffect
  <2>4. filled' \in [Ids -> Qtys]
    <3>1. filled' = [i \in Ids |-> filled[i] + IF i \in Rows THEN Take(i) ELSE 0]
      BY <1>8 DEF ApplyTotals
    <3>2. \A i \in Ids : filled'[i] \in Qtys
      BY <1>8, ApplyFills
    <3> QED BY <3>1, <3>2
  <2>5. \A i \in Ids : i > rows => filled'[i] = 0
    <3> SUFFICES ASSUME NEW i \in Ids, i > rows PROVE filled'[i] = 0
      OBVIOUS
    <3>1. i \notin Rows
      BY DeskAssumption DEF Rows, Ids, Inv, Typed
    <3> QED BY <1>0, <1>8, <3>1, ApplyFills DEF Settled
  <2> QED BY <1>0, <2>1, <2>2, <2>3, <2>4, <2>5 DEF Settled
<1>9. CASE ReconcileEnd
  <2>1. Quiet
    BY <1>9 DEF ReconcileEnd, Expired, Quiet, Inv, Typed, States, OPEN_STATES, LIVE_STATES,
                FILLABLE_STATES
  <2>2. In(OPEN_STATES)' \subseteq In(OPEN_STATES)
    BY <2>1, QuietOpensNone
  <2>3. \A i \in Ids : state'[i] = "EXPIRED" => state[i] = "EXPIRED" \/ state[i] \in FILLABLE_STATES
    BY <1>9 DEF ReconcileEnd, Expired
  <2>4. \A i \in Ids : state'[i] = "EXPIRED" => state[i] = "EXPIRED" \/ In(OPEN_STATES)' = {}
    BY <2>1, <2>3, ExpiredIsLast
  <2>5. UNCHANGED <<rows, filled>>
    BY <1>9 DEF ReconcileEnd
  <2> QED BY <1>0, <2>2, <2>4, <2>5, SettledIf
<1>10. CASE Dies
  <2>1. In(OPEN_STATES)' \subseteq In(OPEN_STATES)
    BY <1>10, DiesQuiet, QuietOpensNone
  <2>2. UNCHANGED <<rows, filled>> /\ \A i \in Ids : Outcome(i)
    BY <1>10, DiesIs
  <2>3. \A i \in Ids : state'[i] = "EXPIRED" => state[i] = "EXPIRED" \/ state[i] \in FILLABLE_STATES
    BY <2>2 DEF Outcome
  <2>4. \A i \in Ids : state'[i] = "EXPIRED" => state[i] = "EXPIRED" \/ In(OPEN_STATES)' = {}
    BY <1>10, <2>3, DiesQuiet, ExpiredIsLast
  <2> QED BY <1>0, <2>1, <2>2, <2>4, SettledIf
<1>11. CASE Broker
  BY <1>0, <1>11, SettledIf DEF Broker, BrokerAccepts, BrokerRejects, BrokerFills, ExternalOrder,
       ExternalFill, TotalsCatchUp, ledger, desk, In, Rows
<1>12. CASE Time \/ UNCHANGED vars
  BY <1>0, <1>12, SettledIf DEF Time, GracePasses, NoticeAges, MarketCloses, vars, ledger, desk,
       In, Rows
<1> QED
  BY <1>1, <1>2, <1>3, <1>5, <1>6, <1>7, <1>8, <1>9, <1>10, <1>11, <1>12
     DEF Next, Submit, Reconcile

\* The verdict on a row agrees with what it has been filled.
LEMMA WithinStep == ASSUME Inv, Verdicts, Fills, [Next]_vars PROVE FillsWithinOrders'
<1>0. FillsWithinOrders /\ Filed /\ Settled
  BY DEF Fills, Verdicts
<1>a. ASSUME UNCHANGED <<rows, qty, filled>>,
             \A i \in Rows : /\ state'[i] = "FILLED" <=> state[i] = "FILLED"
                             /\ state[i] \in LIVE_STATES => state'[i] \in LIVE_STATES
      PROVE  FillsWithinOrders'
  BY <1>0, <1>a DEF FillsWithinOrders, Rows
<1>1. CASE \/ \E c \in ClientIds, q \in 1..MaxQty : SubmitChecked(c, q)
           \/ SubmitBlocked \/ BaselineAnswered \/ SendOrder
  BY <1>0, <1>1 DEF SubmitChecked, SubmitBlocked, BaselineAnswered, SendOrder, ledger,
       FillsWithinOrders, Rows
<1>2. CASE NewOrder
  <2>1. /\ rows' = rows + 1 /\ rows \in Nat /\ rows + 1 \in Ids /\ UNCHANGED filled
        /\ state' = [state EXCEPT ![rows + 1] = "PENDING_SUBMIT"]
        /\ qty' = [qty EXCEPT ![rows + 1] = submit.qty] /\ submit.qty \in 1..MaxQty
    BY <1>0, <1>2, DeskAssumption DEF NewOrder, Inv, Typed, Checked, Ids, Filed
  <2> SUFFICES ASSUME NEW i \in Rows'
               PROVE  /\ filled[i] <= qty'[i]
                      /\ state'[i] = "FILLED" <=> filled[i] = qty'[i]
                      /\ state'[i] \notin LIVE_STATES => filled[i] = 0
    BY <2>1 DEF FillsWithinOrders
  <2>2. CASE i = rows + 1
    <3>1. filled[i] = 0 /\ state'[i] = "PENDING_SUBMIT" /\ qty'[i] = submit.qty
      BY <1>0, <2>1, <2>2 DEF Settled, Filed, Inv, Typed
    <3> QED BY <2>1, <3>1
  <2>3. CASE i # rows + 1
    <3>1. i \in Rows /\ i \in Ids
      BY <2>1, <2>3, SetsOfOrders DEF Rows
    <3>2. state'[i] = state[i] /\ qty'[i] = qty[i]
      BY <1>0, <2>1, <2>3, <3>1 DEF Filed, Inv, Typed
    <3> QED BY <1>0, <3>1, <3>2 DEF FillsWithinOrders
  <2> QED BY <2>2, <2>3
<1>3. ASSUME NEW s \in {"ACCEPTED", "REJECTED", "UNKNOWN"}, submit.pc = "sending", Mark(s)
      PROVE  FillsWithinOrders'
  <2>1. \A i \in Rows : /\ state'[i] = "FILLED" <=> state[i] = "FILLED"
                        /\ state[i] \in LIVE_STATES => state'[i] \in LIVE_STATES
    BY <1>3, SetsOfOrders DEF Mark, Sent, Inv, Typed, Written, LIVE_STATES
  <2> QED BY <1>a, <1>3, <2>1 DEF Mark
<1>4. CASE OrderAccepted \/ OrderRejected \/ OrderUncertain
  BY <1>3, <1>4 DEF OrderAccepted, OrderRejected, OrderUncertain
<1>5. ASSUME NEW m \in mail, OnNotice(m) PROVE FillsWithinOrders'
  <2>1. /\ NoticeApplies(m) /\ m \in Mails /\ m.id \in Ids /\ m.qty \in Nat
        /\ filled' = [filled EXCEPT ![m.id] = @ + m.qty]
        /\ state' = [state EXCEPT ![m.id] = FillState(m.id, filled[m.id] + m.qty)]
        /\ UNCHANGED <<rows, qty>>
    BY <1>5 DEF OnNotice, Fills, Read, Mails, Qtys
  <2> SUFFICES ASSUME NEW i \in Rows
               PROVE  /\ filled'[i] <= qty[i]
                      /\ state'[i] = "FILLED" <=> filled'[i] = qty[i]
                      /\ state'[i] \notin LIVE_STATES => filled'[i] = 0
    BY <2>1 DEF FillsWithinOrders, Rows
  <2>2. i \in Ids /\ filled[i] \in Nat /\ qty[i] \in Nat
    BY <1>0, SetsOfOrders DEF Settled, Filed, Qtys
  <2>3. CASE i = m.id
    <3>1. filled'[i] = filled[i] + m.qty /\ m.qty <= qty[i] - filled[i]
          /\ state'[i] = FillState(i, filled[i] + m.qty)
      BY <1>0, <2>1, <2>2, <2>3 DEF NoticeApplies, Settled, Inv, Typed
    <3> QED BY <2>1, <2>2, <3>1 DEF FillState, LIVE_STATES
  <2>4. CASE i # m.id
    <3>1. filled'[i] = filled[i] /\ state'[i] = state[i]
      BY <1>0, <2>1, <2>2, <2>4 DEF Settled, Inv, Typed
    <3> QED BY <1>0, <3>1 DEF FillsWithinOrders
  <2> QED BY <2>3, <2>4
<1>6. CASE ApplyTotals
  <2>1. UNCHANGED <<rows, qty>> /\ recon = "answered"
    BY <1>6 DEF ApplyTotals
  <2> SUFFICES ASSUME NEW i \in Rows
               PROVE  /\ filled'[i] <= qty[i]
                      /\ state'[i] = "FILLED" <=> filled'[i] = qty[i]
                      /\ state'[i] \notin LIVE_STATES => filled'[i] = 0
    BY <2>1 DEF FillsWithinOrders, Rows
  <2>2. i \in Ids /\ filled[i] \in Nat /\ qty[i] \in Nat /\ qty[i] > 0
    BY <1>0, SetsOfOrders DEF Settled, Filed, Qtys
  <2>3. filled'[i] = filled[i] + Take(i) /\ Take(i) \in Nat /\ filled'[i] <= qty[i]
    BY <1>6, <2>2, ApplyFills
  <2>4. CASE Take(i) > 0
    <3>1. state'[i] = FillState(i, filled'[i])
      BY <1>6, <2>2, <2>3, <2>4 DEF ApplyTotals
    <3> QED BY <2>3, <3>1 DEF FillState, LIVE_STATES
  <2>5. CASE ~(Take(i) > 0)
    <3>1. state'[i] = Resolved(i) /\ filled'[i] = filled[i]
      BY <1>6, <2>2, <2>3, <2>5 DEF ApplyTotals
    <3>2. i \in Unknown => filled[i] = 0
      BY <1>0 DEF FillsWithinOrders, Unknown, In, LIVE_STATES
    <3>3. i \in Unknown => state[i] = "UNKNOWN"
      BY DEF Unknown, In
    <3> QED BY <1>0, <2>2, <3>1, <3>2, <3>3 DEF FillsWithinOrders, Resolved, LIVE_STATES
  <2> QED BY <2>4, <2>5
<1>7. CASE ReconcileStart \/ TotalsAnswered \/ ReconcileFails
  BY <1>0, <1>7 DEF ReconcileStart, TotalsAnswered, ReconcileFails, ledger, FillsWithinOrders, Rows
<1>8. CASE ReconcileEnd
  <2>1. \A i \in Rows : /\ state'[i] = "FILLED" <=> state[i] = "FILLED"
                        /\ state[i] \in LIVE_STATES => state'[i] \in LIVE_STATES
    BY <1>8, SetsOfOrders DEF ReconcileEnd, Expired, LIVE_STATES, FILLABLE_STATES
  <2> QED BY <1>a, <1>8, <2>1 DEF ReconcileEnd
<1>11. CASE Dies
  <2>1. UNCHANGED <<rows, qty, filled>> /\ \A i \in Ids : Outcome(i)
    BY <1>11, DiesIs
  <2>2. \A i \in Rows : /\ state'[i] = "FILLED" <=> state[i] = "FILLED"
                        /\ state[i] \in LIVE_STATES => state'[i] \in LIVE_STATES
    BY <2>1, SetsOfOrders DEF Outcome, Unknown, In, LIVE_STATES, FILLABLE_STATES, OPEN_STATES
  <2> QED BY <1>a, <2>1, <2>2
<1>9. CASE Broker
  BY <1>0, <1>9 DEF Broker, BrokerAccepts, BrokerRejects, BrokerFills, ExternalOrder,
       ExternalFill, TotalsCatchUp, ledger, FillsWithinOrders, Rows
<1>10. CASE Time \/ UNCHANGED vars
  BY <1>0, <1>10 DEF Time, GracePasses, NoticeAges, MarketCloses, vars, ledger,
       FillsWithinOrders, Rows
<1> QED
  BY <1>1, <1>2, <1>4, <1>5, <1>6, <1>7, <1>8, <1>9, <1>10, <1>11
     DEF Next, Submit, Reconcile

\* The shares of the notices read for an order.
NoticesOf(i) == {m \in noticed : m.id = i}

\* They are a number.
LEMMA NoticesNat ==
    ASSUME Read, NEW i
    PROVE  /\ IsFiniteSet(NoticesOf(i)) /\ Total(NoticeQty, NoticesOf(i)) \in Nat
           /\ \A m \in NoticesOf(i) : NoticeQty[m] \in Nat
<1>1. IsFiniteSet(NoticesOf(i))
  BY FS_Subset DEF Read, NoticesOf
<1>2. \A m \in NoticesOf(i) : NoticeQty[m] \in Nat
  BY DEF Read, NoticesOf, NoticeQty, Mails, Qtys
<1>3. SumOf(NoticeQty, NoticesOf(i)) \in Nat
  BY <1>1, <1>2, SumNat
<1> QED BY <1>1, <1>2, <1>3, TotalIsSum

\* One notice more for an order.
LEMMA OneNoticeMore ==
    ASSUME Read, NEW m \in Mails, m \notin noticed, noticed' = noticed \cup {m}, NEW i, i = m.id
    PROVE  /\ Total(NoticeQty, NoticesOf(i)') = m.qty + Total(NoticeQty, NoticesOf(i))
           /\ Total(NoticeQty, NoticesOf(i)) \in Nat /\ m.qty \in Nat
<1> DEFINE S == NoticesOf(i)
<1>1. NoticesOf(i)' = S \cup {m} /\ m \notin S /\ NoticeQty[m] = m.qty /\ m.qty \in Nat
  BY DEF NoticesOf, NoticeQty, Mails, Qtys
<1>2. Ints(NoticeQty, S) /\ Total(NoticeQty, S) \in Nat
  BY NoticesNat DEF Ints
<1> HIDE DEF S
<1>3. SumOf(NoticeQty, S \cup {m}) = NoticeQty[m] + SumOf(NoticeQty, S)
  BY <1>1, <1>2, SumAdd
<1>4. Total(NoticeQty, S \cup {m}) = m.qty + Total(NoticeQty, S)
  BY <1>1, <1>3, TotalIsSum
<1>5. Total(NoticeQty, NoticesOf(i)') = Total(NoticeQty, S \cup {m})
  BY ONLY <1>1, Zenon
<1> QED BY <1>1, <1>2, <1>4, <1>5 DEF S

\* An order that expired stays so.
LEMMA ExpiredStays ==
    ASSUME Inv, Verdicts, Fills, [Next]_vars
    PROVE  \A i \in Rows : state[i] = "EXPIRED" => i \in Rows' /\ state'[i] = "EXPIRED"
<1> SUFFICES ASSUME NEW i \in Rows, state[i] = "EXPIRED"
             PROVE  i \in Rows' /\ state'[i] = "EXPIRED"
  OBVIOUS
<1>0. i \in Ids /\ i <= rows /\ rows \in Nat
  BY SetsOfOrders, DeskAssumption DEF Rows, Inv, Typed
<1>1. CASE Submit
  <2>1. CASE NewOrder
    BY <1>0, <2>1 DEF NewOrder, Rows, Inv, Typed
  <2>2. CASE OrderAccepted \/ OrderRejected \/ OrderUncertain
    BY <1>0, <2>2 DEF OrderAccepted, OrderRejected, OrderUncertain, Mark, Sent, Rows, Inv,
         Typed, Written
  <2> QED
    BY <1>0, <1>1, <2>1, <2>2 DEF Submit, SubmitChecked, SubmitBlocked, BaselineAnswered,
         SendOrder, ledger, Rows
<1>2. ASSUME NEW m \in mail, OnNotice(m) PROVE i \in Rows' /\ state'[i] = "EXPIRED"
  BY <1>0, <1>2 DEF OnNotice, NoticeApplies, FILLABLE_STATES, Rows, Inv, Typed
<1>3. CASE ApplyTotals
  BY <1>0, <1>3, ApplyEffect DEF ApplyTotals, Unknown, In, FILLABLE_STATES, Rows
<1>4. CASE ReconcileEnd
  BY <1>0, <1>4 DEF ReconcileEnd, Expired, FILLABLE_STATES, Rows
<1>5. CASE Dies
  <2>1. UNCHANGED rows /\ Outcome(i)
    BY <1>0, <1>5, DiesIs
  <2> QED BY <1>0, <2>1 DEF Outcome, Unknown, In, FILLABLE_STATES, Rows
<1>6. CASE ReconcileStart \/ TotalsAnswered \/ ReconcileFails \/ Broker \/ Time \/ UNCHANGED vars
  BY <1>0, <1>6 DEF ReconcileStart, TotalsAnswered, ReconcileFails, Broker, BrokerAccepts,
       BrokerRejects, BrokerFills, ExternalOrder, ExternalFill, TotalsCatchUp, Time, GracePasses,
       NoticeAges, MarketCloses, vars, ledger, Rows
<1> QED BY <1>1, <1>2, <1>3, <1>4, <1>5, <1>6 DEF Next, Reconcile

\* No fill is booked that is none.
LEMMA AtBrokerStep == ASSUME Inv, Verdicts, Fills, [Next]_vars PROVE FilledAtBroker'
<1>0. FilledAtBroker /\ Filed /\ Settled /\ Read /\ external.ord \in Nat
  BY DEF Fills, Verdicts, Filed, Reply
<1>a. filled \in [Ids -> Nat] /\ bfilled \in [Ids -> Nat]
  BY <1>0 DEF Settled, Filed, Qtys
<1>b. ASSUME external'.ord = 0 =>
               \A i \in Rows' :
                 ~LateFor(i) => filled'[i] <= bfilled'[i] + Total(NoticeQty, NoticesOf(i)')
      PROVE  FilledAtBroker'
  BY <1>b, ExpiredStays DEF FilledAtBroker, OwnFills, NoticesOf, LateFor
<1>c. external.ord = 0 =>
        \A i \in Rows :
          ~LateFor(i) => filled[i] <= bfilled[i] + Total(NoticeQty, NoticesOf(i))
  BY <1>0 DEF FilledAtBroker, OwnFills, NoticesOf, LateFor
<1>d. ASSUME UNCHANGED <<rows, filled, noticed, bfilled>>, external'.ord = external.ord
      PROVE  FilledAtBroker'
  BY <1>b, <1>c, <1>d DEF Rows, NoticesOf
<1>1. CASE \/ \E c \in ClientIds, q \in 1..MaxQty : SubmitChecked(c, q)
           \/ SubmitBlocked \/ BaselineAnswered \/ SendOrder \/ OrderAccepted \/ OrderRejected
           \/ OrderUncertain \/ ReconcileStart \/ TotalsAnswered \/ ReconcileEnd
           \/ ReconcileFails
  <2>1. UNCHANGED <<rows, filled, noticed, bfilled, external>>
    BY <1>1 DEF SubmitChecked, SubmitBlocked, BaselineAnswered, SendOrder, OrderAccepted,
         OrderRejected, OrderUncertain, Mark, ReconcileStart, TotalsAnswered, ReconcileEnd,
         ReconcileFails, ledger, broker
  <2> QED BY <1>d, <2>1
<1>2. CASE NewOrder
  <2>1. /\ rows' = rows + 1 /\ rows \in Nat /\ rows + 1 \in Ids
        /\ UNCHANGED <<filled, noticed, bfilled, external>>
    BY <1>2, DeskAssumption DEF NewOrder, broker, Inv, Typed, Checked, Ids
  <2> SUFFICES ASSUME external.ord = 0, NEW i \in Rows', ~LateFor(i)
               PROVE  filled[i] <= bfilled[i] + Total(NoticeQty, NoticesOf(i))
    BY <1>b, <2>1 DEF NoticesOf
  <2>2. CASE i = rows + 1
    <3>1. filled[i] = 0 /\ bfilled[i] \in Nat /\ Total(NoticeQty, NoticesOf(i)) \in Nat
      BY <1>0, <1>a, <2>1, <2>2, NoticesNat DEF Settled
    <3> QED BY <3>1
  <2>3. CASE i # rows + 1
    <3>1. i \in Rows
      BY <2>1, <2>3 DEF Rows
    <3> QED BY <1>c, <3>1
  <2> QED BY <2>2, <2>3
<1>3. ASSUME NEW m \in mail, OnNotice(m) PROVE FilledAtBroker'
  <2>1. /\ m \notin noticed /\ m \in Mails /\ m.id \in Ids /\ m.qty \in Nat
        /\ filled' = [filled EXCEPT ![m.id] = @ + m.qty]
        /\ noticed' = noticed \cup {m} /\ UNCHANGED <<rows, bfilled, external>>
    BY <1>0, <1>3 DEF OnNotice, NoticeApplies, Read, Mails, Qtys, broker
  <2> SUFFICES ASSUME external.ord = 0, NEW i \in Rows, ~LateFor(i)
               PROVE  filled'[i] <= bfilled[i] + Total(NoticeQty, NoticesOf(i)')
    BY <1>b, <2>1 DEF Rows
  <2>2. i \in Ids /\ filled[i] <= bfilled[i] + Total(NoticeQty, NoticesOf(i))
    BY <1>c, SetsOfOrders
  <2>3. CASE i = m.id
    <3>1. /\ Total(NoticeQty, NoticesOf(i)') = m.qty + Total(NoticeQty, NoticesOf(i))
          /\ Total(NoticeQty, NoticesOf(i)) \in Nat
      BY <1>0, <2>1, <2>3, OneNoticeMore
    <3>2. filled'[i] = filled[i] + m.qty /\ filled[i] \in Nat /\ bfilled[i] \in Nat
      BY <1>a, <2>1, <2>2, <2>3
    <3> QED BY <2>1, <2>2, <3>1, <3>2
  <2>4. CASE i # m.id
    <3>1. NoticesOf(i)' = NoticesOf(i)
      BY <2>1, <2>4 DEF NoticesOf
    <3>2. filled'[i] = filled[i]
      BY <1>a, <2>1, <2>2, <2>4
    <3> QED BY <2>2, <3>1, <3>2
  <2> QED BY <2>3, <2>4
<1>4. CASE ApplyTotals
  <2>1. UNCHANGED <<rows, noticed, bfilled, external>> /\ recon = "answered"
    BY <1>4 DEF ApplyTotals, broker
  <2> SUFFICES ASSUME external.ord = 0, NEW i \in Rows, ~LateFor(i)
               PROVE  filled'[i] <= bfilled[i] + Total(NoticeQty, NoticesOf(i))
    BY <1>b, <2>1 DEF Rows, NoticesOf
  <2>2. /\ i \in Ids /\ filled[i] \in Nat /\ bfilled[i] \in Nat
        /\ Total(NoticeQty, NoticesOf(i)) \in Nat
    BY <1>0, <1>a, SetsOfOrders, NoticesNat
  <2>3. filled'[i] = filled[i] + Take(i) /\ Take(i) \in Nat
    BY <1>4, <2>2, ApplyFills
  <2>4. CASE Take(i) > 0
    <3>1. i \in Open /\ Take(i) <= Delta
      BY <2>1, <2>4, TakeFits
    <3>2. filled[i] + Delta <= bfilled[i] /\ Delta \in Int
      BY <2>1, <3>1, OthersAreBooked, RuleNumbers
    <3> QED BY <2>2, <2>3, <3>1, <3>2
  <2>5. CASE ~(Take(i) > 0)
    <3>1. filled'[i] = filled[i]
      BY <2>2, <2>3, <2>5
    <3> QED BY <1>c, <3>1
  <2> QED BY <2>4, <2>5
<1>5. ASSUME NEW j \in Ids, BrokerFills(j) PROVE FilledAtBroker'
  <2>1. PICK f \in 1..(qty[j] - bfilled[j]) : bfilled' = [bfilled EXCEPT ![j] = @ + f]
    BY <1>5 DEF BrokerFills
  <2>2. \A i \in Ids : bfilled[i] <= bfilled'[i] /\ bfilled'[i] \in Nat
    BY <1>a, <2>1
  <2>3. UNCHANGED <<rows, filled, noticed, external>>
    BY <1>5 DEF BrokerFills, ledger
  <2> SUFFICES ASSUME external.ord = 0, NEW i \in Rows, ~LateFor(i)
               PROVE  filled[i] <= bfilled'[i] + Total(NoticeQty, NoticesOf(i))
    BY <1>b, <2>3 DEF Rows, NoticesOf
  <2>4. /\ i \in Ids /\ filled[i] \in Nat /\ bfilled[i] \in Nat
        /\ Total(NoticeQty, NoticesOf(i)) \in Nat
    BY <1>0, <1>a, SetsOfOrders, NoticesNat
  <2> QED BY <1>c, <2>2, <2>4
<1>6. CASE ExternalOrder
  <2>1. external'.ord # 0
    BY <1>0, <1>6 DEF ExternalOrder, Filed, Reply
  <2> QED BY <1>b, <2>1
<1>7. CASE ExternalFill
  <2>1. UNCHANGED <<rows, filled, noticed, bfilled>> /\ external'.ord = external.ord
    BY <1>0, <1>7 DEF ExternalFill, ledger, Filed, Reply
  <2> QED BY <1>d, <2>1
<1>8. CASE \/ \E i \in Ids : BrokerAccepts(i) \/ BrokerRejects(i)
           \/ TotalsCatchUp \/ Time \/ UNCHANGED vars
  <2>1. UNCHANGED <<rows, filled, noticed, bfilled, external>>
    BY <1>8 DEF BrokerAccepts, BrokerRejects, TotalsCatchUp, Time, GracePasses, NoticeAges,
         MarketCloses, vars, ledger, broker
  <2> QED BY <1>d, <2>1
<1>9. CASE Dies
  <2>1. /\ UNCHANGED <<rows, filled, bfilled, external>>
        /\ noticed' = noticed \/ \E m \in mail : noticed' = noticed \cup {m}
    BY <1>9, DiesIs DEF broker
  <2>2. CASE UNCHANGED noticed
    BY <1>d, <2>1, <2>2
  <2>3. CASE ~UNCHANGED noticed
    <3>1. PICK m \in mail : noticed' = noticed \cup {m}
      BY <2>1, <2>3
    <3>2. m \notin noticed /\ m \in Mails
      BY <1>0, <2>3, <3>1 DEF Read
    <3> SUFFICES ASSUME external.ord = 0, NEW i \in Rows, ~LateFor(i)
                 PROVE  filled[i] <= bfilled[i] + Total(NoticeQty, NoticesOf(i)')
      BY <1>b, <2>1 DEF Rows
    <3>3. filled[i] <= bfilled[i] + Total(NoticeQty, NoticesOf(i))
      BY <1>c
    <3>4. i \in Ids /\ filled[i] \in Nat /\ bfilled[i] \in Nat
      BY <1>a, SetsOfOrders
    <3>5. CASE i = m.id
      <4>1. /\ Total(NoticeQty, NoticesOf(i)') = m.qty + Total(NoticeQty, NoticesOf(i))
            /\ Total(NoticeQty, NoticesOf(i)) \in Nat /\ m.qty \in Nat
        BY <1>0, <3>1, <3>2, <3>5, OneNoticeMore
      <4> QED BY <3>3, <3>4, <4>1
    <3>6. CASE i # m.id
      <4>1. NoticesOf(i)' = NoticesOf(i)
        BY <3>1, <3>6 DEF NoticesOf
      <4> QED BY <3>3, <4>1
    <3> QED BY <3>5, <3>6
  <2> QED BY <2>2, <2>3
<1> QED
  BY <1>1, <1>2, <1>3, <1>4, <1>5, <1>6, <1>7, <1>8, <1>9 DEF Next, Submit, Reconcile, Broker

\* Before the first order nothing is filled.
LEMMA FillsInit == Init => Fills
<1> SUFFICES ASSUME Init PROVE Fills
  OBVIOUS
<1>1. Settled /\ FillsWithinOrders /\ FilledAtBroker
  <2>1. Settled
    BY DeskAssumption DEF Init, Settled, Qtys
  <2>2. Rows = {}
    BY DEF Init, Rows
  <2> QED BY <2>1, <2>2 DEF FillsWithinOrders, FilledAtBroker
<1>4. Rest
  <2>1. base \in Answers /\ answer \in Answers
    BY DEF Init, Answers
  <2>2. crashes \in 0..MaxFaults /\ fails \in 0..MaxFaults
    BY DeskAssumption DEF Init
  <2>3. odno \subseteq Rows /\ breaks \subseteq seen /\ recent \subseteq noticed
    BY DEF Init
  <2>4. recon = "idle" /\ closed = FALSE /\ late = FALSE
    BY DEF Init
  <2> QED BY <2>1, <2>2, <2>3, <2>4 DEF Rest
<1>2. Read
  BY FS_EmptySet DEF Init, Read
<1>3. TotalsReal
  <2>1. bfilled \in [Ids -> Nat] /\ Ids \in SUBSET Ids
    BY DEF Init
  <2>2. Total(bfilled, Ids) \in Nat
    BY <2>1, TotalNat
  <2> QED BY <2>2 DEF Init, TotalsReal, AllFills
<1> QED BY <1>1, <1>2, <1>3, <1>4 DEF Fills

\* The fills, with what they rest on, hold in every reachable state.
THEOREM FillInvariant == Spec => [](Inv /\ Verdicts /\ Fills)
<1>1. Init => Fills
  BY FillsInit
<1>2. Inv /\ Verdicts /\ Fills /\ [Next]_vars => Fills'
  <2> SUFFICES ASSUME Inv, Verdicts, Fills, [Next]_vars PROVE Fills'
    OBVIOUS
  <2>1. Settled' /\ TotalsReal' /\ Read' /\ Rest' /\ FillsWithinOrders' /\ FilledAtBroker'
    BY SettledStep, TotalsRealStep, ReadStep, RestStep, WithinStep, AtBrokerStep
  <2> QED BY <2>1 DEF Fills
<1> QED BY <1>1, <1>2, VerdictInvariant, PTL DEF Spec

\* Rule 4 (ledger.py, apply_totals and apply_notice): the ledger's columns keep
\* their types, no order is filled beyond its quantity, and without orders placed
\* elsewhere nothing is booked that the broker did not fill.
THEOREM FillsStayReal == Spec => []FillsAreReal
<1>1. Inv /\ Verdicts /\ Fills => FillsAreReal
  <2> SUFFICES ASSUME Inv, Verdicts, Fills PROVE TypeOK /\ FillsWithinOrders /\ FilledAtBroker
    BY DEF FillsAreReal
  <2>1. \A i \in Ids : (i > rows) = (state[i] = "none")
    BY DEF Inv, Fresh, Verdicts, Decided
  <2>2. mail \subseteq Mails /\ noticed \subseteq Mails /\ recent \subseteq noticed
    BY DEF Fills, Read, Rest
  <2>3. TypeOK
    BY <2>1, <2>2 DEF TypeOK, Inv, Typed, Verdicts, Filed, Fills, Settled, Rest
  <2> QED BY <2>3 DEF Fills
<1> QED BY <1>1, FillInvariant, PTL

-----------------------------------------------------------------------------
(* What a round of the reconcile loop leaves.                              *)

\* The only step that applies an answer.
LEMMA AppliedIs == Inv /\ [Next]_vars /\ Applied => ApplyTotals
<1> SUFFICES ASSUME Inv, [Next]_vars, Applied PROVE ApplyTotals
  OBVIOUS
<1>1. ~Dies
  BY DiesIs DEF Applied
<1> QED
  BY <1>1 DEF Applied, Next, Submit, SubmitChecked, SubmitBlocked, BaselineAnswered, NewOrder,
         SendOrder, OrderAccepted, OrderRejected, OrderUncertain, Mark, OnNotice, Reconcile,
         ReconcileStart, TotalsAnswered, ReconcileEnd, ReconcileFails, Broker,
         BrokerAccepts, BrokerRejects, BrokerFills, ExternalOrder, ExternalFill,
         TotalsCatchUp, Time, GracePasses, NoticeAges, MarketCloses, vars, desk

\* A doubt that is old is settled, or a break is found.
LEMMA OldDoubtsSettled ==
    ASSUME Inv, Verdicts, Fills, ApplyTotals, NEW i \in old, state[i] = "UNKNOWN"
    PROVE  state'[i] # "UNKNOWN" \/ found' # {}
<1>1. i \in Rows /\ i \in Ids /\ i \in Unknown /\ recon = "answered"
  BY SetsOfOrders DEF ApplyTotals, Verdicts, Filed, Unknown, In
<1>2. Extra \in Int
  <2>1. answer.ord \in Nat /\ base.ord \in Nat
    BY <1>1 DEF Verdicts, AnswerWasTrue, Based, Reply, Inv, Typed
  <2>2. qty \in [Ids -> Nat] /\ Live \in SUBSET Ids
    BY SetsOfOrders DEF Verdicts, Filed, Qtys
  <2>3. Total(qty, Live) \in Nat
    BY <2>2, TotalNat
  <2> QED BY <2>1, <2>3 DEF Extra
<1>3. CASE Unexplained
  BY <1>3 DEF ApplyTotals, TotalsBreaks
<1>4. CASE ~Unexplained
  <2>1. Resolved(i) # "UNKNOWN"
    BY <1>1, <1>2, <1>4 DEF Unexplained, Resolved
  <2>2. state'[i] = FillState(i, filled[i] + Take(i)) \/ state'[i] = Resolved(i)
    BY <1>1 DEF ApplyTotals
  <2> QED BY <2>1, <2>2 DEF FillState
<1> QED BY <1>3, <1>4

\* What the broker told has been filled is in the ledger, or a break is found.
LEMMA FillsTaken ==
    ASSUME Inv, Verdicts, Fills, ApplyTotals, In({"PENDING_SUBMIT", "UNKNOWN"}) = {}
    PROVE  found' # {} \/ Total(filled', Ids) >= answer.fill - base.fill
<1> SUFFICES ASSUME found' = {} PROVE Total(filled', Ids) >= answer.fill - base.fill
  OBVIOUS
<1>0. recon = "answered" /\ found' = TotalsBreaks
  BY DEF ApplyTotals
<1>1. /\ filled \in [Ids -> Nat] /\ Delta \in Int /\ Sharing \in SUBSET Ids
      /\ Open \in SUBSET Ids /\ Left \in [Ids -> Nat]
      /\ answer.fill \in Nat /\ base.fill \in Nat /\ Total(filled, Sharing) \in Nat
  BY <1>0, RuleNumbers
<1>2. filled' \in [Ids -> Nat] /\ \A i \in Ids : filled[i] <= filled'[i]
  <2>1. \A i \in Ids : filled'[i] \in Nat /\ filled[i] <= filled'[i]
    <3> SUFFICES ASSUME NEW i \in Ids PROVE filled'[i] \in Nat /\ filled[i] <= filled'[i]
      OBVIOUS
    <3>1. /\ i \notin Rows => filled'[i] = filled[i]
          /\ i \in Rows => filled'[i] = filled[i] + Take(i) /\ Take(i) \in Nat
      BY ApplyFills
    <3>2. filled[i] \in Nat
      BY <1>1
    <3> QED BY <3>1, <3>2
  <2>2. filled' = [i \in Ids |-> filled[i] + IF i \in Rows THEN Take(i) ELSE 0]
    BY DEF ApplyTotals
  <2> QED BY <2>1, <2>2
<1>3. Total(filled', Sharing) <= Total(filled', Ids)
      /\ Total(filled', Sharing) \in Nat /\ Total(filled', Ids) \in Nat
  <2>1. Ids \in SUBSET Ids
    OBVIOUS
  <2> QED BY <1>1, <1>2, <2>1, TotalNat
<1>4. Total(filled, Sharing) <= Total(filled', Sharing)
  BY <1>1, <1>2, TotalLeq
<1>5. Delta = answer.fill - base.fill - Total(filled, Sharing)
  BY DEF Delta
<1>6. CASE Delta <= 0
  BY ONLY <1>1, <1>3, <1>4, <1>5, <1>6
<1>7. CASE Delta > 0
  <2>1. ~Unexplained /\ ~(Delta > Room)
    BY <1>0 DEF TotalsBreaks
  <2>2. Room \in Nat
    BY <1>1, TotalNat DEF Room
  <2>3. Absorbs
    BY <1>1, <1>7, <2>1, <2>2 DEF Absorbs
  <2>4. Open # {}
    <3> SUFFICES ASSUME Open = {} PROVE FALSE
      OBVIOUS
    <3>1. Total(Left, Open) = 0
      BY <1>1, TotalZero
    <3> QED BY <1>1, <1>7, <2>1, <3>1 DEF Room
  <2>5. PICK o : o \in Open
    BY <2>4
  <2>6. o \in Rows /\ o \in Ids /\ o \in Sharing
    BY <2>5, OpenIsOpen, SetsOfOrders DEF Open, Sharing, Live, Unknown, In
  <2>7. filled'[o] = filled[o] + Delta
    BY <1>0, <2>3, <2>5, <2>6, TakeFits, ApplyFills
  <2> DEFINE S == Sharing \ {o}
  <2>8. S \in SUBSET Ids
    BY <1>1
  <2>9. Total(filled, S) <= Total(filled', S)
    <3>1. \A i \in S : filled[i] <= filled'[i]
      BY <1>2, <2>8
    <3> HIDE DEF S
    <3> QED BY <1>1, <1>2, <2>8, <3>1, TotalLeq
  <2>10. /\ Total(filled, Sharing) = filled[o] + Total(filled, S)
         /\ Total(filled, S) \in Nat /\ filled[o] \in Nat
    BY <1>1, <2>6, TotalTakeOut
  <2>11. /\ Total(filled', Sharing) = filled'[o] + Total(filled', S)
         /\ Total(filled', S) \in Nat
    <3>1. filled' \in [Ids -> Nat] /\ Sharing \in SUBSET Ids /\ o \in Sharing
      BY <1>1, <1>2, <2>6
    <3>2. PICK g \in [Ids -> Nat] : g = filled'
      BY <3>1
    <3>3. /\ Total(g, Sharing) = g[o] + Total(g, Sharing \ {o})
          /\ Total(g, Sharing \ {o}) \in Nat
      BY <3>1, TotalTakeOut
    <3> QED BY ONLY <3>2, <3>3, Zenon DEF S
  <2> HIDE DEF S
  <2> QED BY ONLY <1>1, <1>3, <1>5, <2>7, <2>9, <2>10, <2>11
<1> QED BY <1>1, <1>6, <1>7

\* Rules 2 and 4 (order_desk.py, reconcile_once; ledger.py, apply_totals): a round
\* that meets no break leaves no old doubt, and no fill it was told of out.
THEOREM RoundsConverge == Spec => RoundConverges
<1> DEFINE Settling ==
             Applied => \A i \in old : state[i] = "UNKNOWN"
                                        => state'[i] # "UNKNOWN" \/ found' # {}
           Taking ==
             Applied /\ answer.fill = AllFills /\ In({"PENDING_SUBMIT", "UNKNOWN"}) = {}
               => found' # {} \/ Total(filled', Ids) >= answer.fill - base.fill
<1>1. Inv /\ Verdicts /\ Fills /\ [Next]_vars => [Settling]_vars
  BY AppliedIs, OldDoubtsSettled
<1>2. Inv /\ Verdicts /\ Fills /\ [Next]_vars => [Taking]_vars
  BY AppliedIs, FillsTaken
<1>3. Spec => RoundSettles
  BY <1>1, FillInvariant, PTL DEF Spec, RoundSettles
<1>4. Spec => RoundTakesFills
  BY <1>2, FillInvariant, PTL DEF Spec, RoundTakesFills
<1> QED BY <1>3, <1>4, PTL DEF RoundConverges
=============================================================================
