---------------------------- MODULE ContestProofs ----------------------------
(***************************************************************************)
(* Proofs about the contest, for any participants, codes, prices, fees,    *)
(* requests under way, failures, crashes and edits of the file.            *)
(*                                                                         *)
(*   TokenInv   one caller of all processes asks KIS for a token at a      *)
(*              time, and only with the one in the file used up.           *)
(*   FlightInv  who waits for a quote has a fetch that will end.           *)
(*   BookInv    the tables are what the journal adds up to; an edit of the *)
(*              file leaves a difference that nothing the program does     *)
(*              takes away.                                                *)
(***************************************************************************)
EXTENDS Contest, SequenceTheorems, FiniteSetTheorems, WellFoundedInduction, TLAPS

-----------------------------------------------------------------------------
(* Sums over finite sets: what MapThenSumSet computes for every function   *)
(* of integers and every finite set.  Its definition takes the elements in *)
(* the order CHOOSE gives them; the lemmas make a sum independent of it.   *)
(* Each induction is an argument about the least counterexample.           *)

SumOf(f, S) == MapThenSumSet(LAMBDA x : f[x], S)

First(s)   == CHOOSE x \in s : TRUE
Body(f, g, s) == IF s = {} THEN 0 ELSE f[First(s)] + g[s \ {First(s)}]
Rec(f, S, g) == g = [s \in SUBSET S |-> Body(f, g, s)]
Iter(f, S) == CHOOSE g : Rec(f, S, g)

Ints(f, S) == IsFiniteSet(S) /\ \A x \in S : f[x] \in Int

\* A nonempty set of numbers has a least one.
LEMMA Least ==
    ASSUME NEW T, T \subseteq Nat, T # {}
    PROVE  \E m \in T : \A n \in Nat : n < m => n \notin T
  <1>1. PICK R : R = OpToRel(<, Nat)
    OBVIOUS
  <1>2. IsWellFoundedOn(R, Nat)
    BY <1>1, NatLessThanWellFounded
  <1>3. \A x, y \in Nat : <<y, x>> \in R <=> y < x
    BY <1>1 DEF OpToRel
  <1>4. PICK m \in T : \A n \in T : ~ (<<n, m>> \in R)
    BY <1>2, WFMin
  <1>5. \A n \in T : ~(n < m)
    BY <1>3, <1>4, Zenon
  <1> QED BY <1>5

\* A sum is the value of the iteration at the set itself.
LEMMA SumIsIter == ASSUME NEW f, NEW S PROVE SumOf(f, S) = Iter(f, S)[S]
  BY DEF SumOf, MapThenSumSet, MapThenFoldSet, Iter, Rec, Body, First

\* A nonempty set without its first element is smaller by one.
LEMMA Smaller ==
    ASSUME NEW s, IsFiniteSet(s), NEW x \in s
    PROVE  /\ IsFiniteSet(s \ {x}) /\ Cardinality(s \ {x}) \in Nat /\ Cardinality(s) \in Nat
           /\ Cardinality(s) = Cardinality(s \ {x}) + 1
  <1>1. Cardinality(s) \in Nat /\ IsFiniteSet(s \ {x})
    BY FS_CardinalityType, FS_RemoveElement
  <1>2. Cardinality(s \ {x}) \in Nat
    BY <1>1, FS_CardinalityType
  <1>3. Cardinality(s \ {x}) = Cardinality(s) - 1
    BY FS_RemoveElement
  <1> QED BY <1>1, <1>2, <1>3

\* The first element of a nonempty set is in it.
LEMMA FirstIn == ASSUME NEW s, s # {} PROVE First(s) \in s
  BY DEF First

\* The iteration exists: it can be built for larger and larger subsets.
LEMMA IterExists ==
    ASSUME NEW f, NEW S, IsFiniteSet(S)
    PROVE  Rec(f, S, Iter(f, S))
  <1> DEFINE Good(g, n) == /\ g = [s \in SUBSET S |-> g[s]]
                           /\ \A s \in SUBSET S : Cardinality(s) <= n => g[s] = Body(f, g, s)
             Bad == {n \in Nat : ~ \E g : Good(g, n)}
  <1>0. \A s \in SUBSET S : IsFiniteSet(s) /\ Cardinality(s) \in Nat
    BY FS_Subset, FS_CardinalityType
  <1>1. \E g : Good(g, 0)
    <2> DEFINE z == [s \in SUBSET S |-> 0]
    <2>1. \A s \in SUBSET S : Cardinality(s) <= 0 => s = {}
      BY <1>0, FS_EmptySet
    <2>2. \A s \in SUBSET S : Cardinality(s) <= 0 => z[s] = Body(f, z, s)
      BY <2>1 DEF Body
    <2>3. z = [s \in SUBSET S |-> z[s]]
      OBVIOUS
    <2> HIDE DEF z
    <2> QED BY <2>2, <2>3
  <1>2. ASSUME NEW n \in Nat, NEW g, Good(g, n) PROVE \E h : Good(h, n + 1)
    <2> DEFINE h == [s \in SUBSET S |-> IF Cardinality(s) <= n THEN g[s] ELSE Body(f, g, s)]
    <2>1. ASSUME NEW s \in SUBSET S, Cardinality(s) <= n + 1 PROVE h[s] = Body(f, h, s)
      <3>1. CASE s = {}
        <4>1. Cardinality(s) <= n
          BY <3>1, FS_EmptySet
        <4> QED BY <1>2, <3>1, <4>1 DEF Body
      <3>2. CASE s # {}
        <4>1. First(s) \in s
          BY <3>2, FirstIn
        <4>2. s \ {First(s)} \in SUBSET S
              /\ Cardinality(s) = Cardinality(s \ {First(s)}) + 1
              /\ Cardinality(s \ {First(s)}) \in Nat
          BY <1>0, <4>1, Smaller
        <4>3. Cardinality(s \ {First(s)}) <= n
          BY <2>1, <4>2
        <4>4. h[s \ {First(s)}] = g[s \ {First(s)}]
          BY <4>2, <4>3
        <4>5. Body(f, h, s) = Body(f, g, s)
          BY <4>4 DEF Body
        <4>6. h[s] = Body(f, g, s)
          <5>1. h[s] = IF Cardinality(s) <= n THEN g[s] ELSE Body(f, g, s)
            OBVIOUS
          <5>2. Cardinality(s) <= n => g[s] = Body(f, g, s)
            BY <1>2
          <5> QED BY <5>1, <5>2
        <4> QED BY <4>5, <4>6
      <3> QED BY <3>1, <3>2
    <2>2. h = [s \in SUBSET S |-> h[s]]
      OBVIOUS
    <2> HIDE DEF h
    <2> QED BY <2>1, <2>2
  <1>3. Bad = {}
    <2> SUFFICES ASSUME Bad # {} PROVE FALSE
      OBVIOUS
    <2>1. Bad \subseteq Nat
      OBVIOUS
    <2>2. PICK m \in Bad : \A n \in Nat : n < m => n \notin Bad
      <3> HIDE DEF Bad
      <3> QED BY <2>1, Least
    <2>3. m \in Nat /\ ~ \E g : Good(g, m)
      OBVIOUS
    <2>4. m # 0
      <3> HIDE DEF Good
      <3> QED BY <1>1, <2>3
    <2>5. m - 1 \in Nat /\ m - 1 < m /\ (m - 1) + 1 = m
      BY <2>3, <2>4
    <2>6. m - 1 \notin Bad
      BY <2>2, <2>5
    <2>7. \E g : Good(g, m - 1)
      <3> HIDE DEF Good
      <3> QED BY <2>5, <2>6
    <2>8. \E h : Good(h, (m - 1) + 1)
      <3> HIDE DEF Good
      <3> QED BY <1>2, <2>5, <2>7
    <2> HIDE DEF Good
    <2> QED BY <2>3, <2>5, <2>8
  <1>4. PICK g : Good(g, Cardinality(S))
    <2>1. Cardinality(S) \in Nat
      BY FS_CardinalityType
    <2> HIDE DEF Good
    <2> QED BY <1>3, <2>1
  <1>5. \A s \in SUBSET S : Cardinality(s) <= Cardinality(S)
    BY FS_Subset
  <1>6. Rec(f, S, g)
    BY <1>4, <1>5 DEF Rec
  <1> QED BY <1>6, Zenon DEF Iter

\* What the recursive equation says at one subset.
LEMMA RecAt ==
    ASSUME NEW f, NEW S, NEW g, Rec(f, S, g), NEW s \in SUBSET S
    PROVE  g[s] = Body(f, g, s)
  <1>1. PICK h : h = [t \in SUBSET S |-> Body(f, g, t)]
    OBVIOUS
  <1>2. h[s] = Body(f, g, s)
    BY <1>1
  <1>3. g = h
    BY <1>1, Zenon DEF Rec
  <1> QED BY ONLY <1>2, <1>3, Zenon

\* The value of the iteration at a subset.
LEMMA IterAt ==
    ASSUME NEW f, NEW S, IsFiniteSet(S), NEW s \in SUBSET S
    PROVE  Iter(f, S)[s] = Body(f, Iter(f, S), s)
  <1>1. Rec(f, S, Iter(f, S))
    BY IterExists, Zenon
  <1> QED BY <1>1, RecAt, Zenon

\* Every subset has the same value in the iteration over a larger set.
LEMMA IterSame ==
    ASSUME NEW f, NEW S, IsFiniteSet(S), NEW T \in SUBSET S
    PROVE  \A s \in SUBSET T : Iter(f, T)[s] = Iter(f, S)[s]
  <1> DEFINE Bad == {n \in Nat : \E s \in SUBSET T : Cardinality(s) = n
                                       /\ Iter(f, T)[s] # Iter(f, S)[s]}
  <1>0. \A s \in SUBSET T : IsFiniteSet(s) /\ Cardinality(s) \in Nat
    BY FS_Subset, FS_CardinalityType
  <1>1. IsFiniteSet(T)
    BY FS_Subset
  <1>2. \A s \in SUBSET T : /\ Iter(f, T)[s] = Body(f, Iter(f, T), s)
                            /\ Iter(f, S)[s] = Body(f, Iter(f, S), s)
    <2> SUFFICES ASSUME NEW s \in SUBSET T
                 PROVE  /\ Iter(f, T)[s] = Body(f, Iter(f, T), s)
                        /\ Iter(f, S)[s] = Body(f, Iter(f, S), s)
      OBVIOUS
    <2>1. s \in SUBSET S
      OBVIOUS
    <2> QED BY <1>1, <2>1, IterAt
  <1>3. Bad = {}
    <2> SUFFICES ASSUME Bad # {} PROVE FALSE
      OBVIOUS
    <2>1. Bad \subseteq Nat
      OBVIOUS
    <2>2. PICK m \in Bad : \A n \in Nat : n < m => n \notin Bad
      <3> HIDE DEF Bad
      <3> QED BY <2>1, Least
    <2>3. PICK s \in SUBSET T : Cardinality(s) = m /\ Iter(f, T)[s] # Iter(f, S)[s]
      OBVIOUS
    <2>4. s # {}
      BY <1>2, <2>3 DEF Body
    <2>5. First(s) \in s
      BY <2>4, FirstIn
    <2> DEFINE r == s \ {First(s)}
    <2>6. r \in SUBSET T /\ Cardinality(r) \in Nat /\ Cardinality(r) < m
      BY <1>0, <2>3, <2>5, Smaller
    <2>7. Iter(f, T)[r] = Iter(f, S)[r]
      BY <2>2, <2>6
    <2>8. Body(f, Iter(f, T), s) = Body(f, Iter(f, S), s)
      BY <2>4, <2>7 DEF Body
    <2> QED BY <1>2, <2>3, <2>8
  <1>4. ASSUME NEW s \in SUBSET T PROVE Iter(f, T)[s] = Iter(f, S)[s]
    BY <1>0, <1>3
  <1> QED BY <1>4

\* The sum over nothing.
LEMMA SumEmpty == ASSUME NEW f PROVE SumOf(f, {}) = 0
  <1>1. Iter(f, {})[{}] = Body(f, Iter(f, {}), {})
    <2>1. {} \in SUBSET {} /\ IsFiniteSet({})
      BY FS_EmptySet
    <2> QED BY <2>1, IterAt
  <1> QED BY <1>1, SumIsIter DEF Body

\* The sum over a set is its first element's value and the sum of the rest.
LEMMA SumFirst ==
    ASSUME NEW f, NEW S, IsFiniteSet(S), S # {}
    PROVE  SumOf(f, S) = f[First(S)] + SumOf(f, S \ {First(S)})
  <1> DEFINE r == S \ {First(S)}
  <1>1. Iter(f, S)[S] = f[First(S)] + Iter(f, S)[r]
    <2>1. S \in SUBSET S
      OBVIOUS
    <2>2. Iter(f, S)[S] = Body(f, Iter(f, S), S)
      BY <2>1, IterAt
    <2> QED BY <2>2 DEF Body
  <1>2. Iter(f, r)[r] = Iter(f, S)[r]
    <2>1. r \in SUBSET S /\ r \in SUBSET r
      OBVIOUS
    <2> HIDE DEF r
    <2> QED BY <2>1, IterSame
  <1> QED BY <1>1, <1>2, SumIsIter

\* The sum of integers is an integer, and any element may be taken out first.
THEOREM SumRemove ==
    ASSUME NEW f, NEW S, IsFiniteSet(S), \A x \in S : f[x] \in Int
    PROVE  /\ SumOf(f, S) \in Int
           /\ \A x \in S : SumOf(f, S) = f[x] + SumOf(f, S \ {x})
  <1> DEFINE Good(s) == /\ SumOf(f, s) \in Int
                        /\ \A x \in s : SumOf(f, s) = f[x] + SumOf(f, s \ {x})
             Bad == {n \in Nat : \E s \in SUBSET S : Cardinality(s) = n /\ ~Good(s)}
  <1>0. \A s \in SUBSET S : IsFiniteSet(s) /\ Cardinality(s) \in Nat
    BY FS_Subset, FS_CardinalityType
  <1>1. Bad = {}
    <2> SUFFICES ASSUME Bad # {} PROVE FALSE
      OBVIOUS
    <2>1. Bad \subseteq Nat
      OBVIOUS
    <2>2. PICK m \in Bad : \A n \in Nat : n < m => n \notin Bad
      <3> HIDE DEF Bad
      <3> QED BY <2>1, Least
    <2>3. PICK s \in SUBSET S : Cardinality(s) = m /\ ~Good(s)
      OBVIOUS
    <2>4. \A r \in SUBSET S : Cardinality(r) < m => Good(r)
      <3> HIDE DEF Good
      <3>1. m \in Nat
        BY <2>1
      <3> QED BY <1>0, <2>2, <3>1
    <2>5. s # {}
      BY <2>3, SumEmpty
    <2> DEFINE c == First(s)
    <2>6. c \in s /\ f[c] \in Int
      BY <2>5, FirstIn
    <2>7. \A x \in s : s \ {x} \in SUBSET S /\ Good(s \ {x})
      <3> SUFFICES ASSUME NEW x \in s PROVE s \ {x} \in SUBSET S /\ Good(s \ {x})
        OBVIOUS
      <3>1. Cardinality(s \ {x}) < m
        BY <1>0, <2>3, Smaller
      <3> HIDE DEF Good
      <3> QED BY <2>4, <3>1
    <2>8. SumOf(f, s) = f[c] + SumOf(f, s \ {c})
      BY <1>0, <2>5, SumFirst
    <2>9. SumOf(f, s) \in Int
      BY <2>6, <2>7, <2>8
    <2>10. ASSUME NEW x \in s PROVE SumOf(f, s) = f[x] + SumOf(f, s \ {x})
      <3>1. CASE x = c
        BY <2>8, <3>1
      <3>2. CASE x # c
        <4>1. x \in s \ {c} /\ c \in s \ {x} /\ f[x] \in Int
          BY <2>6, <3>2
        <4> DEFINE d == SumOf(f, s \ {x, c})
        <4>2. (s \ {c}) \ {x} = s \ {x, c} /\ (s \ {x}) \ {c} = s \ {x, c}
          OBVIOUS
        <4>3. SumOf(f, s \ {c}) = f[x] + d
          BY <2>6, <2>7, <4>1, <4>2
        <4>4. SumOf(f, s \ {x}) = f[c] + d
          BY <2>7, <4>1, <4>2
        <4>5. d \in Int
          <5>1. (s \ {c}) \ {x} \in SUBSET S /\ Cardinality((s \ {c}) \ {x}) < m
            <6>1. Cardinality(s \ {c}) < m /\ Cardinality(s \ {c}) \in Nat
                  /\ IsFiniteSet(s \ {c})
              BY <1>0, <2>3, <2>6, Smaller
            <6>2. Cardinality((s \ {c}) \ {x}) \in Nat
                  /\ Cardinality(s \ {c}) = Cardinality((s \ {c}) \ {x}) + 1
              BY <4>1, <6>1, Smaller
            <6>3. m \in Nat
              BY <2>1
            <6> QED BY <6>1, <6>2, <6>3
          <5> QED BY <2>4, <4>2, <5>1
        <4> HIDE DEF d, c
        <4> QED BY <2>6, <2>8, <4>1, <4>3, <4>4, <4>5
      <3> QED BY <3>1, <3>2
    <2> QED BY <2>3, <2>9, <2>10
  <1>2. Good(S)
    <2> HIDE DEF Good
    <2>1. S \in SUBSET S
      OBVIOUS
    <2> QED BY <1>0, <1>1, <2>1
  <1> QED BY <1>2

\* One element more.
THEOREM SumAdd ==
    ASSUME NEW f, NEW S, Ints(f, S), NEW x, x \notin S, f[x] \in Int
    PROVE  SumOf(f, S \cup {x}) = f[x] + SumOf(f, S) /\ SumOf(f, S) \in Int
  <1>1. IsFiniteSet(S \cup {x}) /\ \A y \in S \cup {x} : f[y] \in Int
    BY FS_AddElement DEF Ints
  <1>2. (S \cup {x}) \ {x} = S
    OBVIOUS
  <1>3. SumOf(f, S \cup {x}) = f[x] + SumOf(f, (S \cup {x}) \ {x})
    BY <1>1, SumRemove
  <1> QED BY <1>2, <1>3, SumRemove DEF Ints

\* Among the subsets of a finite set that are bad there is one that is not
\* without any of its elements.
LEMMA LeastSet ==
    ASSUME NEW S, IsFiniteSet(S), NEW Bad, Bad \subseteq SUBSET S, Bad # {}
    PROVE  \E s \in Bad : \A x \in s : s \ {x} \notin Bad
  <1> DEFINE T == {Cardinality(s) : s \in Bad}
  <1>0. \A s \in SUBSET S : IsFiniteSet(s) /\ Cardinality(s) \in Nat
    BY FS_Subset, FS_CardinalityType
  <1>1. T \subseteq Nat /\ T # {}
    BY <1>0
  <1>2. PICK m \in T : \A n \in Nat : n < m => n \notin T
    <2> HIDE DEF T
    <2> QED BY <1>1, Least
  <1>3. PICK s \in Bad : Cardinality(s) = m
    OBVIOUS
  <1>4. ASSUME NEW x \in s, s \ {x} \in Bad PROVE FALSE
    <2>1. Cardinality(s \ {x}) \in T
      BY <1>4
    <2>2. Cardinality(s \ {x}) \in Nat /\ Cardinality(s) = Cardinality(s \ {x}) + 1
      BY <1>0, <1>4, Smaller
    <2>3. Cardinality(s \ {x}) < m
      BY <1>3, <2>2
    <2> HIDE DEF T
    <2> QED BY <1>2, <2>1, <2>2, <2>3
  <1> QED BY <1>4

\* A sum of smaller numbers is smaller.
THEOREM SumLeq ==
    ASSUME NEW f, NEW g, NEW S, IsFiniteSet(S),
           \A x \in S : f[x] \in Int /\ g[x] \in Int /\ f[x] <= g[x]
    PROVE  SumOf(f, S) <= SumOf(g, S)
  <1> DEFINE Bad == {s \in SUBSET S : ~(SumOf(f, s) <= SumOf(g, s))}
  <1>1. ASSUME Bad # {} PROVE FALSE
    <2>1. Bad \subseteq SUBSET S
      OBVIOUS
    <2>2. PICK s \in Bad : \A x \in s : s \ {x} \notin Bad
      <3> HIDE DEF Bad
      <3> QED BY <1>1, <2>1, LeastSet
    <2>3. s \in SUBSET S /\ IsFiniteSet(s)
      BY FS_Subset
    <2>4. s # {}
      <3>1. SumOf(f, {}) = 0 /\ SumOf(g, {}) = 0
        BY SumEmpty
      <3> QED BY <3>1
    <2>5. PICK x : x \in s
      BY <2>4
    <2>6. SumOf(f, s \ {x}) <= SumOf(g, s \ {x})
      BY <2>2, <2>3, <2>5
    <2>7. IsFiniteSet(s \ {x}) /\ \A y \in s : f[y] \in Int /\ g[y] \in Int /\ f[y] <= g[y]
      BY <2>3, FS_RemoveElement
    <2>8. SumOf(f, s) = f[x] + SumOf(f, s \ {x}) /\ SumOf(g, s) = g[x] + SumOf(g, s \ {x})
      BY <2>3, <2>5, <2>7, SumRemove
    <2>9. SumOf(f, s \ {x}) \in Int /\ SumOf(g, s \ {x}) \in Int
      BY <2>7, SumRemove
    <2>10. ~(SumOf(f, s) <= SumOf(g, s))
      BY <2>2
    <2> QED BY <2>5, <2>6, <2>7, <2>8, <2>9, <2>10
  <1>2. SumOf(f, S) <= SumOf(g, S)
    <2>1. S \in SUBSET S
      OBVIOUS
    <2> QED BY <1>1, <2>1
  <1> QED BY <1>2

\* A sum looks at nothing but the elements of its set.
THEOREM SumSame ==
    ASSUME NEW f, NEW g, NEW S, IsFiniteSet(S), \A x \in S : f[x] \in Int /\ f[x] = g[x]
    PROVE  SumOf(f, S) = SumOf(g, S)
  <1>1. \A x \in S : f[x] \in Int /\ g[x] \in Int /\ f[x] <= g[x] /\ g[x] <= f[x]
    OBVIOUS
  <1>2. SumOf(f, S) \in Int /\ SumOf(g, S) \in Int
    BY <1>1, SumRemove
  <1>3. SumOf(f, S) <= SumOf(g, S)
    BY <1>1, SumLeq
  <1>4. SumOf(g, S) <= SumOf(f, S)
    BY <1>1, SumLeq
  <1> QED BY <1>2, <1>3, <1>4

-----------------------------------------------------------------------------
(* The token.                                                              *)

\* Issues are counted against the tokens used up and the one in the file.
TokenInv ==
    /\ file \in -1..2 /\ mem \in [Procs -> Int] /\ lock \in [Procs -> Callers \cup {NoCaller}]
    /\ issues \in Nat /\ spent \in Nat /\ unsaved \in Nat
    /\ call \in [Callers -> {"off", "wait", "flock", "issue", "have"}]
    /\ flock \in Callers \cup {NoCaller}
    /\ \A c \in Callers : call[c] = "issue" => flock = c /\ file # 2
    /\ issues <= spent + unsaved + (IF file = 2 THEN 1 ELSE 0)

\* What a caller of the token does.
TokenStep(c) == Token(c) \/ Acquire(c) \/ IssueLocked(c) \/ Issued(c) \/ IssueFails(c) \/ Done(c)

\* A caller's step preserves the token's invariant.
LEMMA CallerKeepsToken ==
    ASSUME TokenInv, NEW c \in Callers, TokenStep(c)
    PROVE  TokenInv'
  <1>a. ProcOf(c) \in Procs /\ NoCaller \notin Callers /\ Mem(c) \in Int
    BY CallersAssumption DEF TokenInv, Mem
  <1>1. CASE Token(c)
    BY <1>a, <1>1 DEF TokenInv, Token
  <1>2. CASE Acquire(c)
    BY <1>a, <1>2 DEF TokenInv, Acquire
  <1>3. CASE IssueLocked(c)
    <2>1. CASE ReadCache
      <3>1. \A d \in Callers : call'[d] # "issue"
        BY <1>a, <1>3, <2>1 DEF TokenInv, IssueLocked, Release
      <3>2. file \in Int
        BY DEF TokenInv
      <3> QED BY <1>a, <1>3, <2>1, <3>1, <3>2 DEF TokenInv, IssueLocked, Release
    <2>2. CASE ~ReadCache
      BY <1>a, <1>3, <2>2 DEF TokenInv, IssueLocked, ReadCache
    <2> QED BY <2>1, <2>2
  <1>4. CASE Issued(c)
    <2>1. call[c] = "issue" /\ flock = c /\ file # 2
      BY <1>4 DEF Issued, TokenInv
    <2>2. \A d \in Callers : call'[d] # "issue"
      BY <1>4, <2>1, <1>a DEF Issued, Release, TokenInv
    <2> QED BY <1>a, <1>4, <2>1, <2>2 DEF TokenInv, Issued, Release
  <1>5. CASE IssueFails(c)
    <2>1. call[c] = "issue" /\ flock = c /\ file # 2
      BY <1>5 DEF IssueFails, TokenInv
    <2>2. \A d \in Callers : call'[d] # "issue"
      BY <1>5, <2>1, <1>a DEF IssueFails, Release, TokenInv
    <2> QED BY <1>a, <1>5, <2>1, <2>2 DEF TokenInv, IssueFails, Release
  <1>6. CASE Done(c)
    BY <1>a, <1>6 DEF TokenInv, Done
  <1> QED BY <1>1, <1>2, <1>3, <1>4, <1>5, <1>6 DEF TokenStep

\* So does the end of a process.
LEMMA DeathKeepsToken ==
    ASSUME TokenInv, NEW p \in Procs, ProcessDies(p)
    PROVE  TokenInv'
  <1>1. call' \in [Callers -> {"off", "wait", "flock", "issue", "have"}]
    BY DEF TokenInv, ProcessDies
  <1>2. \A c \in Callers : call'[c] = "issue" => flock' = c /\ file' # 2
    BY CallersAssumption DEF TokenInv, ProcessDies
  <1>3. /\ mem' \in [Procs -> Int] /\ lock' \in [Procs -> Callers \cup {NoCaller}]
        /\ flock' \in Callers \cup {NoCaller} /\ file' = file /\ spent' = spent
    BY DEF TokenInv, ProcessDies
  <1>4. \/ issues' = issues /\ unsaved' = unsaved
        \/ issues' = issues + 1 /\ unsaved' = unsaved + 1
    BY DEF ProcessDies
  <1> QED BY <1>1, <1>2, <1>3, <1>4 DEF TokenInv

\* So does time.
LEMMA AgeKeepsToken == ASSUME TokenInv, TokenAges PROVE TokenInv'
  <1>1. mem' \in [Procs -> Int] /\ file' \in -1..2 /\ file' # 2
    BY DEF TokenInv, TokenAges, Aged
  <1> QED BY <1>1 DEF TokenInv, TokenAges

\* The steps of the contest move the token by one of these.
LEMMA TokenStepsOf ==
    ASSUME [Next]_vars
    PROVE  \/ UNCHANGED tokenVars \/ TokenAges
           \/ \E c \in Callers : TokenStep(c)
           \/ \E p \in Procs : ProcessDies(p)
  <1>a. Quote \in Callers /\ ProcOf(Quote) \in Procs
    BY ContestAssumption, CallersAssumption
  <1>1. CASE CallOnce \/ QuoteToken \/ Answer \/ CallFails \/ Throttled \/ TokenFails
    BY <1>1, <1>a DEF CallOnce, QuoteToken, Answer, CallFails, Throttled, TokenFails, TokenStep
  <1>2. CASE Crash \/ PeerSteps
    BY <1>2, <1>a DEF Crash, PeerSteps, Peers, TokenStep
  <1>3. CASE CreateInvites \/ QuoteExpires \/ IntegrityOnce \/ AdminResume
             \/ PriceMoves \/ EditFile \/ RepairFile
    BY <1>3 DEF CreateInvites, QuoteExpires, IntegrityOnce, AdminResume, PriceMoves, EditFile,
                RepairFile
  <1>4. CASE \E p \in People : Login(p) \/ SessionEnds(p)
    BY <1>4 DEF Login, SessionEnds
  <1>5. ASSUME NEW s \in Slots,
               \/ SignupEnds(s) \/ Look(s) \/ Resume(s)
               \/ \E p \in People, c \in Codes : Signup(s, p, c)
               \/ \E p \in People, ask \in Menu : Submit(s, p, ask)
        PROVE  UNCHANGED tokenVars
    BY <1>5 DEF SignupEnds, Look, Resume, Signup, Submit, Guarded
  <1>6. CASE UNCHANGED vars
    BY <1>6 DEF vars
  <1> QED BY <1>1, <1>2, <1>3, <1>4, <1>5, <1>6 DEF Next

\* The token's invariant is inductive.
LEMMA TokenStays == ASSUME TokenInv, [Next]_vars PROVE TokenInv'
  <1>1. CASE UNCHANGED tokenVars
    BY <1>1 DEF tokenVars, TokenInv
  <1> QED BY <1>1, TokenStepsOf, CallerKeepsToken, DeathKeepsToken, AgeKeepsToken

\* At first there is no token.
LEMMA TokenStarts == Init => TokenInv
  BY DEF Init, TokenInit, TokenInv

-----------------------------------------------------------------------------
(* The quotes.                                                             *)

Steps == {"wait", "got"}
Requests ==
    [kind : {"signup"}, who : People, code : Codes]
      \cup [kind : {"look"}, step : Steps, price : Prices]
      \cup [kind : {"order"}, who : People, cid : ClientIds, side : {"buy", "sell"},
            qty : Nat \ {0}, step : Steps, price : Prices]

\* What the process has in memory; nobody waits for a quote that is not fetched.
FlightInv ==
    /\ req \in [Slots -> Requests \cup {None}] /\ session \subseteq People /\ tries \in 0..2
    /\ quote \in Prices \cup {None} /\ px \in Prices
    /\ NobodyStranded

\* The steps of one slot.
SlotStep(s) ==
    \/ SignupEnds(s) \/ Look(s) \/ Resume(s)
    \/ \E p \in People, c \in Codes : Signup(s, p, c)
    \/ \E p \in People, ask \in Menu : Submit(s, p, ask)

\* A request that is new, or gone: nobody else waits.
LEMMA SlotKeepsFlight ==
    ASSUME FlightInv, NEW s \in Slots, SlotStep(s)
    PROVE  FlightInv'
  <1>1. CASE SignupEnds(s)
    <2>1. req' = [req EXCEPT ![s] = None] /\ session' \subseteq People
      BY <1>1 DEF SignupEnds, Becomes, Free, FlightInv, Requests
    <2>2. Waiting' \subseteq Waiting
      BY <2>1 DEF FlightInv, Waiting, Free
    <2> QED BY <1>1, <2>1, <2>2 DEF SignupEnds, FlightInv, NobodyStranded, tokenVars, worldVars
  <1>2. CASE Look(s)
    <2>1. Asking \in Requests
      BY ContestAssumption DEF Asking, Requests, Steps
    <2>2. /\ req' = [req EXCEPT ![s] = Asking] /\ tries' = 1
      BY <1>2 DEF Look, Await, Becomes
    <2> QED BY <1>2, <2>1, <2>2 DEF Look, FlightInv, NobodyStranded, worldVars
  <1>3. CASE Resume(s)
    <2>1. req[s] \in Requests /\ req' = [req EXCEPT ![s] = None] /\ quote' = req[s].price
      BY <1>3 DEF Resume, Becomes, Free, FlightInv
    <2>2. quote' \in Prices
      BY <1>3, <2>1 DEF Requests, Resume
    <2>3. Waiting' \subseteq Waiting
      BY <2>1 DEF FlightInv, Waiting, Free
    <2> QED BY <1>3, <2>1, <2>2, <2>3 DEF Resume, FlightInv, NobodyStranded, worldVars, tokenVars
  <1>4. ASSUME NEW p \in People, NEW c \in Codes, Signup(s, p, c)
        PROVE  FlightInv'
    <2> DEFINE r == [kind |-> "signup", who |-> p, code |-> c]
    <2>1. r \in Requests /\ r.kind = "signup" /\ req' = [req EXCEPT ![s] = r]
      BY <1>4 DEF Signup, Becomes, Requests
    <2> HIDE DEF r
    <2>2. Waiting' \subseteq Waiting
      BY <2>1 DEF FlightInv, Waiting, Free
    <2> QED BY <1>4, <2>1, <2>2 DEF Signup, FlightInv, NobodyStranded, worldVars, tokenVars
  <1>5. ASSUME NEW p \in People, NEW ask \in Menu, Submit(s, p, ask)
        PROVE  FlightInv'
    <2>1. Order(p, ask) \in Requests
      BY ContestAssumption DEF Order, Requests, Steps
    <2>2. CASE quote # None
      BY <1>5, <2>2 DEF Submit, Guarded, FlightInv, NobodyStranded, Waiting, Free, worldVars, tokenVars
    <2>3. CASE quote = None
      <3>1. req' = [req EXCEPT ![s] = Order(p, ask)] /\ tries' = IF tries = 0 THEN 1 ELSE tries
        BY <1>5, <2>3 DEF Submit, Guarded, Await, Becomes
      <3> QED BY <1>5, <2>1, <3>1 DEF Submit, Guarded, FlightInv, NobodyStranded, worldVars, tokenVars
    <2> QED BY <2>2, <2>3
  <1> QED BY <1>1, <1>2, <1>3, <1>4, <1>5 DEF SlotStep

\* The fetch goes on, or ends and everybody who waited for it goes on.
LEMMA FetchKeepsFlight ==
    ASSUME TokenInv, FlightInv,
           CallOnce \/ QuoteToken \/ Answer \/ CallFails \/ Throttled \/ TokenFails
    PROVE  FlightInv'
  <1>1. CASE CallOnce
    BY <1>1 DEF CallOnce, FlightInv, NobodyStranded, Waiting, Free, procVars, worldVars
  <1>2. CASE QuoteToken
    <2>1. call[Quote] # "off" /\ UNCHANGED <<procVars, worldVars>>
      BY <1>2 DEF QuoteToken, Acquire, IssueLocked, Issued
    <2> QED BY <2>1 DEF FlightInv, NobodyStranded, Waiting, Free, procVars, worldVars
  <1>3. CASE Answer
    <2>1. req' = [s \in Slots |-> IF s \in Waiting
                    THEN [req[s] EXCEPT !.step = "got", !.price = px] ELSE req[s]]
      BY <1>3 DEF Answer
    <2>2. ASSUME NEW s \in Waiting
          PROVE  req'[s] \in Requests /\ req'[s].step = "got"
      <3>1. s \in Slots /\ req[s] \in Requests /\ req[s].kind # "signup"
        BY <2>2 DEF Waiting, Free, FlightInv
      <3>2. req'[s] = [req[s] EXCEPT !.step = "got", !.price = px]
        BY <2>1, <2>2, <3>1
      <3>3. px \in Prices
        BY DEF FlightInv
      <3> QED BY <3>1, <3>2, <3>3 DEF Requests, Steps
    <2>3. req' \in [Slots -> Requests \cup {None}]
      BY <2>1, <2>2 DEF FlightInv
    <2>4. Waiting' = {}
      <3> SUFFICES ASSUME NEW s \in Slots, s \in Waiting' PROVE FALSE
        BY DEF Waiting
      <3>1. s \notin Waiting
        BY <2>2 DEF Waiting
      <3>2. req'[s] = req[s]
        BY <2>1, <3>1
      <3> QED BY <3>1, <3>2 DEF Waiting, Free
    <2>5. call' = [call EXCEPT ![Quote] = "off"] /\ call'[Quote] = "off"
      BY <1>3, ContestAssumption DEF Answer, Done, TokenInv
    <2>6. UNCHANGED <<session, quote, px>> /\ tries' = 0
      BY <1>3 DEF Answer, worldVars
    <2> QED BY <2>3, <2>4, <2>5, <2>6 DEF FlightInv, NobodyStranded
  <1>4. CASE CallFails \/ TokenFails
    <2>1. FlightFails
      BY <1>4 DEF CallFails, TokenFails
    <2>2. req' \in [Slots -> Requests \cup {None}] /\ Waiting' = {}
      BY <2>1 DEF FlightFails, FlightInv, Waiting, Free
    <2>3. call'[Quote] = "off"
      BY <1>4, ContestAssumption DEF CallFails, TokenFails, Done, IssueFails, Release, TokenInv
    <2> QED BY <2>1, <2>2, <2>3 DEF FlightFails, FlightInv, NobodyStranded
  <1>5. CASE Throttled
    BY <1>5 DEF Throttled, FlightInv, NobodyStranded
  <1> QED BY <1>1, <1>2, <1>3, <1>4, <1>5

\* The callers of other processes do not touch the fetch.
LEMMA PeersKeepFlight == ASSUME TokenInv, FlightInv, PeerSteps PROVE FlightInv'
  <1>1. UNCHANGED <<procVars, px>>
    BY DEF PeerSteps
  <1>2. call'[Quote] = call[Quote]
    <2>1. CASE \E c \in Callers \ {Quote} : TokenStep(c)
      BY <2>1, ContestAssumption
         DEF TokenStep, Token, Acquire, IssueLocked, Issued, IssueFails, Release, Done, TokenInv
    <2>2. CASE \E p \in Procs \ {ProcOf(Quote)} : ProcessDies(p)
      BY <2>2, ContestAssumption DEF ProcessDies, TokenInv
    <2>3. CASE TokenAges
      BY <2>3 DEF TokenAges
    <2> QED BY <2>1, <2>2, <2>3 DEF PeerSteps, Peers, TokenStep
  <1> QED BY <1>1, <1>2 DEF FlightInv, NobodyStranded, Waiting, Free, procVars

\* Every step keeps what is in memory typed and nobody stranded.
LEMMA FlightStays == ASSUME TokenInv, FlightInv, [Next]_vars PROVE FlightInv'
  <1>1. CASE Crash
    <2>1. call'[Quote] = "off"
      BY <1>1, ContestAssumption DEF Crash, ProcessDies
    <2>2. req' = [s \in Slots |-> None] /\ Waiting' = {}
      BY <1>1 DEF Crash, Waiting, Free
    <2> QED BY <1>1, <2>1, <2>2 DEF Crash, FlightInv, NobodyStranded
  <1>2. CASE \/ CreateInvites \/ QuoteExpires \/ IntegrityOnce \/ AdminResume \/ PriceMoves
             \/ EditFile \/ RepairFile
    <2>1. /\ UNCHANGED <<session, req, tries, call>> /\ quote' \in Prices \cup {None}
          /\ px' \in Prices
      BY <1>2 DEF CreateInvites, QuoteExpires, IntegrityOnce, AdminResume, PriceMoves, EditFile,
                  RepairFile, FlightInv, procVars, worldVars, tokenVars
    <2> QED BY <2>1 DEF FlightInv, NobodyStranded, Waiting, Free
  <1>3. ASSUME NEW p \in People, Login(p) \/ SessionEnds(p)
        PROVE  FlightInv'
    BY <1>3 DEF Login, SessionEnds, FlightInv, NobodyStranded, Waiting, Free, worldVars, tokenVars
  <1>4. CASE UNCHANGED vars
    BY <1>4 DEF FlightInv, NobodyStranded, Waiting, Free, vars, procVars, worldVars, tokenVars
  <1>5. CASE \E s \in Slots : SlotStep(s)
    BY <1>5, SlotKeepsFlight
  <1> QED BY <1>1, <1>2, <1>3, <1>4, <1>5, FetchKeepsFlight, PeersKeepFlight DEF Next, SlotStep

\* At first nobody asks.
LEMMA FlightStarts == Init => FlightInv
  BY ContestAssumption DEF Init, TokenInit, FlightInv, NobodyStranded, Waiting, Free

-----------------------------------------------------------------------------
(* The books.                                                              *)

OrderRec == [side : {"buy", "sell"}, qty : Nat, cash : Int, state : {"FILLED", "REJECTED"}]
Seals == Nat \X {0, 1}
RowRec == [kind : {"deposit", "fill"}, who : People, cash : Int, qty : Int,
           cid : ClientIds \cup {None}, at : Nat, ver : {0, 1}, prev : Seals, hash : Seals]

BookTypes ==
    /\ codes \in [Codes -> {Unissued, Unused} \cup People]
    /\ cash \in [People -> Int] /\ qty \in [People -> Int] /\ cost \in [People -> Int]
    /\ orders \in [People \X ClientIds -> OrderRec \cup {None}]
    /\ journal \in Seq(RowRec) /\ \A k \in Fills : journal[k].cid \in ClientIds
    /\ halted \in BOOLEAN /\ checked \in BOOLEAN /\ edited \in {"no", "yes", "repaired"}

\* orders that were let in and wait for their price
Admitted == {s \in Slots : ~Free(s) /\ req[s].kind = "order"}

\* Only who signed up has a session and orders on their way.
Sessions ==
    /\ session \subseteq Joined
    /\ \A s \in Admitted : req[s].who \in Joined

\* Only who signed up has an account and rows.
Strangers ==
    \A p \in People \ Joined : cash[p] = 0 /\ qty[p] = 0 /\ cost[p] = 0 /\ Rows(p) = {}

\* A difference that the program's own steps never take away.
ChainBroken == ~ChainHolds
SumsDiffer(p) == ~CashMatches(p) \/ ~PositionMatches(p)
OrderDiffers(k) == OrderOf(k) \in Filled /\ orders[OrderOf(k)].cash # journal[k].cash
Discrepant ==
    \/ ChainBroken
    \/ \E p \in People : SumsDiffer(p)
    \/ \E k \in Fills : OrderDiffers(k)

\* A row moves something; while the file is untouched its number is its place.
Moving(k) == /\ journal[k].at = k /\ journal[k].ver = 0
             /\ IF journal[k].kind = "fill" THEN journal[k].qty # 0
                                            ELSE journal[k].cash # 0

\* What holds until somebody edits the file.
Untouched ==
    /\ NothingFromNothing /\ OneFillPerClientId /\ OneSeatPerInvite
    /\ edited = "no" => \A k \in DOMAIN journal : Moving(k)

BookInv ==
    /\ BookTypes /\ Strangers /\ BooksBalance /\ Untouched
    /\ edited = "yes" => Discrepant
    /\ checked => edited = "yes" /\ halted

\* The model's sum is the one of SumTheorems; it depends on the rows it is over.
LEMMA TotalOver ==
    ASSUME NEW f, NEW g, NEW S, IsFiniteSet(S), \A x \in S : f[x] \in Int /\ g[x] = f[x]
    PROVE  Total(g, S) = Total(f, S) /\ Total(f, S) \in Int
  <1>1. SumOf(f, S) = SumOf(g, S)
    BY SumSame
  <1>2. SumOf(f, S) \in Int
    BY SumRemove
  <1> QED BY <1>1, <1>2 DEF Total, SumOf

\* A row more adds its number.
LEMMA TotalGrows ==
    ASSUME NEW f, NEW g, NEW S, NEW x, Ints(f, S), x \notin S, g[x] \in Int,
           \A y \in S : g[y] = f[y]
    PROVE  Total(g, S \cup {x}) = Total(f, S) + g[x] /\ Total(f, S) \in Int
  <1>0. IsFiniteSet(S) /\ \A y \in S : f[y] \in Int /\ g[y] \in Int
    BY DEF Ints
  <1>1. SumOf(g, S \cup {x}) = g[x] + SumOf(g, S) /\ SumOf(g, S) \in Int
    BY <1>0, SumAdd DEF Ints
  <1>2. SumOf(f, S) = SumOf(g, S)
    BY <1>0, SumSame
  <1>3. SumOf(g, S \cup {x}) = SumOf(f, S) + g[x] /\ SumOf(f, S) \in Int
    BY <1>1, <1>2
  <1> QED BY <1>3 DEF Total, SumOf

\* A row that says something else makes its difference.
LEMMA TotalChanges ==
    ASSUME NEW f, NEW g, NEW S, NEW x \in S, IsFiniteSet(S), f[x] \in Int, g[x] \in Int,
           \A y \in S \ {x} : f[y] \in Int /\ g[y] = f[y]
    PROVE  Total(g, S) = Total(f, S) - f[x] + g[x] /\ Total(f, S) \in Int
  <1> DEFINE R == S \ {x}
  <1>1. \A y \in S : f[y] \in Int /\ g[y] \in Int
    OBVIOUS
  <1>2. SumOf(f, S) = f[x] + SumOf(f, R) /\ SumOf(f, S) \in Int
    BY <1>1, SumRemove
  <1>3. SumOf(g, S) = g[x] + SumOf(g, R)
    BY <1>1, SumRemove
  <1>4. IsFiniteSet(R) /\ \A y \in R : f[y] \in Int /\ f[y] = g[y]
    BY FS_Subset
  <1>5. SumOf(f, R) = SumOf(g, R) /\ SumOf(f, R) \in Int
    <2> HIDE DEF R
    <2>1. SumOf(f, R) = SumOf(g, R)
      BY <1>4, SumSame
    <2>2. SumOf(f, R) \in Int
      BY <1>4, SumRemove
    <2> QED BY <2>1, <2>2
  <1> HIDE DEF R
  <1>6. SumOf(g, S) = SumOf(f, S) - f[x] + g[x] /\ SumOf(f, S) \in Int
    BY <1>2, <1>3, <1>5
  <1> QED BY <1>6 DEF Total, SumOf

\* The rows of somebody are finitely many, and their numbers add up.
LEMMA RowsAreFew ==
    ASSUME BookTypes, NEW p
    PROVE  /\ IsFiniteSet(Rows(p)) /\ Rows(p) \subseteq DOMAIN journal
           /\ \A k \in DOMAIN journal : /\ journal[k] \in RowRec
                                        /\ journal[k].cash \in Int /\ journal[k].qty \in Int
           /\ JournalCash(p) \in Int /\ JournalQty(p) \in Int
  <1>1. DOMAIN journal = 1..Len(journal) /\ Len(journal) \in Nat
    BY DEF BookTypes
  <1>2. IsFiniteSet(Rows(p)) /\ Rows(p) \subseteq DOMAIN journal
    <2>1. IsFiniteSet(DOMAIN journal)
      BY <1>1, FS_Interval
    <2>2. Rows(p) \subseteq DOMAIN journal
      BY DEF Rows
    <2> QED BY <2>1, <2>2, FS_Subset
  <1>3. \A k \in DOMAIN journal : /\ journal[k] \in RowRec
                                  /\ journal[k].cash \in Int /\ journal[k].qty \in Int
    <2>1. \A k \in DOMAIN journal : journal[k] \in RowRec
      BY <1>1 DEF BookTypes
    <2> QED BY <2>1 DEF RowRec
  <1> DEFINE f == [k \in DOMAIN journal |-> journal[k].cash]
             g == [k \in DOMAIN journal |-> journal[k].qty]
  <1>4. \A k \in Rows(p) : f[k] \in Int /\ g[k] \in Int
    BY <1>2, <1>3
  <1>5. Total(f, Rows(p)) \in Int /\ Total(g, Rows(p)) \in Int
    <2> HIDE DEF f, g
    <2> QED BY <1>2, <1>4, TotalOver
  <1> QED BY <1>2, <1>3, <1>5 DEF JournalCash, JournalQty

\* What a new row does to the journal.
Sealed(row) ==
    /\ row.hash = <<row.at, row.ver>>
    /\ row.prev = IF journal = <<>> THEN Genesis ELSE journal[Len(journal)].hash

\* A row is added to the end; those before it keep their places and their seals.
LEMMA RowAdded ==
    ASSUME BookTypes, NEW row \in RowRec, journal' = Append(journal, row), Sealed(row)
    PROVE  LET n == Len(journal) + 1 IN
           /\ journal' \in Seq(RowRec) /\ DOMAIN journal' = DOMAIN journal \cup {n}
           /\ n \notin DOMAIN journal /\ journal'[n] = row
           /\ \A k \in DOMAIN journal : journal'[k] = journal[k]
           /\ ChainHolds' <=> ChainHolds
           /\ \A p : /\ JournalCash(p)' = JournalCash(p) + (IF row.who = p THEN row.cash ELSE 0)
                     /\ JournalQty(p)' = JournalQty(p) + (IF row.who = p THEN row.qty ELSE 0)
                     /\ Rows(p)' = IF row.who = p THEN Rows(p) \cup {n} ELSE Rows(p)
  <1> DEFINE n == Len(journal) + 1
  <1>1. /\ journal \in Seq(RowRec) /\ Len(journal) \in Nat /\ DOMAIN journal = 1..Len(journal)
    BY DEF BookTypes
  <1>2. /\ journal' \in Seq(RowRec) /\ DOMAIN journal' = 1..n /\ journal'[n] = row
        /\ \A k \in 1..Len(journal) : journal'[k] = journal[k]
    BY <1>1
  <1>3. /\ DOMAIN journal' = DOMAIN journal \cup {n} /\ n \notin DOMAIN journal
        /\ \A k \in DOMAIN journal : journal'[k] = journal[k]
    BY <1>1, <1>2
  <1> DEFINE Linked(j, k) == /\ j[k].prev = IF k = 1 THEN Genesis ELSE j[k - 1].hash
                             /\ j[k].hash = <<j[k].at, j[k].ver>>
  <1>4. ChainHolds' <=> ChainHolds
    <2>1. \A k \in DOMAIN journal : Linked(journal', k) <=> Linked(journal, k)
      BY <1>1, <1>2
    <2>2. Linked(journal', n)
      <3>1. CASE journal = <<>>
        <4>1. n = 1
          BY <3>1
        <4> QED BY <3>1, <4>1, <1>2 DEF Sealed
      <3>2. CASE journal # <<>>
        <4>1. Len(journal) \in 1..Len(journal) /\ n # 1 /\ n - 1 = Len(journal)
          BY <3>2, <1>1
        <4> QED BY <3>2, <4>1, <1>2 DEF Sealed
      <3> QED BY <3>1, <3>2
    <2>3. ChainHolds <=> \A k \in DOMAIN journal : Linked(journal, k)
      BY DEF ChainHolds
    <2>4. ChainHolds' <=> \A k \in DOMAIN journal' : Linked(journal', k)
      BY DEF ChainHolds
    <2> HIDE DEF Linked
    <2> QED BY <2>1, <2>2, <2>3, <2>4, <1>3
  <1>5. ASSUME NEW p
        PROVE  /\ JournalCash(p)' = JournalCash(p) + (IF row.who = p THEN row.cash ELSE 0)
               /\ JournalQty(p)' = JournalQty(p) + (IF row.who = p THEN row.qty ELSE 0)
               /\ Rows(p)' = IF row.who = p THEN Rows(p) \cup {n} ELSE Rows(p)
    <2>1. Rows(p)' = IF row.who = p THEN Rows(p) \cup {n} ELSE Rows(p)
      BY <1>2, <1>3 DEF Rows
    <2> DEFINE f == [k \in DOMAIN journal |-> journal[k].cash]
               g == [k \in DOMAIN journal |-> journal[k].qty]
               ff == [k \in DOMAIN journal' |-> journal'[k].cash]
               gg == [k \in DOMAIN journal' |-> journal'[k].qty]
    <2>2. IsFiniteSet(Rows(p)) /\ n \notin Rows(p)
      BY <1>3, RowsAreFew
    <2>3. \A k \in Rows(p) : f[k] \in Int /\ ff[k] = f[k] /\ g[k] \in Int /\ gg[k] = g[k]
      BY <1>3, RowsAreFew
    <2>4. ff[n] = row.cash /\ ff[n] \in Int /\ gg[n] = row.qty /\ gg[n] \in Int
      BY <1>2, <1>3 DEF RowRec
    <2>5. /\ JournalCash(p)' = Total(ff, Rows(p)') /\ JournalCash(p) = Total(f, Rows(p))
          /\ JournalQty(p)' = Total(gg, Rows(p)') /\ JournalQty(p) = Total(g, Rows(p))
      BY DEF JournalCash, JournalQty
    <2> HIDE DEF f, g, ff, gg
    <2>9. Ints(f, Rows(p)) /\ Ints(g, Rows(p))
      BY <2>2, <2>3 DEF Ints
    <2>6. CASE row.who = p
      <3>0. Total(ff, Rows(p) \cup {n}) = Total(f, Rows(p)) + ff[n] /\ Total(f, Rows(p)) \in Int
        BY <2>2, <2>3, <2>4, <2>9, TotalGrows
      <3>9. Total(gg, Rows(p) \cup {n}) = Total(g, Rows(p)) + gg[n] /\ Total(g, Rows(p)) \in Int
        BY <2>2, <2>3, <2>4, <2>9, TotalGrows
      <3>1. /\ Total(ff, Rows(p) \cup {n}) = Total(f, Rows(p)) + row.cash
            /\ Total(gg, Rows(p) \cup {n}) = Total(g, Rows(p)) + row.qty
        BY <2>4, <3>0, <3>9
      <3>2. Rows(p)' = Rows(p) \cup {n}
        BY <2>1, <2>6
      <3>3. /\ JournalCash(p)' = JournalCash(p) + row.cash
            /\ JournalQty(p)' = JournalQty(p) + row.qty
        BY ONLY <2>5, <3>1, <3>2, Zenon
      <3> QED BY <2>1, <2>6, <3>3
    <2>7. CASE row.who # p
      <3>1. /\ Total(ff, Rows(p)) = Total(f, Rows(p)) /\ Total(f, Rows(p)) \in Int
            /\ Total(gg, Rows(p)) = Total(g, Rows(p)) /\ Total(g, Rows(p)) \in Int
        BY <2>2, <2>3, TotalOver
      <3>2. Rows(p)' = Rows(p)
        BY <2>1, <2>7
      <3>3. /\ JournalCash(p)' = JournalCash(p) /\ JournalQty(p)' = JournalQty(p)
            /\ JournalCash(p) \in Int /\ JournalQty(p) \in Int
        BY ONLY <2>5, <3>1, <3>2, Zenon
      <3> QED BY <2>1, <2>7, <3>3
    <2> QED BY <2>6, <2>7
  <1> QED BY <1>2, <1>3, <1>4, <1>5

\* The numbers of an order: fee and tax do not exceed the amount.
LEMMA Worth ==
    ASSUME NEW n \in Nat, NEW price \in Nat, NEW side
    PROVE  /\ Amount(n, price) \in Nat /\ Fee(n, price) \in Nat /\ Tax(side, n, price) \in Nat
           /\ Fee(n, price) + Tax(side, n, price) <= Amount(n, price)
  <1> DEFINE a == n * price
             f == a * FeePct
             t == a * TaxPct
  <1>1. a \in Nat /\ FeePct \in Nat /\ TaxPct \in Nat /\ FeePct + TaxPct <= 100
    BY ContestAssumption
  <1>2. f \in Nat /\ t \in Nat /\ f + t <= 100 * a
    <2> HIDE DEF a
    <2>1. f + t = a * (FeePct + TaxPct) /\ f \in Nat /\ t \in Nat
      BY <1>1
    <2>2. \A x, y \in Nat : x <= y => a * x <= a * y
      BY <1>1
    <2> QED BY <1>1, <2>1, <2>2
  <1>3. f \div 100 \in Nat /\ t \div 100 \in Nat /\ (f \div 100) + (t \div 100) <= a
    <2> HIDE DEF a, f, t
    <2> QED BY <1>1, <1>2
  <1> QED BY <1>1, <1>3 DEF Amount, Fee, Tax

\* A sale takes no more than the cost with it, and all of it with the last share.
LEMMA CostShare ==
    ASSUME NEW c \in Nat, NEW q \in Nat, NEW n \in 1..q
    PROVE  (c * n) \div q \in 0..c /\ (n = q => (c * n) \div q = c)
  <1> DEFINE d == (c * n) \div q
  <1>1. c * n \in Nat /\ c * n <= c * q /\ q > 0
    OBVIOUS
  <1>2. d \in Nat /\ q * d <= c * n /\ c * n < q * d + q
    BY <1>1
  <1>3. d <= c
    <2> SUFFICES ASSUME d >= c + 1 PROVE FALSE
      BY <1>2
    <2>1. q * d >= q * (c + 1)
      BY <1>1, <1>2
    <2>2. q * (c + 1) = c * q + q
      OBVIOUS
    <2> QED BY <1>1, <1>2, <2>1, <2>2
  <1>4. ASSUME n = q PROVE d = c
    <2> SUFFICES ASSUME d <= c - 1 PROVE FALSE
      BY <1>2, <1>3
    <2>1. q * (d + 1) <= q * c
      BY <1>1, <1>2
    <2> QED BY <1>2, <1>4, <2>1
  <1> QED BY <1>2, <1>3, <1>4

-----------------------------------------------------------------------------
(* Orders.                                                                 *)

Solvent(p) == /\ cash[p] >= 0 /\ qty[p] >= 0 /\ cost[p] >= 0
              /\ qty[p] = 0 => cost[p] = 0

\* The order rec of p is entered under an id that is new.
Entered(p, id, rec) ==
    /\ rec \in OrderRec /\ orders[<<p, id>>] = None
    /\ orders' = [orders EXCEPT ![<<p, id>>] = rec]

\* It moves what the row of the journal says.
Filling(p, id, rec, row) ==
    /\ Entered(p, id, rec) /\ rec.state = "FILLED" /\ rec.cash = row.cash
    /\ row \in RowRec /\ row.kind = "fill" /\ row.who = p /\ row.cid = id /\ row.qty # 0
    /\ row.at = Len(journal) + 1 /\ row.ver = 0 /\ Sealed(row)
    /\ journal' = Append(journal, row)
    /\ cash' = [cash EXCEPT ![p] = @ + row.cash] /\ qty' = [qty EXCEPT ![p] = @ + row.qty]
    /\ cost' \in [People -> Int] /\ \A q \in People \ {p} : cost'[q] = cost[q]
    /\ Solvent(p) => Solvent(p)'

\* place() gives back the order it has, or enters it, refused or filled.
LEMMA PlaceForms ==
    ASSUME BookTypes, NEW p \in People, NEW r, NEW price \in Prices, Place(p, r, price),
           r.cid \in ClientIds, r.side \in {"buy", "sell"}, r.qty \in Nat \ {0}
    PROVE  \/ UNCHANGED Tables
           \/ \E rec : /\ Entered(p, r.cid, rec) /\ rec.state = "REJECTED"
                       /\ UNCHANGED <<cash, qty, cost, journal>>
           \/ \E rec, row : Filling(p, r.cid, rec, row)
  <1> DEFINE o == <<p, r.cid>>
             n == r.qty
             amount == Amount(n, price)
             fee == Fee(n, price)
             tax == Tax(r.side, n, price)
             dcash == IF r.side = "buy" THEN -(amount + fee) ELSE amount - fee - tax
             dqty == IF r.side = "buy" THEN n ELSE -n
             refused == Refused(p, r.side, n, price)
             rec == [side |-> r.side, qty |-> n, cash |-> dcash,
                     state |-> IF refused THEN "REJECTED" ELSE "FILLED"]
             at == Len(journal) + 1
             prev == IF journal = <<>> THEN Genesis ELSE journal[Len(journal)].hash
             row == [kind |-> "fill", who |-> p, cash |-> dcash, qty |-> dqty, cid |-> r.cid,
                     at |-> at, ver |-> 0, prev |-> prev, hash |-> <<at, 0>>]
  <1>1. price \in Nat /\ n \in Nat /\ n # 0
    BY ContestAssumption
  <1>2. amount \in Nat /\ fee \in Nat /\ tax \in Nat /\ fee + tax <= amount
    BY <1>1, Worth
  <1>3. dcash \in Int /\ dqty \in Int /\ dqty # 0
    <2> HIDE DEF amount, fee, tax
    <2> QED BY <1>1, <1>2
  <1>4. CASE orders[o] # None
    BY <1>4 DEF Place, Tables
  <1>5. ASSUME orders[o] = None
        PROVE  \/ \E x : /\ Entered(p, r.cid, x) /\ x.state = "REJECTED"
                         /\ UNCHANGED <<cash, qty, cost, journal>>
               \/ \E x, y : Filling(p, r.cid, x, y)
    <2>1. /\ orders' = [orders EXCEPT ![o] = rec]
          /\ IF refused THEN UNCHANGED <<cash, qty, cost, journal>>
             ELSE /\ cash' = [cash EXCEPT ![p] = @ + dcash]
                  /\ qty' = [qty EXCEPT ![p] = @ + dqty]
                  /\ cost' = [cost EXCEPT ![p] = CostAfter(p, r, price)]
                  /\ journal' = Append(journal, row)
      BY <1>5 DEF Place, Settle, Journal
    <2>2. rec \in OrderRec /\ rec.cash = dcash
          /\ (refused => rec.state = "REJECTED") /\ (~refused => rec.state = "FILLED")
      <3> HIDE DEF dcash, refused
      <3> QED BY <1>1, <1>3 DEF OrderRec
    <2>3. CASE refused
      <3> HIDE DEF rec, refused
      <3>1. Entered(p, r.cid, rec) /\ rec.state = "REJECTED"
        BY <1>5, <2>1, <2>2, <2>3 DEF Entered
      <3> QED BY <2>1, <2>3, <3>1
    <2>4. CASE ~refused
      <3>1. row \in RowRec /\ Sealed(row)
        <4>1. journal \in Seq(RowRec) /\ at \in Nat
          BY DEF BookTypes
        <4>2. prev \in Seals /\ <<at, 0>> \in Seals
          <5>1. CASE journal = <<>>
            BY <5>1, <4>1 DEF Genesis, Seals
          <5>2. CASE journal # <<>>
            <6>1. journal[Len(journal)] \in RowRec
              BY <5>2, <4>1
            <6> QED BY <5>2, <6>1, <4>1 DEF RowRec, Seals
          <5> QED BY <5>1, <5>2
        <4> HIDE DEF dcash, dqty, prev, at
        <4>3. row \in RowRec /\ row.hash = <<row.at, row.ver>> /\ row.prev = prev
          BY <1>3, <4>1, <4>2 DEF RowRec
        <4> QED BY <4>3 DEF Sealed, prev
      <3>2. /\ row.kind = "fill" /\ row.who = p /\ row.cid = r.cid /\ row.qty = dqty
            /\ row.cash = dcash /\ row.at = Len(journal) + 1 /\ row.ver = 0
        OBVIOUS
      <3>3. cost' \in [People -> Int] /\ \A q \in People \ {p} : cost'[q] = cost[q]
        <4>1. CostAfter(p, r, price) \in Int
          <5>1. CASE r.side = "buy"
            BY <5>1, <1>2 DEF CostAfter, BookTypes
          <5>2. CASE r.side # "buy"
            <6>1. n <= qty[p] /\ qty[p] \in Int /\ cost[p] \in Int /\ cost[p] * n \in Int
              BY <2>4, <5>2, <1>1 DEF Refused, BookTypes
            <6>2. (cost[p] * n) \div qty[p] \in Int
              BY <6>1, <1>1
            <6> QED BY <5>2, <6>1, <6>2 DEF CostAfter
          <5> QED BY <5>1, <5>2
        <4> QED BY <2>1, <2>4, <4>1 DEF BookTypes
      <3>4. Solvent(p) => Solvent(p)'
        <4> SUFFICES ASSUME Solvent(p) PROVE Solvent(p)'
          OBVIOUS
        <4>1. cash[p] \in Nat /\ qty[p] \in Nat /\ cost[p] \in Nat
          BY DEF Solvent, BookTypes
        <4>2. cash'[p] = cash[p] + dcash /\ qty'[p] = qty[p] + dqty
              /\ cost'[p] = CostAfter(p, r, price)
          <5> HIDE DEF dcash, dqty, refused
          <5> QED BY <2>1, <2>4 DEF BookTypes
        <4>3. CASE r.side = "buy"
          <5>1. amount + fee <= cash[p]
            BY <2>4, <4>3, <4>1, <1>2 DEF Refused
          <5>2. dcash = -(amount + fee) /\ dqty = n /\ cost'[p] = cost[p] + amount + fee
            BY <4>2, <4>3 DEF CostAfter
          <5> HIDE DEF dcash, dqty, amount, fee
          <5> QED BY <1>1, <1>2, <4>1, <4>2, <5>1, <5>2 DEF Solvent
        <4>4. CASE r.side # "buy"
          <5>1. n \in 1..qty[p]
            BY <1>1, <2>4, <4>1, <4>4 DEF Refused
          <5>2. /\ (cost[p] * n) \div qty[p] \in 0..cost[p]
                /\ (n = qty[p] => (cost[p] * n) \div qty[p] = cost[p])
            BY <4>1, <5>1, CostShare
          <5>3. /\ dcash = amount - fee - tax /\ dqty = -n
                /\ cost'[p] = cost[p] - (cost[p] * n) \div qty[p]
            BY <4>2, <4>4 DEF CostAfter
          <5> HIDE DEF dcash, dqty, amount, fee, tax
          <5>4. cash'[p] >= 0 /\ qty'[p] >= 0
            BY <1>1, <1>2, <4>1, <4>2, <5>1, <5>3
          <5>5. cost'[p] >= 0
            BY <4>1, <5>2, <5>3
          <5>6. qty'[p] = 0 => cost'[p] = 0
            <6>2. dqty = -n /\ qty'[p] = qty[p] + dqty /\ qty[p] \in Nat /\ n \in Nat
              BY <1>1, <4>1, <4>2, <5>3
            <6>1. qty'[p] = 0 => n = qty[p]
              BY ONLY <6>2
            <6> QED BY <4>1, <5>2, <5>3, <6>1
          <5> QED BY <5>4, <5>5, <5>6 DEF Solvent
        <4> QED BY <4>3, <4>4
      <3> HIDE DEF rec, row, dcash, dqty, refused
      <3>5. Filling(p, r.cid, rec, row)
        BY <1>3, <1>5, <2>1, <2>2, <2>4, <3>1, <3>2, <3>3, <3>4 DEF Filling, Entered
      <3> QED BY <3>5
    <2> QED BY <2>3, <2>4
  <1> QED BY <1>4, <1>5

-----------------------------------------------------------------------------
(* Steps that leave the journal as it is.                                  *)

\* The journal says what it said.
LEMMA SameJournal ==
    ASSUME BookTypes, journal' = journal
    PROVE  /\ \A p : /\ JournalCash(p)' = JournalCash(p) /\ JournalQty(p)' = JournalQty(p)
                     /\ Rows(p)' = Rows(p)
           /\ Fills' = Fills /\ (ChainHolds' <=> ChainHolds)
           /\ \A k : OrderOf(k)' = OrderOf(k)
  <1>1. Fills' = Fills /\ (ChainHolds' <=> ChainHolds) /\ \A k : OrderOf(k)' = OrderOf(k)
    BY DEF Fills, ChainHolds, OrderOf
  <1>2. ASSUME NEW p
        PROVE  /\ JournalCash(p)' = JournalCash(p) /\ JournalQty(p)' = JournalQty(p)
               /\ Rows(p)' = Rows(p)
    <2> DEFINE f == [k \in DOMAIN journal |-> journal[k].cash]
               g == [k \in DOMAIN journal |-> journal[k].qty]
               ff == [k \in DOMAIN journal' |-> journal'[k].cash]
               gg == [k \in DOMAIN journal' |-> journal'[k].qty]
    <2>1. Rows(p)' = Rows(p)
      BY DEF Rows
    <2>2. ff = f /\ gg = g
      OBVIOUS
    <2>3. /\ JournalCash(p)' = Total(ff, Rows(p)') /\ JournalCash(p) = Total(f, Rows(p))
          /\ JournalQty(p)' = Total(gg, Rows(p)') /\ JournalQty(p) = Total(g, Rows(p))
      BY DEF JournalCash, JournalQty
    <2> HIDE DEF f, g, ff, gg
    <2> QED BY ONLY <2>1, <2>2, <2>3, Zenon
  <1> QED BY <1>1, <1>2

\* With the accounts and the filled orders as they are, so is the verdict.
LEMMA SameVerdict ==
    ASSUME BookTypes, UNCHANGED <<cash, qty, journal>>, Filled' = Filled,
           \A o \in Filled : orders'[o] = orders[o]
    PROVE  (Integrity' <=> Integrity) /\ (Discrepant' <=> Discrepant)
  <1>1. /\ Fills' = Fills /\ (ChainHolds' <=> ChainHolds)
        /\ \A k : OrderOf(k)' = OrderOf(k)
    BY SameJournal
  <1>2. \A p : (CashMatches(p)' <=> CashMatches(p)) /\ (PositionMatches(p)' <=> PositionMatches(p))
    BY SameJournal DEF CashMatches, PositionMatches
  <1>3. OrdersMatch' <=> OrdersMatch
    BY <1>1 DEF OrdersMatch
  <1>4. \A k \in Fills : OrderDiffers(k)' <=> OrderDiffers(k)
    BY <1>1 DEF OrderDiffers
  <1>5. \A p : SumsDiffer(p)' <=> SumsDiffer(p)
    BY <1>2 DEF SumsDiffer
  <1> QED BY <1>1, <1>2, <1>3, <1>4, <1>5 DEF Integrity, Discrepant, ChainBroken

\* Seats taken.
Taken == {c \in Codes : codes[c] \in People}

\* A step that changes no account and no row, and takes no seat.
LEMMA QuietBooks ==
    ASSUME BookInv, UNCHANGED <<cash, qty, cost, journal, edited>>,
           orders' \in [People \X ClientIds -> OrderRec \cup {None}], Filled' = Filled,
           \A o \in Filled : orders'[o] = orders[o],
           codes' \in [Codes -> {Unissued, Unused} \cup People], Taken' = Taken,
           \A c \in Taken : codes'[c] = codes[c],
           halted' \in BOOLEAN, checked' \in BOOLEAN, checked' => edited = "yes" /\ halted'
    PROVE  BookInv'
  <1>1. /\ \A p : Rows(p)' = Rows(p)
        /\ Fills' = Fills /\ \A k : OrderOf(k)' = OrderOf(k)
    BY SameJournal DEF BookInv
  <1>2. (Integrity' <=> Integrity) /\ (Discrepant' <=> Discrepant)
    BY SameVerdict DEF BookInv
  <1>3. BookTypes'
    BY <1>1 DEF BookInv, BookTypes
  <1>4. Joined' = Joined
    BY DEF Joined, Taken
  <1>5. Strangers'
    BY <1>1, <1>4 DEF BookInv, Strangers
  <1>6. NothingFromNothing'
    BY DEF BookInv, Untouched, NothingFromNothing
  <1>7. OneFillPerClientId'
    BY <1>1 DEF BookInv, Untouched, OneFillPerClientId
  <1>8. OneSeatPerInvite'
    <2>1. DOMAIN journal' \ Fills' = DOMAIN journal \ Fills
      BY <1>1
    <2>2. edited = "no" => Cardinality(DOMAIN journal \ Fills) = Cardinality(Taken)
      BY DEF BookInv, Untouched, OneSeatPerInvite, Taken
    <2>3. edited = "no" => Cardinality(DOMAIN journal' \ Fills') = Cardinality(Taken')
      BY ONLY <2>1, <2>2, Taken' = Taken, Zenon
    <2> QED BY <2>3 DEF OneSeatPerInvite, Taken
  <1>9. \A k \in DOMAIN journal : Moving(k) => Moving(k)'
    BY DEF Moving
  <1> QED BY <1>2, <1>3, <1>5, <1>6, <1>7, <1>8, <1>9 DEF BookInv, Untouched, BooksBalance

\* An order that is refused is nothing but a record.
LEMMA RefusedBooks ==
    ASSUME BookInv, NEW p \in People, NEW id \in ClientIds, NEW rec,
           Entered(p, id, rec), rec.state = "REJECTED",
           UNCHANGED <<codes, cash, qty, cost, journal, halted, edited, checked>>
    PROVE  BookInv'
  <1> DEFINE o == <<p, id>>
  <1>1. orders \in [People \X ClientIds -> OrderRec \cup {None}] /\ o \in People \X ClientIds
    BY DEF BookInv, BookTypes
  <1>2. orders' = [orders EXCEPT ![o] = rec] /\ rec \in OrderRec /\ orders[o] = None
    BY DEF Entered
  <1>3. orders' \in [People \X ClientIds -> OrderRec \cup {None}]
    BY <1>1, <1>2
  <1>4. Filled' = Filled /\ \A x \in Filled : orders'[x] = orders[x]
    BY <1>1, <1>2 DEF Filled
  <1>5. Taken' = Taken /\ \A c \in Taken : codes'[c] = codes[c]
    BY DEF Taken
  <1> QED BY <1>3, <1>4, <1>5, QuietBooks DEF BookInv, BookTypes

-----------------------------------------------------------------------------
(* Steps that write a row.                                                 *)

\* What differed before a row and its movement differs after them.
LEMMA DifferenceStays ==
    ASSUME BookTypes, NEW row \in RowRec, journal' = Append(journal, row), Sealed(row),
           cash' = [cash EXCEPT ![row.who] = @ + row.cash],
           qty' = [qty EXCEPT ![row.who] = @ + row.qty]
    PROVE  \A p \in People : /\ CashMatches(p)' <=> CashMatches(p)
                             /\ PositionMatches(p)' <=> PositionMatches(p)
                             /\ SumsDiffer(p)' <=> SumsDiffer(p)
  <1> SUFFICES ASSUME NEW p \in People
               PROVE  /\ CashMatches(p)' <=> CashMatches(p)
                      /\ PositionMatches(p)' <=> PositionMatches(p)
    BY DEF SumsDiffer
  <1>1. /\ row.who \in People /\ row.cash \in Int /\ row.qty \in Int
    BY DEF RowRec
  <1>2. /\ JournalCash(p)' = JournalCash(p) + (IF row.who = p THEN row.cash ELSE 0)
        /\ JournalQty(p)' = JournalQty(p) + (IF row.who = p THEN row.qty ELSE 0)
    BY RowAdded
  <1>3. JournalCash(p) \in Int /\ JournalQty(p) \in Int
    BY RowsAreFew
  <1>4. cash[p] \in Int /\ qty[p] \in Int
    BY DEF BookTypes
  <1>5. /\ cash'[p] = cash[p] + (IF row.who = p THEN row.cash ELSE 0)
        /\ qty'[p] = qty[p] + (IF row.who = p THEN row.qty ELSE 0)
    BY <1>1, <1>4 DEF BookTypes
  <1>6. cash'[p] = JournalCash(p)' <=> cash[p] = JournalCash(p)
    BY <1>1, <1>2, <1>3, <1>4, <1>5
  <1>7. qty'[p] = JournalQty(p)' <=> qty[p] = JournalQty(p)
    BY <1>1, <1>2, <1>3, <1>4, <1>5
  <1> QED BY <1>6, <1>7 DEF CashMatches, PositionMatches

\* An order that is filled moves what its row says, once.
LEMMA FilledBooks ==
    ASSUME BookInv, NEW p \in Joined, NEW id \in ClientIds, NEW rec, NEW row,
           Filling(p, id, rec, row), UNCHANGED <<codes, halted, edited, checked>>
    PROVE  BookInv'
  <1> DEFINE o == <<p, id>>
  <1>n. PICK n : n = Len(journal) + 1
    OBVIOUS
  <1>0. p \in People /\ BookTypes
    BY DEF Joined, BookInv
  <1>1. orders \in [People \X ClientIds -> OrderRec \cup {None}] /\ o \in People \X ClientIds
    BY <1>0 DEF BookTypes
  <1>2. /\ orders' = [orders EXCEPT ![o] = rec] /\ rec \in OrderRec /\ orders[o] = None
        /\ rec.state = "FILLED" /\ rec.cash = row.cash
    BY DEF Entered, Filling
  <1>3. /\ row \in RowRec /\ row.kind = "fill" /\ row.who = p /\ row.cid = id /\ row.qty # 0
        /\ row.at = n /\ row.ver = 0 /\ Sealed(row) /\ journal' = Append(journal, row)
        /\ cash' = [cash EXCEPT ![p] = @ + row.cash] /\ qty' = [qty EXCEPT ![p] = @ + row.qty]
        /\ cost' \in [People -> Int] /\ \A q \in People \ {p} : cost'[q] = cost[q]
        /\ Solvent(p) => Solvent(p)'
    BY <1>n DEF Filling
  <1>4. /\ journal' \in Seq(RowRec) /\ DOMAIN journal' = DOMAIN journal \cup {n}
        /\ n \notin DOMAIN journal /\ journal'[n] = row
        /\ \A k \in DOMAIN journal : journal'[k] = journal[k]
        /\ ChainHolds' <=> ChainHolds
    BY <1>n, <1>0, <1>3, RowAdded
  <1>5. \A q \in People \ {p} : Rows(q)' = Rows(q)
    BY <1>0, <1>3, RowAdded
  <1>6. /\ orders' \in [People \X ClientIds -> OrderRec \cup {None}]
        /\ rec # None /\ Filled' = Filled \cup {o} /\ o \notin Filled /\ orders'[o] = rec
        /\ \A x \in Filled : orders'[x] = orders[x]
    <2>1. rec # None
      BY <1>2, ContestAssumption DEF OrderRec
    <2> QED BY <1>1, <1>2, <2>1 DEF Filled
  <1>7. /\ Fills' = Fills \cup {n} /\ n \notin Fills /\ OrderOf(n)' = o
        /\ \A k \in Fills : OrderOf(k)' = OrderOf(k)
    BY <1>3, <1>4 DEF Fills, OrderOf
  <1>8. DOMAIN journal' \ Fills' = DOMAIN journal \ Fills
    BY <1>4, <1>7
  <1>9. BookTypes'
    <2>1. row.cash \in Int /\ row.qty \in Int
      BY <1>3 DEF RowRec
    <2>2. cash' \in [People -> Int] /\ qty' \in [People -> Int]
      BY <1>0, <1>3, <2>1 DEF BookTypes
    <2>3. \A k \in Fills' : journal'[k].cid \in ClientIds
      BY <1>0, <1>3, <1>4, <1>7 DEF BookTypes, Fills
    <2> QED BY <1>0, <1>3, <1>4, <1>6, <2>2, <2>3 DEF BookTypes
  <1>10. Strangers'
    <2>1. Joined' = Joined
      BY DEF Joined
    <2> SUFFICES ASSUME NEW q \in People \ Joined
                 PROVE  cash'[q] = 0 /\ qty'[q] = 0 /\ cost'[q] = 0 /\ Rows(q)' = {}
      BY <2>1 DEF Strangers
    <2>2. q # p /\ cash[q] = 0 /\ qty[q] = 0 /\ cost[q] = 0 /\ Rows(q) = {}
      BY DEF BookInv, Strangers
    <2> QED BY <1>0, <1>3, <1>5, <2>2 DEF BookTypes
  <1>11. \A q \in People : /\ CashMatches(q)' <=> CashMatches(q)
                           /\ PositionMatches(q)' <=> PositionMatches(q)
                           /\ SumsDiffer(q)' <=> SumsDiffer(q)
    BY <1>0, <1>3, DifferenceStays
  <1>12. OrdersMatch => OrdersMatch'
    <2> SUFFICES ASSUME OrdersMatch PROVE OrdersMatch'
      OBVIOUS
    <2>1. ASSUME NEW k \in Fills'
          PROVE  OrderOf(k)' \in Filled' /\ orders'[OrderOf(k)'].cash = journal'[k].cash
      <3>1. CASE k = n
        BY <1>2, <1>4, <1>6, <1>7, <3>1
      <3>2. CASE k # n
        <4>1. k \in Fills /\ k \in DOMAIN journal
          BY <1>7, <3>2 DEF Fills
        <4> QED BY <1>4, <1>6, <1>7, <4>1 DEF OrdersMatch
      <3> QED BY <3>1, <3>2
    <2>2. ASSUME NEW x \in Filled' PROVE \E k \in Fills' : OrderOf(k)' = x
      <3>1. CASE x = o
        BY <1>7, <3>1
      <3>2. CASE x # o
        <4>1. x \in Filled
          BY <1>6, <3>2
        <4>2. PICK k \in Fills : OrderOf(k) = x
          BY <4>1 DEF OrdersMatch
        <4> QED BY <1>7, <4>2
      <3> QED BY <3>1, <3>2
    <2> QED BY <2>1, <2>2 DEF OrdersMatch
  <1>13. BooksBalance'
    BY <1>4, <1>11, <1>12 DEF BookInv, BooksBalance, Integrity
  <1>14. NothingFromNothing'
    <2> SUFFICES ASSUME edited = "no", NEW q \in People PROVE Solvent(q)'
      BY DEF NothingFromNothing, Solvent
    <2>1. Solvent(q)
      BY DEF BookInv, Untouched, NothingFromNothing, Solvent
    <2>2. CASE q = p
      BY <1>3, <2>1, <2>2
    <2>3. CASE q # p
      <3>1. cash'[q] = cash[q] /\ qty'[q] = qty[q] /\ cost'[q] = cost[q]
        BY <1>0, <1>3, <2>3 DEF BookTypes
      <3> QED BY <2>1, <3>1 DEF Solvent
    <2> QED BY <2>2, <2>3
  <1>15. OneFillPerClientId'
    <2> SUFFICES ASSUME edited = "no", NEW j \in Fills', NEW k \in Fills', OrderOf(j)' = OrderOf(k)'
                 PROVE  j = k
      BY DEF OneFillPerClientId
    <2>1. \A x \in Fills : OrderOf(x) \in Filled
      BY DEF BookInv, BooksBalance, Integrity, OrdersMatch
    <2>2. \A x \in Fills : OrderOf(x) # o
      BY <1>6, <2>1
    <2>3. \A x, y \in Fills : OrderOf(x) = OrderOf(y) => x = y
      BY DEF BookInv, Untouched, OneFillPerClientId
    <2> QED BY <1>7, <2>2, <2>3
  <1>16. OneSeatPerInvite'
    <2>1. edited = "no" => Cardinality(DOMAIN journal \ Fills) = Cardinality({c \in Codes : codes[c] \in People})
      BY DEF BookInv, Untouched, OneSeatPerInvite
    <2>2. Cardinality(DOMAIN journal' \ Fills') = Cardinality(DOMAIN journal \ Fills)
      BY ONLY <1>8, Zenon
    <2> QED BY <2>1, <2>2 DEF OneSeatPerInvite
  <1>17. \A k \in DOMAIN journal : Moving(k) => Moving(k)'
    BY <1>4 DEF Moving
  <1>18. Moving(n)'
    BY <1>3, <1>4 DEF Moving
  <1>19. Discrepant => Discrepant'
    <2>1. \A k \in Fills : k \in Fills' /\ (OrderDiffers(k) => OrderDiffers(k)')
      BY <1>4, <1>6, <1>7 DEF OrderDiffers, Fills
    <2> QED BY <1>4, <1>11, <2>1 DEF Discrepant, ChainBroken
  <1> QED BY <1>4, <1>9, <1>10, <1>13, <1>14, <1>15, <1>16, <1>17, <1>18, <1>19
          DEF BookInv, Untouched

\* place() keeps the books, whatever it is asked.
LEMMA PlaceBooks ==
    ASSUME BookInv, NEW p \in Joined, NEW r, NEW price \in Prices, Place(p, r, price),
           r.cid \in ClientIds, r.side \in {"buy", "sell"}, r.qty \in Nat \ {0},
           UNCHANGED <<codes, halted, edited, checked>>
    PROVE  BookInv'
  <1>1. p \in People /\ BookTypes
    BY DEF Joined, BookInv
  <1>2. CASE UNCHANGED Tables
    BY <1>1, <1>2, QuietBooks DEF Tables, Filled, Taken, BookInv, BookTypes
  <1>3. CASE \E rec : /\ Entered(p, r.cid, rec) /\ rec.state = "REJECTED"
                      /\ UNCHANGED <<cash, qty, cost, journal>>
    BY <1>1, <1>3, RefusedBooks
  <1>4. CASE \E rec, row : Filling(p, r.cid, rec, row)
    BY <1>4, FilledBooks
  <1> QED BY <1>1, <1>2, <1>3, <1>4, PlaceForms

\* A deposit is the first row of somebody who takes a seat.
LEMMA SignupBooks ==
    ASSUME BookInv, NEW p \in People, NEW c \in Codes, MaySignup(p, c),
           codes' = [codes EXCEPT ![c] = p], cash' = [cash EXCEPT ![p] = InitialCash],
           journal' = Journal("deposit", p, InitialCash, 0, None),
           UNCHANGED <<qty, cost, orders, halted, edited, checked>>
    PROVE  BookInv'
  <1>n. PICK n : n = Len(journal) + 1
    OBVIOUS
  <1> DEFINE prev == IF journal = <<>> THEN Genesis ELSE journal[Len(journal)].hash
             row == [kind |-> "deposit", who |-> p, cash |-> InitialCash, qty |-> 0, cid |-> None,
                     at |-> n, ver |-> 0, prev |-> prev, hash |-> <<n, 0>>]
  <1>0. BookTypes /\ p \notin Joined /\ codes[c] = Unused /\ InitialCash \in Nat \ {0}
    BY ContestAssumption DEF BookInv, MaySignup
  <1>1. journal \in Seq(RowRec) /\ n \in Nat /\ Len(journal) \in Nat
    BY <1>0, <1>n DEF BookTypes
  <1>2. journal' = Append(journal, row)
    BY <1>n DEF Journal
  <1>3. row \in RowRec /\ Sealed(row)
    <2>1. prev \in Seals /\ <<n, 0>> \in Seals
      <3>1. CASE journal = <<>>
        BY <3>1, <1>1 DEF Genesis, Seals
      <3>2. CASE journal # <<>>
        <4>1. journal[Len(journal)] \in RowRec
          BY <3>2, <1>1
        <4> QED BY <3>2, <4>1, <1>1 DEF RowRec, Seals
      <3> QED BY <3>1, <3>2
    <2> HIDE DEF prev
    <2>2. row \in RowRec /\ row.hash = <<row.at, row.ver>> /\ row.prev = prev
      BY <1>0, <1>1, <2>1 DEF RowRec
    <2> QED BY <2>2 DEF Sealed, prev
  <1>4. /\ row.kind = "deposit" /\ row.who = p /\ row.cash = InitialCash /\ row.qty = 0
        /\ row.at = n /\ row.ver = 0
    OBVIOUS
  <1> HIDE DEF row
  <1>5. /\ journal' \in Seq(RowRec) /\ DOMAIN journal' = DOMAIN journal \cup {n}
        /\ n \notin DOMAIN journal /\ journal'[n] = row
        /\ \A k \in DOMAIN journal : journal'[k] = journal[k]
        /\ ChainHolds' <=> ChainHolds
    BY <1>n, <1>0, <1>2, <1>3, RowAdded
  <1>6. \A q \in People \ {p} : Rows(q)' = Rows(q)
    BY <1>0, <1>2, <1>3, <1>4, RowAdded
  <1>7. cash[p] = 0 /\ qty[p] = 0 /\ cost[p] = 0
    BY <1>0 DEF BookInv, Strangers
  <1>8. \A q \in People : /\ CashMatches(q)' <=> CashMatches(q)
                          /\ PositionMatches(q)' <=> PositionMatches(q)
                          /\ SumsDiffer(q)' <=> SumsDiffer(q)
    <2>1. cash' = [cash EXCEPT ![row.who] = @ + row.cash]
      BY <1>0, <1>4, <1>7 DEF BookTypes
    <2>2. qty' = [qty EXCEPT ![row.who] = @ + row.qty]
      BY <1>0, <1>4, <1>7 DEF BookTypes
    <2> QED BY <1>0, <1>2, <1>3, <2>1, <2>2, DifferenceStays
  <1>9. Fills' = Fills /\ \A k \in Fills : OrderOf(k)' = OrderOf(k) /\ k \in DOMAIN journal
    BY <1>4, <1>5 DEF Fills, OrderOf
  <1>10. Filled' = Filled
    BY DEF Filled
  <1>11. BookTypes'
    <2>1. codes' \in [Codes -> {Unissued, Unused} \cup People]
      BY <1>0 DEF BookTypes
    <2>2. cash' \in [People -> Int]
      BY <1>0 DEF BookTypes
    <2>3. \A k \in Fills' : journal'[k].cid \in ClientIds
      BY <1>0, <1>5, <1>9 DEF BookTypes
    <2> QED BY <1>0, <1>5, <2>1, <2>2, <2>3 DEF BookTypes
  <1>12. p \in Joined' /\ Joined \subseteq Joined'
    <2>1. \A q \in Joined : \E e \in Codes : codes[e] = q /\ e # c
      BY <1>0, ContestAssumption DEF Joined
    <2> QED BY <1>0, <2>1 DEF Joined, BookTypes
  <1>13. Strangers'
    <2> SUFFICES ASSUME NEW q \in People \ Joined'
                 PROVE  cash'[q] = 0 /\ qty'[q] = 0 /\ cost'[q] = 0 /\ Rows(q)' = {}
      BY DEF Strangers
    <2>1. q # p /\ q \notin Joined
      BY <1>12
    <2>2. cash[q] = 0 /\ qty[q] = 0 /\ cost[q] = 0 /\ Rows(q) = {}
      BY <2>1 DEF BookInv, Strangers
    <2> QED BY <1>0, <1>6, <2>1, <2>2 DEF BookTypes
  <1>14. OrdersMatch' <=> OrdersMatch
    BY <1>5, <1>9, <1>10 DEF OrdersMatch
  <1>15. BooksBalance'
    BY <1>5, <1>8, <1>14 DEF BookInv, BooksBalance, Integrity
  <1>16. NothingFromNothing'
    <2> SUFFICES ASSUME edited = "no", NEW q \in People
                 PROVE  cash'[q] >= 0 /\ qty'[q] >= 0 /\ cost'[q] >= 0 /\ (qty'[q] = 0 => cost'[q] = 0)
      BY DEF NothingFromNothing
    <2>1. cash[q] >= 0 /\ qty[q] >= 0 /\ cost[q] >= 0 /\ (qty[q] = 0 => cost[q] = 0)
      BY DEF BookInv, Untouched, NothingFromNothing
    <2>2. cash'[q] >= 0
      BY <1>0, <2>1 DEF BookTypes
    <2> QED BY <2>1, <2>2
  <1>17. OneFillPerClientId'
    BY <1>9 DEF BookInv, Untouched, OneFillPerClientId
  <1>18. OneSeatPerInvite'
    <2> SUFFICES ASSUME edited = "no"
                 PROVE  Cardinality(DOMAIN journal' \ Fills') = Cardinality(Taken')
      BY DEF OneSeatPerInvite, Taken
    <2>1. /\ Cardinality(DOMAIN journal \ Fills) = Cardinality(Taken)
          /\ IsFiniteSet(Taken) /\ IsFiniteSet(DOMAIN journal \ Fills)
      <3>1. IsFiniteSet(Taken)
        BY ContestAssumption, FS_Subset DEF Taken
      <3>2. DOMAIN journal = 1..Len(journal)
        BY <1>1
      <3>3. IsFiniteSet(DOMAIN journal)
        BY <1>1, <3>2, FS_Interval
      <3>4. IsFiniteSet(DOMAIN journal \ Fills)
        BY <3>3, FS_Subset
      <3> QED BY <3>1, <3>4 DEF BookInv, Untouched, OneSeatPerInvite, Taken
    <2>2. Taken' = Taken \cup {c} /\ c \notin Taken
      BY <1>0, ContestAssumption DEF Taken, BookTypes
    <2>3. /\ DOMAIN journal' \ Fills' = (DOMAIN journal \ Fills) \cup {n}
          /\ n \notin DOMAIN journal \ Fills
      BY <1>5, <1>9
    <2>4. Cardinality(Taken \cup {c}) = Cardinality(Taken) + 1
      BY <2>1, <2>2, FS_AddElement
    <2>5. Cardinality((DOMAIN journal \ Fills) \cup {n}) = Cardinality(DOMAIN journal \ Fills) + 1
      BY <2>1, <2>3, FS_AddElement
    <2>6. Cardinality((DOMAIN journal \ Fills) \cup {n}) = Cardinality(Taken \cup {c})
      BY <2>1, <2>4, <2>5
    <2> QED BY ONLY <2>2, <2>3, <2>6, Zenon
  <1>19. \A k \in DOMAIN journal : Moving(k) => Moving(k)'
    BY <1>5 DEF Moving
  <1>20. Moving(n)'
    BY <1>0, <1>4, <1>5 DEF Moving
  <1>21. Discrepant => Discrepant'
    <2>1. \A k \in Fills : OrderDiffers(k) => OrderDiffers(k)'
      BY <1>5, <1>9, <1>10 DEF OrderDiffers
    <2> QED BY <1>5, <1>8, <1>9, <2>1 DEF Discrepant, ChainBroken
  <1> QED BY <1>5, <1>11, <1>13, <1>15, <1>16, <1>17, <1>18, <1>19, <1>20, <1>21
          DEF BookInv, Untouched

-----------------------------------------------------------------------------
(* Edits.                                                                  *)

\* A sequence without its k-th element.
LEMMA Deleted ==
    ASSUME NEW S, NEW s \in Seq(S), NEW k \in DOMAIN s, NEW d,
           d = SubSeq(s, 1, k - 1) \o SubSeq(s, k + 1, Len(s))
    PROVE  /\ d \in Seq(S) /\ Len(d) = Len(s) - 1
           /\ \A j \in 1..Len(d) : d[j] = IF j < k THEN s[j] ELSE s[j + 1]
  <1>1. Len(s) \in Nat /\ k \in 1..Len(s)
    OBVIOUS
  <1> DEFINE a == SubSeq(s, 1, k - 1)
             b == SubSeq(s, k + 1, Len(s))
  <1>2. a \in Seq(S) /\ Len(a) = k - 1 /\ \A j \in 1..(k - 1) : a[j] = s[j]
    <2>1. 1 \in Int /\ k - 1 \in Int /\ \A i \in 1..(k - 1) : s[i] \in S
      BY <1>1
    <2>2. /\ a \in Seq(S) /\ Len(a) = IF 1 <= k - 1 THEN (k - 1) - 1 + 1 ELSE 0
          /\ \A i \in 1..((k - 1) - 1 + 1) : a[i] = s[1 + i - 1]
      BY <2>1, SubSeqProperties
    <2> HIDE DEF a
    <2> QED BY <1>1, <2>2
  <1>3. b \in Seq(S) /\ Len(b) = Len(s) - k /\ \A j \in 1..(Len(s) - k) : b[j] = s[k + j]
    <2>1. k + 1 \in Int /\ Len(s) \in Int /\ \A i \in (k + 1)..Len(s) : s[i] \in S
      BY <1>1
    <2>2. /\ b \in Seq(S) /\ Len(b) = IF k + 1 <= Len(s) THEN Len(s) - (k + 1) + 1 ELSE 0
          /\ \A i \in 1..(Len(s) - (k + 1) + 1) : b[i] = s[(k + 1) + i - 1]
      BY <2>1, SubSeqProperties
    <2> HIDE DEF b
    <2>3. \A i \in 1..(Len(s) - k) : i \in 1..(Len(s) - (k + 1) + 1) /\ (k + 1) + i - 1 = k + i
      BY <1>1
    <2>4. \A i \in 1..(Len(s) - k) : b[i] = s[k + i]
      BY <2>2, <2>3
    <2> QED BY <1>1, <2>2, <2>4
  <1>5. d = a \o b
    OBVIOUS
  <1> HIDE DEF a, b
  <1>4. d \in Seq(S) /\ Len(d) = Len(a) + Len(b)
        /\ \A j \in 1..(Len(a) + Len(b)) : d[j] = IF j <= Len(a) THEN a[j] ELSE b[j - Len(a)]
    <2>1. /\ (a \o b) \in Seq(S) /\ Len(a \o b) = Len(a) + Len(b)
          /\ \A j \in 1..(Len(a) + Len(b)) :
                (a \o b)[j] = IF j <= Len(a) THEN a[j] ELSE b[j - Len(a)]
      BY <1>2, <1>3, ConcatProperties
    <2> QED BY ONLY <1>5, <2>1, Zenon
  <1>6. Len(a) + Len(b) = Len(s) - 1
    BY <1>1, <1>2, <1>3
  <1>7. ASSUME NEW j \in 1..Len(d) PROVE d[j] = IF j < k THEN s[j] ELSE s[j + 1]
    <2>0. j \in 1..(Len(a) + Len(b)) /\ j \in 1..(Len(s) - 1)
      BY <1>4, <1>6
    <2>1. CASE j < k
      <3>1. j <= Len(a) /\ j \in 1..(k - 1)
        BY <1>1, <1>2, <2>0, <2>1
      <3>2. d[j] = a[j]
        BY <1>4, <2>0, <3>1
      <3> QED BY <1>2, <2>1, <3>1, <3>2
    <2>2. CASE ~(j < k)
      <3> DEFINE i == j - Len(a)
      <3>1. i \in 1..(Len(s) - k) /\ k + i = j + 1 /\ ~(j <= Len(a))
        <4>1. Len(a) = k - 1 /\ k \in Int /\ Len(s) \in Int /\ j \in Int /\ j <= Len(s) - 1
              /\ k <= j
          BY <1>1, <1>2, <2>0, <2>2
        <4>2. \A A, K, L, J \in Int : A = K - 1 /\ J <= L - 1 /\ K <= J =>
                 J - A \in 1..(L - K) /\ K + (J - A) = J + 1 /\ ~(J <= A)
          OBVIOUS
        <4>3. Len(a) \in Int
          BY <4>1
        <4> QED BY ONLY <4>1, <4>2, <4>3
      <3>2. d[j] = b[i]
        <4>1. d[j] = IF j <= Len(a) THEN a[j] ELSE b[j - Len(a)]
          BY <1>4, <2>0
        <4> QED BY <3>1, <4>1
      <3> HIDE DEF i
      <3>3. b[i] = s[k + i]
        BY <1>3, <3>1
      <3> QED BY <2>2, <3>1, <3>2, <3>3
    <2> QED BY <2>1, <2>2
  <1> QED BY <1>4, <1>6, <1>7

\* Rows of the journal that are rows of the old one, or forged from them.
LEMMA EditedTypes ==
    ASSUME BookInv, journal' \in Seq(RowRec),
           \A j \in DOMAIN journal' : \E i \in DOMAIN journal :
              /\ journal'[j].kind = journal[i].kind /\ journal'[j].who = journal[i].who
              /\ journal'[j].cid = journal[i].cid,
           cash' \in [People -> Int], \A p \in People \ Joined : cash'[p] = cash[p],
           orders' \in [People \X ClientIds -> OrderRec \cup {None}],
           UNCHANGED <<codes, qty, cost, halted>>, checked' \in BOOLEAN,
           edited' \in {"no", "yes", "repaired"}
    PROVE  BookTypes' /\ Strangers'
  <1>1. \A k \in Fills' : journal'[k].cid \in ClientIds
    BY DEF BookInv, BookTypes, Fills
  <1>2. BookTypes'
    BY <1>1 DEF BookInv, BookTypes
  <1>3. Joined' = Joined
    BY DEF Joined
  <1>4. \A p \in People \ Joined : Rows(p)' = {}
    <2> SUFFICES ASSUME NEW p \in People \ Joined, NEW j \in DOMAIN journal', journal'[j].who = p
                 PROVE  FALSE
      BY DEF Rows
    <2>1. PICK i \in DOMAIN journal : journal[i].who = p
      OBVIOUS
    <2>2. Rows(p) = {}
      BY DEF BookInv, Strangers
    <2> QED BY <2>1, <2>2 DEF Rows
  <1>5. Strangers'
    BY <1>3, <1>4 DEF Strangers, BookInv
  <1> QED BY <1>2, <1>5

\* A balance one higher than it was differs from its rows.
LEMMA CashEdited ==
    ASSUME BookInv, edited = "no", NEW p \in Joined, cash' = [cash EXCEPT ![p] = @ + 1],
           UNCHANGED <<codes, qty, cost, orders, journal, halted, checked>>, edited' = "yes"
    PROVE  BookInv'
  <1>1. p \in People /\ BookTypes /\ Integrity /\ ~checked
    BY DEF Joined, BookInv, BooksBalance
  <1>2. cash[p] \in Int /\ cash'[p] = cash[p] + 1
    BY <1>1 DEF BookTypes
  <1>3. JournalCash(p)' = JournalCash(p) /\ JournalCash(p) = cash[p]
    BY <1>1, SameJournal DEF Integrity, CashMatches
  <1>4. SumsDiffer(p)'
    BY <1>2, <1>3 DEF SumsDiffer, CashMatches
  <1>5. BookTypes' /\ Strangers'
    BY <1>1, EditedTypes DEF BookTypes
  <1> QED BY <1>1, <1>4, <1>5
          DEF BookInv, BooksBalance, Untouched, Discrepant, NothingFromNothing,
              OneFillPerClientId, OneSeatPerInvite

\* An order worth one more than it was differs from its row.
LEMMA OrderEdited ==
    ASSUME BookInv, edited = "no", NEW o \in Filled, orders' = [orders EXCEPT ![o].cash = @ + 1],
           UNCHANGED <<codes, cash, qty, cost, journal, halted, checked>>, edited' = "yes"
    PROVE  BookInv'
  <1>1. BookTypes /\ Integrity /\ ~checked
    BY DEF BookInv, BooksBalance
  <1>2. /\ orders \in [People \X ClientIds -> OrderRec \cup {None}] /\ o \in People \X ClientIds
        /\ orders[o] \in OrderRec /\ orders[o].state = "FILLED"
    BY <1>1 DEF BookTypes, Filled
  <1> DEFINE x == [orders[o] EXCEPT !.cash = @ + 1]
  <1>3. x \in OrderRec /\ x.state = "FILLED" /\ x.cash = orders[o].cash + 1 /\ orders[o].cash \in Int
    BY <1>2 DEF OrderRec
  <1>4. orders' = [orders EXCEPT ![o] = x]
    OBVIOUS
  <1> HIDE DEF x
  <1>5. orders' \in [People \X ClientIds -> OrderRec \cup {None}] /\ orders'[o] = x /\ x # None
    BY <1>2, <1>3, <1>4, ContestAssumption DEF OrderRec
  <1>6. o \in Filled'
    BY <1>2, <1>3, <1>5 DEF Filled
  <1>7. PICK k \in Fills : OrderOf(k) = o
    BY <1>1 DEF Integrity, OrdersMatch
  <1>8. OrderOf(k)' = o /\ orders[o].cash = journal[k].cash /\ k \in Fills'
    BY <1>1, <1>7, SameJournal DEF Integrity, OrdersMatch
  <1>9. OrderDiffers(k)'
    BY <1>3, <1>5, <1>6, <1>8 DEF OrderDiffers
  <1>10. BookTypes' /\ Strangers'
    BY <1>1, <1>5, EditedTypes DEF BookTypes
  <1> QED BY <1>1, <1>8, <1>9, <1>10
          DEF BookInv, BooksBalance, Untouched, Discrepant, NothingFromNothing,
              OneFillPerClientId, OneSeatPerInvite

\* A row that says one more differs from the account, sealed again or not.
LEMMA RowEdited ==
    ASSUME BookInv, edited = "no", NEW k \in DOMAIN journal, NEW again \in BOOLEAN,
           journal' = [journal EXCEPT ![k] = Forged(@, again)],
           UNCHANGED <<codes, cash, qty, cost, orders, halted, checked>>, edited' = "yes"
    PROVE  BookInv'
  <1>p. PICK p : p = journal[k].who
    OBVIOUS
  <1>x. PICK x : x = Forged(journal[k], again)
    OBVIOUS
  <1>1. /\ BookTypes /\ Integrity /\ ~checked /\ journal \in Seq(RowRec)
        /\ DOMAIN journal = 1..Len(journal) /\ Len(journal) \in Nat
    BY DEF BookInv, BooksBalance, BookTypes
  <1>2. journal[k] \in RowRec /\ p \in People /\ journal[k].cash \in Int
    <2>1. journal[k] \in RowRec
      BY <1>1
    <2> QED BY <1>p, <2>1 DEF RowRec
  <1>3. /\ x \in RowRec /\ x.kind = journal[k].kind /\ x.who = p /\ x.cid = journal[k].cid
        /\ x.cash = journal[k].cash + 1 /\ x.qty = journal[k].qty
    <2> DEFINE y == journal[k]
               h == IF again THEN <<y.at, 1>> ELSE y.hash
    <2>1. y.at \in Nat /\ y.hash \in Seals /\ y.cash \in Int /\ y \in RowRec
      BY <1>2 DEF RowRec
    <2>2. h \in Seals
      BY <2>1 DEF Seals
    <2>3. x = [y EXCEPT !.cash = @ + 1, !.ver = 1, !.hash = h]
      BY <1>x DEF Forged
    <2> HIDE DEF y, h
    <2>4. /\ x \in RowRec /\ x.kind = y.kind /\ x.who = y.who /\ x.cid = y.cid
          /\ x.cash = y.cash + 1 /\ x.qty = y.qty
      <3>1. x = [kind |-> y.kind, who |-> y.who, cash |-> y.cash + 1, qty |-> y.qty,
                 cid |-> y.cid, at |-> y.at, ver |-> 1, prev |-> y.prev, hash |-> h]
        BY <2>1, <2>3 DEF RowRec
      <3>2. /\ y.kind \in {"deposit", "fill"} /\ y.who \in People /\ y.cash + 1 \in Int
            /\ y.qty \in Int /\ y.cid \in ClientIds \cup {None} /\ y.prev \in Seals
        BY <2>1 DEF RowRec
      <3>3. x \in RowRec
        BY <2>1, <2>2, <3>1, <3>2 DEF RowRec
      <3> QED BY <3>1, <3>3
    <2> QED BY <1>p, <2>4 DEF y
  <1>4. journal' = [journal EXCEPT ![k] = x]
    BY <1>x
  <1>5. /\ journal' \in Seq(RowRec) /\ DOMAIN journal' = DOMAIN journal /\ journal'[k] = x
        /\ \A j \in DOMAIN journal \ {k} : journal'[j] = journal[j]
    BY <1>1, <1>3, <1>4
  <1>6. Rows(p)' = Rows(p) /\ k \in Rows(p)
    BY <1>p, <1>3, <1>5 DEF Rows
  <1>7. JournalCash(p)' = JournalCash(p) + 1 /\ JournalCash(p) \in Int
    <2> DEFINE f == [j \in DOMAIN journal |-> journal[j].cash]
               ff == [j \in DOMAIN journal' |-> journal'[j].cash]
    <2>1. IsFiniteSet(Rows(p)) /\ k \in Rows(p)
      BY <1>1, <1>6, RowsAreFew
    <2>2. f[k] \in Int /\ ff[k] \in Int /\ ff[k] = f[k] + 1
      BY <1>2, <1>3, <1>5
    <2>3. \A j \in Rows(p) \ {k} : f[j] \in Int /\ ff[j] = f[j]
      BY <1>1, <1>5, RowsAreFew
    <2>4. JournalCash(p)' = Total(ff, Rows(p)') /\ JournalCash(p) = Total(f, Rows(p))
      BY DEF JournalCash
    <2> HIDE DEF f, ff
    <2>5. Total(ff, Rows(p)) = Total(f, Rows(p)) - f[k] + ff[k] /\ Total(f, Rows(p)) \in Int
      BY <2>1, <2>2, <2>3, TotalChanges
    <2>6. Total(ff, Rows(p)) = Total(f, Rows(p)) + 1 /\ Total(f, Rows(p)) \in Int
      BY <2>2, <2>5
    <2> QED BY ONLY <1>6, <2>4, <2>6, Zenon
  <1>8. SumsDiffer(p)'
    <2>1. cash[p] = JournalCash(p)
      BY <1>1, <1>2 DEF Integrity, CashMatches
    <2> QED BY <1>7, <2>1 DEF SumsDiffer, CashMatches
  <1>9. BookTypes' /\ Strangers'
    <2>1. \A j \in DOMAIN journal' : \E i \in DOMAIN journal :
              /\ journal'[j].kind = journal[i].kind /\ journal'[j].who = journal[i].who
              /\ journal'[j].cid = journal[i].cid
      BY <1>p, <1>3, <1>5
    <2> QED BY <1>1, <1>5, <2>1, EditedTypes DEF BookTypes
  <1> QED BY <1>1, <1>2, <1>8, <1>9
          DEF BookInv, BooksBalance, Untouched, Discrepant, NothingFromNothing,
              OneFillPerClientId, OneSeatPerInvite

\* A row taken out leaves a gap in the chain, or, if it was the last, the
\* account with what it moved.
LEMMA RowDeleted ==
    ASSUME BookInv, edited = "no", NEW k \in DOMAIN journal,
           journal' = SubSeq(journal, 1, k - 1) \o SubSeq(journal, k + 1, Len(journal)),
           UNCHANGED <<codes, cash, qty, cost, orders, halted, checked>>, edited' = "yes"
    PROVE  BookInv'
  <1>p. PICK p : p = journal[k].who
    OBVIOUS
  <1>1. /\ BookTypes /\ Integrity /\ ~checked /\ journal \in Seq(RowRec)
        /\ DOMAIN journal = 1..Len(journal) /\ Len(journal) \in Nat
    BY DEF BookInv, BooksBalance, BookTypes
  <1>2. /\ journal[k] \in RowRec /\ p \in People /\ k \in 1..Len(journal)
        /\ journal[k].cash \in Int /\ journal[k].qty \in Int
        /\ journal[k].kind \in {"deposit", "fill"}
    <2>1. journal[k] \in RowRec
      BY <1>1
    <2> QED BY <1>p, <1>1, <2>1 DEF RowRec
  <1>3. /\ journal' \in Seq(RowRec) /\ Len(journal') = Len(journal) - 1
        /\ \A j \in 1..Len(journal') : journal'[j] = IF j < k THEN journal[j] ELSE journal[j + 1]
    BY <1>1, Deleted
  <1>4. DOMAIN journal' = 1..(Len(journal) - 1)
    BY <1>3
  <1>5. BookTypes' /\ Strangers'
    <2>1. \A j \in DOMAIN journal' : \E i \in DOMAIN journal : journal'[j] = journal[i]
      <3> SUFFICES ASSUME NEW j \in 1..(Len(journal) - 1)
                   PROVE  \E i \in 1..Len(journal) : journal'[j] = journal[i]
        BY <1>1, <1>4
      <3>1. j \in 1..Len(journal) /\ j + 1 \in 1..Len(journal)
        BY <1>1
      <3> QED BY <1>3, <1>4, <3>1
    <2>2. \A j \in DOMAIN journal' : \E i \in DOMAIN journal :
              /\ journal'[j].kind = journal[i].kind /\ journal'[j].who = journal[i].who
              /\ journal'[j].cid = journal[i].cid
      BY <2>1
    <2> QED BY <1>1, <1>3, <2>2, EditedTypes DEF BookTypes
  <1>6. CASE k < Len(journal)
    <2>0. k \in 1..(Len(journal) - 1) /\ k \in Int /\ k + 1 # 1 /\ k + 1 \in 1..Len(journal)
          /\ ~(k < k)
      BY <1>1, <1>2, <1>6
    <2>1. /\ k \in DOMAIN journal' /\ journal'[k] = journal[k + 1] /\ k + 1 \in DOMAIN journal
          /\ k \in Int /\ k + 1 # 1
      BY <1>1, <1>3, <1>4, <2>0
    <2>2. \A j \in DOMAIN journal : journal[j].hash = <<j, 0>>
      <3>1. \A j \in DOMAIN journal : journal[j].hash = <<journal[j].at, journal[j].ver>>
        BY <1>1 DEF Integrity, ChainHolds
      <3>2. \A j \in DOMAIN journal : journal[j].at = j /\ journal[j].ver = 0
        BY DEF BookInv, Untouched, Moving
      <3> QED BY <3>1, <3>2
    <2>3. journal'[k].prev = <<k, 0>>
      <3>1. journal[k + 1].prev = IF k + 1 = 1 THEN Genesis ELSE journal[(k + 1) - 1].hash
        BY <1>1, <2>1 DEF Integrity, ChainHolds
      <3>2. (k + 1) - 1 = k
        BY <2>1
      <3> QED BY <2>1, <2>2, <3>1, <3>2
    <2>4. (IF k = 1 THEN Genesis ELSE journal'[k - 1].hash) # <<k, 0>>
      <3>1. CASE k = 1
        BY <3>1 DEF Genesis
      <3>2. CASE k # 1
        <4>1. k - 1 \in DOMAIN journal /\ k - 1 \in DOMAIN journal' /\ k - 1 < k /\ k - 1 # k
          BY <1>1, <1>2, <1>4, <3>2
        <4>2. journal'[k - 1] = journal[k - 1]
          BY <1>3, <1>4, <4>1
        <4> QED BY <2>2, <3>2, <4>1, <4>2
      <3> QED BY <3>1, <3>2
    <2>5. ~ChainHolds'
      <3> SUFFICES ASSUME ChainHolds' PROVE FALSE
        OBVIOUS
      <3>1. journal'[k].prev = IF k = 1 THEN Genesis ELSE journal'[k - 1].hash
        BY <2>1 DEF ChainHolds
      <3> QED BY <2>3, <2>4, <3>1
    <2> QED BY <1>1, <1>5, <2>5
            DEF BookInv, BooksBalance, Untouched, Discrepant, ChainBroken, NothingFromNothing,
                OneFillPerClientId, OneSeatPerInvite
  <1>7. CASE k = Len(journal)
    <2>1. \A j \in DOMAIN journal' : journal'[j] = journal[j]
      BY <1>1, <1>3, <1>4, <1>7
    <2>2. DOMAIN journal' = DOMAIN journal \ {k}
      BY <1>1, <1>2, <1>4, <1>7
    <2>3. Rows(p)' = Rows(p) \ {k} /\ k \in Rows(p)
      BY <1>p, <2>1, <2>2 DEF Rows
    <2> DEFINE f == [j \in DOMAIN journal |-> journal[j].cash]
               g == [j \in DOMAIN journal |-> journal[j].qty]
               ff == [j \in DOMAIN journal' |-> journal'[j].cash]
               gg == [j \in DOMAIN journal' |-> journal'[j].qty]
               R == Rows(p) \ {k}
    <2>4. IsFiniteSet(R) /\ IsFiniteSet(Rows(p)) /\ k \notin R /\ Rows(p) = R \cup {k}
      <3>1. IsFiniteSet(Rows(p))
        BY <1>1, RowsAreFew
      <3> QED BY <2>3, <3>1, FS_Subset
    <2>5. \A j \in R : f[j] \in Int /\ ff[j] = f[j] /\ g[j] \in Int /\ gg[j] = g[j]
      BY <1>1, <2>1, <2>2, RowsAreFew
    <2>6. f[k] = journal[k].cash /\ g[k] = journal[k].qty
      OBVIOUS
    <2>7. /\ JournalCash(p)' = Total(ff, Rows(p)') /\ JournalCash(p) = Total(f, Rows(p))
          /\ JournalQty(p)' = Total(gg, Rows(p)') /\ JournalQty(p) = Total(g, Rows(p))
      BY DEF JournalCash, JournalQty
    <2> HIDE DEF f, g, ff, gg, R
    <2>8. Total(f, R \cup {k}) = Total(ff, R) + journal[k].cash /\ Total(ff, R) \in Int
      <3>1. Ints(ff, R) /\ \A j \in R : f[j] = ff[j]
        BY <2>4, <2>5 DEF Ints
      <3>2. Total(f, R \cup {k}) = Total(ff, R) + f[k] /\ Total(ff, R) \in Int
        BY <1>2, <2>4, <2>6, <3>1, TotalGrows
      <3> QED BY <2>6, <3>2
    <2>9. Total(g, R \cup {k}) = Total(gg, R) + journal[k].qty /\ Total(gg, R) \in Int
      <3>1. Ints(gg, R) /\ \A j \in R : g[j] = gg[j]
        BY <2>4, <2>5 DEF Ints
      <3>2. Total(g, R \cup {k}) = Total(gg, R) + g[k] /\ Total(gg, R) \in Int
        BY <1>2, <2>4, <2>6, <3>1, TotalGrows
      <3> QED BY <2>6, <3>2
    <2>10. Rows(p)' = R
      BY <2>3 DEF R
    <2>11. /\ JournalCash(p) = JournalCash(p)' + journal[k].cash /\ JournalCash(p)' \in Int
           /\ JournalQty(p) = JournalQty(p)' + journal[k].qty /\ JournalQty(p)' \in Int
      BY ONLY <2>4, <2>7, <2>8, <2>9, <2>10, Zenon
    <2>12. journal[k].qty # 0 \/ journal[k].cash # 0
      BY DEF BookInv, Untouched, Moving
    <2>13. cash'[p] # JournalCash(p)' \/ qty'[p] # JournalQty(p)'
      <3>1. cash[p] = JournalCash(p) /\ qty[p] = JournalQty(p)
        BY <1>1, <1>2 DEF Integrity, CashMatches, PositionMatches
      <3> QED BY <1>2, <2>11, <2>12, <3>1
    <2>14. SumsDiffer(p)'
      BY <2>13 DEF SumsDiffer, CashMatches, PositionMatches
    <2> QED BY <1>1, <1>2, <1>5, <2>14
            DEF BookInv, BooksBalance, Untouched, Discrepant, NothingFromNothing,
                OneFillPerClientId, OneSeatPerInvite
  <1> QED BY <1>1, <1>2, <1>6, <1>7

\* An edit of the file leaves a difference.
LEMMA EditBooks == ASSUME BookInv, EditFile PROVE BookInv'
  <1>1. edited = "no" /\ edited' = "yes" /\ UNCHANGED <<codes, qty, cost, halted, checked>>
    BY DEF EditFile
  <1>2. CASE /\ \E p \in Joined : cash' = [cash EXCEPT ![p] = @ + 1]
             /\ UNCHANGED <<orders, journal>>
    BY <1>1, <1>2, CashEdited
  <1>3. CASE /\ \E o \in Filled : orders' = [orders EXCEPT ![o].cash = @ + 1]
             /\ UNCHANGED <<cash, journal>>
    BY <1>1, <1>3, OrderEdited
  <1>4. CASE /\ \E k \in DOMAIN journal, again \in BOOLEAN :
                   journal' = [journal EXCEPT ![k] = Forged(@, again)]
             /\ UNCHANGED <<cash, orders>>
    BY <1>1, <1>4, RowEdited
  <1>5. CASE /\ \E k \in DOMAIN journal :
                   journal' = SubSeq(journal, 1, k - 1) \o SubSeq(journal, k + 1, Len(journal))
             /\ UNCHANGED <<cash, orders>>
    BY <1>1, <1>5, RowDeleted
  <1> QED BY <1>2, <1>3, <1>4, <1>5 DEF EditFile

\* A repair is one only if everything adds up.
LEMMA RepairBooks == ASSUME BookInv, RepairFile PROVE BookInv'
  <1>1. /\ edited = "yes" /\ edited' = "repaired" /\ checked' = FALSE /\ Integrity'
        /\ UNCHANGED <<codes, qty, cost, orders, journal, halted>>
    BY DEF RepairFile
  <1>2. PICK p \in Joined : cash' = [cash EXCEPT ![p] = JournalCash(p)]
    BY DEF RepairFile
  <1>3. BookTypes /\ p \in People /\ JournalCash(p) \in Int
    BY RowsAreFew DEF BookInv, Joined
  <1>4. cash' \in [People -> Int] /\ \A q \in People \ Joined : cash'[q] = cash[q]
    BY <1>2, <1>3 DEF BookTypes
  <1>5. BookTypes' /\ Strangers'
    BY <1>1, <1>3, <1>4, EditedTypes DEF BookTypes
  <1> QED BY <1>1, <1>5
          DEF BookInv, BooksBalance, Untouched, NothingFromNothing, OneFillPerClientId,
              OneSeatPerInvite

-----------------------------------------------------------------------------
(* The steps of the contest.                                               *)

\* A difference is one that integrity() finds.
LEMMA DifferenceIsFound == ASSUME Discrepant PROVE ~Integrity
  BY DEF Discrepant, ChainBroken, SumsDiffer, OrderDiffers, Integrity, OrdersMatch

\* What a request in its slot is.
LEMMA RequestTypes ==
    ASSUME FlightInv, NEW s \in Slots, ~Free(s)
    PROVE  /\ req[s] \in Requests
           /\ req[s].kind = "signup" => req[s].who \in People /\ req[s].code \in Codes
           /\ req[s].kind # "signup" => req[s].price \in Prices
           /\ req[s].kind = "order" =>
                /\ req[s].who \in People /\ req[s].cid \in ClientIds
                /\ req[s].side \in {"buy", "sell"} /\ req[s].qty \in Nat \ {0}
  <1>1. req[s] \in Requests
    BY DEF FlightInv, Free
  <1> QED BY <1>1 DEF Requests

\* A step of a request keeps the books.
LEMMA SlotBooks ==
    ASSUME FlightInv, Sessions, BookInv, NEW s \in Slots, SlotStep(s)
    PROVE  BookInv'
  <1>q. ASSUME UNCHANGED <<codes, cash, qty, cost, orders, journal, halted, edited, checked>>
        PROVE  BookInv'
    BY <1>q, QuietBooks DEF Filled, Taken, BookInv, BookTypes
  <1>1. CASE SignupEnds(s)
    <2> DEFINE p == req[s].who
               c == req[s].code
    <2>1. p \in People /\ c \in Codes
      BY <1>1, RequestTypes DEF SignupEnds
    <2>2. CASE MaySignup(p, c)
      <3>1. /\ codes' = [codes EXCEPT ![c] = p] /\ cash' = [cash EXCEPT ![p] = InitialCash]
            /\ journal' = Journal("deposit", p, InitialCash, 0, None)
            /\ UNCHANGED <<qty, cost, orders, halted, edited, checked>>
        BY <1>1, <2>2 DEF SignupEnds, worldVars
      <3> HIDE DEF p, c
      <3> QED BY <2>1, <2>2, <3>1, SignupBooks
    <2>3. CASE ~MaySignup(p, c)
      BY <1>1, <1>q, <2>3 DEF SignupEnds, worldVars
    <2> QED BY <2>2, <2>3
  <1>2. CASE Look(s)
    BY <1>2, <1>q DEF Look, ledgerVars, worldVars
  <1>3. CASE Resume(s)
    <2>1. /\ ~Free(s) /\ req[s].kind # "signup" /\ UNCHANGED <<codes, halted, edited, checked>>
      BY <1>3 DEF Resume, worldVars
    <2>2. CASE req[s].kind = "order"
      <3>1. Place(req[s].who, req[s], req[s].price)
        BY <1>3, <2>2 DEF Resume
      <3>2. req[s].who \in Joined
        BY <2>1, <2>2 DEF Sessions, Admitted
      <3>3. /\ req[s].price \in Prices /\ req[s].cid \in ClientIds
            /\ req[s].side \in {"buy", "sell"} /\ req[s].qty \in Nat \ {0}
        BY <2>1, <2>2, RequestTypes
      <3> QED BY <2>1, <3>1, <3>2, <3>3, PlaceBooks
    <2>3. CASE req[s].kind # "order"
      BY <1>3, <1>q, <2>1, <2>3 DEF Resume, Tables
    <2> QED BY <2>2, <2>3
  <1>4. CASE \E p \in People, c \in Codes : Signup(s, p, c)
    BY <1>4, <1>q DEF Signup, ledgerVars, worldVars
  <1>5. ASSUME NEW p \in People, NEW ask \in Menu, Submit(s, p, ask)
        PROVE  BookInv'
    <2>1. UNCHANGED <<codes, halted, edited, checked>> /\ p \in Joined
      BY <1>5 DEF Submit, Guarded, worldVars, Sessions
    <2>2. CASE quote # None
      <3>1. Place(p, ask, quote) /\ quote \in Prices
        BY <1>5, <2>2 DEF Submit, Guarded, FlightInv
      <3>2. ask.cid \in ClientIds /\ ask.side \in {"buy", "sell"} /\ ask.qty \in Nat \ {0}
        BY ContestAssumption
      <3> QED BY <2>1, <3>1, <3>2, PlaceBooks
    <2>3. CASE quote = None
      BY <1>5, <1>q, <2>1, <2>3 DEF Submit, Guarded, Tables
    <2> QED BY <2>2, <2>3
  <1> QED BY <1>1, <1>2, <1>3, <1>4, <1>5 DEF SlotStep

\* Every step keeps the books.
LEMMA BookStays == ASSUME FlightInv, Sessions, BookInv, [Next]_vars PROVE BookInv'
  <1>q. ASSUME UNCHANGED <<codes, cash, qty, cost, orders, journal, halted, edited, checked>>
        PROVE  BookInv'
    BY <1>q, QuietBooks DEF Filled, Taken, BookInv, BookTypes
  <1>1. CASE CreateInvites
    <2>1. /\ codes' \in [Codes -> {Unissued, Unused} \cup People] /\ Taken' = Taken
          /\ \A c \in Taken : codes'[c] = codes[c]
      BY <1>1, ContestAssumption DEF CreateInvites, BookInv, BookTypes, Taken
    <2> QED BY <1>1, <2>1, QuietBooks DEF CreateInvites, Tables, worldVars, Filled, BookInv, BookTypes
  <1>2. CASE IntegrityOnce
    <2>1. checked' => edited = "yes" /\ halted'
      BY <1>2, DifferenceIsFound DEF IntegrityOnce, BookInv
    <2>2. halted' \in BOOLEAN /\ checked' \in BOOLEAN
      BY <1>2 DEF IntegrityOnce
    <2>3. UNCHANGED <<codes, cash, qty, cost, orders, journal, edited>>
      BY <1>2 DEF IntegrityOnce, Tables
    <2> QED BY <2>1, <2>2, <2>3, QuietBooks DEF Filled, Taken, BookInv, BookTypes
  <1>3. CASE AdminResume
    <2>1. ~checked /\ ~checked'
      BY <1>3, DifferenceIsFound DEF AdminResume, BookInv, worldVars
    <2>2. /\ UNCHANGED <<codes, cash, qty, cost, orders, journal, edited>>
          /\ halted' \in BOOLEAN /\ checked' = checked
      BY <1>3 DEF AdminResume, Tables, worldVars
    <2> QED BY <2>1, <2>2, QuietBooks DEF Filled, Taken, BookInv, BookTypes
  <1>4. CASE EditFile \/ RepairFile
    BY <1>4, EditBooks, RepairBooks
  <1>5. CASE \/ CallOnce \/ QuoteToken \/ Answer \/ CallFails \/ Throttled \/ TokenFails
             \/ QuoteExpires \/ PriceMoves \/ Crash \/ PeerSteps
             \/ (\E p \in People : Login(p) \/ SessionEnds(p)) \/ UNCHANGED vars
    <2>1. UNCHANGED <<codes, cash, qty, cost, orders, journal, halted, edited, checked>>
      BY <1>5 DEF CallOnce, QuoteToken, Answer, CallFails, Throttled, TokenFails, FlightFails,
                  QuoteExpires, PriceMoves, Crash, PeerSteps, Login, SessionEnds, vars, ledgerVars,
                  worldVars
    <2> QED BY <1>q, <2>1
  <1>6. CASE \E s \in Slots : SlotStep(s)
    BY <1>6, SlotBooks
  <1> QED BY <1>1, <1>2, <1>3, <1>4, <1>5, <1>6 DEF Next, SlotStep

\* A seat is not given back.
LEMMA SeatsStay == ASSUME BookTypes, [Next]_vars PROVE Joined \subseteq Joined'
  <1>1. CASE CreateInvites
    <2>1. \A c \in Codes : codes[c] \in People => codes'[c] = codes[c]
      BY <1>1, ContestAssumption DEF CreateInvites, BookTypes
    <2> QED BY <2>1 DEF Joined
  <1>2. ASSUME NEW s \in Slots, SignupEnds(s) PROVE Joined \subseteq Joined'
    <2>1. \A c \in Codes : codes[c] \in People => codes'[c] = codes[c]
      BY <1>2, ContestAssumption DEF SignupEnds, MaySignup, BookTypes
    <2> QED BY <2>1 DEF Joined
  <1>3. CASE UNCHANGED codes
    BY <1>3 DEF Joined
  <1>4. CreateInvites \/ (\E s \in Slots : SignupEnds(s)) \/ UNCHANGED codes
    BY DEF Next, CallOnce, QuoteToken, Answer, CallFails, Throttled, TokenFails, FlightFails,
           QuoteExpires, PriceMoves, Crash, PeerSteps, Login, SessionEnds, vars, ledgerVars,
           IntegrityOnce, AdminResume, EditFile, RepairFile, Look, Resume, Signup, Submit, Guarded
  <1> QED BY <1>1, <1>2, <1>3, <1>4

\* An order on its way is one that was, or one submitted by this step.
LEMMA AdmittedBefore ==
    ASSUME FlightInv, [Next]_vars, NEW s \in Admitted'
    PROVE  \/ s \in Admitted /\ req'[s].who = req[s].who
           \/ \E p \in People, ask \in Menu : /\ Submit(s, p, ask) /\ req'[s].who = p
  <1>0. s \in Slots /\ req'[s] # None /\ req'[s].kind = "order"
    BY DEF Admitted, Free
  <1>1. CASE UNCHANGED req
    BY <1>0, <1>1 DEF Admitted, Free
  <1>2. ASSUME NEW t \in Slots, Becomes(t, None)
        PROVE  s \in Admitted /\ req'[s].who = req[s].who
    BY <1>0, <1>2 DEF Becomes, FlightInv, Admitted, Free
  <1>3. ASSUME NEW t \in Slots, NEW r, Becomes(t, r), r.kind # "order"
        PROVE  s \in Admitted /\ req'[s].who = req[s].who
    BY <1>0, <1>3 DEF Becomes, FlightInv, Admitted, Free
  <1>4. ASSUME NEW t \in Slots, NEW p \in People, NEW ask \in Menu, Submit(t, p, ask)
        PROVE  \/ s \in Admitted /\ req'[s].who = req[s].who
               \/ Submit(s, p, ask) /\ req'[s].who = p
    <2>1. CASE quote # None
      BY <1>1, <1>4, <2>1 DEF Submit, Guarded, Admitted, Free
    <2>2. CASE quote = None
      <3>1. req' = [req EXCEPT ![t] = Order(p, ask)] /\ Order(p, ask).who = p
        BY <1>4, <2>2 DEF Submit, Guarded, Await, Becomes, Order
      <3>2. CASE s = t
        BY <1>0, <1>4, <3>1, <3>2 DEF FlightInv
      <3>3. CASE s # t
        BY <1>0, <3>1, <3>3 DEF FlightInv, Admitted, Free
      <3> QED BY <3>2, <3>3
    <2> QED BY <2>1, <2>2
  <1>5. CASE Answer
    <2>1. CASE s \in Waiting
      <3>1. req[s] \in Requests /\ s \in Slots /\ ~Free(s)
        BY <2>1 DEF Waiting, FlightInv, Free
      <3>2. req'[s] = [req[s] EXCEPT !.step = "got", !.price = px]
        BY <1>5, <2>1, <3>1 DEF Answer
      <3>3. req[s].kind # "signup"
        BY <2>1 DEF Waiting
      <3>4. req'[s].kind = req[s].kind
        BY <3>1, <3>2, <3>3 DEF Requests
      <3>5. req[s].kind = "order" => req'[s].who = req[s].who
        BY <3>1, <3>2 DEF Requests
      <3> QED BY <1>0, <3>1, <3>4, <3>5 DEF Admitted
    <2>2. CASE s \notin Waiting
      <3>1. req'[s] = req[s]
        BY <1>0, <1>5, <2>2 DEF Answer
      <3> QED BY <1>0, <3>1 DEF Admitted, Free
    <2> QED BY <2>1, <2>2
  <1>6. CASE FlightFails
    BY <1>0, <1>6 DEF FlightFails, Admitted, Free
  <1>7. CASE Crash
    BY <1>0, <1>7 DEF Crash
  <1>8. \/ UNCHANGED req \/ Answer \/ FlightFails \/ Crash
        \/ \E t \in Slots : SlotStep(t)
    BY DEF Next, CallOnce, QuoteToken, CallFails, Throttled, TokenFails, QuoteExpires, PriceMoves,
           PeerSteps, Login, SessionEnds, vars, procVars, IntegrityOnce, AdminResume, EditFile,
           RepairFile, CreateInvites, SlotStep
  <1>9. ASSUME NEW t \in Slots, SlotStep(t)
        PROVE  \/ s \in Admitted /\ req'[s].who = req[s].who
               \/ \E p \in People, ask \in Menu : /\ Submit(s, p, ask) /\ req'[s].who = p
    <2>1. CASE SignupEnds(t) \/ Resume(t)
      BY <1>2, <2>1 DEF SignupEnds, Resume
    <2>2. CASE Look(t)
      BY <1>3, <2>2 DEF Look, Await, Asking
    <2>3. ASSUME NEW p \in People, NEW c \in Codes, Signup(t, p, c)
          PROVE  s \in Admitted /\ req'[s].who = req[s].who
      <3> DEFINE r == [kind |-> "signup", who |-> p, code |-> c]
      <3>1. Becomes(t, r) /\ r.kind # "order"
        BY <2>3 DEF Signup
      <3> HIDE DEF r
      <3> QED BY <1>3, <3>1
    <2> QED BY <1>4, <1>9, <2>1, <2>2, <2>3 DEF SlotStep
  <1> QED BY <1>1, <1>5, <1>6, <1>7, <1>8, <1>9

\* Every step leaves sessions and orders on their way to those who signed up.
LEMMA SessionsStay ==
    ASSUME FlightInv, BookInv, Sessions, [Next]_vars
    PROVE  Sessions'
  <1>1. Joined \subseteq Joined'
    BY SeatsStay DEF BookInv
  <1>2. ASSUME NEW s \in Admitted' PROVE req'[s].who \in Joined'
    <2>1. CASE s \in Admitted /\ req'[s].who = req[s].who
      BY <1>1, <2>1 DEF Sessions
    <2>2. ASSUME NEW p \in People, NEW ask \in Menu, Submit(s, p, ask), req'[s].who = p
          PROVE  req'[s].who \in Joined'
      BY <1>1, <2>2 DEF Submit, Guarded, Sessions
    <2> QED BY <2>1, <2>2, AdmittedBefore
  <1>3. session' \subseteq Joined'
    <2>1. CASE session' \subseteq session
      BY <1>1, <2>1 DEF Sessions
    <2>2. ASSUME NEW p \in People, Login(p) PROVE session' \subseteq Joined'
      BY <1>1, <2>2 DEF Login, Sessions
    <2>3. ASSUME NEW s \in Slots, SignupEnds(s), ~(session' \subseteq session)
          PROVE  session' \subseteq Joined'
      <3> DEFINE p == req[s].who
                 c == req[s].code
      <3>1. /\ codes' = [codes EXCEPT ![c] = p] /\ session' = session \cup {p}
            /\ p \in People /\ c \in Codes
        BY <2>3, RequestTypes DEF SignupEnds
      <3>2. p \in Joined'
        <4> HIDE DEF p, c
        <4>1. codes'[c] = p
          BY <3>1 DEF BookInv, BookTypes
        <4>2. \A q \in People : (\E e \in Codes : codes'[e] = q) => q \in Joined'
          BY DEF Joined
        <4> QED BY <3>1, <4>1, <4>2
      <3> QED BY <1>1, <3>1, <3>2 DEF Sessions
    <2>4. \/ session' \subseteq session \/ (\E p \in People : Login(p))
          \/ \E s \in Slots : SignupEnds(s)
      BY DEF Next, CallOnce, QuoteToken, Answer, CallFails, Throttled, TokenFails, FlightFails,
             QuoteExpires, PriceMoves, Crash, PeerSteps, SessionEnds, vars, procVars,
             IntegrityOnce, AdminResume, EditFile, RepairFile, CreateInvites, Look, Resume,
             Signup, Submit, Guarded
    <2> QED BY <2>1, <2>2, <2>3, <2>4
  <1> QED BY <1>2, <1>3 DEF Sessions

\* The invariant of the contest: its token, its quotes, its sessions and books.
Inv == TokenInv /\ FlightInv /\ Sessions /\ BookInv

\* At first the journal is empty, and the books balance.
LEMMA InvStarts == Init => Inv
  <1> SUFFICES ASSUME Init PROVE Inv
    OBVIOUS
  <1>1. /\ codes = [c \in Codes |-> Unissued] /\ journal = <<>> /\ DOMAIN journal = {}
        /\ cash = [p \in People |-> 0] /\ qty = [p \in People |-> 0]
        /\ cost = [p \in People |-> 0] /\ orders = [o \in People \X ClientIds |-> None]
        /\ session = {} /\ halted = FALSE /\ edited = "no" /\ checked = FALSE
    BY DEF Init
  <1>2. Joined = {} /\ Fills = {} /\ Filled = {} /\ Taken = {} /\ \A p : Rows(p) = {}
    BY <1>1, ContestAssumption DEF Joined, Fills, Filled, Taken, Rows
  <1>3. TokenInv /\ FlightInv
    BY TokenStarts, FlightStarts
  <1>4. Sessions
    BY <1>1, <1>2 DEF Init, Sessions, Admitted, Free
  <1>5. BookTypes
    <2>1. codes \in [Codes -> {Unissued, Unused} \cup People]
      BY <1>1
    <2>2. cash \in [People -> Int] /\ qty \in [People -> Int] /\ cost \in [People -> Int]
      BY <1>1
    <2>3. orders \in [People \X ClientIds -> OrderRec \cup {None}]
      BY <1>1
    <2>4. journal \in Seq(RowRec)
      BY <1>1, EmptySeq
    <2> QED BY <1>1, <1>2, <2>1, <2>2, <2>3, <2>4 DEF BookTypes
  <1>6. \A p \in People : CashMatches(p) /\ PositionMatches(p)
    <2> SUFFICES ASSUME NEW p \in People PROVE JournalCash(p) = 0 /\ JournalQty(p) = 0
      BY <1>1 DEF CashMatches, PositionMatches
    <2>1. \A f : Total(f, {}) = 0
      BY SumEmpty DEF Total, SumOf
    <2>2. JournalCash(p) = Total([k \in DOMAIN journal |-> journal[k].cash], {})
      BY <1>2 DEF JournalCash
    <2>3. JournalQty(p) = Total([k \in DOMAIN journal |-> journal[k].qty], {})
      BY <1>2 DEF JournalQty
    <2> QED BY <2>1, <2>2, <2>3
  <1>7. Integrity
    BY <1>1, <1>2, <1>6 DEF Integrity, ChainHolds, OrdersMatch
  <1>8. NothingFromNothing /\ OneFillPerClientId
    BY <1>1, <1>2 DEF NothingFromNothing, OneFillPerClientId
  <1>9. OneSeatPerInvite
    <2>1. DOMAIN journal \ Fills = {} /\ {c \in Codes : codes[c] \in People} = {}
      BY <1>1, <1>2 DEF Taken
    <2>2. Cardinality(DOMAIN journal \ Fills) = Cardinality({c \in Codes : codes[c] \in People})
      BY ONLY <2>1, Zenon
    <2> QED BY <2>2 DEF OneSeatPerInvite
  <1> QED BY <1>1, <1>2, <1>3, <1>4, <1>5, <1>7, <1>8, <1>9
          DEF Inv, BookInv, Strangers, BooksBalance, Untouched

\* The books rest on: every account is what its rows add up to, a row is
\* written once per order and seat, and an edit of the file leaves a difference
\* that no step of the program takes away.  Inductive.
THEOREM ContestInvariant == Spec => []Inv
  <1>1. Init => Inv
    BY InvStarts
  <1>2. Inv /\ [Next]_vars => Inv'
    BY TokenStays, FlightStays, SessionsStay, BookStays DEF Inv
  <1> QED BY <1>1, <1>2, PTL DEF Spec

\* Accounts, orders and journal agree, nobody spends what he does not have, a
\* client order id is filled once and an invite gives one seat; an edited file
\* that was checked stays halted (ContestLedger, integrity_once).
THEOREM BooksStaySound == Spec => []BooksAreSound
  <1>1. Inv => BooksAreSound
    BY DEF Inv, TokenInv, FlightInv, BookInv, BookTypes, Untouched, BooksAreSound, TypeOK,
           BadBooksHalt
  <1> QED BY <1>1, ContestInvariant, PTL

\* KIS is asked for one token per life of a token, and nobody waits for a quote
\* that is not fetched (adapters/kis_token.py, Contest.price).
THEOREM QuotesStayShared == Spec => []QuotesAreShared
  <1>1. Inv => QuotesAreShared
    BY DEF Inv, TokenInv, FlightInv, QuotesAreShared, OneIssuePerLife
  <1> QED BY <1>1, ContestInvariant, PTL
=============================================================================
