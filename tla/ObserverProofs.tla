---------------------------- MODULE ObserverProofs ----------------------------
(***************************************************************************)
(* The account of exchanges, for any number of exchanges, connections and  *)
(* faults and any limits: the type invariant, and with it that the hand-   *)
(* off, every ledger and the registration of clients are right in every    *)
(* reachable state.                                                        *)
(*                                                                         *)
(* The invariants are not inductive one by one.  A ledger balances after   *)
(* next_message only if no exchange is in flight already, which holds      *)
(* because the writer is suspended in its live send while one is; an offer *)
(* extends a ledger by one only if the connection is open, which is what   *)
(* being registered means; and a publication leaves the ledger of a closed *)
(* connection alone only because it is not registered any more.            *)
(*                                                                         *)
(* The second half is about connections that end and about bounds:         *)
(*   - why connections closed: no step of the program closes two           *)
(*     connections with a counted code and counts one, and none reopens    *)
(*     or changes what a closed connection records;                        *)
(*   - the totals over closed connections: closed_totals is a sum over     *)
(*     sets that change with every fold, and no step moves the ledger of a *)
(*     connection that is closed and has nothing under way (Final);        *)
(*   - the bounds of the buffers: each method keeps a queue within its     *)
(*     limits and its count of bytes equal to what it holds;               *)
(*   - who is forced out: while a queue refuses, its writer has taken      *)
(*     nothing since the overflow began.                                   *)
(*                                                                         *)
(* Before that, the two buffers, whatever their limits.  What the history  *)
(* ring holds and hands out are sequences of exchanges: no eviction takes  *)
(* more than there is, and a client is never given more than its limit.    *)
(* Each method of a connection keeps the three identities of its ledger;   *)
(* the lemmas also say what it does to the close code, to the exchange in  *)
(* flight and to the count of unknowns, which is what the invariants need  *)
(* of it.  A sum over a set is a fold, that is a recursive function: what  *)
(* it does with one element more or less is shown by induction on the size *)
(* of the set, for the members of a set of numbers (NatSetInduction).      *)
(***************************************************************************)
EXTENDS Observer, FiniteSetTheorems, TLAPS


-----------------------------------------------------------------------------
(* Sums. *)

(* Induction over the natural numbers, for the members of a set: a set that   *)
(* is not all of them misses a smallest one.                                  *)
LEMMA NatSetInduction ==
    ASSUME NEW S \in SUBSET Nat, 0 \in S, \A n \in S : n + 1 \in S
    PROVE  \A n \in Nat : n \in S
<1> SUFFICES ASSUME NEW n \in Nat, n \notin S
             PROVE  FALSE
  OBVIOUS
<1> DEFINE T == Nat \ S
           R == OpToRel(<, Nat)
<1>1. IsWellFoundedOn(R, Nat) /\ T \subseteq Nat /\ T # {}
  BY NatLessThanWellFounded
<1>2. R = {ss \in Nat \X Nat : ss[1] < ss[2]}
  BY DEF OpToRel
<1> HIDE DEF R
<1>3. PICK x \in T : \A y \in T : <<y, x>> \notin R
  <2> HIDE DEF T
  <2> QED
    BY <1>1, WFMin
<1>4. x # 0 /\ x - 1 \in Nat /\ x - 1 \notin S
  OBVIOUS
<1>5. <<x - 1, x>> \in R
  BY <1>4, <1>2
<1> QED
  BY <1>3, <1>4, <1>5

(* What a fold computes when it sums f over the subsets of S: the value of one *)
(* of its elements and of the rest.                                            *)
Element(s) == CHOOSE x \in s : TRUE
IsSumOver(g, f, S) ==
    g = [s \in S |-> IF s = {} THEN 0 ELSE f[Element(s)] + g[s \ {Element(s)}]]

LEMMA SumIsFold ==
    ASSUME NEW f, NEW S
    PROVE  SumFunctionOnSet(f, S) = (CHOOSE g : IsSumOver(g, f, SUBSET S))[S]
BY DEF SumFunctionOnSet, FoldFunctionOnSet, MapThenFoldSet, IsSumOver, Element

(* A set that is not empty has the chosen element, and one fewer without it. *)
LEMMA ElementLeaves ==
    ASSUME NEW s, IsFiniteSet(s), s # {}
    PROVE  /\ Element(s) \in s
           /\ IsFiniteSet(s \ {Element(s)})
           /\ Cardinality(s) \in Nat \ {0}
           /\ Cardinality(s \ {Element(s)}) = Cardinality(s) - 1
<1>1. Element(s) \in s
  BY DEF Element
<1>2. Cardinality(s) \in Nat /\ Cardinality(s) # 0
  BY FS_CardinalityType, FS_EmptySet
<1> QED
  BY <1>1, <1>2, FS_RemoveElement

(* The subsets of S with at most n elements. *)
UpTo(S, n) == {s \in SUBSET S : Cardinality(s) <= n}

(* There is such a fold, one size after the other. *)
LEMMA FoldExists ==
    ASSUME NEW S, IsFiniteSet(S), NEW f, \A x \in S : f[x] \in Int
    PROVE  \E g : IsSumOver(g, f, SUBSET S) /\ g \in [SUBSET S -> Int]
<1> DEFINE N == {n \in Nat : \E g : IsSumOver(g, f, UpTo(S, n)) /\ g \in [UpTo(S, n) -> Int]}
<1>0. \A s \in SUBSET S : IsFiniteSet(s) /\ Cardinality(s) \in Nat
  BY FS_Subset, FS_CardinalityType
<1>1. 0 \in N
  <2>1. \A s \in UpTo(S, 0) : s = {}
    BY <1>0, FS_EmptySet DEF UpTo
  <2> DEFINE g == [s \in UpTo(S, 0) |-> 0]
  <2>2. g = [s \in UpTo(S, 0) |-> IF s = {} THEN 0 ELSE f[Element(s)] + g[s \ {Element(s)}]]
    BY <2>1
  <2>3. IsSumOver(g, f, UpTo(S, 0))
    BY <2>2 DEF IsSumOver
  <2>4. g \in [UpTo(S, 0) -> Int]
    OBVIOUS
  <2> HIDE DEF g
  <2> QED
    BY <2>3, <2>4
<1>2. ASSUME NEW n \in N
      PROVE  n + 1 \in N
  <2>1. n \in Nat /\ n + 1 \in Nat
    OBVIOUS
  <2>2. PICK g : IsSumOver(g, f, UpTo(S, n)) /\ g \in [UpTo(S, n) -> Int]
    BY <1>2
  <2> DEFINE h == [s \in UpTo(S, n + 1) |->
                      IF s = {} THEN 0 ELSE f[Element(s)] + g[s \ {Element(s)}]]
  <2>3. ASSUME NEW s \in UpTo(S, n + 1), s # {}
        PROVE  /\ s \ {Element(s)} \in UpTo(S, n)
               /\ f[Element(s)] \in Int
               /\ g[s \ {Element(s)}] \in Int
               /\ h[s \ {Element(s)}] = g[s \ {Element(s)}]
    <3> DEFINE r == s \ {Element(s)}
    <3>1. IsFiniteSet(s) /\ s \in SUBSET S /\ Cardinality(s) \in Nat /\ Cardinality(s) <= n + 1
      BY <1>0 DEF UpTo
    <3>2. /\ Element(s) \in s /\ Cardinality(r) = Cardinality(s) - 1
          /\ Cardinality(s) \in Nat \ {0}
      BY <3>1, <2>3, ElementLeaves
    <3>3. r \in UpTo(S, n) /\ r \in UpTo(S, n + 1)
      BY <3>1, <3>2, <2>1 DEF UpTo
    <3>4. g[r] = IF r = {} THEN 0 ELSE f[Element(r)] + g[r \ {Element(r)}]
      <4> HIDE DEF r
      <4> QED
        BY <2>2, <3>3 DEF IsSumOver
    <3>5. h[r] = IF r = {} THEN 0 ELSE f[Element(r)] + g[r \ {Element(r)}]
      BY <3>3
    <3>6. f[Element(s)] \in Int
      BY <3>1, <3>2
    <3>7. g[r] \in Int
      BY <2>2, <3>3
    <3> QED
      BY <3>3, <3>4, <3>5, <3>6, <3>7
  <2>4. h = [s \in UpTo(S, n + 1) |-> IF s = {} THEN 0 ELSE f[Element(s)] + h[s \ {Element(s)}]]
    <3>1. \A s \in UpTo(S, n + 1) :
             h[s] = IF s = {} THEN 0 ELSE f[Element(s)] + g[s \ {Element(s)}]
      OBVIOUS
    <3>2. DOMAIN h = UpTo(S, n + 1) /\ h = [s \in UpTo(S, n + 1) |-> h[s]]
      OBVIOUS
    <3> HIDE DEF h
    <3>3. \A s \in UpTo(S, n + 1) :
             h[s] = IF s = {} THEN 0 ELSE f[Element(s)] + h[s \ {Element(s)}]
      BY <3>1, <2>3
    <3> QED
      BY <3>2, <3>3
  <2>5. h \in [UpTo(S, n + 1) -> Int]
    <3>1. \A s \in UpTo(S, n + 1) :
             (IF s = {} THEN 0 ELSE f[Element(s)] + g[s \ {Element(s)}]) \in Int
      <4> SUFFICES ASSUME NEW s \in UpTo(S, n + 1)
                   PROVE  (IF s = {} THEN 0 ELSE f[Element(s)] + g[s \ {Element(s)}]) \in Int
        OBVIOUS
      <4>1. CASE s # {}
        <5>1. f[Element(s)] \in Int /\ g[s \ {Element(s)}] \in Int
          BY <4>1, <2>3
        <5> QED
          BY <4>1, <5>1
      <4> QED
        BY <4>1
    <3> QED
      BY <3>1
  <2> HIDE DEF h
  <2>6. IsSumOver(h, f, UpTo(S, n + 1))
    BY <2>4 DEF IsSumOver
  <2> QED
    BY <2>1, <2>5, <2>6
<1>3. Cardinality(S) \in N
  <2> HIDE DEF N
  <2>1. N \in SUBSET Nat
    BY DEF N
  <2> QED
    BY <1>0, <1>1, <1>2, <2>1, NatSetInduction
<1>4. UpTo(S, Cardinality(S)) = SUBSET S
  BY FS_Subset, <1>0 DEF UpTo
<1> QED
  BY <1>3, <1>4

(* Folds over the subsets of S and of a subset of S agree on what they share. *)
LEMMA FoldsAgree ==
    ASSUME NEW S, NEW T \in SUBSET S, IsFiniteSet(T), NEW f, NEW g, NEW h,
           IsSumOver(g, f, SUBSET S), IsSumOver(h, f, SUBSET T)
    PROVE  g[T] = h[T]
<1> DEFINE N == {n \in Nat : \A s \in SUBSET T : Cardinality(s) = n => g[s] = h[s]}
<1>0. \A s \in SUBSET T : IsFiniteSet(s) /\ Cardinality(s) \in Nat
  BY FS_Subset, FS_CardinalityType
<1>1. ASSUME NEW s \in SUBSET T
      PROVE  /\ g[s] = IF s = {} THEN 0 ELSE f[Element(s)] + g[s \ {Element(s)}]
             /\ h[s] = IF s = {} THEN 0 ELSE f[Element(s)] + h[s \ {Element(s)}]
  <2>1. s \in SUBSET S
    OBVIOUS
  <2>2. g[s] = IF s = {} THEN 0 ELSE f[Element(s)] + g[s \ {Element(s)}]
    BY <2>1 DEF IsSumOver
  <2>3. h[s] = IF s = {} THEN 0 ELSE f[Element(s)] + h[s \ {Element(s)}]
    BY DEF IsSumOver
  <2> QED
    BY <2>2, <2>3
<1>2. 0 \in N
  BY <1>0, <1>1, FS_EmptySet
<1>3. ASSUME NEW n \in N
      PROVE  n + 1 \in N
  <2> SUFFICES ASSUME NEW s \in SUBSET T, Cardinality(s) = n + 1
               PROVE  g[s] = h[s]
    OBVIOUS
  <2>1. n \in Nat
    OBVIOUS
  <2>2. CASE s = {}
    BY <2>2, <1>1
  <2>3. CASE s # {}
    <3>1. Cardinality(s \ {Element(s)}) = n
      BY <1>0, <2>1, <2>3, ElementLeaves
    <3>2. s \ {Element(s)} \in SUBSET T
      OBVIOUS
    <3>3. g[s \ {Element(s)}] = h[s \ {Element(s)}]
      BY <3>1, <3>2
    <3> HIDE DEF N
    <3> QED
      BY <2>3, <3>3, <1>1
  <2> QED
    BY <2>2, <2>3
<1>4. Cardinality(T) \in N
  <2> HIDE DEF N
  <2>1. N \in SUBSET Nat
    BY DEF N
  <2> QED
    BY <1>0, <1>2, <1>3, <2>1, NatSetInduction
<1> QED
  BY <1>4

(* A sum over a finite set is one of its elements' values and the sum of the rest. *)
LEMMA SumTakesElement ==
    ASSUME NEW S, IsFiniteSet(S), NEW f, \A x \in S : f[x] \in Int
    PROVE  /\ SumFunctionOnSet(f, S) \in Int
           /\ S = {} => SumFunctionOnSet(f, S) = 0
           /\ S # {} => SumFunctionOnSet(f, S)
                            = f[Element(S)] + SumFunctionOnSet(f, S \ {Element(S)})
<1> DEFINE g == CHOOSE g : IsSumOver(g, f, SUBSET S)
           T == S \ {Element(S)}
           h == CHOOSE h : IsSumOver(h, f, SUBSET T)
<1>1. SumFunctionOnSet(f, S) = g[S] /\ SumFunctionOnSet(f, T) = h[T]
  BY SumIsFold
<1>2. IsSumOver(g, f, SUBSET S)
  BY FoldExists
<1>3. IsFiniteSet(T) /\ T \in SUBSET S /\ \A x \in T : f[x] \in Int
  BY FS_Subset
<1>4. IsSumOver(h, f, SUBSET T)
  <2> HIDE DEF T
  <2> QED
    BY <1>3, FoldExists
<1> HIDE DEF g, h
<1>5. g[T] = h[T]
  <2> HIDE DEF T
  <2> QED
    BY <1>2, <1>3, <1>4, FoldsAgree
<1>6. g[S] = IF S = {} THEN 0 ELSE f[Element(S)] + g[T]
  BY <1>2 DEF IsSumOver
<1>7. g[S] \in Int
  <2>1. PICK q : IsSumOver(q, f, SUBSET S) /\ q \in [SUBSET S -> Int]
    BY FoldExists
  <2>2. g[S] = q[S]
    BY <1>2, <2>1, FoldsAgree
  <2> QED
    BY <2>1, <2>2
<1> QED
  BY <1>1, <1>5, <1>6, <1>7

(* ... whichever element it is. *)
LEMMA SumTakesAny ==
    ASSUME NEW S, IsFiniteSet(S), NEW f, \A x \in S : f[x] \in Int, NEW x \in S
    PROVE  SumFunctionOnSet(f, S) = f[x] + SumFunctionOnSet(f, S \ {x})
<1> DEFINE Sum(s) == SumFunctionOnSet(f, s)
           N == {n \in Nat : \A s \in SUBSET S : Cardinality(s) = n
                                => \A y \in s : Sum(s) = f[y] + Sum(s \ {y})}
<1>0. ASSUME NEW s \in SUBSET S
      PROVE  /\ IsFiniteSet(s) /\ Cardinality(s) \in Nat
             /\ Sum(s) \in Int
             /\ s # {} => /\ Element(s) \in s
                          /\ Sum(s) = f[Element(s)] + Sum(s \ {Element(s)})
             /\ \A y \in s : Cardinality(s \ {y}) = Cardinality(s) - 1
  <2>1. IsFiniteSet(s) /\ Cardinality(s) \in Nat
    BY FS_Subset, FS_CardinalityType
  <2>2. \A y \in s : f[y] \in Int
    OBVIOUS
  <2> QED
    BY <2>1, <2>2, SumTakesElement, ElementLeaves, FS_RemoveElement
<1> HIDE DEF Sum
<1>1. 0 \in N
  BY <1>0, FS_EmptySet
<1>2. ASSUME NEW n \in N
      PROVE  n + 1 \in N
  <2> SUFFICES ASSUME NEW s \in SUBSET S, Cardinality(s) = n + 1, NEW y \in s
               PROVE  Sum(s) = f[y] + Sum(s \ {y})
    OBVIOUS
  <2> DEFINE e == Element(s)
  <2>1. n \in Nat /\ s # {} /\ e \in s /\ Sum(s) = f[e] + Sum(s \ {e})
    BY <1>0
  <2>2. CASE y = e
    BY <2>1, <2>2
  <2>3. CASE y # e
    <3>1. /\ Cardinality(s \ {e}) = n /\ s \ {e} \in SUBSET S /\ y \in s \ {e}
          /\ Cardinality(s \ {y}) = n /\ s \ {y} \in SUBSET S /\ e \in s \ {y}
      <4>1. s \ {e} \in SUBSET S /\ y \in s \ {e} /\ s \ {y} \in SUBSET S /\ e \in s \ {y}
        BY <2>1, <2>3
      <4>2. ASSUME NEW z \in s
            PROVE  Cardinality(s \ {z}) = n
        <5>1. Cardinality(s \ {z}) = Cardinality(s) - 1
          BY <1>0
        <5> HIDE DEF N
        <5> QED
          BY <5>1, <2>1
      <4> QED
        BY <4>1, <4>2, <2>1
    <3>2. /\ Sum(s \ {e}) = f[y] + Sum((s \ {e}) \ {y})
          /\ Sum(s \ {y}) = f[e] + Sum((s \ {y}) \ {e})
      BY <3>1
    <3>3. (s \ {e}) \ {y} = (s \ {y}) \ {e} /\ (s \ {e}) \ {y} \in SUBSET S
      OBVIOUS
    <3>4. f[e] \in Int /\ f[y] \in Int /\ Sum((s \ {e}) \ {y}) \in Int
      BY <2>1, <3>3, <1>0
    <3>5. PICK z \in Int : z = Sum((s \ {e}) \ {y})
      BY <3>4
    <3>6. Sum(s \ {e}) = f[y] + z /\ Sum(s \ {y}) = f[e] + z
      BY <3>2, <3>3, <3>5
    <3> HIDE DEF e, N
    <3>7. Sum(s) = f[e] + (f[y] + z)
      BY <2>1, <3>6
    <3>8. f[y] + Sum(s \ {y}) = f[y] + (f[e] + z)
      BY <3>6
    <3>9. f[e] + (f[y] + z) = f[y] + (f[e] + z)
      BY <3>4, <3>5
    <3> QED
      BY <3>7, <3>8, <3>9
  <2> QED
    BY <2>2, <2>3
<1>3. Cardinality(S) \in N
  <2> HIDE DEF N
  <2>1. N \in SUBSET Nat
    BY DEF N
  <2> QED
    BY <1>0, <1>1, <1>2, <2>1, NatSetInduction
<1> QED
  BY <1>3 DEF Sum

(* Finite subsets of a set, by their size: what holds of the empty set and of *)
(* each with one element more than one for which it holds is true of all.      *)
LEMMA SubsetInduction ==
    ASSUME NEW S, IsFiniteSet(S), NEW P \in SUBSET (SUBSET S), {} \in P,
           \A s \in P : \A x \in S \ s : s \union {x} \in P
    PROVE  S \in P
<1> DEFINE N == {n \in Nat : \A s \in SUBSET S : Cardinality(s) = n => s \in P}
<1>0. \A s \in SUBSET S : IsFiniteSet(s) /\ Cardinality(s) \in Nat
  BY FS_Subset, FS_CardinalityType
<1>1. 0 \in N
  BY <1>0, FS_EmptySet
<1>2. ASSUME NEW n \in N
      PROVE  n + 1 \in N
  <2> SUFFICES ASSUME NEW s \in SUBSET S, Cardinality(s) = n + 1
               PROVE  s \in P
    OBVIOUS
  <2>1. n \in Nat /\ s # {}
    <3>1. n \in Nat /\ n + 1 # 0
      OBVIOUS
    <3>2. Cardinality({}) = 0
      BY FS_EmptySet
    <3> QED
      BY <3>1, <3>2
  <2>2. PICK x \in s : TRUE
    BY <2>1
  <2>3. Cardinality(s \ {x}) = n /\ s \ {x} \in SUBSET S
    BY <2>1, <1>0, FS_RemoveElement
  <2>4. s \ {x} \in P
    BY <2>3
  <2>5. s = (s \ {x}) \union {x} /\ x \in S \ (s \ {x})
    OBVIOUS
  <2> HIDE DEF N
  <2> QED
    BY <2>4, <2>5
<1>3. Cardinality(S) \in N
  <2> HIDE DEF N
  <2>1. N \in SUBSET Nat
    BY DEF N
  <2> QED
    BY <1>0, <1>1, <1>2, <2>1, NatSetInduction
<1> QED
  BY <1>3

(* A sum over a set with one element more. *)
LEMMA SumAdds ==
    ASSUME NEW S, IsFiniteSet(S), NEW x, x \notin S, NEW f, \A y \in S \union {x} : f[y] \in Int
    PROVE  /\ SumFunctionOnSet(f, S \union {x}) = SumFunctionOnSet(f, S) + f[x]
           /\ SumFunctionOnSet(f, S) \in Int
<1>1. IsFiniteSet(S \union {x}) /\ (S \union {x}) \ {x} = S
  BY FS_AddElement
<1>2. SumFunctionOnSet(f, S) \in Int
  BY SumTakesElement
<1>3. SumFunctionOnSet(f, S \union {x}) = f[x] + SumFunctionOnSet(f, (S \union {x}) \ {x})
  BY <1>1, SumTakesAny
<1>4. f[x] \in Int
  OBVIOUS
<1>5. SumFunctionOnSet(f, S \union {x}) = f[x] + SumFunctionOnSet(f, S)
  BY <1>1, <1>3
<1> QED
  BY <1>2, <1>4, <1>5

(* A sum depends on the values summed only. *)
LEMMA SumsAreEqual ==
    ASSUME NEW S, IsFiniteSet(S), NEW f, NEW g, \A x \in S : f[x] \in Int /\ g[x] = f[x]
    PROVE  SumFunctionOnSet(g, S) = SumFunctionOnSet(f, S)
<1> DEFINE P == {s \in SUBSET S : SumFunctionOnSet(g, s) = SumFunctionOnSet(f, s)}
<1>1. {} \in P
  BY FS_EmptySet, SumTakesElement
<1>2. ASSUME NEW s \in P, NEW x \in S \ s
      PROVE  s \union {x} \in P
  <2>1. IsFiniteSet(s) /\ x \notin s /\ \A y \in s \union {x} : f[y] \in Int /\ g[y] \in Int
    BY FS_Subset
  <2>2. SumFunctionOnSet(f, s \union {x}) = SumFunctionOnSet(f, s) + f[x]
    BY <2>1, SumAdds
  <2>3. SumFunctionOnSet(g, s \union {x}) = SumFunctionOnSet(g, s) + g[x]
    BY <2>1, SumAdds
  <2> QED
    BY <2>2, <2>3
<1>3. S \in P
  <2> HIDE DEF P
  <2>1. P \in SUBSET (SUBSET S)
    BY DEF P
  <2> QED
    BY <1>1, <1>2, <2>1, SubsetInduction
<1> QED
  BY <1>3

(* The sum over two sets that share nothing. *)
LEMMA SumOfUnion ==
    ASSUME NEW S, NEW T, IsFiniteSet(S), IsFiniteSet(T), S \cap T = {},
           NEW f, \A x \in S \union T : f[x] \in Int
    PROVE  SumFunctionOnSet(f, S \union T) = SumFunctionOnSet(f, S) + SumFunctionOnSet(f, T)
<1> DEFINE P == {t \in SUBSET T : SumFunctionOnSet(f, S \union t)
                                     = SumFunctionOnSet(f, S) + SumFunctionOnSet(f, t)}
<1>0. SumFunctionOnSet(f, S) \in Int /\ SumFunctionOnSet(f, {}) = 0
  BY FS_EmptySet, SumTakesElement
<1>1. {} \in P
  <2>1. S \union {} = S
    OBVIOUS
  <2> QED
    BY <1>0, <2>1
<1>2. ASSUME NEW t \in P, NEW x \in T \ t
      PROVE  t \union {x} \in P
  <2>1. /\ IsFiniteSet(t) /\ IsFiniteSet(S \union t) /\ x \notin t /\ x \notin S \union t
        /\ S \union (t \union {x}) = (S \union t) \union {x}
    BY FS_Subset, FS_Union
  <2>2. /\ SumFunctionOnSet(f, t \union {x}) = SumFunctionOnSet(f, t) + f[x]
        /\ SumFunctionOnSet(f, t) \in Int
    BY <2>1, SumAdds
  <2>3. SumFunctionOnSet(f, (S \union t) \union {x}) = SumFunctionOnSet(f, S \union t) + f[x]
    BY <2>1, SumAdds
  <2>4. f[x] \in Int /\ t \union {x} \in SUBSET T
    OBVIOUS
  <2>5. SumFunctionOnSet(f, S \union t) = SumFunctionOnSet(f, S) + SumFunctionOnSet(f, t)
    OBVIOUS
  <2>6. SumFunctionOnSet(f, S \union (t \union {x}))
            = (SumFunctionOnSet(f, S) + SumFunctionOnSet(f, t)) + f[x]
    BY <2>1, <2>3, <2>5
  <2>7. (SumFunctionOnSet(f, S) + SumFunctionOnSet(f, t)) + f[x]
            = SumFunctionOnSet(f, S) + (SumFunctionOnSet(f, t) + f[x])
    BY <1>0, <2>2, <2>4
  <2> QED
    BY <2>2, <2>4, <2>6, <2>7
<1>3. T \in P
  <2> HIDE DEF P
  <2>1. P \in SUBSET (SUBSET T)
    BY DEF P
  <2> QED
    BY <1>1, <1>2, <2>1, SubsetInduction
<1> QED
  BY <1>3

(* A sum of natural numbers is one. *)
LEMMA SumIsNatural ==
    ASSUME NEW S, IsFiniteSet(S), NEW f, \A x \in S : f[x] \in Nat
    PROVE  SumFunctionOnSet(f, S) \in Nat
<1> DEFINE P == {s \in SUBSET S : SumFunctionOnSet(f, s) \in Nat}
<1>1. {} \in P
  <2>1. SumFunctionOnSet(f, {}) = 0
    BY FS_EmptySet, SumTakesElement
  <2> QED
    BY <2>1
<1>2. ASSUME NEW s \in P, NEW x \in S \ s
      PROVE  s \union {x} \in P
  <2>1. IsFiniteSet(s) /\ x \notin s /\ \A y \in s \union {x} : f[y] \in Int
    BY FS_Subset
  <2>2. SumFunctionOnSet(f, s \union {x}) = SumFunctionOnSet(f, s) + f[x]
    BY <2>1, SumAdds
  <2> QED
    BY <2>2
<1>3. S \in P
  <2> HIDE DEF P
  <2>1. P \in SUBSET (SUBSET S)
    BY DEF P
  <2> QED
    BY <1>1, <1>2, <2>1, SubsetInduction
<1> QED
  BY <1>3

-----------------------------------------------------------------------------
(* The bytes of a sequence of exchanges: of none, and of one more at the end. *)
LEMMA TotalType ==
    ASSUME NEW size \in [Exchanges -> Nat], NEW s \in Seq(Exchanges)
    PROVE  Total(size, s) \in Nat
<1> DEFINE f == [k \in DOMAIN s |-> size[s[k]]]
<1>1. IsFiniteSet(DOMAIN s) /\ \A k \in DOMAIN s : f[k] \in Nat
  <2>1. DOMAIN s = 1..Len(s) /\ Len(s) \in Int /\ 1 \in Int
    OBVIOUS
  <2>2. IsFiniteSet(DOMAIN s)
    BY <2>1, FS_Interval
  <2> QED
    BY <2>2
<1>2. Total(size, s) = SumFunctionOnSet(f, DOMAIN s)
  BY DEF Total, SumFunction
<1> HIDE DEF f
<1> QED
  BY <1>1, <1>2, SumIsNatural

LEMMA TotalOfNone ==
    ASSUME NEW size
    PROVE  Total(size, << >>) = 0
<1> DEFINE f == [k \in DOMAIN << >> |-> size[<< >>[k]]]
<1>1. DOMAIN << >> = {} /\ DOMAIN f = {}
  OBVIOUS
<1>2. Total(size, << >>) = SumFunctionOnSet(f, {})
  BY <1>1 DEF Total, SumFunction
<1> HIDE DEF f
<1> QED
  BY <1>2, FS_EmptySet, SumTakesElement

LEMMA TotalOfAppend ==
    ASSUME NEW size \in [Exchanges -> Nat], NEW s \in Seq(Exchanges), NEW n \in Exchanges
    PROVE  Total(size, Append(s, n)) = Total(size, s) + size[n]
<1> DEFINE t == Append(s, n)
           f == [k \in DOMAIN s |-> size[s[k]]]
           g == [k \in DOMAIN t |-> size[t[k]]]
           S == 1..Len(s)
           e == Len(s) + 1
<1>1. /\ DOMAIN s = S /\ DOMAIN t = S \union {e} /\ e \notin S
      /\ Len(s) \in Int /\ 1 \in Int
      /\ DOMAIN f = S /\ DOMAIN g = S \union {e}
  OBVIOUS
<1>2. IsFiniteSet(S)
  BY <1>1, FS_Interval
<1>3. \A k \in S : f[k] \in Int /\ g[k] = f[k]
  OBVIOUS
<1>4. g[e] = size[n] /\ \A k \in S \union {e} : g[k] \in Int
  OBVIOUS
<1>5. Total(size, s) = SumFunctionOnSet(f, S) /\ Total(size, t) = SumFunctionOnSet(g, S \union {e})
  BY <1>1 DEF Total, SumFunction
<1> HIDE DEF f, g, S, e, t
<1>6. SumFunctionOnSet(g, S \union {e}) = SumFunctionOnSet(g, S) + g[e]
  BY <1>1, <1>2, <1>4, SumAdds
<1>7. SumFunctionOnSet(g, S) = SumFunctionOnSet(f, S)
  BY <1>2, <1>3, SumsAreEqual
<1>8. Total(size, t) = Total(size, s) + size[n]
  BY <1>4, <1>5, <1>6, <1>7
<1> QED
  BY <1>8 DEF t

(* ... and of the two parts of one. *)
LEMMA TotalOfParts ==
    ASSUME NEW size \in [Exchanges -> Nat], NEW s \in Seq(Exchanges), NEW m \in 0..Len(s)
    PROVE  Total(size, s) = Total(size, SubSeq(s, 1, m)) + Total(size, SubSeq(s, m + 1, Len(s)))
<1> DEFINE Part(a, b) == Total(size, SubSeq(s, a, b))
           N == {j \in Nat : m + j <= Len(s) => Part(1, m + j) = Part(1, m) + Part(m + 1, m + j)}
<1>0. ASSUME NEW a \in 1..m + 1, NEW b \in m..Len(s)
      PROVE  /\ Part(a, b) \in Nat
             /\ b < Len(s) => Part(a, b + 1) = Part(a, b) + size[s[b + 1]]
             /\ a > b => Part(a, b) = 0
  <2>1. SubSeq(s, a, b) \in Seq(Exchanges)
    OBVIOUS
  <2>2. ASSUME b < Len(s)
        PROVE  Part(a, b + 1) = Part(a, b) + size[s[b + 1]]
    <3>1. s[b + 1] \in Exchanges /\ SubSeq(s, a, b + 1) = Append(SubSeq(s, a, b), s[b + 1])
      BY <2>2
    <3> QED
      BY <2>1, <3>1, TotalOfAppend
  <2>3. a > b => SubSeq(s, a, b) = << >>
    OBVIOUS
  <2> QED
    BY <2>1, <2>2, <2>3, TotalType, TotalOfNone
<1> HIDE DEF Part
<1>1. 0 \in N
  <2>1. Part(1, m) \in Nat /\ Part(m + 1, m) = 0
    BY <1>0
  <2>2. m + 0 = m
    OBVIOUS
  <2> QED
    BY <2>1, <2>2
<1>2. ASSUME NEW j \in N
      PROVE  j + 1 \in N
  <2> SUFFICES ASSUME m + (j + 1) <= Len(s)
               PROVE  Part(1, m + (j + 1)) = Part(1, m) + Part(m + 1, m + (j + 1))
    OBVIOUS
  <2> DEFINE b == m + j
  <2>1. b \in m..Len(s) /\ b < Len(s) /\ m + (j + 1) = b + 1 /\ 1 \in 1..m + 1 /\ m + 1 \in 1..m + 1
        /\ m \in m..Len(s)
    OBVIOUS
  <2>2. Part(1, b) = Part(1, m) + Part(m + 1, b)
    BY <2>1
  <2>3. size[s[b + 1]] \in Nat
    BY <2>1
  <2> HIDE DEF b, N
  <2>4. Part(1, b + 1) = Part(1, b) + size[s[b + 1]]
    BY <1>0, <2>1
  <2>5. Part(m + 1, b + 1) = Part(m + 1, b) + size[s[b + 1]]
    BY <1>0, <2>1
  <2>6. Part(1, m) \in Nat /\ Part(m + 1, b) \in Nat
    BY <1>0, <2>1
  <2> QED
    BY <2>1, <2>2, <2>3, <2>4, <2>5, <2>6
<1>3. Len(s) - m \in N
  <2>1. Len(s) - m \in Nat
    OBVIOUS
  <2> HIDE DEF N
  <2>2. N \in SUBSET Nat
    BY DEF N
  <2> QED
    BY <1>1, <1>2, <2>1, <2>2, NatSetInduction
<1>4. m + (Len(s) - m) = Len(s) /\ Len(s) <= Len(s)
  OBVIOUS
<1>5. Part(1, Len(s)) = Part(1, m) + Part(m + 1, Len(s))
  BY <1>3, <1>4
<1>6. SubSeq(s, 1, Len(s)) = s
  OBVIOUS
<1> QED
  BY <1>5, <1>6 DEF Part

LEMMA TotalOfTail ==
    ASSUME NEW size \in [Exchanges -> Nat], NEW s \in Seq(Exchanges), s # << >>
    PROVE  Total(size, Tail(s)) = Total(size, s) - size[Head(s)]
<1>1. /\ 1 \in 0..Len(s) /\ SubSeq(s, 2, Len(s)) = Tail(s) /\ Tail(s) \in Seq(Exchanges)
      /\ Head(s) \in Exchanges /\ SubSeq(s, 1, 1) = Append(<< >>, Head(s))
      /\ << >> \in Seq(Exchanges) /\ size[Head(s)] \in Nat
  <2>1. Len(s) \in Nat \ {0} /\ Head(s) = s[1] /\ s[1] \in Exchanges /\ << >> \in Seq(Exchanges)
    OBVIOUS
  <2>2. Tail(s) \in Seq(Exchanges) /\ Tail(s) = SubSeq(s, 2, Len(s))
    OBVIOUS
  <2>3. SubSeq(s, 1, 1) = Append(<< >>, s[1])
    <3> DEFINE a == SubSeq(s, 1, 1)
               b == Append(<< >>, s[1])
    <3>1. a \in Seq(Exchanges) /\ Len(a) = 1 /\ a[1] = s[1]
      BY <2>1
    <3>2. b \in Seq(Exchanges) /\ Len(b) = 1 /\ b[1] = s[1]
      BY <2>1
    <3> HIDE DEF a, b
    <3>3. a = b
      BY <3>1, <3>2
    <3> QED
      BY <3>3 DEF a, b
  <2> QED
    BY <2>1, <2>2, <2>3
<1>2. Total(size, s) = Total(size, SubSeq(s, 1, 1)) + Total(size, SubSeq(s, 2, Len(s)))
  <2>1. Total(size, s) = Total(size, SubSeq(s, 1, 1)) + Total(size, SubSeq(s, 1 + 1, Len(s)))
    BY <1>1, TotalOfParts
  <2>2. 1 + 1 = 2
    OBVIOUS
  <2> QED
    BY <2>1, <2>2
<1>3. Total(size, SubSeq(s, 1, 1)) = 0 + size[Head(s)]
  BY <1>1, TotalOfAppend, TotalOfNone
<1>4. Total(size, Tail(s)) \in Nat
  BY <1>1, TotalType
<1>5. PICK t \in Nat, h \in Nat : t = Total(size, Tail(s)) /\ h = size[Head(s)]
  BY <1>1, <1>4
<1>6. Total(size, s) = (0 + h) + t
  BY <1>1, <1>2, <1>3, <1>5
<1> QED
  BY <1>5, <1>6

-----------------------------------------------------------------------------
(* HistoryRing. *)

(* The smaller of two numbers. *)
LEMMA MinOfTwo ==
    ASSUME NEW a \in Nat, NEW b \in Nat
    PROVE  /\ Min({a, b}) \in Nat
           /\ Min({a, b}) <= a
           /\ Min({a, b}) <= b
<1>1. CASE a <= b
  <2>1. \E x \in {a, b} : \A y \in {a, b} : x =< y
    BY <1>1
  <2> QED
    BY <2>1 DEF Min
<1>2. CASE b < a
  <2>1. \E x \in {a, b} : \A y \in {a, b} : x =< y
    BY <1>2
  <2> QED
    BY <2>1 DEF Min
<1> QED
  BY <1>1, <1>2

(* The last k elements of a sequence that has as many. *)
LEMMA LastEventsType ==
    ASSUME NEW s \in Seq(Exchanges), NEW k \in 0..Len(s)
    PROVE  /\ LastEvents(s, k) \in Seq(Exchanges)
           /\ Len(LastEvents(s, k)) = k
BY DEF LastEvents

(* Counting positions of a sequence gives at most its length. *)
LEMMA CountOfPositions ==
    ASSUME NEW s \in Seq(Exchanges), NEW T \in SUBSET (1..Len(s))
    PROVE  Cardinality(T) \in 0..Len(s)
<1> DEFINE m == Len(s)
<1>0. m \in Nat /\ m \in Int /\ 1 \in Int
  OBVIOUS
<1> HIDE DEF m
<1>1. IsFiniteSet(1..m) /\ Cardinality(1..m) = m
  <2>1. IsFiniteSet(1..m) /\ Cardinality(1..m) = IF 1 > m THEN 0 ELSE m - 1 + 1
    BY <1>0, FS_Interval
  <2> QED
    BY <1>0, <2>1
<1>2. IsFiniteSet(T) /\ Cardinality(T) <= Cardinality(1..m)
  BY <1>1, FS_Subset DEF m
<1>3. Cardinality(T) \in Nat
  BY <1>2, FS_CardinalityType
<1> QED
  BY <1>0, <1>1, <1>2, <1>3 DEF m

(* add leaves exchanges in the ring, and the newest is the last added. *)
LEMMA RingAddType ==
    ASSUME NEW r, r.events \in Seq(Exchanges), NEW n \in Exchanges
    PROVE  /\ RingAdd(r, n).events \in Seq(Exchanges)
           /\ RingAdd(r, n).lastSeq = n
<1> DEFINE all      == Append(r.events, n)
           bytes(k) == r.bytes + TextSize[n] - Bytes(SubSeq(all, 1, Len(all) - k))
           over(k)  == k > HistoryMaxEvents \/ (bytes(k) > HistoryMaxBytes /\ k > 1)
           fits     == {k \in 1..Len(all) : ~over(k)}
<1>1. all \in Seq(Exchanges)
  OBVIOUS
<1>2. fits \in SUBSET (1..Len(all))
  OBVIOUS
<1>3. RingAdd(r, n).events = LastEvents(all, Cardinality(fits)) /\ RingAdd(r, n).lastSeq = n
  BY DEF RingAdd
<1> HIDE DEF fits, all
<1>4. Cardinality(fits) \in 0..Len(all)
  BY <1>1, <1>2, CountOfPositions
<1> QED
  BY <1>1, <1>3, <1>4, LastEventsType

(* A client is given at most ExchangesMaxLimit exchanges of the ring. *)
LEMMA SinceType ==
    ASSUME NEW r, r.events \in Seq(Exchanges), NEW after \in Nat \cup {NoAfter}
    PROVE  /\ Since(r, after) \in Seq(Exchanges)
           /\ Len(Since(r, after)) \in 0..ExchangesMaxLimit
<1> DEFINE newer == {k \in DOMAIN r.events : r.events[k] > after}
           later == LastEvents(r.events, Cardinality(newer))
<1>0. ExchangesMaxLimit \in Nat /\ Len(r.events) \in Nat
  BY LimitsAssumption DEF LimitsAssumption
<1>1. CASE after = NoAfter
  <2> DEFINE k == Min({ExchangesMaxLimit, Len(r.events)})
  <2>1. k \in Nat /\ k <= ExchangesMaxLimit /\ k <= Len(r.events)
    BY <1>0, MinOfTwo
  <2>2. Since(r, after) = LastEvents(r.events, k)
    BY <1>1 DEF Since
  <2> HIDE DEF k
  <2>3. k \in 0..Len(r.events) /\ k \in 0..ExchangesMaxLimit
    BY <1>0, <2>1
  <2> QED
    BY <2>2, <2>3, LastEventsType
<1>2. CASE after # NoAfter
  <2>1. newer \in SUBSET (1..Len(r.events))
    OBVIOUS
  <2>2. Since(r, after) = SubSeq(later, 1, Min({ExchangesMaxLimit, Len(later)}))
    BY <1>2 DEF Since
  <2> HIDE DEF newer
  <2>3. Cardinality(newer) \in 0..Len(r.events)
    BY <2>1, CountOfPositions
  <2>4. later \in Seq(Exchanges) /\ Len(later) \in Nat
    BY <2>3, LastEventsType
  <2> HIDE DEF later
  <2> DEFINE k == Min({ExchangesMaxLimit, Len(later)})
  <2>5. k \in Nat /\ k <= ExchangesMaxLimit /\ k <= Len(later)
    BY <1>0, <2>4, MinOfTwo
  <2>6. Since(r, after) = SubSeq(later, 1, k)
    BY <2>2
  <2> HIDE DEF k
  <2>7. SubSeq(later, 1, k) \in Seq(Exchanges) /\ Len(SubSeq(later, 1, k)) = k
    BY <2>4, <2>5
  <2> QED
    BY <1>0, <2>5, <2>6, <2>7
<1> QED
  BY <1>1, <1>2

-----------------------------------------------------------------------------
(* Connection. *)

(* The literals the methods assign have the types of their fields. *)
LEMMA Literals ==
    /\ << >> \in Seq(Exchanges)
    /\ 0 \in Int /\ 0 \in Nat /\ 0 \in Exchanges \cup {0}
    /\ Never \in Int
    /\ TRUE \in BOOLEAN /\ FALSE \in BOOLEAN
BY DEF Never

(* The fields of a connection that the ledger is made of are numbers. *)
LEMMA LedgerTypes ==
    ASSUME NEW c \in Connections
    PROVE  /\ c.closeCode \in Nat /\ c.publishedAtOpen \in Nat /\ c.publishedAtClose \in Nat
           /\ c.offered \in Nat /\ c.enqueued \in Nat /\ c.clientDropped \in Nat
           /\ c.sent \in Nat /\ c.unknown \in Nat /\ c.discarded \in Nat
           /\ c.queue \in Seq(Exchanges) /\ Len(c.queue) \in Nat
           /\ UnderWay(c) \in Nat
BY DEF Connections, UnderWay

-----------------------------------------------------------------------------
(* Closing records the span and discards the queue; an exchange in flight stays. *)
LEMMA CloseNowIsConnection ==
    ASSUME NEW c \in Connections, NEW code \in Nat, NEW p \in Nat
    PROVE  CloseNow(c, code, p) \in Connections
<1>1. ASSUME NEW discarded \in Nat, NEW queue \in Seq(Exchanges), NEW bytes \in Int,
             NEW state \in Nat, NEW notice \in BOOLEAN, NEW changed \in BOOLEAN
      PROVE  [c EXCEPT !.closeCode = code, !.publishedAtClose = p, !.discarded = discarded,
                       !.queue = queue, !.bytes = bytes, !.state = state, !.notice = notice,
                       !.changed = changed] \in Connections
  BY DEF Connections
<1>2. c.discarded + Len(c.queue) \in Nat
  BY LedgerTypes
<1> QED
  BY <1>1, <1>2, Literals DEF CloseNow

(* What closing leaves in each field the ledger is made of. *)
LEMMA CloseNowEffect ==
    ASSUME NEW c \in Connections, NEW code \in Nat, NEW p \in Nat,
           NEW d, d = CloseNow(c, code, p)
    PROVE  /\ d.queue = << >> /\ d.inFlight = c.inFlight /\ d.unknown = c.unknown
           /\ d.discarded = c.discarded + Len(c.queue)
           /\ d.closeCode = code /\ d.publishedAtClose = p
           /\ d.publishedAtOpen = c.publishedAtOpen
           /\ d.offered = c.offered /\ d.enqueued = c.enqueued
           /\ d.clientDropped = c.clientDropped /\ d.sent = c.sent
BY DEF CloseNow, Connections

(* A connection closed at the count its ledger has reached balances from then *)
(* on, however many exchanges are published after it.                         *)
LEMMA CloseNowBalances ==
    ASSUME NEW c \in Connections, NEW code \in Nat \ {0}, NEW p \in Nat, NEW q \in Nat,
           c.publishedAtOpen + c.offered = p,
           c.offered = c.enqueued + c.clientDropped,
           c.enqueued = c.sent + c.unknown + Queued(c) + c.discarded
    PROVE  /\ LedgerIdentities(CloseNow(c, code, p), q)
           /\ Closed(CloseNow(c, code, p))
<1> DEFINE d == CloseNow(c, code, p)
<1>1. /\ d.queue = << >> /\ d.inFlight = c.inFlight /\ d.unknown = c.unknown
      /\ d.discarded = c.discarded + Len(c.queue)
      /\ d.closeCode = code /\ d.publishedAtClose = p
      /\ d.publishedAtOpen = c.publishedAtOpen
      /\ d.offered = c.offered /\ d.enqueued = c.enqueued
      /\ d.clientDropped = c.clientDropped /\ d.sent = c.sent
  BY CloseNowEffect
<1> HIDE DEF d
<1>2. Closed(d)
  BY <1>1 DEF Closed, NotClosed
<1>3. /\ c.enqueued \in Nat /\ c.sent \in Nat /\ c.unknown \in Nat
      /\ c.discarded \in Nat /\ Len(c.queue) \in Nat /\ UnderWay(c) \in Nat
  BY LedgerTypes
<1>4. Queued(d) = UnderWay(c)
  <2>1. UnderWay(d) = UnderWay(c) /\ Len(d.queue) = 0
    BY <1>1 DEF UnderWay
  <2> QED
    BY <2>1, <1>3 DEF Queued
<1>5. d.enqueued = d.sent + d.unknown + Queued(d) + d.discarded
  <2>1. c.enqueued = c.sent + c.unknown + (Len(c.queue) + UnderWay(c)) + c.discarded
    BY DEF Queued
  <2> QED
    BY <1>1, <1>3, <1>4, <2>1
<1>6. LedgerIdentities(d, q)
  BY <1>1, <1>2, <1>5 DEF LedgerIdentities, PublishedAtEnd
<1> QED
  BY <1>2, <1>6 DEF d

(* close: the first code wins, so closing again changes nothing. *)
LEMMA CloseBalances ==
    ASSUME NEW c \in Connections, NEW code \in Nat \ {0}, NEW p \in Nat, NEW q \in Nat,
           LedgerIdentities(c, p)
    PROVE  /\ Close(c, code, p) \in Connections
           /\ LedgerIdentities(Close(c, code, p), q)
           /\ Closed(Close(c, code, p))
           /\ Close(c, code, p).inFlight = c.inFlight
           /\ Close(c, code, p).unknown = c.unknown
<1>1. CASE Closed(c)
  BY <1>1 DEF Close, LedgerIdentities, PublishedAtEnd
<1>2. CASE ~Closed(c)
  <2>1. Close(c, code, p) = CloseNow(c, code, p)
    BY <1>2 DEF Close
  <2>2. /\ c.publishedAtOpen + c.offered = p
        /\ c.offered = c.enqueued + c.clientDropped
        /\ c.enqueued = c.sent + c.unknown + Queued(c) + c.discarded
    BY <1>2 DEF LedgerIdentities, PublishedAtEnd
  <2>3. CloseNow(c, code, p) \in Connections
    BY CloseNowIsConnection
  <2>4. LedgerIdentities(CloseNow(c, code, p), q) /\ Closed(CloseNow(c, code, p))
    BY <2>2, CloseNowBalances
  <2>5. CloseNow(c, code, p).inFlight = c.inFlight /\ CloseNow(c, code, p).unknown = c.unknown
    BY CloseNowEffect
  <2> QED
    BY <2>1, <2>3, <2>4, <2>5
<1> QED
  BY <1>1, <1>2

-----------------------------------------------------------------------------
(* What a method may change without touching the part of the ledger that the *)
(* publisher keeps: everything the writer does, and the two slots.           *)
SameAccount(c, d) ==
    /\ d.closeCode = c.closeCode
    /\ d.publishedAtOpen = c.publishedAtOpen
    /\ d.publishedAtClose = c.publishedAtClose
    /\ d.offered = c.offered
    /\ d.enqueued = c.enqueued
    /\ d.clientDropped = c.clientDropped

(* What became of the exchanges enqueued, added up. *)
Resolved(c) == c.sent + c.unknown + Queued(c) + c.discarded

(* A step that keeps the publisher's part and moves exchanges only between the *)
(* writer's counters keeps the identities.                                      *)
LEMMA SameAccountBalances ==
    ASSUME NEW c, NEW d, NEW q, SameAccount(c, d), Resolved(d) = Resolved(c)
    PROVE  /\ Closed(d) <=> Closed(c)
           /\ LedgerIdentities(c, q) => LedgerIdentities(d, q)
BY DEF SameAccount, Resolved, Closed, LedgerIdentities, PublishedAtEnd

(* The slots and the event are no part of the ledger. *)
KeepsAccount(c, d) ==
    /\ d \in Connections
    /\ SameAccount(c, d)
    /\ Resolved(d) = Resolved(c)
    /\ d.inFlight = c.inFlight
    /\ d.unknown = c.unknown

(* A step that leaves the queue, the slot in flight and the counters alone keeps the account. *)
LEMMA FieldsKeepAccount ==
    ASSUME NEW c \in Connections, NEW d \in Connections, SameAccount(c, d),
           d.inFlight = c.inFlight, d.unknown = c.unknown,
           d.queue = c.queue, d.sent = c.sent, d.discarded = c.discarded
    PROVE  KeepsAccount(c, d)
BY DEF KeepsAccount, Resolved, Queued, UnderWay

(* Setting or taking the state message touches no exchange. *)
LEMMA StateKeepsAccount ==
    ASSUME NEW c \in Connections, NEW version \in Nat
    PROVE  /\ KeepsAccount(c, SetState(c, version))
           /\ KeepsAccount(c, TakeState(c))
<1>0. KeepsAccount(c, c)
  BY FieldsKeepAccount DEF SameAccount
<1>1. ASSUME NEW state \in Nat, NEW changed \in BOOLEAN
      PROVE  KeepsAccount(c, [c EXCEPT !.state = state, !.changed = changed])
  <2> DEFINE d == [c EXCEPT !.state = state, !.changed = changed]
  <2>1. d \in Connections
    BY DEF Connections
  <2>2. /\ SameAccount(c, d) /\ d.inFlight = c.inFlight /\ d.unknown = c.unknown
        /\ d.queue = c.queue /\ d.sent = c.sent /\ d.discarded = c.discarded
    BY DEF Connections, SameAccount
  <2> QED
    BY <2>1, <2>2, FieldsKeepAccount
<1>2. ASSUME NEW state \in Nat
      PROVE  KeepsAccount(c, [c EXCEPT !.state = state])
  <2> DEFINE d == [c EXCEPT !.state = state]
  <2>1. d \in Connections
    BY DEF Connections
  <2>2. /\ SameAccount(c, d) /\ d.inFlight = c.inFlight /\ d.unknown = c.unknown
        /\ d.queue = c.queue /\ d.sent = c.sent /\ d.discarded = c.discarded
    BY DEF Connections, SameAccount
  <2> QED
    BY <2>1, <2>2, FieldsKeepAccount
<1>3. SetState(c, version) = c
        \/ SetState(c, version) = [c EXCEPT !.state = version, !.changed = TRUE]
  BY DEF SetState
<1>4. KeepsAccount(c, SetState(c, version))
  BY <1>0, <1>1, <1>3, Literals
<1>5. KeepsAccount(c, TakeState(c))
  BY <1>2, Literals DEF TakeState
<1> QED
  BY <1>4, <1>5

(* Setting or taking the dropped notice, or clearing the event, touches no exchange. *)
LEMMA NoticeKeepsAccount ==
    ASSUME NEW c \in Connections
    PROVE  /\ KeepsAccount(c, SetDropped(c))
           /\ KeepsAccount(c, [c EXCEPT !.notice = FALSE])
           /\ KeepsAccount(c, [c EXCEPT !.changed = FALSE])
<1>0. KeepsAccount(c, c)
  BY FieldsKeepAccount DEF SameAccount
<1>1. ASSUME NEW notice \in BOOLEAN
      PROVE  /\ KeepsAccount(c, [c EXCEPT !.notice = notice, !.changed = TRUE])
             /\ KeepsAccount(c, [c EXCEPT !.notice = notice])
  <2>1. ASSUME NEW d \in {[c EXCEPT !.notice = notice, !.changed = TRUE],
                          [c EXCEPT !.notice = notice]}
        PROVE  KeepsAccount(c, d)
    <3>1. d \in Connections
      BY ZenonT(60), <2>1 DEF Connections
    <3>2. /\ SameAccount(c, d) /\ d.inFlight = c.inFlight /\ d.unknown = c.unknown
          /\ d.queue = c.queue /\ d.sent = c.sent /\ d.discarded = c.discarded
      BY ZenonT(60), <2>1 DEF Connections, SameAccount
    <3> QED
      BY <3>1, <3>2, FieldsKeepAccount
  <2> QED
    BY <2>1
<1>2. KeepsAccount(c, [c EXCEPT !.changed = FALSE])
  <2> DEFINE d == [c EXCEPT !.changed = FALSE]
  <2>1. d \in Connections
    BY DEF Connections
  <2>2. /\ SameAccount(c, d) /\ d.inFlight = c.inFlight /\ d.unknown = c.unknown
        /\ d.queue = c.queue /\ d.sent = c.sent /\ d.discarded = c.discarded
    BY DEF Connections, SameAccount
  <2> QED
    BY <2>1, <2>2, FieldsKeepAccount
<1>3. SetDropped(c) = c \/ SetDropped(c) = [c EXCEPT !.notice = TRUE, !.changed = TRUE]
  BY DEF SetDropped
<1> QED
  BY <1>0, <1>1, <1>2, <1>3, Literals

-----------------------------------------------------------------------------
(* next_message moves one exchange from the queue to the send under way, which *)
(* balances only because the writer resolves a send before it asks again.       *)
LEMMA NextMessageBalances ==
    ASSUME NEW c \in Connections, c.inFlight = 0
    PROVE  /\ NextMessage(c) \in Connections
           /\ SameAccount(c, NextMessage(c))
           /\ Resolved(NextMessage(c)) = Resolved(c)
           /\ NextMessage(c).unknown = c.unknown
<1>1. CASE c.state # 0
  BY <1>1, StateKeepsAccount, Literals DEF NextMessage, KeepsAccount
<1>2. CASE c.state = 0 /\ c.notice
  BY <1>2, NoticeKeepsAccount DEF NextMessage, KeepsAccount
<1>3. CASE c.state = 0 /\ ~c.notice /\ c.queue # << >>
  <2>1. /\ c.queue \in Seq(Exchanges) /\ Tail(c.queue) \in Seq(Exchanges)
        /\ Head(c.queue) \in Exchanges /\ Len(c.queue) \in Nat
        /\ Len(Tail(c.queue)) = Len(c.queue) - 1
    BY <1>3, LedgerTypes
  <2>2. c.bytes - TextSize[Head(c.queue)] \in Int
    <3>1. c.bytes \in Int
      BY DEF Connections
    <3>2. TextSize[Head(c.queue)] \in Nat
      BY <2>1, LimitsAssumption DEF LimitsAssumption
    <3> QED
      BY <3>1, <3>2
  <2>3. ASSUME NEW queue \in Seq(Exchanges), NEW bytes \in Int, NEW flight \in Exchanges \cup {0}
        PROVE  [c EXCEPT !.queue = queue, !.bytes = bytes, !.inFlight = flight] \in Connections
    BY DEF Connections
  <2> DEFINE d == NextMessage(c)
             rest == Tail(c.queue)
             less == c.bytes - TextSize[Head(c.queue)]
             head == Head(c.queue)
  <2>4. d = [c EXCEPT !.queue = rest, !.bytes = less, !.inFlight = head]
    BY <1>3 DEF NextMessage
  <2>5. /\ d \in Connections /\ SameAccount(c, d)
        /\ d.unknown = c.unknown /\ d.sent = c.sent /\ d.discarded = c.discarded
        /\ d.queue = rest /\ d.inFlight = head
    <3>1. rest \in Seq(Exchanges) /\ less \in Int /\ head \in Exchanges \cup {0}
      BY <2>1, <2>2
    <3> HIDE DEF d, rest, less, head
    <3>2. d \in Connections
      BY <3>1, <2>3, <2>4
    <3> QED
      BY <2>4, <3>2 DEF Connections, SameAccount
  <2> HIDE DEF d
  <2>6. UnderWay(d) = 1 /\ UnderWay(c) = 0
    BY <2>1, <2>5 DEF UnderWay, Exchanges
  <2>7. Queued(d) = Queued(c)
    BY <2>1, <2>5, <2>6 DEF Queued
  <2>8. Resolved(d) = Resolved(c)
    BY <2>5, <2>7 DEF Resolved
  <2> QED
    BY <2>5, <2>8 DEF d
<1>4. CASE c.state = 0 /\ ~c.notice /\ c.queue = << >>
  BY <1>4 DEF NextMessage, SameAccount
<1> QED
  BY <1>1, <1>2, <1>3, <1>4

(* Resolving the exchange in flight moves it into exactly one of three counters. *)
LEMMA ResolvesOne ==
    ASSUME NEW c \in Connections, NEW d \in Connections,
           c.inFlight # 0, d.inFlight = 0, d.queue = c.queue,
           \/ d.sent = c.sent + 1 /\ d.unknown = c.unknown /\ d.discarded = c.discarded
           \/ d.sent = c.sent /\ d.unknown = c.unknown + 1 /\ d.discarded = c.discarded
           \/ d.sent = c.sent /\ d.unknown = c.unknown /\ d.discarded = c.discarded + 1
    PROVE  Resolved(d) = Resolved(c)
<1> DEFINE s == c.sent
           u == c.unknown
           x == c.discarded
           w == Len(c.queue)
<1>1. UnderWay(c) = 1 /\ UnderWay(d) = 0 /\ Len(d.queue) = w
  BY DEF UnderWay
<1>2. s \in Nat /\ u \in Nat /\ x \in Nat /\ w \in Nat
  BY LedgerTypes
<1>3. Queued(d) = w /\ Queued(c) = w + 1
  BY <1>1, <1>2 DEF Queued
<1>4. Resolved(c) = s + u + (w + 1) + x
  BY <1>3 DEF Resolved
<1>5. \/ Resolved(d) = (s + 1) + u + w + x
      \/ Resolved(d) = s + (u + 1) + w + x
      \/ Resolved(d) = s + u + w + (x + 1)
  BY <1>3 DEF Resolved
<1> HIDE DEF s, u, x, w
<1> QED
  BY <1>2, <1>4, <1>5

(* mark_sent, mark_failed and mark_unknown resolve the exchange in flight, to *)
(* exactly one of three counters, also when the connection closed meanwhile.  *)
LEMMA MarkBalances ==
    ASSUME NEW c \in Connections, NEW d \in {MarkSent(c), MarkFailed(c), MarkUnknown(c)}
    PROVE  /\ d \in Connections
           /\ SameAccount(c, d)
           /\ Resolved(d) = Resolved(c)
           /\ d.inFlight = 0
           /\ d.unknown \in c.unknown .. c.unknown + 1
           /\ d # MarkUnknown(c) => d.unknown = c.unknown
<1>1. /\ c.sent \in Nat /\ c.unknown \in Nat /\ c.discarded \in Nat
      /\ Len(c.queue) \in Nat /\ UnderWay(c) \in Nat
      /\ c.sent + 1 \in Nat /\ c.unknown + 1 \in Nat /\ c.discarded + 1 \in Nat
  BY LedgerTypes
<1>2. CASE c.inFlight = 0
  BY <1>1, <1>2 DEF MarkSent, MarkFailed, MarkUnknown, SameAccount
<1>3. CASE c.inFlight # 0
  <2>1. CASE d = MarkSent(c)
    <3>1. d = [c EXCEPT !.inFlight = 0, !.sent = c.sent + 1]
      BY <1>3, <2>1 DEF MarkSent
    <3>2. d \in Connections
      <4>1. ASSUME NEW flight \in Exchanges \cup {0}, NEW sent \in Nat
            PROVE  [c EXCEPT !.inFlight = flight, !.sent = sent] \in Connections
        BY DEF Connections
      <4> QED
        BY <1>1, <3>1, <4>1, Literals
    <3>3. /\ SameAccount(c, d) /\ d.queue = c.queue /\ d.inFlight = 0
          /\ d.sent = c.sent + 1 /\ d.discarded = c.discarded /\ d.unknown = c.unknown
      BY <3>1 DEF Connections, SameAccount
    <3>4. c.unknown \in c.unknown .. c.unknown + 1
      BY <1>1
    <3>5. Resolved(d) = Resolved(c)
      BY <1>3, <3>2, <3>3, ResolvesOne
    <3> QED
      BY <3>2, <3>3, <3>4, <3>5
  <2>2. CASE d = MarkFailed(c)
    <3>1. d = [c EXCEPT !.inFlight = 0, !.discarded = c.discarded + 1]
      BY <1>3, <2>2 DEF MarkFailed
    <3>2. d \in Connections
      <4>1. ASSUME NEW flight \in Exchanges \cup {0}, NEW discarded \in Nat
            PROVE  [c EXCEPT !.inFlight = flight, !.discarded = discarded] \in Connections
        BY DEF Connections
      <4> QED
        BY <1>1, <3>1, <4>1, Literals
    <3>3. /\ SameAccount(c, d) /\ d.queue = c.queue /\ d.inFlight = 0
          /\ d.sent = c.sent /\ d.discarded = c.discarded + 1 /\ d.unknown = c.unknown
      BY <3>1 DEF Connections, SameAccount
    <3>4. c.unknown \in c.unknown .. c.unknown + 1
      BY <1>1
    <3>5. Resolved(d) = Resolved(c)
      BY <1>3, <3>2, <3>3, ResolvesOne
    <3> QED
      BY <3>2, <3>3, <3>4, <3>5
  <2>3. CASE d = MarkUnknown(c)
    <3>1. d = [c EXCEPT !.inFlight = 0, !.unknown = c.unknown + 1]
      BY <1>3, <2>3 DEF MarkUnknown
    <3>2. d \in Connections
      <4>1. ASSUME NEW flight \in Exchanges \cup {0}, NEW unknown \in Nat
            PROVE  [c EXCEPT !.inFlight = flight, !.unknown = unknown] \in Connections
        BY DEF Connections
      <4> QED
        BY <1>1, <3>1, <4>1, Literals
    <3>3. /\ SameAccount(c, d) /\ d.queue = c.queue /\ d.inFlight = 0
          /\ d.sent = c.sent /\ d.discarded = c.discarded /\ d.unknown = c.unknown + 1
      BY <3>1 DEF Connections, SameAccount
    <3>4. c.unknown + 1 \in c.unknown .. c.unknown + 1
      BY <1>1
    <3>5. Resolved(d) = Resolved(c)
      BY <1>3, <3>2, <3>3, ResolvesOne
    <3> QED
      BY <2>3, <3>2, <3>3, <3>4, <3>5
  <2> QED
    BY <2>1, <2>2, <2>3
<1> QED
  BY <1>2, <1>3

-----------------------------------------------------------------------------
(* offer: the exchange just published is in the ledger whichever way it goes, *)
(* also when refusing it forces the client out.                                *)
OpenAccount(c, p) ==
    /\ c.publishedAtOpen + c.offered = p
    /\ c.offered = c.enqueued + c.clientDropped
    /\ c.enqueued = c.sent + c.unknown + Queued(c) + c.discarded

(* An offer the queue accepts is one exchange offered and one enqueued. *)
LEMMA EnqueueBalances ==
    ASSUME NEW c \in Connections, NEW n \in Exchanges, NEW p \in Nat, OpenAccount(c, p)
    PROVE  /\ Enqueue(c, n) \in Connections
           /\ OpenAccount(Enqueue(c, n), p + 1)
           /\ Enqueue(c, n).closeCode = c.closeCode
           /\ Enqueue(c, n).inFlight = c.inFlight
           /\ Enqueue(c, n).unknown = c.unknown
<1> DEFINE d == Enqueue(c, n)
           longer == Append(c.queue, n)
           bytes == c.bytes + TextSize[n]
           a == c.publishedAtOpen
           o == c.offered
           e == c.enqueued
           g == c.clientDropped
           s == c.sent
           u == c.unknown
           x == c.discarded
           w == Len(c.queue)
           f == UnderWay(c)
           o1 == o + 1
           e1 == e + 1
<1>1. /\ a \in Nat /\ o \in Nat /\ e \in Nat /\ g \in Nat /\ s \in Nat /\ u \in Nat
      /\ x \in Nat /\ w \in Nat /\ f \in Nat /\ o1 \in Nat /\ e1 \in Nat
  BY LedgerTypes
<1>2. longer \in Seq(Exchanges) /\ Len(longer) = w + 1
  BY LedgerTypes
<1>3. bytes \in Int
  <2>1. c.bytes \in Int
    BY DEF Connections
  <2>2. TextSize[n] \in Nat
    BY LimitsAssumption DEF LimitsAssumption
  <2> QED
    BY <2>1, <2>2
<1>4. d = [c EXCEPT !.overflowSince = Never, !.queue = longer, !.bytes = bytes,
                    !.offered = o1, !.enqueued = e1, !.changed = TRUE]
  BY DEF Enqueue
<1>5. d \in Connections
  <2>1. ASSUME NEW since \in Int, NEW queue \in Seq(Exchanges), NEW size \in Int,
               NEW offered \in Nat, NEW enqueued \in Nat, NEW changed \in BOOLEAN
        PROVE  [c EXCEPT !.overflowSince = since, !.queue = queue, !.bytes = size,
                         !.offered = offered, !.enqueued = enqueued, !.changed = changed]
                    \in Connections
    BY DEF Connections
  <2> HIDE DEF d, longer, bytes, o1, e1
  <2> QED
    BY <2>1, <1>1, <1>2, <1>3, <1>4, Literals
<1>6. /\ d.publishedAtOpen = a /\ d.offered = o1 /\ d.enqueued = e1 /\ d.clientDropped = g
      /\ d.sent = s /\ d.unknown = u /\ d.discarded = x /\ d.queue = longer
      /\ d.inFlight = c.inFlight /\ d.closeCode = c.closeCode
  <2> HIDE DEF d, longer, bytes, o1, e1
  <2> QED
    BY <1>4, <1>5 DEF Connections
<1>7. a + o = p /\ o = e + g /\ e = s + u + (w + f) + x
  BY DEF OpenAccount, Queued
<1>8. Queued(d) = (w + 1) + f
  BY <1>2, <1>6 DEF Queued, UnderWay
<1>9. a + o1 = p + 1 /\ o1 = e1 + g /\ e1 = s + u + ((w + 1) + f) + x
  <2> HIDE DEF a, o, e, g, s, u, x, w, f
  <2> QED
    BY <1>1, <1>7
<1> HIDE DEF d, a, o, e, g, s, u, x, w, f, o1, e1
<1>10. OpenAccount(d, p + 1)
  BY <1>6, <1>8, <1>9 DEF OpenAccount
<1> QED
  BY <1>5, <1>6, <1>10 DEF d, u

(* An offer the queue refuses is one exchange offered and one dropped. *)
LEMMA DropBalances ==
    ASSUME NEW c \in Connections, NEW t \in Nat, NEW p \in Nat, OpenAccount(c, p)
    PROVE  /\ Drop(c, t) \in Connections
           /\ OpenAccount(Drop(c, t), p + 1)
           /\ Drop(c, t).closeCode = c.closeCode
           /\ Drop(c, t).inFlight = c.inFlight
           /\ Drop(c, t).unknown = c.unknown
<1> DEFINE d == Drop(c, t)
           first == IF c.overflowSince = Never THEN t ELSE c.overflowSince
           a == c.publishedAtOpen
           o == c.offered
           e == c.enqueued
           g == c.clientDropped
           o1 == o + 1
           g1 == g + 1
<1>1. /\ a \in Nat /\ o \in Nat /\ e \in Nat /\ g \in Nat /\ o1 \in Nat /\ g1 \in Nat
  BY LedgerTypes
<1>2. first \in Int
  BY DEF Connections
<1>3. d = [c EXCEPT !.overflowSince = first, !.offered = o1, !.clientDropped = g1]
  BY DEF Drop
<1>4. d \in Connections
  <2>1. ASSUME NEW since \in Int, NEW offered \in Nat, NEW dropped \in Nat
        PROVE  [c EXCEPT !.overflowSince = since, !.offered = offered, !.clientDropped = dropped]
                    \in Connections
    BY DEF Connections
  <2> HIDE DEF d, first, o1, g1
  <2> QED
    BY <2>1, <1>1, <1>2, <1>3
<1>5. /\ d.publishedAtOpen = a /\ d.offered = o1 /\ d.enqueued = e /\ d.clientDropped = g1
      /\ d.sent = c.sent /\ d.unknown = c.unknown /\ d.discarded = c.discarded
      /\ d.queue = c.queue /\ d.inFlight = c.inFlight /\ d.closeCode = c.closeCode
  <2> HIDE DEF d, first, o1, g1
  <2> QED
    BY <1>3, <1>4 DEF Connections
<1>6. a + o = p /\ o = e + g /\ e = c.sent + c.unknown + Queued(c) + c.discarded
  BY DEF OpenAccount
<1>7. Queued(d) = Queued(c)
  BY <1>5 DEF Queued, UnderWay
<1>8. a + o1 = p + 1 /\ o1 = e + g1
  <2> HIDE DEF a, o, e, g
  <2> QED
    BY <1>1, <1>6
<1> HIDE DEF d, a, o, e, g, o1, g1
<1>9. OpenAccount(d, p + 1)
  BY <1>5, <1>6, <1>7, <1>8 DEF OpenAccount
<1> QED
  BY <1>4, <1>5, <1>9 DEF d

(* offer keeps the identities, also when it forces the client out in the middle of a publication. *)
LEMMA OfferBalances ==
    ASSUME NEW c \in Connections, NEW n \in Exchanges, NEW t \in Nat, NEW p \in Nat,
           ~Closed(c), LedgerIdentities(c, p)
    PROVE  /\ Offer(c, n, t) \in Connections
           /\ LedgerIdentities(Offer(c, n, t), p + 1)
           /\ Offer(c, n, t).inFlight = c.inFlight
           /\ Offer(c, n, t).unknown = c.unknown
<1> DEFINE d == Drop(c, t)
<1>1. OpenAccount(c, p)
  BY DEF OpenAccount, LedgerIdentities, PublishedAtEnd
<1>2. ASSUME NEW r, OpenAccount(r, p + 1), r.closeCode = c.closeCode
      PROVE  LedgerIdentities(r, p + 1)
  BY <1>2 DEF OpenAccount, LedgerIdentities, PublishedAtEnd, Closed
<1>3. /\ d \in Connections /\ OpenAccount(d, p + 1) /\ d.closeCode = c.closeCode
      /\ d.inFlight = c.inFlight /\ d.unknown = c.unknown
  BY <1>1, DropBalances
<1>4. /\ Enqueue(c, n) \in Connections /\ OpenAccount(Enqueue(c, n), p + 1)
      /\ Enqueue(c, n).closeCode = c.closeCode
      /\ Enqueue(c, n).inFlight = c.inFlight /\ Enqueue(c, n).unknown = c.unknown
  BY <1>1, EnqueueBalances
<1> DEFINE end == d.publishedAtOpen + d.offered
<1>5. Offer(c, n, t) \in {Enqueue(c, n), d, CloseNow(d, TooSlow, end)}
  BY DEF Offer
<1> HIDE DEF d
<1>6. end = p + 1 /\ p + 1 \in Nat
  BY <1>3 DEF OpenAccount
<1>7. /\ CloseNow(d, TooSlow, end) \in Connections
      /\ LedgerIdentities(CloseNow(d, TooSlow, end), p + 1)
      /\ CloseNow(d, TooSlow, end).inFlight = c.inFlight
      /\ CloseNow(d, TooSlow, end).unknown = c.unknown
  <2>1. TooSlow \in Nat \ {0}
    BY DEF TooSlow
  <2> HIDE DEF end
  <2>2. CloseNow(d, TooSlow, end) \in Connections
    BY <1>3, <1>6, <2>1, CloseNowIsConnection
  <2>3. LedgerIdentities(CloseNow(d, TooSlow, end), p + 1)
    BY <1>3, <1>6, <2>1, CloseNowBalances DEF OpenAccount, end
  <2>4. CloseNow(d, TooSlow, end).inFlight = d.inFlight /\ CloseNow(d, TooSlow, end).unknown = d.unknown
    BY <1>3, <1>6, <2>1, CloseNowEffect
  <2> QED
    BY <1>3, <2>2, <2>3, <2>4
<1> HIDE DEF end
<1> QED
  BY <1>2, <1>3, <1>4, <1>5, <1>7

(* A closed connection's ledger has ended: later publications are not in it. *)
LEMMA ClosedStaysBalanced ==
    ASSUME NEW c, NEW p, NEW q, Closed(c), LedgerIdentities(c, p)
    PROVE  LedgerIdentities(c, q)
BY DEF LedgerIdentities, PublishedAtEnd

(* A connection starts with an empty ledger, at the count published so far. *)
LEMMA NewConnectionBalances ==
    ASSUME NEW seq \in Nat, NEW p \in Nat, NEW h \in Nat,
           NEW c, c = NewConnection(seq, p, h)
    PROVE  /\ c \in Connections
           /\ LedgerIdentities(c, p)
           /\ ~Closed(c) /\ c.inFlight = 0 /\ c.unknown = 0
<1>1. c \in Connections
  <2> DEFINE code  == NotClosed
             empty == << >>
             zero  == 0
             never == Never
             no    == FALSE
  <2>1. /\ code \in Nat /\ empty \in Seq(Exchanges) /\ zero \in Nat /\ zero \in Int
        /\ zero \in Exchanges \cup {0} /\ never \in Int /\ no \in BOOLEAN
    BY DEF NotClosed, Never
  <2>2. c = [closeCode |-> code, watermark |-> seq, queue |-> empty, bytes |-> zero,
             state |-> zero, notice |-> no, overflowSince |-> never,
             inFlight |-> zero, changed |-> no, publishedAtOpen |-> p,
             publishedAtClose |-> zero, historySent |-> h, offered |-> zero, enqueued |-> zero,
             clientDropped |-> zero, sent |-> zero, discarded |-> zero, unknown |-> zero]
    BY DEF NewConnection
  <2> HIDE DEF code, empty, zero, never, no
  <2>3. [closeCode |-> code, watermark |-> seq, queue |-> empty, bytes |-> zero,
         state |-> zero, notice |-> no, overflowSince |-> never,
         inFlight |-> zero, changed |-> no, publishedAtOpen |-> p,
         publishedAtClose |-> zero, historySent |-> h, offered |-> zero, enqueued |-> zero,
         clientDropped |-> zero, sent |-> zero, discarded |-> zero, unknown |-> zero]
            \in Connections
    BY <2>1 DEF Connections
  <2> QED
    BY <2>2, <2>3
<1>2. /\ c.closeCode = NotClosed /\ c.queue = << >> /\ c.inFlight = 0 /\ c.publishedAtOpen = p
      /\ c.offered = 0 /\ c.enqueued = 0 /\ c.clientDropped = 0 /\ c.sent = 0
      /\ c.discarded = 0 /\ c.unknown = 0
  BY DEF NewConnection
<1>3. ~Closed(c) /\ Queued(c) = 0
  <2>1. UnderWay(c) = 0 /\ Len(c.queue) = 0
    BY <1>2 DEF UnderWay
  <2> QED
    BY <1>2, <2>1 DEF Closed, Queued
<1>4. LedgerIdentities(c, p)
  BY <1>2, <1>3 DEF LedgerIdentities, PublishedAtEnd
<1> QED
  BY <1>1, <1>2, <1>3, <1>4
-----------------------------------------------------------------------------
(* The observer as a whole. *)

(* An exchange is in flight only while the writer is in its live send. *)
InFlightOnlyWhileSending ==
    \A i \in Ids : conns[i].inFlight # 0 => writer[i].at = "live"

(* Only a connection that has been opened has a writer. *)
OnlyOpenedStart ==
    \A i \in Ids : writer[i].at # "none" => i <= opened

(* A writer that is sending an event of the history still has it. *)
PreambleHasHistory ==
    \A i \in Ids : writer[i].at = "preamble" /\ writer[i].carrying = 0 => history[i] # << >>

ObserverInv ==
    /\ TypeOK
    /\ ExchangesAccounted
    /\ LedgersBalance
    /\ RegisteredIffOpen
    /\ OneUnknownAtMost
    /\ InFlightOnlyWhileSending
    /\ OnlyOpenedStart
    /\ PreambleHasHistory

-----------------------------------------------------------------------------
(* The steps of a writer. *)

WriterRecords == [at : WriterStates \ {"none"}, carrying : Nat, took : Nat]

(* A step of writer i that keeps its connection's account and its own discipline *)
(* keeps the invariant.                                                          *)
LEMMA WriterStepKeeps ==
    ASSUME ObserverInv, NEW i \in Ids, i <= opened,
           NEW d \in Connections, NEW w \in WriterRecords, NEW h \in Seq(Exchanges),
           LedgerIdentities(d, published), Closed(d) <=> Closed(conns[i]),
           d.unknown <= 1, d.unknown = 1 => w.at \in {"raised", "ended"},
           d.inFlight # 0 => w.at = "live",
           w.at = "preamble" /\ w.carrying = 0 => h # << >>,
           conns' = [conns EXCEPT ![i] = d],
           writer' = [writer EXCEPT ![i] = w],
           history' = [history EXCEPT ![i] = h],
           client' \in [Ids -> ClientViews],
           UNCHANGED <<stream, opened, connections, unresolved, counters, feed, now, hungUp>>
    PROVE  ObserverInv'
<1>0. /\ conns \in [Ids -> Connections]
      /\ writer \in [Ids -> [at : WriterStates, carrying : Nat, took : Nat]]
      /\ history \in [Ids -> Seq(Exchanges)]
      /\ opened \in 0..MaxConnections
  BY DEF ObserverInv, TypeOK
<1>1. TypeOK'
  <2>1. conns' \in [Ids -> Connections]
    BY <1>0
  <2>2. writer' \in [Ids -> [at : WriterStates, carrying : Nat, took : Nat]]
    BY <1>0 DEF WriterRecords
  <2>3. history' \in [Ids -> Seq(Exchanges)]
    BY <1>0
  <2> QED
    BY <2>1, <2>2, <2>3 DEF ObserverInv, TypeOK, stream
<1>2. ExchangesAccounted'
  BY DEF ObserverInv, ExchangesAccounted, stream
<1>3. \A j \in Ids : j # i => conns'[j] = conns[j] /\ writer'[j] = writer[j] /\ history'[j] = history[j]
  BY <1>0
<1>4. conns'[i] = d /\ writer'[i] = w /\ history'[i] = h
  BY <1>0
<1>5. \A j \in 1..opened : j \in Ids
  BY <1>0, ObserverAssumption DEF Ids, ObserverAssumption
<1>6. LedgersBalance'
  BY <1>3, <1>4, <1>5 DEF ObserverInv, LedgersBalance, stream
<1>7. RegisteredIffOpen'
  BY <1>3, <1>4, <1>5 DEF ObserverInv, RegisteredIffOpen, Closed
<1>8. OneUnknownAtMost'
  BY <1>3, <1>4, <1>5 DEF ObserverInv, OneUnknownAtMost
<1>9. InFlightOnlyWhileSending'
  BY <1>3, <1>4 DEF ObserverInv, InFlightOnlyWhileSending
<1>10. OnlyOpenedStart'
  BY <1>3, <1>4 DEF ObserverInv, OnlyOpenedStart
<1>11. PreambleHasHistory'
  BY <1>3, <1>4 DEF ObserverInv, PreambleHasHistory
<1> QED
  BY <1>1, <1>2, <1>6, <1>7, <1>8, <1>9, <1>10, <1>11 DEF ObserverInv

(* A writer that moves on, having resolved what it took, keeps the invariant. *)
LEMMA TaskKeeps ==
    ASSUME ObserverInv, NEW i \in Ids, i <= opened,
           NEW d \in Connections, NEW at \in WriterStates \ {"none"}, NEW carrying \in Nat,
           NEW rest \in Seq(Exchanges),
           SameAccount(conns[i], d), Resolved(d) = Resolved(conns[i]),
           d.unknown <= 1, d.unknown = 1 => at \in {"raised", "ended"},
           d.inFlight # 0 => at = "live",
           at = "preamble" /\ carrying = 0 => rest # << >>,
           client' \in [Ids -> ClientViews],
           Task(i, d, at, carrying, rest),
           UNCHANGED <<stream, opened, connections, unresolved, totals, counters, feed, now, hungUp>>
    PROVE  ObserverInv'
<1> DEFINE took == IF d.inFlight # 0 THEN now ELSE writer[i].took
           w    == [at |-> at, carrying |-> carrying, took |-> took]
<1>0. /\ writer \in [Ids -> [at : WriterStates, carrying : Nat, took : Nat]]
      /\ now \in Nat /\ opened \in 0..MaxConnections
  BY DEF ObserverInv, TypeOK
<1>1. w \in WriterRecords
  <2>1. took \in Nat
    BY <1>0
  <2> HIDE DEF took
  <2> QED
    BY <2>1 DEF WriterRecords
<1>2. writer' = [writer EXCEPT ![i] = w]
  BY <1>0 DEF Task
<1>3. conns' = [conns EXCEPT ![i] = d] /\ history' = [history EXCEPT ![i] = rest]
  BY DEF Task
<1>4. LedgerIdentities(conns[i], published)
  BY <1>0 DEF ObserverInv, LedgersBalance, Ids
<1>5. LedgerIdentities(d, published) /\ (Closed(d) <=> Closed(conns[i]))
  BY <1>4, SameAccountBalances
<1>6. w.at = at /\ w.carrying = carrying
  OBVIOUS
<1> HIDE DEF w
<1> QED
  BY <1>1, <1>2, <1>3, <1>5, <1>6, WriterStepKeeps

(* Going on with the history or the loop, with nothing in flight. *)
LEMMA ProceedKeeps ==
    ASSUME ObserverInv, NEW i \in Ids, i <= opened,
           NEW c \in Connections, NEW rest \in Seq(Exchanges),
           SameAccount(conns[i], c), Resolved(c) = Resolved(conns[i]),
           c.unknown = 0, c.inFlight = 0,
           client' \in [Ids -> ClientViews],
           Proceed(i, c, rest),
           UNCHANGED <<stream, opened, connections, unresolved, totals, counters, feed, now, hungUp>>
    PROVE  ObserverInv'
<1>0. /\ "preamble" \in WriterStates \ {"none"} /\ "ended" \in WriterStates \ {"none"}
      /\ "wait" \in WriterStates \ {"none"} /\ "live" \in WriterStates \ {"none"}
      /\ << >> \in Seq(Exchanges) /\ 0 \in Nat /\ 0 <= 1 /\ 0 # 1
  BY DEF WriterStates, Sending
<1>1. CASE rest # << >>
  <2>1. Task(i, c, "preamble", 0, rest)
    BY <1>1 DEF Proceed
  <2> QED
    BY <1>0, <1>1, <2>1, TaskKeeps
<1>2. CASE rest = << >> /\ Closed(c)
  <2>1. Task(i, c, "ended", 0, << >>)
    BY <1>2 DEF Proceed
  <2> QED
    BY <1>0, <2>1, TaskKeeps
<1>3. CASE rest = << >> /\ ~Closed(c) /\ NothingToSend(c)
  <2> DEFINE d == [c EXCEPT !.changed = FALSE]
  <2>1. Task(i, d, "wait", 0, << >>)
    BY <1>3 DEF Proceed
  <2>2. KeepsAccount(c, d)
    BY NoticeKeepsAccount
  <2> HIDE DEF d
  <2>3. /\ d \in Connections /\ SameAccount(conns[i], d) /\ Resolved(d) = Resolved(conns[i])
        /\ d.inFlight = 0 /\ d.unknown = 0
    BY <2>2 DEF KeepsAccount, SameAccount
  <2> QED
    BY <1>0, <2>1, <2>3, TaskKeeps
<1>4. CASE rest = << >> /\ ~Closed(c) /\ ~NothingToSend(c)
  <2> DEFINE d == NextMessage(c)
  <2>1. Task(i, d, "live", c.state, << >>)
    BY <1>4 DEF Proceed
  <2>2. /\ d \in Connections /\ SameAccount(c, d) /\ Resolved(d) = Resolved(c)
        /\ d.unknown = 0
    BY NextMessageBalances
  <2>3. c.state \in Nat
    BY DEF Connections
  <2> HIDE DEF d
  <2>4. SameAccount(conns[i], d) /\ Resolved(d) = Resolved(conns[i])
    BY <2>2 DEF SameAccount
  <2> QED
    BY <1>0, <2>1, <2>2, <2>3, <2>4, TaskKeeps
<1> QED
  BY <1>1, <1>2, <1>3, <1>4

(* What the invariant says of a connection whose writer has started. *)
LEMMA WriterFacts ==
    ASSUME ObserverInv, NEW i \in Ids, writer[i].at # "none"
    PROVE  /\ i <= opened
           /\ conns[i] \in Connections /\ conns[i].unknown \in Nat
           /\ history[i] \in Seq(Exchanges)
           /\ client \in [Ids -> ClientViews]
           /\ writer[i].at \in WriterStates /\ writer[i].carrying \in Nat
           /\ writer[i].at \notin {"raised", "ended"} => conns[i].unknown = 0
           /\ writer[i].at # "live" => conns[i].inFlight = 0
           /\ writer[i].at = "preamble" /\ writer[i].carrying = 0 => history[i] # << >>
           /\ SameAccount(conns[i], conns[i])
<1>1. /\ conns[i] \in Connections /\ history[i] \in Seq(Exchanges)
      /\ client \in [Ids -> ClientViews]
      /\ writer[i] \in [at : WriterStates, carrying : Nat, took : Nat]
      /\ opened \in 0..MaxConnections
  BY DEF ObserverInv, TypeOK
<1>2. i <= opened
  BY DEF ObserverInv, OnlyOpenedStart
<1>3. i \in 1..opened
  BY <1>1, <1>2 DEF Ids
<1>4. conns[i].unknown \in Nat
  BY <1>1, LedgerTypes
<1>5. writer[i].at \notin {"raised", "ended"} => conns[i].unknown = 0
  <2>1. conns[i].unknown <= 1 /\ (conns[i].unknown = 1 => writer[i].at \in {"raised", "ended"})
    BY <1>3 DEF ObserverInv, OneUnknownAtMost
  <2> QED
    BY <1>4, <2>1
<1>6. writer[i].at # "live" => conns[i].inFlight = 0
  BY DEF ObserverInv, InFlightOnlyWhileSending
<1>7. writer[i].at = "preamble" /\ writer[i].carrying = 0 => history[i] # << >>
  BY DEF ObserverInv, PreambleHasHistory
<1>8. SameAccount(conns[i], conns[i])
  BY DEF SameAccount
<1>9. writer[i].at \in WriterStates /\ writer[i].carrying \in Nat
  BY <1>1
<1> QED
  BY <1>1, <1>2, <1>4, <1>5, <1>6, <1>7, <1>8, <1>9

(* What reaches a client is an exchange or a state. *)
LEMMA ReachedType ==
    ASSUME ObserverInv, NEW i \in Ids, writer[i].at \in Sending
    PROVE  [client EXCEPT ![i] = Reached(i)] \in [Ids -> ClientViews]
<1> DEFINE v == client[i]
<1>0. writer[i].at # "none"
  BY DEF Sending
<1>1. v \in ClientViews /\ client \in [Ids -> ClientViews] /\ writer[i].carrying \in Nat
      /\ conns[i] \in Connections /\ history[i] \in Seq(Exchanges)
  BY <1>0, WriterFacts
<1>2. v.got \in Seq(Exchanges)
  BY <1>1 DEF ClientViews
<1>3. ASSUME NEW n \in Exchanges
      PROVE  [v EXCEPT !.got = Append(v.got, n)] \in ClientViews
  <2>1. Append(v.got, n) \in Seq(Exchanges)
    BY <1>2
  <2>2. ASSUME NEW got \in Seq(Exchanges)
        PROVE  [v EXCEPT !.got = got] \in ClientViews
    BY <1>1 DEF ClientViews
  <2> QED
    BY <2>1, <2>2
<1>4. [v EXCEPT !.state = writer[i].carrying] \in ClientViews
  BY <1>1 DEF ClientViews
<1>5. CASE writer[i].carrying # 0
  <2>1. Reached(i) = [v EXCEPT !.state = writer[i].carrying]
    BY <1>5 DEF Reached
  <2> QED
    BY <1>1, <1>4, <2>1
<1>6. CASE writer[i].carrying = 0 /\ writer[i].at = "preamble"
  <2>1. Reached(i) = [v EXCEPT !.got = Append(v.got, Head(history[i]))]
    BY <1>6 DEF Reached
  <2>2. Head(history[i]) \in Exchanges
    BY <1>0, <1>1, <1>6, WriterFacts
  <2> QED
    BY <1>1, <1>3, <2>1, <2>2
<1>7. CASE writer[i].carrying = 0 /\ writer[i].at # "preamble" /\ conns[i].inFlight # 0
  <2>1. Reached(i) = [v EXCEPT !.got = Append(v.got, conns[i].inFlight)]
    BY <1>7 DEF Reached
  <2>2. conns[i].inFlight \in Exchanges
    BY <1>1, <1>7 DEF Connections
  <2> QED
    BY <1>1, <1>3, <2>1, <2>2
<1>8. CASE writer[i].carrying = 0 /\ writer[i].at # "preamble" /\ conns[i].inFlight = 0
  <2>1. Reached(i) = v
    BY <1>8 DEF Reached
  <2> QED
    BY <1>1, <2>1
<1> QED
  BY <1>5, <1>6, <1>7, <1>8

(* A send that returns, of hello, of the history or of a live message, keeps the invariant. *)
LEMMA SendReturnsKeeps ==
    ASSUME ObserverInv, NEW i \in Ids, SendReturns(i)
    PROVE  ObserverInv'
<1> DEFINE c == conns[i]
<1>1. writer[i].at \in Sending /\ writer[i].at # "none"
  BY DEF SendReturns, Sending
<1>2. client' \in [Ids -> ClientViews]
  BY <1>1, ReachedType DEF SendReturns
<1>3. UNCHANGED <<stream, opened, connections, unresolved, totals, counters, feed, now, hungUp>>
  BY DEF SendReturns
<1>4. i <= opened /\ c \in Connections /\ c.unknown = 0 /\ history[i] \in Seq(Exchanges)
      /\ SameAccount(c, c)
  BY <1>1, WriterFacts DEF Sending
<1>5. CASE writer[i].at = "hello"
  <2>1. c.inFlight = 0
    BY <1>1, <1>5, WriterFacts
  <2>2. CASE c.state # 0
    <3>1. Task(i, TakeState(c), "preamble", c.state, history[i])
      BY <1>5, <2>2 DEF SendReturns
    <3>2. c.state \in Nat
      BY <1>4 DEF Connections
    <3> DEFINE d == TakeState(c)
    <3>3. /\ d \in Connections /\ SameAccount(c, d) /\ Resolved(d) = Resolved(c)
          /\ d.inFlight = 0 /\ d.unknown = 0
      BY <1>4, <2>1, StateKeepsAccount, Literals DEF KeepsAccount
    <3> HIDE DEF d
    <3>4. "preamble" \in WriterStates \ {"none"} /\ 0 <= 1 /\ 0 # 1
      BY DEF WriterStates, Sending
    <3> QED
      BY <1>2, <1>3, <1>4, <2>2, <3>1, <3>2, <3>3, <3>4, TaskKeeps DEF d
  <2>3. CASE c.state = 0
    <3>1. Proceed(i, c, history[i])
      BY <1>5, <2>3 DEF SendReturns
    <3> QED
      BY <1>2, <1>3, <1>4, <2>1, <3>1, ProceedKeeps
  <2> QED
    BY <2>2, <2>3
<1>6. CASE writer[i].at = "preamble"
  <2> DEFINE rest == IF writer[i].carrying # 0 THEN history[i] ELSE Tail(history[i])
  <2>1. c.inFlight = 0
    BY <1>1, <1>6, WriterFacts
  <2>2. rest \in Seq(Exchanges)
    BY <1>1, <1>4, <1>6, WriterFacts
  <2>3. Proceed(i, c, rest)
    BY <1>6 DEF SendReturns
  <2> HIDE DEF rest
  <2> QED
    BY <1>2, <1>3, <1>4, <2>1, <2>2, <2>3, ProceedKeeps
<1>7. CASE writer[i].at = "live"
  <2> DEFINE d == MarkSent(c)
  <2>1. Proceed(i, d, << >>)
    BY <1>7 DEF SendReturns
  <2>2. /\ d \in Connections /\ SameAccount(c, d) /\ Resolved(d) = Resolved(c)
        /\ d.inFlight = 0
    BY <1>4, MarkBalances
  <2>3. d.unknown = 0
    BY <1>4 DEF MarkSent, Connections
  <2> HIDE DEF d
  <2> QED
    BY <1>2, <1>3, <1>4, <2>1, <2>2, <2>3, Literals, ProceedKeeps
<1> QED
  BY <1>1, <1>5, <1>6, <1>7 DEF Sending

(* A send that is refused, fails, or is cancelled ends the writer. *)
LEMMA SendEndsKeeps ==
    ASSUME ObserverInv, NEW i \in Ids, writer[i].at \in Sending,
           NEW at \in {"raised", "ended"},
           NEW d \in {MarkFailed(conns[i]), MarkUnknown(conns[i])},
           client' \in {client, [client EXCEPT ![i] = Reached(i)]},
           Task(i, d, at, 0, << >>),
           UNCHANGED <<stream, opened, connections, unresolved, totals, counters, feed, now, hungUp>>
    PROVE  ObserverInv'
<1>1. writer[i].at # "none" /\ writer[i].at \notin {"raised", "ended"}
  BY DEF Sending
<1>2. i <= opened /\ conns[i] \in Connections /\ conns[i].unknown = 0
      /\ client \in [Ids -> ClientViews]
  BY <1>1, WriterFacts
<1>3. client' \in [Ids -> ClientViews]
  BY <1>2, ReachedType
<1>4. /\ d \in Connections /\ SameAccount(conns[i], d) /\ Resolved(d) = Resolved(conns[i])
      /\ d.inFlight = 0 /\ d.unknown <= 1
  <2>1. /\ d \in Connections /\ SameAccount(conns[i], d) /\ Resolved(d) = Resolved(conns[i])
        /\ d.inFlight = 0 /\ d.unknown \in conns[i].unknown .. conns[i].unknown + 1
    BY <1>2, MarkBalances
  <2> QED
    BY <1>2, <2>1
<1>5. at \in WriterStates \ {"none"} /\ at # "preamble"
  BY DEF WriterStates
<1> QED
  BY <1>2, <1>3, <1>4, <1>5, Literals, TaskKeeps

(* A writer that wakes, with something to send or with nothing, keeps the invariant. *)
LEMMA WriterWakesKeeps ==
    ASSUME ObserverInv, NEW i \in Ids, WriterWakes(i)
    PROVE  ObserverInv'
<1> DEFINE c == conns[i]
           d == [c EXCEPT !.changed = FALSE]
<1>1. writer[i].at # "none" /\ writer[i].at # "live" /\ writer[i].at \notin {"raised", "ended"}
  BY DEF WriterWakes
<1>2. /\ i <= opened /\ c \in Connections /\ c.unknown = 0 /\ c.inFlight = 0
      /\ client' \in [Ids -> ClientViews] /\ SameAccount(c, c)
  BY <1>1, WriterFacts DEF WriterWakes
<1>3. d \in Connections /\ SameAccount(c, d) /\ Resolved(d) = Resolved(c)
      /\ d.inFlight = 0 /\ d.unknown = 0
  BY <1>2, NoticeKeepsAccount DEF KeepsAccount
<1>4. Proceed(i, d, << >>)
  BY DEF WriterWakes
<1>5. UNCHANGED <<stream, opened, connections, unresolved, totals, counters, feed, now, hungUp>>
  BY DEF WriterWakes
<1> HIDE DEF d
<1> QED
  BY <1>2, <1>3, <1>4, <1>5, Literals, ProceedKeeps

(* Starting the writer of a connection keeps the invariant. *)
LEMMA StartWriterKeeps ==
    ASSUME ObserverInv, NEW i \in Ids, StartWriter(i)
    PROVE  ObserverInv'
<1>0. /\ writer \in [Ids -> [at : WriterStates, carrying : Nat, took : Nat]]
      /\ writer[i].at = "none" /\ i <= opened /\ writer' = [writer EXCEPT ![i].at = "hello"]
      /\ "hello" \in WriterStates
  BY DEF ObserverInv, TypeOK, StartWriter, WriterStates, Sending
<1>1. writer' \in [Ids -> [at : WriterStates, carrying : Nat, took : Nat]]
  BY <1>0
<1>2. \A j \in Ids : j # i => writer'[j] = writer[j]
  BY <1>0
<1>3. writer'[i].at = "hello"
  BY <1>0
<1>4. TypeOK'
  BY <1>1 DEF ObserverInv, TypeOK, StartWriter, stream
<1>5. OneUnknownAtMost'
  <2>1. \A j \in 1..opened : j \in Ids
    BY ObserverAssumption DEF ObserverInv, TypeOK, Ids, ObserverAssumption
  <2> QED
    BY <1>0, <1>2, <2>1 DEF ObserverInv, OneUnknownAtMost, StartWriter
<1>6. /\ InFlightOnlyWhileSending' /\ OnlyOpenedStart' /\ PreambleHasHistory'
  BY <1>0, <1>2, <1>3 DEF ObserverInv, InFlightOnlyWhileSending, OnlyOpenedStart,
                          PreambleHasHistory, StartWriter
<1>7. ExchangesAccounted' /\ LedgersBalance' /\ RegisteredIffOpen'
  BY DEF ObserverInv, ExchangesAccounted, LedgersBalance, RegisteredIffOpen, StartWriter, stream
<1> QED
  BY <1>4, <1>5, <1>6, <1>7 DEF ObserverInv

-----------------------------------------------------------------------------
(* Closing a connection. *)

(* Retiring unregisters the ids and folds what has resolved into the totals. *)
LEMMA RetireEffect ==
    ASSUME ObserverInv, NEW ids, NEW cs, NEW counts \in [CounterNames -> Nat],
           Retire(ids, cs, counts)
    PROVE  /\ connections' = connections \ ids
           /\ unresolved' \in SUBSET (1..opened)
           /\ counters' \in [CounterNames -> Nat]
<1> DEFINE leaving == ids \cap connections
           forced  == {i \in leaving : cs[i].closeCode = TooSlow}
<1>1. connections \in SUBSET (1..opened) /\ unresolved \in SUBSET (1..opened) /\ opened \in Nat
  BY ObserverAssumption DEF ObserverInv, TypeOK, ObserverAssumption
<1>2. connections' = connections \ ids
  BY DEF Retire
<1>3. unresolved' \in SUBSET (1..opened)
  <2>1. CASE leaving = {}
    BY <1>1, <2>1 DEF Retire, Account
  <2>2. CASE leaving # {}
    <3>1. Fold(unresolved \cup leaving, cs)
      BY <2>2 DEF Retire, Account
    <3>2. unresolved' \subseteq unresolved \cup leaving
      BY <3>1 DEF Fold
    <3> QED
      BY <1>1, <3>2
  <2> QED
    BY <2>1, <2>2
<1>4. Cardinality(forced) \in Nat
  <2>1. IsFiniteSet(1..opened)
    BY <1>1, FS_Interval
  <2>2. forced \in SUBSET (1..opened)
    BY <1>1
  <2> HIDE DEF forced
  <2> QED
    BY <2>1, <2>2, FS_Subset, FS_CardinalityType
<1>5. counters' \in [CounterNames -> Nat]
  <2>1. counters' = [counts EXCEPT !["forced_disconnects"]
                        = counts["forced_disconnects"] + Cardinality(forced)]
    BY DEF Retire, Account, CountLeaving
  <2>2. "forced_disconnects" \in CounterNames
    BY DEF CounterNames
  <2>3. counts["forced_disconnects"] + Cardinality(forced) \in Nat
    BY <1>4, <2>2
  <2> HIDE DEF forced
  <2> QED
    BY <2>1, <2>2, <2>3
<1> QED
  BY <1>2, <1>3, <1>5

(* A connection is closed by its handler, by the server, or after its writer died. *)
LEMMA CloseKeeps ==
    ASSUME ObserverInv, NEW i \in Ids, i <= opened, NEW code \in Nat \ {0},
           NEW counts \in [CounterNames -> Nat],
           CloseAndRetire(i, code, counts),
           \/ UNCHANGED <<writer, history>>
           \/ /\ writer[i].at # "live"
              /\ writer' = [writer EXCEPT ![i].at = "ended"]
              /\ history' \in {history, [history EXCEPT ![i] = << >>]},
           UNCHANGED <<stream, opened, feed, now, client>>, hungUp' \in SUBSET (1..opened)
    PROVE  ObserverInv'
<1> DEFINE c == conns[i]
           d == Close(c, code, published)
<1>0. /\ conns \in [Ids -> Connections] /\ opened \in 0..MaxConnections /\ published \in Nat
      /\ writer \in [Ids -> [at : WriterStates, carrying : Nat, took : Nat]]
      /\ history \in [Ids -> Seq(Exchanges)]
      /\ connections \in SUBSET (1..opened)
  BY DEF ObserverInv, TypeOK
<1>1. i \in 1..opened /\ (\A j \in 1..opened : j \in Ids)
  BY <1>0, ObserverAssumption DEF Ids, ObserverAssumption
<1>2. c \in Connections /\ LedgerIdentities(c, published)
  BY <1>0, <1>1 DEF ObserverInv, LedgersBalance
<1>3. /\ d \in Connections /\ LedgerIdentities(d, published) /\ Closed(d)
      /\ d.inFlight = c.inFlight /\ d.unknown = c.unknown
  BY <1>0, <1>2, CloseBalances
<1>4. conns' = [conns EXCEPT ![i] = d]
  BY DEF CloseAndRetire
<1> HIDE DEF d
<1>5. conns'[i] = d /\ \A j \in Ids : j # i => conns'[j] = conns[j]
  BY <1>0, <1>4
<1>6. /\ connections' = connections \ {i} /\ unresolved' \in SUBSET (1..opened)
      /\ counters' \in [CounterNames -> Nat]
  BY RetireEffect DEF CloseAndRetire
<1>7. /\ writer' \in [Ids -> [at : WriterStates, carrying : Nat, took : Nat]]
      /\ \A j \in Ids : writer'[j] = writer[j] \/ (j = i /\ writer'[j].at = "ended")
  <2>1. "ended" \in WriterStates
    BY DEF WriterStates
  <2> QED
    BY ZenonT(60), <1>0, <2>1
<1>8. history' \in [Ids -> Seq(Exchanges)]
  BY <1>0, Literals
<1>9. TypeOK'
  <2>1. conns' \in [Ids -> Connections]
    BY <1>0, <1>3, <1>4
  <2>2. connections' \in SUBSET (1..opened)
    BY <1>0, <1>6
  <2> QED
    BY <1>6, <1>7, <1>8, <2>1, <2>2 DEF ObserverInv, TypeOK, stream
<1>10. ExchangesAccounted'
  BY DEF ObserverInv, ExchangesAccounted, stream
<1>11. LedgersBalance'
  BY <1>1, <1>3, <1>5 DEF ObserverInv, LedgersBalance, stream
<1>12. RegisteredIffOpen'
  BY <1>1, <1>3, <1>5, <1>6 DEF ObserverInv, RegisteredIffOpen
<1>13. OneUnknownAtMost'
  BY <1>1, <1>3, <1>5, <1>7 DEF ObserverInv, OneUnknownAtMost
<1>14. InFlightOnlyWhileSending'
  BY <1>0, <1>3, <1>5 DEF ObserverInv, InFlightOnlyWhileSending
<1>15. OnlyOpenedStart'
  BY <1>7 DEF ObserverInv, OnlyOpenedStart
<1>16. PreambleHasHistory'
  BY <1>0 DEF ObserverInv, PreambleHasHistory
<1> QED
  BY <1>9, <1>10, <1>11, <1>12, <1>13, <1>14, <1>15, <1>16 DEF ObserverInv

(* The end of a connection by its handler or by the server keeps the invariant. *)
LEMMA DisconnectKeeps ==
    ASSUME ObserverInv, NEW i \in Ids, Disconnect(i)
    PROVE  ObserverInv'
<1>1. PICK code \in HandlerCodes \cup ClientCodes : CloseAndRetire(i, code, counters)
  BY DEF Disconnect
<1>2. code \in Nat \ {0}
  BY ObserverAssumption DEF ObserverAssumption, NotClosed
<1>3. counters \in [CounterNames -> Nat] /\ hungUp \in SUBSET (1..opened) /\ opened \in 0..MaxConnections
  BY DEF ObserverInv, TypeOK
<1>4. hungUp' \in SUBSET (1..opened)
  <2>1. i \in 1..opened
    BY <1>3, ObserverAssumption DEF Disconnect, Ids, ObserverAssumption
  <2>2. hungUp' \in {hungUp, hungUp \cup {i}}
    BY DEF Disconnect
  <2> QED
    BY <1>3, <2>1, <2>2
<1>5. i <= opened /\ UNCHANGED <<stream, opened, feed, now, tasks, client>>
  BY DEF Disconnect
<1> QED
  BY <1>1, <1>2, <1>3, <1>4, <1>5, CloseKeeps DEF tasks

(* A connection whose handshake fails is closed and retired. *)
LEMMA PrepareFailsKeeps ==
    ASSUME ObserverInv, NEW i \in Ids, PrepareFails(i)
    PROVE  ObserverInv'
<1> DEFINE code == 1006
<1>1. counters \in [CounterNames -> Nat] /\ code \in Nat \ {0}
  BY DEF ObserverInv, TypeOK
<1>2. /\ writer[i].at # "live" /\ writer' = [writer EXCEPT ![i].at = "ended"]
      /\ history' \in {history, [history EXCEPT ![i] = << >>]}
  BY DEF PrepareFails
<1>3. i <= opened /\ CloseAndRetire(i, code, counters)
      /\ UNCHANGED <<stream, opened, feed, now, client, hungUp>>
  BY DEF PrepareFails
<1>4. hungUp' \in SUBSET (1..opened)
  BY <1>3 DEF ObserverInv, TypeOK
<1> HIDE DEF code
<1> QED
  BY <1>1, <1>2, <1>3, <1>4, CloseKeeps

(* Counting one event leaves the counters numbers. *)
LEMMA CountType ==
    ASSUME ObserverInv, NEW name \in CounterNames
    PROVE  Count(name) \in [CounterNames -> Nat]
BY DEF ObserverInv, TypeOK, Count

(* The callback of a writer that died keeps the invariant, whichever way it decides. *)
LEMMA WriterEndedKeeps ==
    ASSUME ObserverInv, NEW i \in Ids, WriterEnded(i)
    PROVE  ObserverInv'
<1>0. /\ writer[i].at = "raised" /\ writer[i].at # "none" /\ writer[i].at # "live"
      /\ writer' = [writer EXCEPT ![i].at = "ended"] /\ history' = history
      /\ UNCHANGED <<stream, opened, feed, now, client, hungUp>>
  BY DEF WriterEnded
<1>1. i <= opened
  BY <1>0, WriterFacts
<1>2. CASE CloseAndRetire(i, InternalError, Count("writer_failed"))
  <2>1. Count("writer_failed") \in [CounterNames -> Nat]
    BY CountType DEF CounterNames
  <2>2. InternalError \in Nat \ {0}
    BY DEF InternalError
  <2>3. hungUp' \in SUBSET (1..opened)
    BY <1>0 DEF ObserverInv, TypeOK
  <2> QED
    BY <1>0, <1>1, <1>2, <2>1, <2>2, <2>3, CloseKeeps
<1>3. CASE UNCHANGED <<conns, connections, unresolved, totals, counters>>
  <2> DEFINE c == conns[i]
             w == [writer[i] EXCEPT !.at = "ended"]
  <2>1. /\ writer \in [Ids -> [at : WriterStates, carrying : Nat, took : Nat]]
        /\ conns \in [Ids -> Connections] /\ history \in [Ids -> Seq(Exchanges)]
        /\ client \in [Ids -> ClientViews] /\ opened \in 0..MaxConnections
    BY DEF ObserverInv, TypeOK
  <2>2. i \in 1..opened
    BY <1>1, <2>1 DEF Ids
  <2>3. w \in WriterRecords /\ w.at = "ended"
    <3>1. "ended" \in WriterStates \ {"none"}
      BY DEF WriterStates
    <3> QED
      BY <2>1, <3>1 DEF WriterRecords
  <2>4. /\ writer' = [writer EXCEPT ![i] = w] /\ conns' = [conns EXCEPT ![i] = c]
        /\ history' = [history EXCEPT ![i] = history[i]] /\ client' \in [Ids -> ClientViews]
    BY <1>0, <1>3, <2>1
  <2>5. /\ c \in Connections /\ history[i] \in Seq(Exchanges)
        /\ LedgerIdentities(c, published) /\ c.unknown <= 1 /\ c.inFlight = 0
    BY <1>0, <2>1, <2>2 DEF ObserverInv, LedgersBalance, OneUnknownAtMost, InFlightOnlyWhileSending
  <2> HIDE DEF w, c
  <2>6. Closed(c) <=> Closed(conns[i])
    BY DEF c
  <2> QED
    BY <1>0, <1>1, <1>3, <2>3, <2>4, <2>5, <2>6, WriterStepKeeps
<1> QED
  BY <1>2, <1>3 DEF WriterEnded

-----------------------------------------------------------------------------
(* The dispatcher and the publisher. *)

(* Numbering an exchange, handed off or dropped, keeps the invariant. *)
LEMMA DispatchKeeps ==
    ASSUME ObserverInv, Dispatch
    PROVE  ObserverInv'
<1> DEFINE n == issued + 1
           records == handoff.records
           dropped == handoff.dropped
<1>0. /\ handoff \in [records : Seq(Exchanges), bytes : Int, dropped : Nat]
      /\ issued \in 0..MaxIssued /\ MaxIssued \in Nat /\ published \in Nat
  BY LimitsAssumption DEF ObserverInv, TypeOK, LimitsAssumption
<1>1. n \in Exchanges /\ n \in 0..MaxIssued
  BY <1>0 DEF Dispatch, Exchanges
<1>2. issued = published + dropped + Len(records)
  BY DEF ObserverInv, ExchangesAccounted
<1>3. records \in Seq(Exchanges) /\ Len(records) \in Nat /\ dropped \in Nat
  BY <1>0
<1>4. /\ handoff' \in [records : Seq(Exchanges), bytes : Int, dropped : Nat]
      /\ Len(handoff'.records) + handoff'.dropped = Len(records) + dropped + 1
  <2>1. CASE handoff' = [handoff EXCEPT !.dropped = dropped + 1]
    BY SMTT(30), <1>0, <1>3, <2>1
  <2>2. CASE handoff' = [handoff EXCEPT !.records = Append(records, n),
                                        !.bytes = handoff.bytes + RecordSize[n]]
    <3>1. RecordSize[n] \in Nat
      BY <1>1, LimitsAssumption DEF LimitsAssumption
    <3>2. handoff.bytes + RecordSize[n] \in Int
      BY <1>0, <3>1
    <3>3. Append(records, n) \in Seq(Exchanges) /\ Len(Append(records, n)) = Len(records) + 1
      BY <1>1, <1>3
    <3>4. handoff'.records = Append(records, n) /\ handoff'.dropped = dropped
      BY <1>0, <2>2
    <3>5. handoff' \in [records : Seq(Exchanges), bytes : Int, dropped : Nat]
      <4>1. ASSUME NEW rs \in Seq(Exchanges), NEW b \in Int
            PROVE  [handoff EXCEPT !.records = rs, !.bytes = b]
                        \in [records : Seq(Exchanges), bytes : Int, dropped : Nat]
        BY <1>0
      <4> QED
        BY <2>2, <3>2, <3>3, <4>1
    <3> QED
      BY <1>3, <3>3, <3>4, <3>5
  <2> QED
    BY <2>1, <2>2 DEF Dispatch
<1>5. issued' = n
  BY DEF Dispatch
<1>6. UNCHANGED <<published, ring, log, opened, conns, connections, unresolved, totals,
                  counters, feed, now, writer, history, client, draining, hungUp>> /\ wake' = TRUE
  BY DEF Dispatch, tasks
<1>7. TypeOK'
  BY <1>1, <1>4, <1>5, <1>6 DEF ObserverInv, TypeOK
<1>8. ExchangesAccounted'
  <2> DEFINE len == Len(records)
             len1 == Len(handoff'.records)
             dropped1 == handoff'.dropped
  <2>1. len1 \in Nat /\ dropped1 \in Nat /\ len \in Nat /\ issued \in Nat
    BY <1>0, <1>3, <1>4
  <2>2. len1 + dropped1 = len + dropped + 1 /\ issued = published + dropped + len
    BY <1>2, <1>4
  <2> HIDE DEF len, len1, dropped, dropped1
  <2>3. n = published + dropped1 + len1
    BY <1>0, <1>3, <2>1, <2>2
  <2> QED
    BY <1>5, <1>6, <2>3 DEF ExchangesAccounted, len1, dropped1
<1>9. LedgersBalance' /\ RegisteredIffOpen' /\ OneUnknownAtMost'
  BY <1>6 DEF ObserverInv, LedgersBalance, RegisteredIffOpen, OneUnknownAtMost
<1>10. InFlightOnlyWhileSending' /\ OnlyOpenedStart' /\ PreambleHasHistory'
  BY <1>6 DEF ObserverInv, InFlightOnlyWhileSending, OnlyOpenedStart, PreambleHasHistory
<1> QED
  BY <1>7, <1>8, <1>9, <1>10 DEF ObserverInv

(* One publication extends the ledger of every registered connection by one,   *)
(* also of one whose offer raises, and leaves the ledgers of the others alone. *)
LEMMA OfferedBalances ==
    ASSUME NEW c \in Connections, NEW n \in Exchanges, NEW raises \in BOOLEAN,
           now \in Nat, published \in Nat, ~Closed(c), LedgerIdentities(c, published)
    PROVE  /\ Offered(c, n, raises) \in Connections
           /\ LedgerIdentities(Offered(c, n, raises), published + 1)
           /\ Offered(c, n, raises).inFlight = c.inFlight
           /\ Offered(c, n, raises).unknown = c.unknown
<1>1. InternalError \in Nat \ {0} /\ published + 1 \in Nat
  BY DEF InternalError
<1>2. CASE raises
  BY <1>1, <1>2, CloseBalances DEF Offered
<1>3. CASE ~raises
  BY <1>3, OfferBalances DEF Offered
<1> QED
  BY <1>2, <1>3

(* A publication keeps the invariant, whatever fails to encode and whichever offers raise. *)
LEMMA PublishKeeps ==
    ASSUME ObserverInv, NEW n \in Exchanges, Publish(n),
           handoff' \in [records : Seq(Exchanges), bytes : Int, dropped : Nat],
           handoff'.dropped = handoff.dropped,
           Len(handoff'.records) = Len(handoff.records) - 1,
           wake' \in BOOLEAN, draining' \in BOOLEAN,
           UNCHANGED <<issued, opened, feed, now, tasks, client, hungUp>>
    PROVE  ObserverInv'
<1>1. PICK encodes \in BOOLEAN, raising \in SUBSET connections :
        LET cs     == [i \in Ids |-> IF i \in connections THEN Offered(conns[i], n, i \in raising)
                                                          ELSE conns[i]]
            counts == [counters EXCEPT !["encode_failed"] = @ + (IF encodes THEN 0 ELSE 1),
                                       !["fanout_failed"] = @ + Cardinality(raising)]
        IN  /\ published' = published + 1
            /\ ring' = RingAdd(ring, n)
            /\ log' = Append(log, n)
            /\ conns' = cs
            /\ Retire({i \in connections : Closed(cs[i])}, cs, counts)
  BY DEF Publish
<1> DEFINE cs     == [i \in Ids |-> IF i \in connections THEN Offered(conns[i], n, i \in raising)
                                                         ELSE conns[i]]
           counts == [counters EXCEPT !["encode_failed"] = @ + (IF encodes THEN 0 ELSE 1),
                                      !["fanout_failed"] = @ + Cardinality(raising)]
           gone   == {i \in connections : Closed(cs[i])}
<1>2. /\ published' = published + 1 /\ ring' = RingAdd(ring, n) /\ log' = Append(log, n)
      /\ conns' = cs /\ Retire(gone, cs, counts)
  BY <1>1
<1>0. /\ conns \in [Ids -> Connections] /\ opened \in 0..MaxConnections /\ opened \in Nat
      /\ connections \in SUBSET (1..opened) /\ counters \in [CounterNames -> Nat]
      /\ published \in Nat /\ now \in Nat /\ log \in Seq(Exchanges)
      /\ ring.events \in Seq(Exchanges)
      /\ \A i \in 1..opened : i \in Ids
  <2>1. /\ conns \in [Ids -> Connections] /\ opened \in 0..MaxConnections
        /\ connections \in SUBSET (1..opened) /\ counters \in [CounterNames -> Nat]
        /\ published \in Nat /\ now \in Nat /\ log \in Seq(Exchanges)
        /\ ring.events \in Seq(Exchanges)
    BY DEF ObserverInv, TypeOK
  <2>2. opened \in Nat /\ \A i \in 1..opened : i \in Ids
    BY <2>1, ObserverAssumption DEF Ids, ObserverAssumption
  <2> QED
    BY <2>1, <2>2
<1>3. counts \in [CounterNames -> Nat]
  <2> DEFINE k == Cardinality(raising)
             m == IF encodes THEN 0 ELSE 1
  <2>1. k \in Nat
    <3>1. IsFiniteSet(1..opened)
      BY <1>0, FS_Interval
    <3>2. raising \in SUBSET (1..opened)
      BY <1>0
    <3> QED
      BY <3>1, <3>2, FS_Subset, FS_CardinalityType
  <2>2. m \in Nat
    OBVIOUS
  <2> HIDE DEF k, m
  <2>3. ASSUME NEW x \in Nat, NEW y \in Nat
        PROVE  [counters EXCEPT !["encode_failed"] = x, !["fanout_failed"] = y]
                    \in [CounterNames -> Nat]
    BY <1>0
  <2>4. counters["encode_failed"] \in Nat /\ counters["fanout_failed"] \in Nat
    BY <1>0 DEF CounterNames
  <2>5. counters["encode_failed"] + m \in Nat /\ counters["fanout_failed"] + k \in Nat
    BY <2>1, <2>2, <2>4
  <2>6. counts = [counters EXCEPT !["encode_failed"] = counters["encode_failed"] + m,
                                  !["fanout_failed"] = counters["fanout_failed"] + k]
    BY DEF k, m
  <2> QED
    BY <2>3, <2>5, <2>6
<1> HIDE DEF counts
<1>4. ASSUME NEW i \in connections
      PROVE  /\ cs[i] \in Connections /\ LedgerIdentities(cs[i], published + 1)
             /\ cs[i].inFlight = conns[i].inFlight /\ cs[i].unknown = conns[i].unknown
  <2>1. i \in 1..opened /\ i \in Ids
    BY <1>0
  <2>2. ~Closed(conns[i]) /\ LedgerIdentities(conns[i], published) /\ conns[i] \in Connections
    BY <1>0, <2>1 DEF ObserverInv, RegisteredIffOpen, LedgersBalance
  <2> DEFINE raises == i \in raising
  <2>3. cs[i] = Offered(conns[i], n, raises)
    BY <2>1
  <2>4. raises \in BOOLEAN /\ now \in Nat /\ published \in Nat
    BY <1>0
  <2> HIDE DEF cs, raises
  <2> QED
    BY <2>2, <2>3, <2>4, OfferedBalances
<1>5. \A i \in Ids : i \notin connections => cs[i] = conns[i]
  OBVIOUS
<1> HIDE DEF cs
<1>6. \A i \in Ids : /\ cs[i] \in Connections /\ cs[i].inFlight = conns[i].inFlight
                      /\ cs[i].unknown = conns[i].unknown
  BY <1>0, <1>4, <1>5
<1>7. /\ connections' = connections \ gone /\ unresolved' \in SUBSET (1..opened)
      /\ counters' \in [CounterNames -> Nat]
  BY <1>2, <1>3, RetireEffect
<1>8. conns' \in [Ids -> Connections]
  BY <1>2, <1>6 DEF cs
<1>9. /\ ring'.events \in Seq(Exchanges) /\ ring'.lastSeq \in 0..MaxIssued
      /\ log' \in Seq(Exchanges) /\ published' \in Nat
  <2>1. ring'.events \in Seq(Exchanges) /\ ring'.lastSeq = n
    BY <1>0, <1>2, RingAddType
  <2>2. n \in 0..MaxIssued
    BY LimitsAssumption DEF Exchanges, LimitsAssumption
  <2> QED
    BY <1>0, <1>2, <2>1, <2>2
<1>10. TypeOK'
  <2>1. connections' \in SUBSET (1..opened)
    BY <1>0, <1>7
  <2> QED
    BY <1>7, <1>8, <1>9, <2>1 DEF ObserverInv, TypeOK, tasks
<1>11. ExchangesAccounted'
  <2> DEFINE len == Len(handoff.records)
             dropped == handoff.dropped
  <2>1. len \in Nat /\ dropped \in Nat /\ issued = published + dropped + len
    BY DEF ObserverInv, TypeOK, ExchangesAccounted
  <2>2. Len(handoff'.records) = len - 1 /\ handoff'.dropped = dropped
    OBVIOUS
  <2> HIDE DEF len, dropped
  <2>3. issued = (published + 1) + dropped + (len - 1)
    BY <1>0, <2>1
  <2> QED
    BY <1>2, <2>2, <2>3 DEF ExchangesAccounted
<1>12. LedgersBalance'
  <2> SUFFICES ASSUME NEW i \in 1..opened
               PROVE  LedgerIdentities(cs[i], published + 1)
    BY <1>2 DEF LedgersBalance
  <2>1. CASE i \in connections
    BY <1>4, <2>1
  <2>2. CASE i \notin connections
    <3>1. cs[i] = conns[i] /\ Closed(conns[i]) /\ LedgerIdentities(conns[i], published)
      BY <1>0, <1>5, <2>2 DEF ObserverInv, RegisteredIffOpen, LedgersBalance
    <3> QED
      BY <3>1, ClosedStaysBalanced
  <2> QED
    BY <2>1, <2>2
<1>13. RegisteredIffOpen'
  <2> SUFFICES ASSUME NEW i \in 1..opened
               PROVE  i \in connections' <=> ~Closed(cs[i])
    BY <1>2 DEF RegisteredIffOpen
  <2>1. CASE i \in connections
    BY <1>7, <2>1
  <2>2. CASE i \notin connections
    <3>1. cs[i] = conns[i] /\ Closed(conns[i])
      BY <1>0, <1>5, <2>2 DEF ObserverInv, RegisteredIffOpen
    <3> QED
      BY <1>7, <2>2, <3>1
  <2> QED
    BY <2>1, <2>2
<1>14. OneUnknownAtMost'
  BY <1>0, <1>2, <1>6 DEF ObserverInv, OneUnknownAtMost, tasks
<1>15. InFlightOnlyWhileSending' /\ OnlyOpenedStart' /\ PreambleHasHistory'
  BY <1>2, <1>6 DEF ObserverInv, InFlightOnlyWhileSending, OnlyOpenedStart, PreambleHasHistory, tasks
<1> QED
  BY <1>10, <1>11, <1>12, <1>13, <1>14, <1>15 DEF ObserverInv

(* A turn of the publisher takes one record from the hand-off to the ring and the queues. *)
LEMMA PublisherTurnKeeps ==
    ASSUME ObserverInv, PublisherTurn
    PROVE  ObserverInv'
<1> DEFINE records == handoff.records
<1>0. /\ handoff \in [records : Seq(Exchanges), bytes : Int, dropped : Nat]
      /\ records \in Seq(Exchanges) /\ wake \in BOOLEAN /\ draining \in BOOLEAN
  BY DEF ObserverInv, TypeOK
<1>1. CASE records = << >>
  <2>1. /\ draining' = FALSE /\ wake' = FALSE
        /\ UNCHANGED <<handoff, published, ring, log, conns, connections, unresolved, counters,
                       issued, opened, feed, now, writer, history, client, hungUp>>
    BY <1>1 DEF PublisherTurn, tasks
  <2> QED
    BY <2>1 DEF ObserverInv, TypeOK, ExchangesAccounted, LedgersBalance, RegisteredIffOpen,
                OneUnknownAtMost, InFlightOnlyWhileSending, OnlyOpenedStart, PreambleHasHistory
<1>2. CASE records # << >>
  <2> DEFINE n == Head(records)
             rest == Tail(records)
             less == handoff.bytes - RecordSize[n]
  <2>1. n \in Exchanges /\ rest \in Seq(Exchanges) /\ Len(rest) = Len(records) - 1
    BY <1>0, <1>2
  <2>2. handoff' = [handoff EXCEPT !.records = rest, !.bytes = less] /\ Publish(n)
    BY <1>2 DEF PublisherTurn
  <2>3. less \in Int
    <3>1. RecordSize[n] \in Nat
      BY <2>1, LimitsAssumption DEF LimitsAssumption
    <3> QED
      BY <1>0, <3>1
  <2>4. /\ handoff' \in [records : Seq(Exchanges), bytes : Int, dropped : Nat]
        /\ handoff'.dropped = handoff.dropped /\ handoff'.records = rest
    <3> HIDE DEF rest, less
    <3>1. ASSUME NEW rs \in Seq(Exchanges), NEW b \in Int
          PROVE  [handoff EXCEPT !.records = rs, !.bytes = b]
                        \in [records : Seq(Exchanges), bytes : Int, dropped : Nat]
      BY <1>0
    <3>2. handoff' \in [records : Seq(Exchanges), bytes : Int, dropped : Nat]
      BY <2>1, <2>2, <2>3, <3>1
    <3> QED
      BY <1>0, <2>2, <3>2
  <2>5. wake' \in BOOLEAN /\ draining' \in BOOLEAN
    BY <1>0, <1>2 DEF PublisherTurn
  <2>6. UNCHANGED <<issued, opened, feed, now, tasks, client, hungUp>>
    BY DEF PublisherTurn
  <2>7. Len(handoff'.records) = Len(handoff.records) - 1
    BY <2>1, <2>4
  <2> HIDE DEF n, rest, less, records
  <2> QED
    BY <2>1, <2>2, <2>4, <2>5, <2>6, <2>7, PublishKeeps
<1> QED
  BY <1>1, <1>2

-----------------------------------------------------------------------------
(* The steps that leave every account alone: refused clients, GET /status, the *)
(* clock, and the state and the dropped notice put in the connections' slots.  *)

(* A step that moves no exchange and opens or closes no connection keeps the invariant. *)
LEMMA QuietStepKeeps ==
    ASSUME ObserverInv,
           \A i \in Ids : KeepsAccount(conns[i], conns'[i]),
           conns' \in [Ids -> Connections],
           unresolved' \in SUBSET (1..opened),
           counters' \in [CounterNames -> Nat],
           feed' \in [last : Nat \ {0}, mustPublish : BOOLEAN, due : Nat],
           now' \in Nat,
           UNCHANGED <<stream, opened, connections, tasks, client, hungUp>>
    PROVE  ObserverInv'
<1>1. \A i \in 1..opened : i \in Ids
  BY SMTT(30), ObserverAssumption DEF ObserverInv, TypeOK, Ids, ObserverAssumption
<1>2. \A i \in Ids : /\ SameAccount(conns[i], conns'[i]) /\ Resolved(conns'[i]) = Resolved(conns[i])
                      /\ conns'[i].inFlight = conns[i].inFlight
                      /\ conns'[i].unknown = conns[i].unknown
  BY DEF KeepsAccount
<1>3. TypeOK'
  BY DEF ObserverInv, TypeOK, stream, tasks
<1>4. ExchangesAccounted'
  BY DEF ObserverInv, ExchangesAccounted, stream
<1>5. ASSUME NEW i \in Ids
      PROVE  /\ Closed(conns'[i]) <=> Closed(conns[i])
             /\ LedgerIdentities(conns[i], published) => LedgerIdentities(conns'[i], published)
  <2> DEFINE c == conns[i]
             d == conns'[i]
  <2>1. SameAccount(c, d) /\ Resolved(d) = Resolved(c)
    BY <1>2
  <2> HIDE DEF c, d
  <2>2. /\ Closed(d) <=> Closed(c)
        /\ LedgerIdentities(c, published) => LedgerIdentities(d, published)
    BY <2>1, SameAccountBalances
  <2> QED
    BY <2>2 DEF c, d
<1>6. LedgersBalance'
  <2>1. UNCHANGED <<published, opened>>
    BY DEF stream
  <2> QED
    BY <1>1, <1>5, <2>1 DEF ObserverInv, LedgersBalance
<1>7. RegisteredIffOpen'
  <2>1. UNCHANGED <<connections, opened>>
    OBVIOUS
  <2> QED
    BY <1>1, <1>5, <2>1 DEF ObserverInv, RegisteredIffOpen
<1>8. OneUnknownAtMost'
  BY <1>1, <1>2 DEF ObserverInv, OneUnknownAtMost, tasks
<1>9. InFlightOnlyWhileSending' /\ OnlyOpenedStart' /\ PreambleHasHistory'
  BY <1>2 DEF ObserverInv, InFlightOnlyWhileSending, OnlyOpenedStart, PreambleHasHistory, tasks
<1> QED
  BY <1>3, <1>4, <1>6, <1>7, <1>8, <1>9 DEF ObserverInv

(* What a quiet step leaves unchanged has its type already. *)
LEMMA QuietTypes ==
    ASSUME ObserverInv
    PROVE  /\ \A i \in Ids : KeepsAccount(conns[i], conns[i])
           /\ conns \in [Ids -> Connections]
           /\ unresolved \in SUBSET (1..opened)
           /\ counters \in [CounterNames -> Nat]
           /\ feed \in [last : Nat \ {0}, mustPublish : BOOLEAN, due : Nat]
           /\ now \in Nat
BY DEF ObserverInv, TypeOK, KeepsAccount, SameAccount

(* _retire_closed finds nothing: whatever closes a connection retires it at once. *)
LEMMA NoneClosedMeanwhile ==
    ASSUME ObserverInv
    PROVE  ClosedMeanwhile = {}
BY DEF ObserverInv, TypeOK, RegisteredIffOpen, ClosedMeanwhile

(* Retiring nobody leaves the counters numbers. *)
LEMMA NoneLeaving ==
    ASSUME NEW cs, NEW counts \in [CounterNames -> Nat], CountLeaving({}, cs, counts)
    PROVE  counters' \in [CounterNames -> Nat]
<1>1. Cardinality({i \in {} : cs[i].closeCode = TooSlow}) = 0
  <2>1. {i \in {} : cs[i].closeCode = TooSlow} = {}
    OBVIOUS
  <2> QED
    BY <2>1, FS_EmptySet
<1>2. counts["forced_disconnects"] + 0 \in Nat
  BY DEF CounterNames
<1> QED
  BY <1>1, <1>2 DEF CountLeaving

(* Refusing a client keeps the invariant. *)
LEMMA RefuseClientKeeps ==
    ASSUME ObserverInv, RefuseClient
    PROVE  ObserverInv'
<1>1. ClosedMeanwhile = {}
  BY NoneClosedMeanwhile
<1>2. Retire({}, conns, Count("refused_clients"))
  BY <1>1 DEF RefuseClient
<1>3. Count("refused_clients") \in [CounterNames -> Nat]
  BY CountType DEF CounterNames
<1>4. /\ connections' = connections /\ unresolved' \in SUBSET (1..opened)
      /\ counters' \in [CounterNames -> Nat]
  BY <1>2, <1>3, RetireEffect
<1>5. UNCHANGED <<stream, opened, conns, feed, now, tasks, client, hungUp>>
  BY DEF RefuseClient
<1> QED
  BY <1>4, <1>5, QuietTypes, QuietStepKeeps

(* Reading the statistics folds what has resolved and keeps the invariant. *)
LEMMA StatsKeeps ==
    ASSUME ObserverInv, Stats
    PROVE  ObserverInv'
<1>1. ClosedMeanwhile = {}
  BY NoneClosedMeanwhile
<1>2. connections' = connections
  BY <1>1 DEF Stats
<1>3. Fold(unresolved, conns) /\ CountLeaving({}, conns, counters)
  BY <1>1 DEF Stats
<1>4. unresolved' \in SUBSET (1..opened)
  BY <1>3, QuietTypes DEF Fold
<1>5. counters' \in [CounterNames -> Nat]
  BY <1>3, QuietTypes, NoneLeaving
<1>6. UNCHANGED <<stream, opened, conns, feed, now, tasks, client, hungUp>>
  BY DEF Stats
<1> QED
  BY <1>2, <1>4, <1>5, <1>6, QuietTypes, QuietStepKeeps

(* The passing of time keeps the invariant. *)
LEMMA TickKeeps ==
    ASSUME ObserverInv, Tick
    PROVE  ObserverInv'
<1>1. now' \in Nat
  BY QuietTypes DEF Tick
<1> QED
  BY <1>1, QuietTypes, QuietStepKeeps DEF Tick

(* push_dropped, after a push of the state or without one. *)
LEMMA PushKeepsAccount ==
    ASSUME ObserverInv, NEW version \in Nat, NEW push \in BOOLEAN
    PROVE  LET cs == PushDropped(IF push THEN PushState(conns, version) ELSE conns)
           IN  /\ cs \in [Ids -> Connections]
               /\ \A i \in Ids : KeepsAccount(conns[i], cs[i])
<1> DEFINE ss == IF push THEN PushState(conns, version) ELSE conns
           cs == PushDropped(ss)
<1>1. ASSUME NEW i \in Ids
      PROVE  KeepsAccount(conns[i], ss[i])
  BY QuietTypes, StateKeepsAccount DEF PushState
<1>2. ASSUME NEW i \in Ids
      PROVE  KeepsAccount(conns[i], cs[i])
  <2>1. cs[i] = IF i \in connections THEN SetDropped(ss[i]) ELSE ss[i]
    BY DEF PushDropped
  <2> HIDE DEF ss, cs
  <2>2. ss[i] \in Connections
    BY <1>1 DEF KeepsAccount
  <2>3. KeepsAccount(ss[i], SetDropped(ss[i]))
    BY <2>2, NoticeKeepsAccount
  <2> QED
    BY <1>1, <2>1, <2>3 DEF KeepsAccount, SameAccount
<1>3. cs \in [Ids -> Connections]
  <2>1. cs = [i \in Ids |-> cs[i]]
    BY DEF PushDropped
  <2> HIDE DEF cs
  <2> QED
    BY <1>2, <2>1 DEF KeepsAccount
<1> HIDE DEF cs
<1> QED
  BY <1>2, <1>3 DEF cs

(* A turn of run_state with a snapshot keeps the invariant. *)
LEMMA SnapshotTakenKeeps ==
    ASSUME ObserverInv, NEW version \in {feed.last, feed.last + 1}, SnapshotTaken(version)
    PROVE  ObserverInv'
<1> DEFINE push == feed.mustPublish \/ version # feed.last
           due  == now + 1
<1>1. version \in Nat \ {0} /\ version \in Nat /\ due \in Nat
  BY QuietTypes
<1>2. conns' = PushDropped(IF push THEN PushState(conns, version) ELSE conns)
  BY DEF SnapshotTaken
<1>3. push \in BOOLEAN
  OBVIOUS
<1>4. feed' \in [last : Nat \ {0}, mustPublish : BOOLEAN, due : Nat]
  <2>1. feed' = [last |-> version, mustPublish |-> FALSE, due |-> due]
    BY DEF SnapshotTaken
  <2> HIDE DEF due
  <2> QED
    BY <1>1, <2>1
<1>5. UNCHANGED <<stream, opened, connections, unresolved, counters, now, tasks, client, hungUp>>
  BY DEF SnapshotTaken
<1> HIDE DEF push
<1>6. conns' \in [Ids -> Connections] /\ \A i \in Ids : KeepsAccount(conns[i], conns'[i])
  BY <1>1, <1>2, <1>3, PushKeepsAccount
<1> QED
  BY <1>4, <1>5, <1>6, QuietTypes, QuietStepKeeps

(* A turn of run_state whose snapshot raises keeps the invariant. *)
LEMMA SnapshotFailsKeeps ==
    ASSUME ObserverInv, SnapshotFails
    PROVE  ObserverInv'
<1> DEFINE push == FALSE
           due  == now + 1
           none == 0
<1>1. due \in Nat /\ none \in Nat /\ push \in BOOLEAN
  BY QuietTypes
<1>2. conns' = PushDropped(IF push THEN PushState(conns, none) ELSE conns)
  BY DEF SnapshotFails
<1>3. feed' \in [last : Nat \ {0}, mustPublish : BOOLEAN, due : Nat]
  <2>1. feed' = [feed EXCEPT !.mustPublish = TRUE, !.due = due]
    BY DEF SnapshotFails
  <2> HIDE DEF due
  <2> QED
    BY <1>1, <2>1, QuietTypes
<1>4. counters' \in [CounterNames -> Nat]
  BY CountType DEF SnapshotFails, CounterNames
<1>5. UNCHANGED <<stream, opened, connections, unresolved, now, tasks, client, hungUp>>
  BY DEF SnapshotFails
<1> HIDE DEF push, none
<1>6. conns' \in [Ids -> Connections] /\ \A i \in Ids : KeepsAccount(conns[i], conns'[i])
  BY <1>1, <1>2, PushKeepsAccount
<1> QED
  BY <1>3, <1>4, <1>5, <1>6, QuietTypes, QuietStepKeeps

-----------------------------------------------------------------------------
(* Opening a connection registers it with an empty ledger at the count published. *)
LEMMA ConnectKeeps ==
    ASSUME ObserverInv, NEW after \in Afters, Connect(after)
    PROVE  ObserverInv'
<1> DEFINE i       == opened + 1
           opening == Since(ring, after)
           fresh   == NewConnection(ring.lastSeq, published, Len(opening))
           d       == SetState(fresh, feed.last)
           gap     == Gap(ring, after)
           v       == [client[i] EXCEPT !.after = after, !.gap = gap, !.opening = opening]
<1>0. /\ opened' = i /\ conns' = [conns EXCEPT ![i] = d] /\ connections' = connections \cup {i}
      /\ history' = [history EXCEPT ![i] = opening] /\ client' = [client EXCEPT ![i] = v]
      /\ opened < MaxConnections
      /\ UNCHANGED <<issued, handoff, wake, draining, published, ring, log, unresolved, feed, now,
                     writer>>
      /\ CountLeaving({}, conns, counters)
  BY NoneClosedMeanwhile DEF Connect, Account, stream
<1>0c. counters' \in [CounterNames -> Nat]
  BY <1>0, QuietTypes, NoneLeaving
<1>1. /\ conns \in [Ids -> Connections] /\ opened \in 0..MaxConnections /\ opened \in Nat
      /\ connections \in SUBSET (1..opened) /\ unresolved \in SUBSET (1..opened)
      /\ published \in Nat /\ ring.lastSeq \in Nat /\ ring.events \in Seq(Exchanges)
      /\ history \in [Ids -> Seq(Exchanges)] /\ client \in [Ids -> ClientViews]
      /\ feed.last \in Nat
  BY DEF ObserverInv, TypeOK
<1>2. /\ MaxConnections \in Nat
      /\ after \in Nat \cup {NoAfter}
  BY ObserverAssumption DEF ObserverAssumption
<1>3. /\ i \in Ids /\ i \in 0..MaxConnections
      /\ (\A j \in 1..i : j \in Ids) /\ 1..i = (1..opened) \cup {i} /\ i \notin 1..opened
      /\ ~(i <= opened)
  BY <1>0, <1>1, <1>2 DEF Ids
<1>4. opening \in Seq(Exchanges) /\ Len(opening) \in Nat
  BY <1>1, <1>2, SinceType
<1>5. /\ fresh \in Connections /\ LedgerIdentities(fresh, published)
      /\ ~Closed(fresh) /\ fresh.inFlight = 0 /\ fresh.unknown = 0
  <2> DEFINE sent == Len(opening)
             seq  == ring.lastSeq
  <2>1. fresh = NewConnection(seq, published, sent)
    OBVIOUS
  <2>2. sent \in Nat /\ seq \in Nat /\ published \in Nat
    BY <1>1, <1>4
  <2> HIDE DEF fresh, sent, seq
  <2> QED
    BY <2>1, <2>2, NewConnectionBalances
<1> HIDE DEF fresh, opening
<1>6. /\ d \in Connections /\ LedgerIdentities(d, published)
      /\ ~Closed(d) /\ d.inFlight = 0 /\ d.unknown = 0
  <2>1. KeepsAccount(fresh, d)
    BY <1>1, <1>5, StateKeepsAccount
  <2> HIDE DEF d
  <2> QED
    BY <1>5, <2>1, SameAccountBalances DEF KeepsAccount
<1>7. v \in ClientViews
  <2>1. gap \in BOOLEAN
    BY DEF Gap
  <2>2. client[i] \in ClientViews
    BY <1>1, <1>3
  <2> HIDE DEF gap, i
  <2> QED
    BY <1>2, <1>4, <2>1, <2>2 DEF ClientViews
<1> HIDE DEF d, v, i
<1>8. conns'[i] = d /\ \A j \in Ids : j # i => conns'[j] = conns[j]
  BY <1>0, <1>1, <1>3
<1>9. TypeOK'
  <2>1. conns' \in [Ids -> Connections]
    BY <1>0, <1>1, <1>6
  <2>2. connections' \in SUBSET (1..opened') /\ unresolved' \in SUBSET (1..opened')
    BY <1>0, <1>1, <1>3
  <2>3. history' \in [Ids -> Seq(Exchanges)] /\ client' \in [Ids -> ClientViews]
    BY <1>0, <1>1, <1>4, <1>7
  <2>4. hungUp' \in SUBSET (1..opened')
    <3>1. hungUp' = hungUp /\ hungUp \in SUBSET (1..opened)
      BY DEF ObserverInv, TypeOK, Connect
    <3> QED
      BY <1>0, <1>3, <3>1
  <2> QED
    BY <1>0, <1>3, <1>0c, <2>1, <2>2, <2>3, <2>4 DEF ObserverInv, TypeOK
<1>10. ExchangesAccounted'
  BY <1>0 DEF ObserverInv, ExchangesAccounted
<1>11. LedgersBalance'
  BY <1>0, <1>3, <1>6, <1>8 DEF ObserverInv, LedgersBalance
<1>12. RegisteredIffOpen'
  BY <1>0, <1>3, <1>6, <1>8 DEF ObserverInv, RegisteredIffOpen
<1>13. OneUnknownAtMost'
  <2>1. 0 <= 1 /\ 0 # 1
    OBVIOUS
  <2> QED
    BY <1>0, <1>3, <1>6, <1>8, <2>1 DEF ObserverInv, OneUnknownAtMost
<1>14. InFlightOnlyWhileSending'
  BY <1>0, <1>6, <1>8 DEF ObserverInv, InFlightOnlyWhileSending
<1>15. OnlyOpenedStart'
  <2>1. \A j \in Ids : j <= opened => j <= i
    BY <1>1 DEF i, Ids
  <2> QED
    BY <1>0, <2>1 DEF ObserverInv, OnlyOpenedStart
<1>16. PreambleHasHistory'
  <2>1. writer[i].at = "none"
    BY <1>3 DEF ObserverInv, OnlyOpenedStart
  <2>2. \A j \in Ids : j # i => history'[j] = history[j]
    BY <1>0, <1>1
  <2> QED
    BY <1>0, <2>1, <2>2 DEF ObserverInv, PreambleHasHistory
<1> QED
  BY <1>9, <1>10, <1>11, <1>12, <1>13, <1>14, <1>15, <1>16 DEF ObserverInv

-----------------------------------------------------------------------------
(* The observer starts in the invariant. *)
LEMMA InitEstablishes == Init => ObserverInv
<1> SUFFICES ASSUME Init PROVE ObserverInv
  OBVIOUS
<1>0. /\ issued = 0 /\ published = 0 /\ opened = 0 /\ connections = {} /\ unresolved = {}
      /\ handoff = [records |-> << >>, bytes |-> 0, dropped |-> 0]
      /\ wake = FALSE /\ draining = FALSE /\ now = 0 /\ log = << >>
      /\ feed = [last |-> 1, mustPublish |-> FALSE, due |-> 0]
  BY DEF Init
<1>1. MaxIssued \in Nat /\ MaxConnections \in Nat
  BY LimitsAssumption, ObserverAssumption DEF LimitsAssumption, ObserverAssumption
<1>2. \A i \in Ids : /\ conns[i] \in Connections /\ conns[i].inFlight = 0
  <2> DEFINE z == 0
             c == NewConnection(z, z, z)
  <2>1. conns = [i \in Ids |-> c]
    BY DEF Init
  <2>2. c \in Connections /\ c.inFlight = 0
    <3>1. z \in Nat /\ c = NewConnection(z, z, z)
      OBVIOUS
    <3> HIDE DEF z, c
    <3> QED
      BY <3>1, NewConnectionBalances
  <2> QED
    BY <2>1, <2>2
<1>3. conns \in [Ids -> Connections]
  <2>1. conns = [i \in Ids |-> conns[i]]
    BY DEF Init
  <2> QED
    BY <1>2, <2>1
<1>4. writer \in [Ids -> [at : WriterStates, carrying : Nat, took : Nat]]
      /\ \A i \in Ids : writer[i].at = "none"
  BY DEF Init, WriterStates
<1>5. /\ handoff \in [records : Seq(Exchanges), bytes : Int, dropped : Nat]
      /\ Len(handoff.records) = 0 /\ handoff.dropped = 0
  <2> DEFINE empty == << >>
             none == 0
  <2>1. empty \in Seq(Exchanges) /\ none \in Int /\ none \in Nat /\ Len(empty) = 0
    OBVIOUS
  <2>2. handoff = [records |-> empty, bytes |-> none, dropped |-> none]
    BY <1>0
  <2>3. none = 0
    OBVIOUS
  <2> HIDE DEF empty, none
  <2> QED
    BY <2>1, <2>2, <2>3
<1>6. history \in [Ids -> Seq(Exchanges)]
  BY DEF Init
<1>7. client \in [Ids -> ClientViews]
  <2> DEFINE empty == << >>
             none == 0
             never == NoAfter
             no == FALSE
             v == [after |-> never, gap |-> no, opening |-> empty, got |-> empty, state |-> none]
  <2>1. empty \in Seq(Exchanges) /\ none \in Nat /\ never \in Nat \cup {NoAfter} /\ no \in BOOLEAN
    OBVIOUS
  <2>2. v \in ClientViews
    <3> HIDE DEF empty, none, never, no
    <3> QED
      BY <2>1 DEF ClientViews
  <2>3. client = [i \in Ids |-> v]
    BY DEF Init
  <2> HIDE DEF v
  <2> QED
    BY <2>2, <2>3
<1>8. counters \in [CounterNames -> Nat]
  BY DEF Init
<1>9. ring.events \in Seq(Exchanges) /\ ring.lastSeq \in 0..MaxIssued
  <2>1. ring.events = << >> /\ ring.lastSeq = 0
    BY DEF Init, EmptyRing
  <2> QED
    BY <1>1, <2>1
<1>10. feed \in [last : Nat \ {0}, mustPublish : BOOLEAN, due : Nat]
  BY <1>0
<1>11. issued \in 0..MaxIssued /\ opened \in 0..MaxConnections
  BY <1>0, <1>1
<1>12. TypeOK
  <2>1. hungUp \in SUBSET (1..opened)
    BY DEF Init
  <2> QED
    BY <1>0, <1>3, <1>4, <1>5, <1>6, <1>7, <1>8, <1>9, <1>10, <1>11, <2>1 DEF TypeOK
<1>13. ExchangesAccounted
  BY <1>0, <1>5 DEF ExchangesAccounted
<1>14. LedgersBalance /\ RegisteredIffOpen /\ OneUnknownAtMost
  <2>1. 1..opened = {}
    BY <1>0
  <2> QED
    BY <2>1 DEF LedgersBalance, RegisteredIffOpen, OneUnknownAtMost
<1>15. InFlightOnlyWhileSending /\ OnlyOpenedStart /\ PreambleHasHistory
  BY <1>2, <1>4 DEF InFlightOnlyWhileSending, OnlyOpenedStart, PreambleHasHistory
<1> QED
  BY <1>12, <1>13, <1>14, <1>15 DEF ObserverInv

(* Every step of a writer keeps the invariant. *)
LEMMA WriterStepsKeep ==
    ASSUME ObserverInv, NEW i \in Ids, WriterStep(i)
    PROVE  ObserverInv'
<1>1. CASE StartWriter(i)
  BY <1>1, StartWriterKeeps
<1>2. CASE PrepareFails(i)
  BY <1>2, PrepareFailsKeeps
<1>3. CASE SendReturns(i)
  BY <1>3, SendReturnsKeeps
<1>4. CASE SendRefused(i)
  BY <1>4, SendEndsKeeps DEF SendRefused
<1>5. CASE SendRaises(i)
  BY <1>5, SendEndsKeeps DEF SendRaises
<1>6. CASE WriterEnded(i)
  BY <1>6, WriterEndedKeeps
<1>7. CASE CancelWriter(i)
  BY <1>7, SendEndsKeeps DEF CancelWriter
<1>8. CASE WriterWakes(i)
  BY <1>8, WriterWakesKeeps
<1> QED
  BY <1>1, <1>2, <1>3, <1>4, <1>5, <1>6, <1>7, <1>8 DEF WriterStep

(* The invariant is inductive: every step keeps it. *)
LEMMA NextKeeps == ObserverInv /\ [Next]_vars => ObserverInv'
<1> SUFFICES ASSUME ObserverInv, [Next]_vars PROVE ObserverInv'
  OBVIOUS
<1>1. CASE Dispatch
  BY <1>1, DispatchKeeps
<1>2. CASE PublisherTurn
  BY <1>2, PublisherTurnKeeps
<1>3. ASSUME NEW after \in Afters, Connect(after) PROVE ObserverInv'
  BY <1>3, ConnectKeeps
<1>4. CASE RefuseClient
  BY <1>4, RefuseClientKeeps
<1>5. ASSUME NEW i \in Ids, Disconnect(i) PROVE ObserverInv'
  BY <1>5, DisconnectKeeps
<1>6. CASE Stats
  BY <1>6, StatsKeeps
<1>7. ASSUME NEW i \in Ids, WriterStep(i) PROVE ObserverInv'
  BY <1>7, WriterStepsKeep
<1>8. ASSUME NEW version \in {feed.last, feed.last + 1}, SnapshotTaken(version) PROVE ObserverInv'
  BY <1>8, SnapshotTakenKeeps
<1>9. CASE SnapshotFails
  BY <1>9, SnapshotFailsKeeps
<1>10. CASE Tick
  BY <1>10, TickKeeps
<1>11. CASE UNCHANGED vars
  BY <1>11, QuietTypes, QuietStepKeeps DEF vars
<1> QED
  BY <1>1, <1>2, <1>3, <1>4, <1>5, <1>6, <1>7, <1>8, <1>9, <1>10, <1>11 DEF Next

(* Every reachable state of the observer satisfies the invariant. *)
THEOREM ObserverInvariant == Spec => []ObserverInv
BY InitEstablishes, NextKeeps, PTL DEF Spec

(* The state keeps its types: no record, queue or counter of the hand-off, the *)
(* ring, a connection or a writer ever leaves its range.                       *)
THEOREM TypeCorrect == Spec => []TypeOK
BY ObserverInvariant, PTL DEF ObserverInv

(* P5(a): issued = published + dropped at the hand-off + still in it, always. *)
THEOREM ExchangesAreAccounted == Spec => []ExchangesAccounted
BY ObserverInvariant, PTL DEF ObserverInv

(* The three identities of decisions/0010 section 5.1 hold of every ledger at *)
(* every instant, whatever is dropped, abandoned, forced out or in flight.    *)
THEOREM LedgersAlwaysBalance == Spec => []LedgersBalance
BY ObserverInvariant, PTL DEF ObserverInv

(* A connection holds one of the client slots exactly while it is open. *)
THEOREM SlotsAreForOpenConnections == Spec => []RegisteredIffOpen
BY ObserverInvariant, PTL DEF ObserverInv

(* No connection ever has more than one exchange whose delivery is unknown. *)
THEOREM AtMostOneUnknown == Spec => []OneUnknownAtMost
BY ObserverInvariant, PTL DEF ObserverInv

-----------------------------------------------------------------------------
(* Why connections closed. *)

(* Only a connection that has been opened is ever closed. *)
OnlyOpenedClose == \A i \in Ids : Closed(conns[i]) => i <= opened

(* A client that has hung up has a closed connection. *)
HungUpClosed == \A i \in hungUp : Closed(conns[i])

CloseInv == ObserverInv /\ OnlyOpenedClose /\ HungUpClosed

(* A closed connection keeps its code, its span and what it was offered. *)
KeepsCode(c, d) ==
    Closed(c) => /\ d.closeCode = c.closeCode
                 /\ d.publishedAtClose = c.publishedAtClose
                 /\ d.offered = c.offered

(* The counters that explain the codes, and the connections a step closes with a code. *)
Explaining == <<counters["forced_disconnects"], counters["fanout_failed"] + counters["writer_failed"]>>
Closing(code) == {i \in Ids : ~Closed(conns[i]) /\ conns'[i].closeCode = code}

(* A step counts the clients it forces out, and its faults, once each. *)
StepCounts ==
    Explaining' = <<Explaining[1] + Cardinality(Closing(TooSlow)),
                    Explaining[2] + Cardinality(Closing(InternalError))>>

(* What every step does to every connection. *)
CodesKept == \A i \in Ids : KeepsCode(conns[i], conns'[i]) /\ (Closed(conns'[i]) => i <= opened')

(* What every step does, but that of a client which closes the connection itself. *)
StepKeeps == CodesKept /\ StepCounts

(* Client i closes: whatever its code, the step closes no other connection, *)
(* and a 1011 of the client is no fault of the server.                       *)
HangsUp(i) ==
    /\ CodesKept
    /\ \A j \in Ids : ~Closed(conns[j]) /\ conns'[j].closeCode # conns[j].closeCode => j = i
    /\ Closed(conns'[i])
    /\ hungUp' = IF Closed(conns[i]) THEN hungUp ELSE hungUp \cup {i}
    /\ Explaining' = <<Explaining[1] + Cardinality(Closing(TooSlow)), Explaining[2]>>

-----------------------------------------------------------------------------
(* The counters are numbers. *)
LEMMA ExplainingType ==
    ASSUME CloseInv
    PROVE  /\ counters \in [CounterNames -> Nat]
           /\ Explaining[1] \in Nat /\ Explaining[2] \in Nat
BY SMTT(30) DEF CloseInv, ObserverInv, TypeOK, CounterNames, Explaining

(* A step that closes nobody with either code counts nothing. *)
LEMMA NobodyToCount ==
    ASSUME CloseInv, UNCHANGED Explaining, Closing(TooSlow) = {}, Closing(InternalError) = {}
    PROVE  StepCounts
<1>1. Explaining' = <<Explaining[1], Explaining[2]>>
  BY DEF Explaining
<1> QED
  BY <1>1, ExplainingType, FS_EmptySet DEF StepCounts

(* A step that leaves every connection's part of the account alone. *)
LEMMA SameAccountsKeep ==
    ASSUME CloseInv, UNCHANGED <<opened, Explaining>>,
           \A i \in Ids : SameAccount(conns[i], conns'[i])
    PROVE  StepKeeps
<1>1. \A i \in Ids : KeepsCode(conns[i], conns'[i]) /\ (Closed(conns'[i]) => i <= opened')
  BY DEF CloseInv, OnlyOpenedClose, KeepsCode, Closed, SameAccount
<1>2. Closing(TooSlow) = {} /\ Closing(InternalError) = {}
  BY DEF Closing, SameAccount, Closed, NotClosed, TooSlow, InternalError
<1> QED
  BY <1>1, <1>2, NobodyToCount DEF StepKeeps, CodesKept

(* A step that changes no connection. *)
LEMMA NoConnectionMoves ==
    ASSUME CloseInv, UNCHANGED <<opened, conns, Explaining>>
    PROVE  StepKeeps
BY SameAccountsKeep DEF SameAccount

(* A writer that goes on to its next await. *)
LEMMA TaskExplains ==
    ASSUME CloseInv, UNCHANGED <<opened, Explaining>>, NEW i \in Ids, NEW d, SameAccount(conns[i], d),
           NEW at, NEW carrying, NEW rest, Task(i, d, at, carrying, rest)
    PROVE  StepKeeps
<1>1. conns \in [Ids -> Connections] /\ conns' = [conns EXCEPT ![i] = d]
  BY DEF CloseInv, ObserverInv, TypeOK, Task
<1>2. \A j \in Ids : SameAccount(conns[j], conns'[j])
  BY <1>1 DEF SameAccount
<1> QED
  BY <1>2, SameAccountsKeep

(* A writer that has resolved its message and goes on with the history or the loop. *)
LEMMA ProceedExplains ==
    ASSUME CloseInv, UNCHANGED <<opened, Explaining>>, NEW i \in Ids, NEW c \in Connections,
           SameAccount(conns[i], c), c.inFlight = 0, NEW rest, Proceed(i, c, rest)
    PROVE  StepKeeps
<1>1. CASE rest # << >> \/ Closed(c)
  BY <1>1, TaskExplains DEF Proceed
<1>2. CASE rest = << >> /\ ~Closed(c) /\ NothingToSend(c)
  <2> DEFINE d == [c EXCEPT !.changed = FALSE]
  <2>1. Task(i, d, "wait", 0, << >>)
    BY <1>2 DEF Proceed
  <2>2. KeepsAccount(c, d)
    BY NoticeKeepsAccount
  <2> HIDE DEF d
  <2>3. SameAccount(conns[i], d)
    BY <2>2 DEF KeepsAccount, SameAccount
  <2> QED
    BY <2>1, <2>3, TaskExplains
<1>3. CASE rest = << >> /\ ~Closed(c) /\ ~NothingToSend(c)
  <2> DEFINE d == NextMessage(c)
  <2>1. Task(i, d, "live", c.state, << >>)
    BY <1>3 DEF Proceed
  <2>2. SameAccount(c, d)
    BY NextMessageBalances
  <2> HIDE DEF d
  <2>3. SameAccount(conns[i], d)
    BY <2>2 DEF SameAccount
  <2> QED
    BY <2>1, <2>3, TaskExplains
<1> QED
  BY <1>1, <1>2, <1>3

(* A send that returns. *)
LEMMA SendReturnsExplains ==
    ASSUME CloseInv, NEW i \in Ids, SendReturns(i)
    PROVE  StepKeeps
<1> DEFINE c == conns[i]
<1>1. ObserverInv /\ UNCHANGED <<opened, Explaining>>
  BY DEF CloseInv, SendReturns, Explaining
<1>2. writer[i].at \in Sending /\ writer[i].at # "none"
  BY DEF SendReturns, Sending
<1>3. c \in Connections /\ SameAccount(c, c) /\ (writer[i].at # "live" => c.inFlight = 0)
  BY <1>1, <1>2, WriterFacts
<1>4. CASE writer[i].at = "hello" /\ c.state # 0
  <2>1. Task(i, TakeState(c), "preamble", c.state, history[i])
    BY <1>4 DEF SendReturns
  <2>2. SameAccount(c, TakeState(c))
    BY <1>3, StateKeepsAccount, Literals DEF KeepsAccount
  <2> QED
    BY <1>1, <2>1, <2>2, TaskExplains
<1>5. CASE writer[i].at = "hello" /\ c.state = 0
  <2>1. Proceed(i, c, history[i])
    BY <1>5 DEF SendReturns
  <2> QED
    BY <1>1, <1>3, <1>5, <2>1, ProceedExplains
<1>6. CASE writer[i].at = "preamble"
  <2> DEFINE rest == IF writer[i].carrying # 0 THEN history[i] ELSE Tail(history[i])
  <2>1. Proceed(i, c, rest)
    BY <1>6 DEF SendReturns
  <2> HIDE DEF rest
  <2> QED
    BY <1>1, <1>3, <1>6, <2>1, ProceedExplains
<1>7. CASE writer[i].at = "live"
  <2> DEFINE d == MarkSent(c)
  <2>1. Proceed(i, d, << >>)
    BY <1>7 DEF SendReturns
  <2>2. d \in Connections /\ SameAccount(c, d) /\ d.inFlight = 0
    BY <1>3, MarkBalances
  <2> HIDE DEF d
  <2> QED
    BY <1>1, <2>1, <2>2, ProceedExplains
<1> QED
  BY <1>2, <1>4, <1>5, <1>6, <1>7 DEF Sending

(* A send that is refused, fails or is cancelled. *)
LEMMA SendEndsExplains ==
    ASSUME CloseInv, UNCHANGED <<opened, Explaining>>, NEW i \in Ids, NEW at,
           NEW d \in {MarkFailed(conns[i]), MarkUnknown(conns[i])},
           Task(i, d, at, 0, << >>)
    PROVE  StepKeeps
<1>1. conns[i] \in Connections
  BY DEF CloseInv, ObserverInv, TypeOK
<1>2. SameAccount(conns[i], d)
  BY <1>1, MarkBalances
<1> QED
  BY <1>2, TaskExplains

(* A writer that wakes. *)
LEMMA WriterWakesExplains ==
    ASSUME CloseInv, NEW i \in Ids, WriterWakes(i)
    PROVE  StepKeeps
<1> DEFINE c == conns[i]
           d == [c EXCEPT !.changed = FALSE]
<1>1. ObserverInv /\ UNCHANGED <<opened, Explaining>> /\ Proceed(i, d, << >>) /\ writer[i].at = "wait"
  BY DEF CloseInv, WriterWakes, Explaining
<1>2. c \in Connections /\ c.inFlight = 0
  BY <1>1, WriterFacts
<1>3. KeepsAccount(c, d)
  BY <1>2, NoticeKeepsAccount
<1> HIDE DEF d
<1>4. d \in Connections /\ SameAccount(c, d) /\ d.inFlight = 0
  BY <1>2, <1>3 DEF KeepsAccount
<1> QED
  BY <1>1, <1>4, ProceedExplains

(* Retiring counts those who leave because they were too slow. *)
LEMMA RetireCounts ==
    ASSUME NEW ids, NEW cs, NEW counts, Retire(ids, cs, counts)
    PROVE  CountLeaving(ids \cap connections, cs, counts)
BY DEF Retire, Account

(* When none of them was, the counters are left as they were. *)
LEMMA NoneForcedOut ==
    ASSUME NEW leaving, NEW cs, NEW counts \in [CounterNames -> Nat], CountLeaving(leaving, cs, counts),
           \A i \in leaving : cs[i].closeCode # TooSlow
    PROVE  counters' = counts
<1> DEFINE x == counts["forced_disconnects"]
           forced == {i \in leaving : cs[i].closeCode = TooSlow}
<1>1. Cardinality(forced) = 0
  <2>1. forced = {}
    OBVIOUS
  <2> QED
    BY <2>1, FS_EmptySet
<1>2. x \in Nat
  BY DEF CounterNames
<1>3. x + 0 = x
  <2> HIDE DEF x
  <2> QED
    BY <1>2
<1>4. counters' = [counts EXCEPT !["forced_disconnects"] = x + Cardinality(forced)]
  BY DEF CountLeaving
<1> HIDE DEF forced
<1>5. counters' = [counts EXCEPT !["forced_disconnects"] = x]
  BY <1>1, <1>3, <1>4
<1> QED
  BY <1>5

(* disconnect: a connection that has closed is left as it is. *)
LEMMA CloseKept ==
    ASSUME CloseInv, UNCHANGED opened, NEW i \in Ids, i <= opened, NEW code, NEW counts,
           CloseAndRetire(i, code, counts)
    PROVE  /\ \A j \in Ids : KeepsCode(conns[j], conns'[j]) /\ (Closed(conns'[j]) => j <= opened')
           /\ \A j \in Ids : ~Closed(conns[j]) /\ conns'[j].closeCode # conns[j].closeCode => j = i
           /\ ~Closed(conns[i]) => conns'[i].closeCode = code
<1>1. conns \in [Ids -> Connections] /\ conns' = [conns EXCEPT ![i] = Close(conns[i], code, published)]
  BY DEF CloseInv, ObserverInv, TypeOK, CloseAndRetire
<1>2. Closed(conns[i]) => conns'[i] = conns[i]
  BY <1>1 DEF Close
<1>3. \A j \in Ids : j # i => conns'[j] = conns[j]
  BY <1>1
<1>4. ~Closed(conns[i]) => conns'[i].closeCode = code
  BY <1>1 DEF Close, CloseNow, Connections
<1> QED
  BY <1>2, <1>3, <1>4 DEF CloseInv, OnlyOpenedClose, KeepsCode

(* A handler, the server or a failed handshake closes with a code that no counter explains. *)
LEMMA CloseStep ==
    ASSUME CloseInv, UNCHANGED opened, NEW i \in Ids, i <= opened,
           NEW code, code \notin {NotClosed, TooSlow, InternalError},
           CloseAndRetire(i, code, counters)
    PROVE  StepKeeps
<1>1. /\ \A j \in Ids : KeepsCode(conns[j], conns'[j]) /\ (Closed(conns'[j]) => j <= opened')
      /\ \A j \in Ids : ~Closed(conns[j]) /\ conns'[j].closeCode # conns[j].closeCode => j = i
      /\ ~Closed(conns[i]) => conns'[i].closeCode = code
  BY CloseKept
<1>2. Closing(TooSlow) = {} /\ Closing(InternalError) = {}
  BY <1>1 DEF Closing, Closed, NotClosed, TooSlow, InternalError
<1>3. \A j \in {i} \cap connections : conns'[j].closeCode # TooSlow
  <2>1. i \in connections => ~Closed(conns[i])
    BY DEF CloseInv, ObserverInv, TypeOK, RegisteredIffOpen
  <2> QED
    BY <1>1, <2>1
<1>4. counters' = counters
  <2>1. Retire({i}, conns', counters)
    BY DEF CloseAndRetire
  <2>2. CountLeaving({i} \cap connections, conns', counters)
    BY <2>1, RetireCounts
  <2> QED
    BY <1>3, <2>2, NoneForcedOut, ExplainingType
<1>5. UNCHANGED Explaining
  BY <1>4 DEF Explaining
<1> QED
  BY <1>1, <1>2, <1>5, NobodyToCount DEF StepKeeps, CodesKept

(* A client closes with a code of its own: a 1013 is counted, a 1011 is not. *)
LEMMA HangUpStep ==
    ASSUME CloseInv, UNCHANGED opened, NEW i \in Ids, i <= opened,
           NEW code, code # NotClosed, CloseAndRetire(i, code, counters),
           hungUp' = IF Closed(conns[i]) THEN hungUp ELSE hungUp \cup {i}
    PROVE  HangsUp(i)
<1> DEFINE leaving == {i} \cap connections
           forced  == {j \in leaving : conns'[j].closeCode = TooSlow}
<1>1. /\ \A j \in Ids : KeepsCode(conns[j], conns'[j]) /\ (Closed(conns'[j]) => j <= opened')
      /\ \A j \in Ids : ~Closed(conns[j]) /\ conns'[j].closeCode # conns[j].closeCode => j = i
      /\ ~Closed(conns[i]) => conns'[i].closeCode = code
  BY CloseKept
<1>2. Closed(conns'[i])
  BY <1>1 DEF KeepsCode, Closed
<1>3. Closing(TooSlow) = forced
  <2>1. i \in connections <=> ~Closed(conns[i])
    BY DEF CloseInv, ObserverInv, RegisteredIffOpen, TypeOK, Ids
  <2> QED
    BY <1>1, <2>1 DEF Closing, Closed, NotClosed, TooSlow
<1>4. counters' = [counters EXCEPT !["forced_disconnects"] = @ + Cardinality(forced)]
  <2>1. Retire({i}, conns', counters)
    BY DEF CloseAndRetire
  <2>2. CountLeaving(leaving, conns', counters)
    BY <2>1, RetireCounts
  <2> QED
    BY <2>2 DEF CountLeaving
<1> HIDE DEF forced
<1>5. /\ counters'["forced_disconnects"] = counters["forced_disconnects"] + Cardinality(forced)
      /\ counters'["fanout_failed"] = counters["fanout_failed"]
      /\ counters'["writer_failed"] = counters["writer_failed"]
  BY <1>4, ExplainingType DEF CounterNames
<1>6. Explaining' = <<Explaining[1] + Cardinality(Closing(TooSlow)), Explaining[2]>>
  BY <1>3, <1>5 DEF Explaining
<1> QED
  BY <1>1, <1>2, <1>6 DEF HangsUp, CodesKept

(* fail_writer: one 1011 and one failed writer. *)
LEMMA FailWriterStep ==
    ASSUME CloseInv, UNCHANGED opened, NEW i \in Ids, i <= opened, ~Closed(conns[i]),
           CloseAndRetire(i, InternalError, Count("writer_failed"))
    PROVE  StepKeeps
<1>1. /\ \A j \in Ids : KeepsCode(conns[j], conns'[j]) /\ (Closed(conns'[j]) => j <= opened')
      /\ \A j \in Ids : ~Closed(conns[j]) /\ conns'[j].closeCode # conns[j].closeCode => j = i
      /\ conns'[i].closeCode = InternalError
  BY CloseKept
<1>2. Closing(TooSlow) = {} /\ Closing(InternalError) = {i}
  BY <1>1 DEF Closing, Closed, NotClosed, TooSlow, InternalError
<1>3. \A j \in {i} \cap connections : conns'[j].closeCode # TooSlow
  BY <1>1 DEF InternalError, TooSlow
<1>4. counters' = Count("writer_failed")
  <2>1. Count("writer_failed") \in [CounterNames -> Nat]
    BY CountType DEF CloseInv, CounterNames
  <2>2. Retire({i}, conns', Count("writer_failed"))
    BY DEF CloseAndRetire
  <2>3. CountLeaving({i} \cap connections, conns', Count("writer_failed"))
    BY <2>2, RetireCounts
  <2> QED
    BY <1>3, <2>1, <2>3, NoneForcedOut
<1>5. /\ counters'["forced_disconnects"] = counters["forced_disconnects"]
      /\ counters'["fanout_failed"] = counters["fanout_failed"]
      /\ counters'["writer_failed"] = counters["writer_failed"] + 1
  BY <1>4, ExplainingType DEF Count, CounterNames
<1>6. Cardinality({}) = 0 /\ Cardinality({i}) = 1
  BY FS_EmptySet, FS_Singleton
<1>7. StepCounts
  <2>1. \A name \in CounterNames : counters[name] \in Nat
    BY ExplainingType
  <2> QED
    BY <1>2, <1>5, <1>6, <2>1 DEF StepCounts, Explaining, CounterNames
<1> QED
  BY <1>1, <1>7 DEF StepKeeps, CodesKept

(* A writer's step, its callback or a failed handshake. *)
LEMMA WriterSteps ==
    ASSUME CloseInv, NEW i \in Ids, WriterStep(i)
    PROVE  StepKeeps
<1>1. CASE StartWriter(i)
  BY <1>1, NoConnectionMoves DEF StartWriter, Explaining
<1>2. CASE PrepareFails(i)
  <2>1. i <= opened /\ CloseAndRetire(i, 1006, counters) /\ UNCHANGED opened
    BY <1>2 DEF PrepareFails
  <2>2. 1006 \notin {NotClosed, TooSlow, InternalError}
    BY DEF NotClosed, TooSlow, InternalError
  <2> QED
    BY <2>1, <2>2, CloseStep
<1>3. CASE SendReturns(i)
  BY <1>3, SendReturnsExplains
<1>4. CASE SendRefused(i)
  BY <1>4, SendEndsExplains DEF SendRefused, Explaining
<1>5. CASE SendRaises(i)
  BY <1>5, SendEndsExplains DEF SendRaises, Explaining
<1>6. CASE WriterEnded(i)
  <2>1. ObserverInv /\ writer[i].at # "none" /\ UNCHANGED opened
    BY <1>6 DEF CloseInv, WriterEnded
  <2>2. i <= opened
    BY <2>1, WriterFacts
  <2>3. CASE ~Closed(conns[i]) /\ CloseAndRetire(i, InternalError, Count("writer_failed"))
    BY <2>1, <2>2, <2>3, FailWriterStep
  <2>4. CASE UNCHANGED <<conns, counters>>
    BY <2>1, <2>4, NoConnectionMoves DEF Explaining
  <2> QED
    BY <1>6, <2>3, <2>4 DEF WriterEnded
<1>7. CASE CancelWriter(i)
  BY <1>7, SendEndsExplains DEF CancelWriter, Explaining
<1>8. CASE WriterWakes(i)
  BY <1>8, WriterWakesExplains
<1> QED
  BY <1>1, <1>2, <1>3, <1>4, <1>5, <1>6, <1>7, <1>8 DEF WriterStep

-----------------------------------------------------------------------------
(* An offer forces a client out or leaves it open; one that raises is a fault. *)
LEMMA OfferedCodes ==
    ASSUME NEW c \in Connections, ~Closed(c), NEW n, NEW raises \in BOOLEAN
    PROVE  LET d == Offered(c, n, raises)
           IN  IF raises THEN d.closeCode = InternalError ELSE d.closeCode \in {NotClosed, TooSlow}
<1>1. CASE raises
  BY <1>1 DEF Offered, Close, CloseNow, Connections
<1>2. CASE ~raises
  <2>1. \A d \in {c, Drop(c, now), Enqueue(c, n)} : d.closeCode = c.closeCode
    BY ZenonT(60) DEF Drop, Enqueue, Connections
  <2>2. \A d, p : CloseNow(d, TooSlow, p).closeCode = TooSlow \/ "closeCode" \notin DOMAIN d
    BY DEF CloseNow
  <2>3. "closeCode" \in DOMAIN Drop(c, now)
    BY DEF Drop, Connections
  <2>4. Offered(c, n, raises) = Offer(c, n, now)
    BY <1>2 DEF Offered
  <2>5. c.closeCode = NotClosed
    BY DEF Closed
  <2> QED
    BY <1>2, <2>1, <2>2, <2>3, <2>4, <2>5 DEF Offer
<1> QED
  BY <1>1, <1>2

(* A publication: only registered connections, which are open, are offered     *)
(* anything; those it closes are those whose offer raises, and those it forces *)
(* out, and it retires them all.                                               *)
LEMMA PublishExplains ==
    ASSUME CloseInv, NEW n, Publish(n), UNCHANGED opened
    PROVE  StepKeeps
<1>1. PICK encodes \in BOOLEAN, raising \in SUBSET connections :
        LET cs     == [i \in Ids |-> IF i \in connections THEN Offered(conns[i], n, i \in raising)
                                                          ELSE conns[i]]
            counts == [counters EXCEPT !["encode_failed"] = @ + (IF encodes THEN 0 ELSE 1),
                                       !["fanout_failed"] = @ + Cardinality(raising)]
        IN  conns' = cs /\ Retire({i \in connections : Closed(cs[i])}, cs, counts)
  BY DEF Publish
<1> DEFINE counts == [counters EXCEPT !["encode_failed"] = @ + (IF encodes THEN 0 ELSE 1),
                                      !["fanout_failed"] = @ + Cardinality(raising)]
           gone   == {i \in connections : Closed(conns'[i])}
<1>2. conns' = [i \in Ids |-> IF i \in connections THEN Offered(conns[i], n, i \in raising) ELSE conns[i]]
  BY <1>1
<1>3. Retire(gone, conns', counts)
  BY <1>1, <1>2
<1> HIDE DEF counts, gone
<1>4. /\ conns \in [Ids -> Connections] /\ connections \subseteq Ids
      /\ \A i \in connections : ~Closed(conns[i])
      /\ \A i \in Ids : ~Closed(conns[i]) => conns[i].closeCode \notin {TooSlow, InternalError}
  <2>1. conns \in [Ids -> Connections] /\ connections \in SUBSET (1..opened) /\ opened \in 0..MaxConnections
    BY DEF CloseInv, ObserverInv, TypeOK
  <2>2. \A i \in connections : ~Closed(conns[i])
    BY <2>1 DEF CloseInv, ObserverInv, RegisteredIffOpen
  <2>3. \A i \in 1..opened : i \in Ids
    BY <2>1, ObserverAssumption DEF Ids, ObserverAssumption
  <2> QED
    BY <2>1, <2>2, <2>3 DEF Closed, NotClosed, TooSlow, InternalError
<1>5. \A i \in connections : IF i \in raising THEN conns'[i].closeCode = InternalError
                                              ELSE conns'[i].closeCode \in {NotClosed, TooSlow}
  <2>1. ASSUME NEW i \in connections
        PROVE  IF i \in raising THEN conns'[i].closeCode = InternalError
                                 ELSE conns'[i].closeCode \in {NotClosed, TooSlow}
    <3>1. conns[i] \in Connections /\ ~Closed(conns[i]) /\ (i \in raising) \in BOOLEAN
      BY <1>4
    <3>2. conns'[i] = Offered(conns[i], n, i \in raising)
      BY <1>2, <1>4
    <3> QED
      BY <3>1, <3>2, OfferedCodes
  <2> QED
    BY <2>1
<1>6. \A i \in Ids \ connections : conns'[i] = conns[i]
  BY <1>2
<1>7. \A i \in Ids : KeepsCode(conns[i], conns'[i]) /\ (Closed(conns'[i]) => i <= opened')
  <2>1. \A i \in connections : i <= opened
    BY DEF CloseInv, ObserverInv, TypeOK
  <2> QED
    BY <1>4, <1>6, <2>1 DEF CloseInv, OnlyOpenedClose, KeepsCode
<1>8. Closing(InternalError) = raising
  BY <1>4, <1>5, <1>6 DEF Closing, InternalError, TooSlow, NotClosed
<1>9. Closing(TooSlow) = {i \in gone \cap connections : conns'[i].closeCode = TooSlow}
  BY <1>4, <1>5, <1>6 DEF Closing, gone, Closed, InternalError, TooSlow, NotClosed
<1>10. StepCounts
  <2> DEFINE a == Cardinality(raising)
             b == Cardinality(Closing(TooSlow))
             e == IF encodes THEN 0 ELSE 1
  <2>1. a \in Nat
    <3>1. IsFiniteSet(1..opened) /\ raising \in SUBSET (1..opened)
      BY SMTT(30), FS_Interval, ObserverAssumption DEF CloseInv, ObserverInv, TypeOK, ObserverAssumption
    <3> QED
      BY <3>1, FS_Subset, FS_CardinalityType
  <2>2. counters' = [counts EXCEPT !["forced_disconnects"] = @ + b]
    <3>1. CountLeaving(gone \cap connections, conns', counts)
      <4> HIDE DEF gone, counts
      <4> QED
        BY <1>3, RetireCounts
    <3> QED
      BY ONLY <1>9, <3>1 DEF CountLeaving, b
  <2>3. counts = [counters EXCEPT !["encode_failed"] = @ + e, !["fanout_failed"] = @ + a]
    BY DEF counts
  <2>4. Cardinality(Closing(InternalError)) = a
    BY <1>8
  <2>5. counters \in [CounterNames -> Nat]
    BY ExplainingType
  <2> HIDE DEF a, b, e
  <2>6. /\ counters'["forced_disconnects"] = counters["forced_disconnects"] + b
        /\ counters'["fanout_failed"] = counters["fanout_failed"] + a
        /\ counters'["writer_failed"] = counters["writer_failed"]
    BY <2>2, <2>3, <2>5 DEF CounterNames
  <2>7. \A name \in {"fanout_failed", "writer_failed"} : counters[name] \in Nat
    BY <2>5 DEF CounterNames
  <2> QED
    BY <2>1, <2>4, <2>6, <2>7 DEF StepCounts, Explaining, b
<1> QED
  BY <1>7, <1>10 DEF StepKeeps, CodesKept

(* A turn of the publisher. *)
LEMMA PublisherExplains ==
    ASSUME CloseInv, PublisherTurn
    PROVE  StepKeeps
<1>1. UNCHANGED opened
  BY DEF PublisherTurn
<1>2. CASE handoff.records = << >>
  <2>1. UNCHANGED <<conns, counters>>
    BY <1>2 DEF PublisherTurn
  <2> QED
    BY <1>1, <2>1, NoConnectionMoves DEF Explaining
<1>3. CASE handoff.records # << >>
  <2>1. Publish(Head(handoff.records))
    BY <1>3 DEF PublisherTurn
  <2> QED
    BY <1>1, <2>1, PublishExplains
<1> QED
  BY <1>2, <1>3

(* Nobody leaves by connect, a refusal or GET /status: what is closed was retired then. *)
LEMMA NobodyLeaves ==
    ASSUME CloseInv, NEW cs, NEW counts \in [CounterNames -> Nat], CountLeaving(ClosedMeanwhile, cs, counts)
    PROVE  counters' = counts
<1>1. ClosedMeanwhile = {}
  BY NoneClosedMeanwhile DEF CloseInv
<1> QED
  BY <1>1, NoneForcedOut

(* A client that connects: its id was not open, so it was not closed either. *)
LEMMA ConnectExplains ==
    ASSUME CloseInv, NEW after \in Afters, Connect(after)
    PROVE  StepKeeps
<1> DEFINE i == opened + 1
           d == SetState(NewConnection(ring.lastSeq, published, Len(Since(ring, after))), feed.last)
<1>1. /\ opened \in Nat /\ opened' = i /\ conns \in [Ids -> Connections]
      /\ conns' = [conns EXCEPT ![i] = d]
  BY DEF CloseInv, ObserverInv, TypeOK, Connect
<1>3. d.closeCode = NotClosed
  BY DEF SetState, NewConnection, Closed
<1>4. UNCHANGED Explaining
  <2>1. Account(ClosedMeanwhile, conns, counters)
    BY DEF Connect
  <2> QED
    BY <2>1, NobodyLeaves, ExplainingType DEF Account, Explaining
<1> HIDE DEF d
<1>2. ASSUME NEW j \in Ids
      PROVE  KeepsCode(conns[j], conns'[j]) /\ (Closed(conns'[j]) => j <= opened')
  <2>1. Closed(conns[j]) => j <= opened
    BY DEF CloseInv, OnlyOpenedClose
  <2>2. CASE j = i
    <3>1. ~(j <= opened) /\ j <= opened'
      BY <1>1, <2>2
    <3> QED
      BY <2>1, <3>1 DEF KeepsCode
  <2>3. CASE j # i
    <3>1. conns'[j] = conns[j] /\ (j <= opened => j <= opened')
      BY <1>1, <2>3 DEF Ids
    <3> QED
      BY <2>1, <3>1 DEF KeepsCode
  <2> QED
    BY <2>2, <2>3
<1>5. \A j \in Ids : ~Closed(conns[j]) => conns'[j].closeCode \notin {TooSlow, InternalError}
  BY <1>1, <1>3 DEF Closed, NotClosed, TooSlow, InternalError
<1>6. Closing(TooSlow) = {} /\ Closing(InternalError) = {}
  BY <1>5 DEF Closing
<1> QED
  BY <1>2, <1>4, <1>6, NobodyToCount DEF StepKeeps, CodesKept

(* A turn of run_state touches slots and no account. *)
LEMMA StateExplains ==
    ASSUME CloseInv, \/ \E version \in {feed.last, feed.last + 1} : SnapshotTaken(version)
                     \/ SnapshotFails
    PROVE  StepKeeps
<1>1. ObserverInv /\ UNCHANGED <<opened, Explaining>>
  BY ExplainingType DEF CloseInv, SnapshotTaken, SnapshotFails, Explaining, Count, CounterNames
<1>2. ASSUME NEW version \in {feed.last, feed.last + 1}, SnapshotTaken(version)
      PROVE  StepKeeps
  <2> DEFINE push == feed.mustPublish \/ version # feed.last
  <2>1. conns' = PushDropped(IF push THEN PushState(conns, version) ELSE conns)
    BY <1>2 DEF SnapshotTaken
  <2>2. version \in Nat /\ push \in BOOLEAN
    BY <1>1, QuietTypes
  <2> HIDE DEF push
  <2>3. \A i \in Ids : KeepsAccount(conns[i], conns'[i])
    BY <1>1, <2>1, <2>2, PushKeepsAccount
  <2> QED
    BY <1>1, <2>3, SameAccountsKeep DEF KeepsAccount
<1>3. ASSUME SnapshotFails
      PROVE  StepKeeps
  <2> DEFINE push == FALSE
             none == 0
  <2>1. conns' = PushDropped(IF push THEN PushState(conns, none) ELSE conns)
    BY <1>3 DEF SnapshotFails
  <2>2. none \in Nat /\ push \in BOOLEAN
    OBVIOUS
  <2> HIDE DEF push, none
  <2>3. \A i \in Ids : KeepsAccount(conns[i], conns'[i])
    BY <1>1, <2>1, <2>2, PushKeepsAccount
  <2> QED
    BY <1>1, <2>3, SameAccountsKeep DEF KeepsAccount
<1> QED
  BY <1>2, <1>3

-----------------------------------------------------------------------------
(* Only a client that closes its connection hangs up. *)
LEMMA NobodyHangsUp ==
    ASSUME Next, ~\E i \in Ids : Disconnect(i)
    PROVE  UNCHANGED hungUp
<1>1. ASSUME NEW i \in Ids, WriterStep(i) PROVE UNCHANGED hungUp
  BY <1>1 DEF WriterStep, StartWriter, PrepareFails, SendReturns, SendRefused, SendRaises, WriterEnded,
              CancelWriter, WriterWakes
<1>2. CASE Dispatch \/ PublisherTurn \/ RefuseClient \/ Stats \/ SnapshotFails \/ Tick
  BY <1>2 DEF Dispatch, PublisherTurn, RefuseClient, Stats, SnapshotFails, Tick
<1>3. ASSUME NEW after \in Afters, Connect(after) PROVE UNCHANGED hungUp
  BY <1>3 DEF Connect
<1>4. ASSUME NEW version \in {feed.last, feed.last + 1}, SnapshotTaken(version) PROVE UNCHANGED hungUp
  BY <1>4 DEF SnapshotTaken
<1> QED
  BY <1>1, <1>2, <1>3, <1>4 DEF Next

(* A handler, stop or a client ends a connection. *)
LEMMA DisconnectExplains ==
    ASSUME CloseInv, NEW i \in Ids, Disconnect(i)
    PROVE  (StepKeeps /\ UNCHANGED hungUp) \/ HangsUp(i)
<1>1. i <= opened /\ UNCHANGED opened
  BY DEF Disconnect
<1>2. CASE (\E code \in HandlerCodes : CloseAndRetire(i, code, counters)) /\ UNCHANGED hungUp
  <2>1. PICK code \in HandlerCodes : CloseAndRetire(i, code, counters)
    BY <1>2
  <2>2. code \notin {NotClosed, TooSlow, InternalError}
    BY ObserverAssumption DEF ObserverAssumption
  <2> QED
    BY <1>1, <1>2, <2>1, <2>2, CloseStep
<1>3. CASE /\ \E code \in ClientCodes : CloseAndRetire(i, code, counters)
           /\ hungUp' = IF Closed(conns[i]) THEN hungUp ELSE hungUp \cup {i}
  <2>1. PICK code \in ClientCodes : CloseAndRetire(i, code, counters)
    BY <1>3
  <2>2. code # NotClosed
    BY ObserverAssumption DEF ObserverAssumption
  <2> QED
    BY <1>1, <1>3, <2>1, <2>2, HangUpStep
<1> QED
  BY <1>2, <1>3 DEF Disconnect

(* Every other step counts the connections that it closes. *)
LEMMA OtherStepsKeep ==
    ASSUME CloseInv, [Next]_vars, ~\E i \in Ids : Disconnect(i)
    PROVE  StepKeeps /\ UNCHANGED hungUp
<1>0. UNCHANGED hungUp
  BY NobodyHangsUp DEF vars
<1> SUFFICES StepKeeps
  BY <1>0
<1>1. CASE Dispatch
  BY <1>1, NoConnectionMoves DEF Dispatch, Explaining
<1>2. CASE PublisherTurn
  BY <1>2, PublisherExplains
<1>3. ASSUME NEW after \in Afters, Connect(after) PROVE StepKeeps
  BY <1>3, ConnectExplains
<1>4. CASE RefuseClient
  <2>1. /\ Retire(ClosedMeanwhile, conns, Count("refused_clients")) /\ UNCHANGED <<opened, conns>>
        /\ ClosedMeanwhile \cap connections = ClosedMeanwhile
    BY <1>4 DEF RefuseClient, ClosedMeanwhile
  <2>2. Count("refused_clients") \in [CounterNames -> Nat]
    BY CountType DEF CloseInv, CounterNames
  <2>3. counters' = Count("refused_clients")
    BY <2>1, <2>2, RetireCounts, NobodyLeaves
  <2>4. UNCHANGED Explaining
    BY <2>3, ExplainingType DEF Explaining, Count, CounterNames
  <2> QED
    BY <2>1, <2>4, NoConnectionMoves
<1>5. CASE Stats
  <2>1. counters' = counters /\ UNCHANGED <<opened, conns>>
    BY <1>5, NobodyLeaves, ExplainingType DEF Stats
  <2> QED
    BY <2>1, NoConnectionMoves DEF Explaining
<1>6. ASSUME NEW i \in Ids, WriterStep(i) PROVE StepKeeps
  BY <1>6, WriterSteps
<1>7. CASE \E version \in {feed.last, feed.last + 1} : SnapshotTaken(version)
  BY <1>7, StateExplains
<1>8. CASE SnapshotFails
  BY <1>8, StateExplains
<1>9. CASE Tick
  BY <1>9, NoConnectionMoves DEF Tick, Explaining
<1>10. CASE UNCHANGED vars
  BY <1>10, NoConnectionMoves DEF vars, Explaining
<1> QED
  BY <1>1, <1>2, <1>3, <1>4, <1>5, <1>6, <1>7, <1>8, <1>9, <1>10 DEF Next

(* Every step counts the connections that it closes, or is a client's own close. *)
LEMMA EveryStepExplains ==
    ASSUME CloseInv, [Next]_vars
    PROVE  (StepKeeps /\ UNCHANGED hungUp) \/ \E i \in Ids : HangsUp(i)
BY DisconnectExplains, OtherStepsKeep

(* Every step keeps what a closed connection has recorded. *)
LEMMA EveryStepKeeps == CloseInv /\ [Next]_vars => CodesKept
BY EveryStepExplains DEF StepKeeps, HangsUp

(* No id is closed at the start. *)
LEMMA NoneClosedAtStart == Init => OnlyOpenedClose /\ HungUpClosed
BY DEF Init, OnlyOpenedClose, HungUpClosed, NewConnection, Closed

(* A client that has hung up stays hung up. *)
LEMMA HungUpStayClosed ==
    ASSUME CloseInv, [Next]_vars
    PROVE  HungUpClosed'
<1>1. \A j \in hungUp : j \in Ids
  <2>1. hungUp \in SUBSET (1..opened) /\ opened \in 0..MaxConnections /\ MaxConnections \in Nat
    BY ObserverAssumption DEF CloseInv, ObserverInv, TypeOK, ObserverAssumption
  <2> QED
    BY <2>1 DEF Ids
<1>2. \A j \in hungUp : Closed(conns'[j])
  BY <1>1, EveryStepKeeps DEF CloseInv, HungUpClosed, CodesKept, KeepsCode, Closed
<1>3. \A j \in hungUp' \ hungUp : Closed(conns'[j])
  BY EveryStepExplains DEF HangsUp
<1> QED
  BY <1>2, <1>3 DEF HungUpClosed

(* Only opened connections are closed, and those of clients that hung up are. *)
LEMMA CloseInvStays == CloseInv /\ [Next]_vars => CloseInv'
<1> SUFFICES ASSUME CloseInv, [Next]_vars PROVE CloseInv'
  OBVIOUS
<1>1. ObserverInv'
  BY NextKeeps DEF CloseInv
<1>2. OnlyOpenedClose'
  BY EveryStepKeeps DEF CodesKept, OnlyOpenedClose
<1> QED
  BY <1>1, <1>2, HungUpStayClosed DEF CloseInv

(* So it is in every reachable state. *)
LEMMA CloseInvariant == Spec => []CloseInv
<1>1. Init => CloseInv
  BY InitEstablishes, NoneClosedAtStart DEF CloseInv
<1> QED
  BY <1>1, CloseInvStays, PTL DEF Spec

-----------------------------------------------------------------------------
(* The connections closed with a code. *)
ClosedWith(code) == {i \in Ids : conns[i].closeCode = code}

(* Those of them whose client did not say so itself: the server's own faults. *)
OwnFaults == ClosedWith(InternalError) \ hungUp

(* Two parts of a finite set. *)
LEMMA PartsAddUp ==
    ASSUME NEW S, IsFiniteSet(S), NEW A \in SUBSET S, NEW B \in SUBSET S, A \cap B = {}
    PROVE  /\ Cardinality(A) \in Nat /\ Cardinality(B) \in Nat
           /\ Cardinality(A \cup B) = Cardinality(A) + Cardinality(B)
<1>1. IsFiniteSet(A) /\ IsFiniteSet(B)
  BY FS_Subset
<1>2. Cardinality(A) \in Nat /\ Cardinality(B) \in Nat
  BY <1>1, FS_CardinalityType
<1>3. Cardinality(A \cup B) = Cardinality(A) + Cardinality(B) - Cardinality(A \cap B)
  BY <1>1, FS_Union
<1>4. Cardinality(A \cap B) = 0
  BY FS_EmptySet
<1> QED
  BY <1>2, <1>3, <1>4

LEMMA IdsAreFinite == IsFiniteSet(Ids)
BY FS_Interval, ObserverAssumption DEF Ids, ObserverAssumption

(* They are the connections opened that have it: no other id is closed. *)
LEMMA ClosedWithFacts ==
    ASSUME CloseInv, NEW code, code # NotClosed
    PROVE  {i \in 1..opened : conns[i].closeCode = code} = ClosedWith(code)
<1>1. opened \in 0..MaxConnections /\ \A i \in 1..opened : i \in Ids
  BY ObserverAssumption DEF CloseInv, ObserverInv, TypeOK, Ids, ObserverAssumption
<1>2. \A i \in ClosedWith(code) : i \in 1..opened
  BY <1>1 DEF ClosedWith, CloseInv, OnlyOpenedClose, Closed, Ids
<1> QED
  BY <1>1, <1>2 DEF ClosedWith

(* A step adds to them the connections that it closes: a code is never changed. *)
LEMMA ClosedWithGrows ==
    ASSUME CloseInv, CodesKept, NEW code, code # NotClosed
    PROVE  Cardinality(ClosedWith(code)') = Cardinality(ClosedWith(code)) + Cardinality(Closing(code))
<1>1. IsFiniteSet(Ids) /\ ClosedWith(code) \in SUBSET Ids /\ Closing(code) \in SUBSET Ids
  BY IdsAreFinite DEF Closing, ClosedWith
<1>2. /\ ClosedWith(code)' = ClosedWith(code) \cup Closing(code)
      /\ ClosedWith(code) \cap Closing(code) = {}
  BY DEF ClosedWith, Closing, CodesKept, KeepsCode, Closed
<1> QED
  BY <1>1, <1>2, PartsAddUp

(* So do the server's own faults, when no client hangs up. *)
LEMMA OwnFaultsGrow ==
    ASSUME CloseInv, CodesKept, UNCHANGED hungUp
    PROVE  Cardinality(OwnFaults') = Cardinality(OwnFaults) + Cardinality(Closing(InternalError))
<1>1. IsFiniteSet(Ids) /\ OwnFaults \in SUBSET Ids /\ Closing(InternalError) \in SUBSET Ids
  BY IdsAreFinite DEF Closing, OwnFaults, ClosedWith
<1>2. ClosedWith(InternalError)' = ClosedWith(InternalError) \cup Closing(InternalError)
  BY DEF ClosedWith, Closing, CodesKept, KeepsCode, Closed, InternalError, NotClosed
<1>3. Closing(InternalError) \cap (ClosedWith(InternalError) \cup hungUp) = {}
  BY DEF ClosedWith, Closing, CloseInv, HungUpClosed, Closed, InternalError, NotClosed
<1>4. OwnFaults' = OwnFaults \cup Closing(InternalError) /\ OwnFaults \cap Closing(InternalError) = {}
  BY <1>2, <1>3 DEF OwnFaults
<1> QED
  BY <1>1, <1>4, PartsAddUp

(* A client that hangs up leaves them as they were, whatever its code. *)
LEMMA OwnFaultsStay ==
    ASSUME CloseInv, NEW i \in Ids, HangsUp(i)
    PROVE  OwnFaults' = OwnFaults
<1>1. ASSUME NEW j \in OwnFaults PROVE j \in OwnFaults'
  BY DEF OwnFaults, ClosedWith, HangsUp, CodesKept, KeepsCode, Closed, InternalError, NotClosed
<1>2. ASSUME NEW j \in OwnFaults' PROVE j \in OwnFaults
  <2>1. j \in Ids /\ conns'[j].closeCode = InternalError /\ j \notin hungUp'
    BY DEF OwnFaults, ClosedWith
  <2>2. Closed(conns[j])
    BY <2>1 DEF HangsUp, Closed, InternalError, NotClosed
  <2>3. conns[j].closeCode = InternalError
    BY <2>1, <2>2 DEF HangsUp, CodesKept, KeepsCode
  <2>4. j \notin hungUp
    BY <2>1 DEF HangsUp
  <2> QED
    BY <2>1, <2>3, <2>4 DEF OwnFaults, ClosedWith
<1> QED
  BY <1>1, <1>2

(* What the codes explain, with the sets above. *)
CodesCounted == Explaining = <<Cardinality(ClosedWith(TooSlow)), Cardinality(OwnFaults)>>

LEMMA CodesCountedAtStart == Init => CodesCounted
<1> SUFFICES ASSUME Init PROVE CodesCounted
  OBVIOUS
<1>1. \A i \in Ids : conns[i].closeCode = 0
  BY DEF Init, NewConnection, NotClosed
<1>2. ClosedWith(TooSlow) = {} /\ OwnFaults = {}
  BY <1>1 DEF OwnFaults, ClosedWith, TooSlow, InternalError
<1>3. Explaining = <<0, 0>>
  BY DEF Init, Explaining, CounterNames
<1> QED
  BY <1>2, <1>3, FS_EmptySet DEF CodesCounted

LEMMA CodesStayCounted ==
    ASSUME CloseInv, CodesCounted, [Next]_vars
    PROVE  CodesCounted'
<1>1. CodesKept /\ TooSlow # NotClosed
  BY EveryStepKeeps DEF TooSlow, NotClosed
<1>2. Cardinality(ClosedWith(TooSlow)') = Explaining[1] + Cardinality(Closing(TooSlow))
  BY <1>1, ClosedWithGrows DEF CodesCounted
<1>3. CASE StepKeeps /\ UNCHANGED hungUp
  <2>1. Cardinality(OwnFaults') = Explaining[2] + Cardinality(Closing(InternalError))
    BY <1>1, <1>3, OwnFaultsGrow DEF CodesCounted
  <2> QED
    BY <1>2, <1>3, <2>1 DEF CodesCounted, StepKeeps, StepCounts, TooSlow
<1>4. ASSUME NEW i \in Ids, HangsUp(i) PROVE CodesCounted'
  <2>1. Cardinality(OwnFaults') = Explaining[2]
    BY <1>4, OwnFaultsStay DEF CodesCounted
  <2> QED
    BY <1>2, <1>4, <2>1 DEF CodesCounted, HangsUp, TooSlow
<1> QED
  BY <1>3, <1>4, EveryStepExplains

(* P5(e) of decisions/0010, section 5.1, as the code has it: whatever happens  *)
(* in whatever order, and whatever codes the clients close with, each 1013 in  *)
(* a ledger is counted as a forced disconnect (also a client's own), and each  *)
(* 1011 that no client has said itself is a failed offer or a failed writer.   *)
THEOREM CodesAreExplained == Spec => []CloseCodesExplained
<1>1. Init => CodesCounted
  BY CodesCountedAtStart
<1>2. CloseInv /\ CodesCounted /\ [Next]_vars => CodesCounted'
  BY CodesStayCounted
<1>3. CloseInv /\ CodesCounted => CloseCodesExplained
  <2> SUFFICES ASSUME CloseInv, CodesCounted PROVE CloseCodesExplained
    OBVIOUS
  <2>1. TooSlow # NotClosed /\ InternalError # NotClosed
    BY DEF TooSlow, InternalError, NotClosed
  <2> QED
    BY <2>1, ClosedWithFacts DEF CodesCounted, CloseCodesExplained, Explaining, OwnFaults
<1> QED
  BY <1>1, <1>2, <1>3, CloseInvariant, PTL DEF Spec

(* Whatever ends a connection after it has closed, its code, its span and what *)
(* it was offered stay as the first close recorded them.                       *)
THEOREM TheFirstCodeWins == Spec => FirstCodeWins
<1> DEFINE A == \A i \in Ids : Closed(conns[i]) =>
                    /\ conns'[i].closeCode = conns[i].closeCode
                    /\ conns'[i].publishedAtClose = conns[i].publishedAtClose
                    /\ conns'[i].offered = conns[i].offered
<1>1. CloseInv /\ [Next]_vars => [A]_vars
  BY EveryStepKeeps DEF CodesKept, KeepsCode
<1>2. FirstCodeWins <=> [][A]_vars
  BY PTL DEF FirstCodeWins
<1> QED
  BY <1>1, <1>2, CloseInvariant, PTL DEF Spec

-----------------------------------------------------------------------------
(* A ledger that nothing can change any more. *)
Final(c) == Closed(c) /\ c.inFlight = 0 /\ c.queue = << >>

(* A queue within its limits, which knows its size. *)
Bounded(c) ==
    /\ Len(c.queue) <= ClientMaxMessages
    /\ c.bytes = Bytes(c.queue)
    /\ c.bytes <= ClientMaxBytes

(* What every method keeps. *)
Passes(c, d) ==
    /\ Final(c) => Final(d) /\ Ledger(d) = Ledger(c)
    /\ Bounded(c) => Bounded(d)

-----------------------------------------------------------------------------
(* The methods of a connection. *)

LEMMA PassesThen ==
    ASSUME NEW c, NEW d, NEW e, Passes(c, d), Passes(d, e)
    PROVE  Passes(c, e)
BY DEF Passes

(* A ledger is its counters. *)
LEMMA LedgerStays ==
    ASSUME NEW c, NEW d, SameAccount(c, d),
           d.sent = c.sent, d.unknown = c.unknown, d.discarded = c.discarded,
           d.historySent = c.historySent
    PROVE  Ledger(d) = Ledger(c)
BY DEF Ledger, SameAccount

(* A step that touches only the slots, the event and the start of an overflow. *)
SlotsOnly(c, d) ==
    /\ SameAccount(c, d) /\ d.sent = c.sent /\ d.unknown = c.unknown
    /\ d.discarded = c.discarded /\ d.historySent = c.historySent
    /\ d.queue = c.queue /\ d.inFlight = c.inFlight /\ d.bytes = c.bytes

LEMMA SlotsPass ==
    ASSUME NEW c, NEW d, SlotsOnly(c, d)
    PROVE  Passes(c, d)
<1>1. Ledger(d) = Ledger(c)
  BY LedgerStays DEF SlotsOnly
<1> QED
  BY <1>1 DEF SlotsOnly, Passes, Final, Bounded, SameAccount, Closed

LEMMA SlotMethodsPass ==
    ASSUME NEW c \in Connections, NEW version \in Nat
    PROVE  /\ Passes(c, c)
           /\ Passes(c, SetState(c, version))
           /\ Passes(c, TakeState(c))
           /\ Passes(c, SetDropped(c))
           /\ Passes(c, [c EXCEPT !.changed = FALSE])
           /\ Passes(c, [c EXCEPT !.notice = FALSE])
<1>1. SlotsOnly(c, c)
  BY DEF SlotsOnly, SameAccount
<1>2. SlotsOnly(c, [c EXCEPT !.state = version, !.changed = TRUE])
  BY DEF SlotsOnly, SameAccount, Connections
<1>3. SlotsOnly(c, [c EXCEPT !.notice = TRUE, !.changed = TRUE])
  BY DEF SlotsOnly, SameAccount, Connections
<1>4. SlotsOnly(c, TakeState(c))
  BY DEF SlotsOnly, SameAccount, Connections, TakeState
<1>5. SlotsOnly(c, [c EXCEPT !.changed = FALSE])
  BY DEF SlotsOnly, SameAccount, Connections
<1>6. SlotsOnly(c, [c EXCEPT !.notice = FALSE])
  BY DEF SlotsOnly, SameAccount, Connections
<1>7. SlotsOnly(c, SetState(c, version)) /\ SlotsOnly(c, SetDropped(c))
  BY <1>1, <1>2, <1>3 DEF SetState, SetDropped
<1> QED
  BY <1>1, <1>4, <1>5, <1>6, <1>7, SlotsPass

(* Resolving an exchange in flight: a ledger with one under way is not final. *)
LEMMA MarksPass ==
    ASSUME NEW c \in Connections, NEW d \in {MarkSent(c), MarkFailed(c), MarkUnknown(c)}
    PROVE  Passes(c, d)
<1>1. CASE c.inFlight = 0
  <2>1. d = c
    BY <1>1 DEF MarkSent, MarkFailed, MarkUnknown
  <2> QED
    BY <2>1 DEF Passes
<1>2. CASE c.inFlight # 0
  <2>1. d.queue = c.queue /\ d.bytes = c.bytes
    BY DEF MarkSent, MarkFailed, MarkUnknown, Connections
  <2> QED
    BY <1>2, <2>1 DEF Passes, Final, Bounded
<1> QED
  BY <1>1, <1>2

(* Closing empties the queue. *)
LEMMA ClosePasses ==
    ASSUME NEW c \in Connections, NEW code, NEW p
    PROVE  /\ Passes(c, Close(c, code, p))
           /\ ~Closed(c) => Passes(c, CloseNow(c, code, p))
<1>1. CASE Closed(c)
  BY <1>1 DEF Close, Passes
<1>2. CASE ~Closed(c)
  <2> DEFINE d == CloseNow(c, code, p)
  <2>1. d.queue = << >> /\ d.bytes = 0
    BY DEF CloseNow, Connections
  <2> HIDE DEF d
  <2>2. Bytes(<< >>) = 0 /\ Len(<< >>) = 0
    BY TotalOfNone DEF Bytes
  <2>3. Bounded(d)
    BY <2>1, <2>2, LimitsAssumption DEF Bounded, LimitsAssumption
  <2>4. Passes(c, d)
    BY <1>2, <2>3 DEF Passes, Final
  <2> QED
    BY <1>2, <2>4 DEF Close, d
<1> QED
  BY <1>1, <1>2

(* next_message takes the head of the queue and its bytes. *)
LEMMA NextMessagePasses ==
    ASSUME NEW c \in Connections
    PROVE  Passes(c, NextMessage(c))
<1>1. CASE c.state # 0
  BY <1>1, SlotMethodsPass, Literals DEF NextMessage
<1>2. CASE c.state = 0 /\ c.notice
  BY <1>2, SlotMethodsPass, Literals DEF NextMessage
<1>3. CASE c.state = 0 /\ ~c.notice /\ c.queue # << >>
  <2> DEFINE q == c.queue
             d == NextMessage(c)
  <2>1. d.queue = Tail(q) /\ d.bytes = c.bytes - TextSize[Head(q)]
    BY <1>3 DEF NextMessage, Connections
  <2>2. q \in Seq(Exchanges) /\ q # << >>
    BY <1>3, LedgerTypes
  <2> HIDE DEF q, d
  <2>3. Bytes(Tail(q)) = Bytes(q) - TextSize[Head(q)]
    BY <2>2, TotalOfTail, LimitsAssumption DEF Bytes, LimitsAssumption
  <2>4. Len(Tail(q)) = Len(q) - 1 /\ Len(q) \in Nat /\ Head(q) \in Exchanges
    BY <2>2
  <2>5. TextSize[Head(q)] \in Nat /\ Bytes(q) \in Nat
    BY <2>2, <2>4, TotalType, LimitsAssumption DEF Bytes, LimitsAssumption
  <2>6. Bounded(c) => Bounded(d)
    BY <2>1, <2>3, <2>4, <2>5, LimitsAssumption DEF Bounded, LimitsAssumption, q
  <2> QED
    BY <1>3, <2>6 DEF Passes, Final, d
<1>4. CASE NothingToSend(c)
  BY <1>4 DEF NextMessage, NothingToSend, Passes
<1> QED
  BY <1>1, <1>2, <1>3, <1>4 DEF NothingToSend

(* offer keeps one exchange if there is room for it and its bytes. *)
LEMMA OfferPasses ==
    ASSUME NEW c \in Connections, NEW n \in Exchanges
    PROVE  Passes(c, Offer(c, n, now))
<1>1. CASE Closed(c)
  BY <1>1 DEF Offer, Passes
<1>2. CASE ~Closed(c) /\ ~Full(c, n)
  <2> DEFINE q == c.queue
             d == Enqueue(c, n)
  <2>1. d.queue = Append(q, n) /\ d.bytes = c.bytes + TextSize[n]
    BY DEF Enqueue, Connections
  <2>2. q \in Seq(Exchanges) /\ Len(q) \in Nat /\ Len(Append(q, n)) = Len(q) + 1
    BY LedgerTypes
  <2>3. Bytes(Append(q, n)) = Bytes(q) + TextSize[n]
    BY <2>2, TotalOfAppend, LimitsAssumption DEF Bytes, LimitsAssumption
  <2>4. c.bytes \in Int /\ TextSize[n] \in Nat
    BY LimitsAssumption DEF Connections, LimitsAssumption
  <2>5. ~(Len(q) >= ClientMaxMessages) /\ ~(c.bytes + TextSize[n] > ClientMaxBytes)
    BY <1>2 DEF Full
  <2> HIDE DEF q, d
  <2>6. Bounded(c) => Bounded(d)
    BY <2>1, <2>2, <2>3, <2>4, <2>5, LimitsAssumption DEF Bounded, LimitsAssumption, q
  <2> QED
    BY <1>2, <2>6 DEF Passes, Final, Offer, d
<1>3. CASE ~Closed(c) /\ Full(c, n)
  <2> DEFINE d == Drop(c, now)
             p == d.publishedAtOpen + d.offered
  <2>1. d.queue = c.queue /\ d.bytes = c.bytes
    BY DEF Drop, Connections
  <2>2. CloseNow(d, TooSlow, p).queue = << >> /\ CloseNow(d, TooSlow, p).bytes = 0
    BY DEF CloseNow, Drop, Connections
  <2>3. Offer(c, n, now) \in {d, CloseNow(d, TooSlow, p)}
    BY <1>3 DEF Offer
  <2>4. Bytes(<< >>) = 0 /\ Len(<< >>) = 0
    BY TotalOfNone DEF Bytes
  <2> HIDE DEF d, p
  <2>5. ASSUME NEW e \in {d, CloseNow(d, TooSlow, p)}
        PROVE  Bounded(c) => Bounded(e)
    <3>1. CASE e = d
      BY <2>1, <3>1 DEF Bounded
    <3>2. CASE e = CloseNow(d, TooSlow, p)
      BY <2>2, <2>4, <3>2, LimitsAssumption DEF Bounded, LimitsAssumption
    <3> QED
      BY <3>1, <3>2
  <2> QED
    BY <1>3, <2>3, <2>5 DEF Passes, Final
<1> QED
  BY <1>1, <1>2, <1>3

-----------------------------------------------------------------------------
(* What every step does to every connection. *)
AllPass == \A i \in Ids : Passes(conns[i], conns'[i])

LEMMA NoneMoves ==
    ASSUME UNCHANGED conns
    PROVE  AllPass
BY DEF AllPass, Passes

(* A writer that goes on to its next await. *)
LEMMA TaskPasses ==
    ASSUME CloseInv, NEW i \in Ids, NEW d, Passes(conns[i], d),
           NEW at, NEW carrying, NEW rest, Task(i, d, at, carrying, rest)
    PROVE  AllPass
<1>1. conns \in [Ids -> Connections] /\ conns' = [conns EXCEPT ![i] = d]
  BY DEF CloseInv, ObserverInv, TypeOK, Task
<1>2. conns'[i] = d /\ \A j \in Ids : j # i => conns'[j] = conns[j]
  BY <1>1
<1> QED
  BY <1>2 DEF AllPass, Passes

LEMMA ProceedPasses ==
    ASSUME CloseInv, NEW i \in Ids, NEW c \in Connections, Passes(conns[i], c),
           NEW rest, Proceed(i, c, rest)
    PROVE  AllPass
<1>1. Passes(c, [c EXCEPT !.changed = FALSE]) /\ Passes(c, NextMessage(c))
  BY SlotMethodsPass, NextMessagePasses, Literals
<1>2. Passes(conns[i], [c EXCEPT !.changed = FALSE]) /\ Passes(conns[i], NextMessage(c))
  BY <1>1, PassesThen
<1>3. PICK d \in {c, [c EXCEPT !.changed = FALSE], NextMessage(c)} :
             \E at, carrying, r : Task(i, d, at, carrying, r)
  BY DEF Proceed
<1> QED
  BY <1>2, <1>3, TaskPasses

(* A send that returns. *)
LEMMA SendReturnsPasses ==
    ASSUME CloseInv, NEW i \in Ids, SendReturns(i)
    PROVE  AllPass
<1>1. conns[i] \in Connections /\ MarkSent(conns[i]) \in Connections
  BY MarkBalances DEF CloseInv, ObserverInv, TypeOK
<1>2. /\ Passes(conns[i], conns[i]) /\ Passes(conns[i], TakeState(conns[i]))
      /\ Passes(conns[i], MarkSent(conns[i]))
  BY <1>1, SlotMethodsPass, MarksPass, Literals
<1>3. \/ \E at, carrying, r : Task(i, TakeState(conns[i]), at, carrying, r)
      \/ \E r : Proceed(i, conns[i], r)
      \/ \E r : Proceed(i, MarkSent(conns[i]), r)
  BY DEF SendReturns
<1> QED
  BY <1>1, <1>2, <1>3, TaskPasses, ProceedPasses

(* A close by the handler, the server, a failed handshake or a dead writer. *)
LEMMA ClosingPasses ==
    ASSUME CloseInv, NEW i \in Ids, NEW code, NEW counts, CloseAndRetire(i, code, counts)
    PROVE  AllPass
<1> DEFINE d == Close(conns[i], code, published)
<1>1. conns \in [Ids -> Connections] /\ conns' = [conns EXCEPT ![i] = d]
  BY DEF CloseInv, ObserverInv, TypeOK, CloseAndRetire
<1>2. Passes(conns[i], d)
  BY <1>1, ClosePasses
<1>3. conns'[i] = d /\ \A j \in Ids : j # i => conns'[j] = conns[j]
  BY <1>1
<1> HIDE DEF d
<1> QED
  BY <1>2, <1>3 DEF AllPass, Passes

LEMMA WriterStepsPass ==
    ASSUME CloseInv, NEW i \in Ids, WriterStep(i)
    PROVE  AllPass
<1>1. conns[i] \in Connections
  BY DEF CloseInv, ObserverInv, TypeOK
<1>2. CASE StartWriter(i)
  BY <1>2, NoneMoves DEF StartWriter
<1>3. CASE PrepareFails(i)
  BY <1>3, ClosingPasses DEF PrepareFails
<1>4. CASE SendReturns(i)
  BY <1>4, SendReturnsPasses
<1>5. CASE SendRefused(i) \/ SendRaises(i) \/ CancelWriter(i)
  <2>1. PICK d \in {MarkFailed(conns[i]), MarkUnknown(conns[i])} :
               \E at, carrying, r : Task(i, d, at, carrying, r)
    BY <1>5 DEF SendRefused, SendRaises, CancelWriter
  <2>2. Passes(conns[i], d)
    BY <1>1, <2>1, MarksPass
  <2> QED
    BY <2>1, <2>2, TaskPasses
<1>6. CASE WriterEnded(i)
  BY <1>6, ClosingPasses, NoneMoves DEF WriterEnded
<1>7. CASE WriterWakes(i)
  <2> DEFINE d == [conns[i] EXCEPT !.changed = FALSE]
  <2>1. Proceed(i, d, << >>)
    BY <1>7 DEF WriterWakes
  <2>2. d \in Connections /\ Passes(conns[i], d)
    BY <1>1, NoticeKeepsAccount, SlotMethodsPass, Literals DEF KeepsAccount
  <2> HIDE DEF d
  <2> QED
    BY <2>1, <2>2, ProceedPasses
<1> QED
  BY <1>2, <1>3, <1>4, <1>5, <1>6, <1>7 DEF WriterStep

(* A publication: an offer that raises closes the connection. *)
LEMMA PublishPasses ==
    ASSUME CloseInv, NEW n \in Exchanges, Publish(n)
    PROVE  AllPass
<1>1. PICK raising \in SUBSET connections :
           conns' = [i \in Ids |-> IF i \in connections THEN Offered(conns[i], n, i \in raising)
                                                       ELSE conns[i]]
  BY DEF Publish
<1>2. ASSUME NEW i \in Ids
      PROVE  Passes(conns[i], conns'[i])
  <2>1. conns[i] \in Connections
    BY DEF CloseInv, ObserverInv, TypeOK
  <2>2. conns'[i] \in {conns[i], Close(conns[i], InternalError, published), Offer(conns[i], n, now)}
    BY <1>1 DEF Offered
  <2>3. Passes(conns[i], conns[i])
    BY DEF Passes
  <2> QED
    BY <2>1, <2>2, <2>3, ClosePasses, OfferPasses
<1> QED
  BY <1>2 DEF AllPass

(* A turn of run_state. *)
LEMMA PushPasses ==
    ASSUME CloseInv, \/ \E version \in {feed.last, feed.last + 1} : SnapshotTaken(version)
                     \/ SnapshotFails
    PROVE  AllPass
<1>1. PICK version \in Nat : \E cs \in {conns, PushState(conns, version)} : conns' = PushDropped(cs)
  <2>1. feed.last \in Nat
    BY DEF CloseInv, ObserverInv, TypeOK
  <2>2. CASE SnapshotFails
    BY <2>1, <2>2 DEF SnapshotFails
  <2>3. ASSUME NEW version \in {feed.last, feed.last + 1}, SnapshotTaken(version)
        PROVE  \E v \in Nat : \E cs \in {conns, PushState(conns, v)} : conns' = PushDropped(cs)
    BY <2>1, <2>3 DEF SnapshotTaken
  <2> QED
    BY <2>2, <2>3
<1>2. PICK cs \in {conns, PushState(conns, version)} : conns' = PushDropped(cs)
  BY <1>1
<1>3. ASSUME NEW i \in Ids
      PROVE  Passes(conns[i], conns'[i])
  <2> DEFINE c == conns[i]
             d == cs[i]
  <2>1. c \in Connections
    BY DEF CloseInv, ObserverInv, TypeOK
  <2>2. d = c \/ d = SetState(c, version)
    BY <1>2 DEF PushState
  <2>3. conns'[i] = d \/ conns'[i] = SetDropped(d)
    BY <1>2 DEF PushDropped
  <2> HIDE DEF c, d
  <2>4. d \in Connections /\ Passes(c, d)
    BY <2>1, <2>2, StateKeepsAccount, SlotMethodsPass DEF KeepsAccount
  <2>5. Passes(d, conns'[i])
    BY <2>3, <2>4, SlotMethodsPass, Literals
  <2>6. Passes(c, conns'[i])
    BY <2>4, <2>5, PassesThen
  <2> QED
    BY <2>6 DEF c
<1> QED
  BY <1>3 DEF AllPass

(* A client that connects: its id was not closed, and its queue is empty. *)
LEMMA ConnectPasses ==
    ASSUME CloseInv, NEW after \in Afters, Connect(after)
    PROVE  AllPass
<1> DEFINE e == NewConnection(ring.lastSeq, published, Len(Since(ring, after)))
           d == SetState(e, feed.last)
<1>1. conns \in [Ids -> Connections] /\ opened \in Nat /\ conns' = [conns EXCEPT ![opened + 1] = d]
  BY DEF CloseInv, ObserverInv, TypeOK, Connect
<1>2. d.queue = << >> /\ d.bytes = 0
  BY DEF SetState, NewConnection
<1> HIDE DEF d
<1>3. Bounded(d)
  <2>1. Bytes(<< >>) = 0 /\ Len(<< >>) = 0
    BY TotalOfNone DEF Bytes
  <2> QED
    BY <1>2, <2>1, LimitsAssumption DEF Bounded, LimitsAssumption
<1>4. ASSUME NEW i \in Ids
      PROVE  Passes(conns[i], conns'[i])
  <2>1. CASE i = opened + 1
    <3>1. ~(i <= opened) /\ conns'[i] = d
      BY <1>1, <2>1
    <3> QED
      BY <1>3, <3>1 DEF Passes, Final, CloseInv, OnlyOpenedClose
  <2>2. CASE i # opened + 1
    BY <1>1, <2>2 DEF Passes
  <2> QED
    BY <2>1, <2>2
<1> QED
  BY <1>4 DEF AllPass

(* The exchange a publisher's turn publishes. *)
LEMMA HeadIsExchange ==
    ASSUME CloseInv, handoff.records # << >>
    PROVE  Head(handoff.records) \in Exchanges
BY DEF CloseInv, ObserverInv, TypeOK

LEMMA EveryStepPasses == CloseInv /\ [Next]_vars => AllPass
<1> SUFFICES ASSUME CloseInv, [Next]_vars PROVE AllPass
  OBVIOUS
<1>1. CASE UNCHANGED conns
  BY <1>1, NoneMoves
<1>2. CASE PublisherTurn
  <2>1. CASE handoff.records = << >>
    BY <1>1, <1>2, <2>1 DEF PublisherTurn
  <2>2. CASE handoff.records # << >>
    BY <1>2, <2>2, HeadIsExchange, PublishPasses DEF PublisherTurn
  <2> QED
    BY <2>1, <2>2
<1>3. ASSUME NEW after \in Afters, Connect(after) PROVE AllPass
  BY <1>3, ConnectPasses
<1>4. ASSUME NEW i \in Ids, Disconnect(i) PROVE AllPass
  BY <1>4, ClosingPasses DEF Disconnect
<1>5. ASSUME NEW i \in Ids, WriterStep(i) PROVE AllPass
  BY <1>5, WriterStepsPass
<1>6. CASE \/ \E version \in {feed.last, feed.last + 1} : SnapshotTaken(version)
           \/ SnapshotFails
  BY <1>6, PushPasses
<1>7. CASE Dispatch \/ RefuseClient \/ Stats \/ Tick \/ UNCHANGED vars
  BY <1>1, <1>7 DEF Dispatch, RefuseClient, Stats, Tick, vars
<1> QED
  BY <1>2, <1>3, <1>4, <1>5, <1>6, <1>7 DEF Next

-----------------------------------------------------------------------------
(* The totals. *)

(* The closed connections whose ledger is in the totals. *)
Resolving  == connections \cup unresolved
InTheTotal == (1..opened) \ Resolving

(* Only what has resolved is in the totals. *)
ResolvedAreFinal == \A i \in InTheTotal : Final(conns[i])

TotalsInv == CloseInv /\ ResolvedAreFinal /\ TotalsAreFinalLedgers

(* The fields of a ledger are numbers. *)
LEMMA LedgerIsNumbers ==
    ASSUME NEW c \in Connections, NEW f \in LedgerFields
    PROVE  Ledger(c)[f] \in Int
BY SMTT(30) DEF Connections, Ledger, LedgerFields

LEMMA SumOfLedgersField ==
    ASSUME NEW S \in SUBSET Ids, NEW cs \in [Ids -> Connections], NEW f \in LedgerFields
    PROVE  LET g == [i \in Ids |-> Ledger(cs[i])[f]]
           IN  /\ IsFiniteSet(S) /\ \A i \in S : g[i] \in Int
               /\ SumOfLedgers(S, cs)[f] = SumFunctionOnSet(g, S)
<1> DEFINE g == [i \in Ids |-> Ledger(cs[i])[f]]
           h == [i \in S |-> Ledger(cs[i])[f]]
<1>1. IsFiniteSet(S)
  <2>1. IsFiniteSet(Ids)
    BY FS_Interval, ObserverAssumption DEF Ids, ObserverAssumption
  <2> QED
    BY <2>1, FS_Subset
<1>2. \A i \in S : g[i] \in Int /\ h[i] = g[i]
  BY LedgerIsNumbers
<1>3. SumOfLedgers(S, cs)[f] = SumFunctionOnSet(h, S)
  <2>1. SumOfLedgers(S, cs)[f] = SumFunction(h)
    BY DEF SumOfLedgers
  <2>2. DOMAIN h = S
    OBVIOUS
  <2> HIDE DEF h
  <2> QED
    BY <2>1, <2>2 DEF SumFunction
<1> HIDE DEF g, h
<1>4. SumFunctionOnSet(h, S) = SumFunctionOnSet(g, S)
  BY <1>1, <1>2, SumsAreEqual
<1> QED
  BY <1>1, <1>2, <1>3, <1>4 DEF g

(* The sums over two sets of connections add up, and what does not move in the *)
(* ledgers of the first does not move in their sum.                              *)
LEMMA LedgersAddUp ==
    ASSUME NEW S \in SUBSET Ids, NEW T \in SUBSET Ids, S \cap T = {},
           NEW cs \in [Ids -> Connections], NEW ds \in [Ids -> Connections],
           \A i \in S : Ledger(ds[i]) = Ledger(cs[i])
    PROVE  SumOfLedgers(S \cup T, ds)
             = [f \in LedgerFields |-> SumOfLedgers(S, cs)[f] + SumOfLedgers(T, ds)[f]]
<1>1. ASSUME NEW f \in LedgerFields
      PROVE  SumOfLedgers(S \cup T, ds)[f] = SumOfLedgers(S, cs)[f] + SumOfLedgers(T, ds)[f]
  <2> DEFINE g == [i \in Ids |-> Ledger(cs[i])[f]]
             h == [i \in Ids |-> Ledger(ds[i])[f]]
             U == S \cup T
  <2>1. U \in SUBSET Ids
    OBVIOUS
  <2>2. /\ SumOfLedgers(S, cs)[f] = SumFunctionOnSet(g, S)
        /\ SumOfLedgers(T, ds)[f] = SumFunctionOnSet(h, T)
        /\ SumOfLedgers(U, ds)[f] = SumFunctionOnSet(h, U)
        /\ IsFiniteSet(S) /\ IsFiniteSet(T)
        /\ \A i \in S : g[i] \in Int
        /\ \A i \in U : h[i] \in Int
    <3> HIDE DEF U
    <3> QED
      BY <2>1, SumOfLedgersField
  <2>3. \A i \in S : h[i] = g[i]
    OBVIOUS
  <2> HIDE DEF g, h
  <2>4. SumFunctionOnSet(h, S) = SumFunctionOnSet(g, S)
    BY <2>2, <2>3, SumsAreEqual
  <2>5. SumFunctionOnSet(h, U) = SumFunctionOnSet(h, S) + SumFunctionOnSet(h, T)
    BY <2>2, SumOfUnion
  <2> QED
    BY <2>2, <2>4, <2>5
<1>2. SumOfLedgers(S \cup T, ds) = [f \in LedgerFields |-> SumOfLedgers(S \cup T, ds)[f]]
  BY DEF SumOfLedgers
<1> HIDE DEF SumOfLedgers
<1> QED
  BY <1>1, <1>2

(* A sum over nothing, and over connections whose ledgers did not move. *)
LEMMA LedgersOfNone ==
    ASSUME NEW cs \in [Ids -> Connections]
    PROVE  SumOfLedgers({}, cs) = [f \in LedgerFields |-> 0]
<1>1. ASSUME NEW f \in LedgerFields
      PROVE  SumOfLedgers({}, cs)[f] = 0
  <2> DEFINE g == [i \in Ids |-> Ledger(cs[i])[f]]
             none == {}
  <2>1. none \in SUBSET Ids /\ \A i \in none : g[i] \in Int
    OBVIOUS
  <2> HIDE DEF none
  <2>2. SumOfLedgers(none, cs)[f] = SumFunctionOnSet(g, none)
    BY <2>1, SumOfLedgersField
  <2> HIDE DEF g
  <2>3. SumFunctionOnSet(g, none) = 0
    BY <2>1, SumTakesElement, FS_EmptySet DEF none
  <2> QED
    BY <2>2, <2>3 DEF none
<1>2. SumOfLedgers({}, cs) = [f \in LedgerFields |-> SumOfLedgers({}, cs)[f]]
  BY DEF SumOfLedgers
<1> HIDE DEF SumOfLedgers
<1> QED
  BY <1>1, <1>2

LEMMA SameLedgers ==
    ASSUME NEW S, NEW cs, NEW ds, \A i \in S : Ledger(ds[i]) = Ledger(cs[i])
    PROVE  SumOfLedgers(S, ds) = SumOfLedgers(S, cs)
<1>1. ASSUME NEW f
      PROVE  [i \in S |-> Ledger(ds[i])[f]] = [i \in S |-> Ledger(cs[i])[f]]
  OBVIOUS
<1> QED
  BY <1>1 DEF SumOfLedgers

-----------------------------------------------------------------------------
(* How a step moves what is in the totals. *)

LEMMA TotalsTypes ==
    CloseInv =>
           /\ conns \in [Ids -> Connections] /\ opened \in Nat /\ 1..opened \subseteq Ids
           /\ connections \subseteq 1..opened /\ unresolved \subseteq 1..opened
           /\ InTheTotal \in SUBSET Ids
           /\ \A i \in 1..opened : i \notin connections => Closed(conns[i])
<1> SUFFICES ASSUME CloseInv
             PROVE  /\ conns \in [Ids -> Connections] /\ opened \in Nat /\ 1..opened \subseteq Ids
                    /\ connections \subseteq 1..opened /\ unresolved \subseteq 1..opened
                    /\ InTheTotal \in SUBSET Ids
                    /\ \A i \in 1..opened : i \notin connections => Closed(conns[i])
  OBVIOUS
<1>1. /\ conns \in [Ids -> Connections] /\ opened \in 0..MaxConnections
      /\ connections \subseteq 1..opened /\ unresolved \subseteq 1..opened
  BY DEF CloseInv, ObserverInv, TypeOK
<1>2. 1..opened \subseteq Ids /\ opened \in Nat
  BY <1>1, ObserverAssumption DEF Ids, ObserverAssumption
<1>3. \A i \in 1..opened : i \notin connections => Closed(conns[i])
  BY DEF CloseInv, ObserverInv, RegisteredIffOpen
<1> QED
  BY <1>1, <1>2, <1>3 DEF InTheTotal

(* A step that neither retires nor folds. *)
LEMMA TotalsStay ==
    ASSUME TotalsInv, AllPass, InTheTotal' = InTheTotal, UNCHANGED totals,
           (unresolved \cap connections)' = {}
    PROVE  ResolvedAreFinal' /\ TotalsAreFinalLedgers'
<1>1. InTheTotal \in SUBSET Ids
  BY TotalsTypes DEF TotalsInv
<1>2. \A i \in InTheTotal : Final(conns'[i]) /\ Ledger(conns'[i]) = Ledger(conns[i])
  BY <1>1 DEF TotalsInv, ResolvedAreFinal, AllPass, Passes
<1>3. SumOfLedgers(InTheTotal, conns') = SumOfLedgers(InTheTotal, conns)
  BY <1>2, SameLedgers
<1>4. ResolvedAreFinal'
  BY <1>2 DEF ResolvedAreFinal
<1>5. totals = SumOfLedgers(InTheTotal, conns)
  BY DEF TotalsInv, TotalsAreFinalLedgers, InTheTotal, Resolving
<1>6. totals' = SumOfLedgers(InTheTotal', conns')
  BY <1>3, <1>5
<1> QED
  BY <1>4, <1>6 DEF TotalsAreFinalLedgers, InTheTotal, Resolving

(* _fold: what has resolved of those that leave or were waiting joins the totals. *)
LEMMA FoldTotals ==
    ASSUME TotalsInv, CloseInv', AllPass, UNCHANGED opened,
           NEW leaving \in SUBSET connections, connections' = connections \ leaving,
           Fold(unresolved \cup leaving, conns')
    PROVE  ResolvedAreFinal' /\ TotalsAreFinalLedgers'
<1> DEFINE ids   == unresolved \cup leaving
           final == {i \in ids : Queued(conns'[i]) = 0}
<1>0. CloseInv /\ unresolved \cap connections = {} /\ totals = SumOfLedgers(InTheTotal, conns)
  BY DEF TotalsInv, TotalsAreFinalLedgers, InTheTotal, Resolving
<1>1. /\ conns \in [Ids -> Connections] /\ opened \in Nat /\ 1..opened \subseteq Ids
      /\ connections \subseteq 1..opened /\ unresolved \subseteq 1..opened
      /\ InTheTotal \in SUBSET Ids
  BY <1>0, TotalsTypes
<1>2. /\ conns' \in [Ids -> Connections]
      /\ \A i \in 1..opened : i \notin connections' => Closed(conns'[i])
  BY DEF CloseInv, ObserverInv, TypeOK, RegisteredIffOpen
<1>3. unresolved' = ids \ final
      /\ totals' = [f \in LedgerFields |-> totals[f] + SumOfLedgers(final, conns')[f]]
  BY DEF Fold
<1>4. /\ InTheTotal' = InTheTotal \cup final /\ InTheTotal \cap final = {}
      /\ final \in SUBSET Ids /\ final \subseteq 1..opened /\ final \cap connections' = {}
      /\ unresolved' \cap connections' = {}
  <2>1. final \subseteq unresolved \cup leaving
    OBVIOUS
  <2> HIDE DEF final
  <2> QED
    BY <1>0, <1>1, <1>3, <2>1 DEF InTheTotal, Resolving
<1>5. \A i \in final : Final(conns'[i])
  <2> SUFFICES ASSUME NEW i \in final PROVE Final(conns'[i])
    OBVIOUS
  <2> DEFINE d == conns'[i]
  <2>1. d \in Connections /\ Closed(d) /\ Queued(d) = 0
    BY <1>1, <1>2, <1>4
  <2> HIDE DEF d
  <2>2. d.queue \in Seq(Exchanges) /\ Len(d.queue) \in Nat /\ UnderWay(d) \in Nat
    BY <2>1, LedgerTypes
  <2>3. Len(d.queue) = 0 /\ UnderWay(d) = 0
    BY <2>1, <2>2 DEF Queued
  <2>4. d.queue = << >> /\ d.inFlight = 0
    BY <2>2, <2>3 DEF UnderWay
  <2> QED
    BY <2>1, <2>4 DEF Final, d
<1>6. \A i \in InTheTotal : Final(conns'[i]) /\ Ledger(conns'[i]) = Ledger(conns[i])
  BY <1>1 DEF TotalsInv, ResolvedAreFinal, AllPass, Passes
<1> HIDE DEF final
<1>7. SumOfLedgers(InTheTotal \cup final, conns')
        = [f \in LedgerFields |-> SumOfLedgers(InTheTotal, conns)[f] + SumOfLedgers(final, conns')[f]]
  BY <1>1, <1>2, <1>4, <1>6, LedgersAddUp
<1>8. totals' = SumOfLedgers(InTheTotal', conns')
  BY <1>0, <1>3, <1>4, <1>7
<1>9. ResolvedAreFinal'
  BY <1>4, <1>5, <1>6 DEF ResolvedAreFinal
<1> QED
  BY <1>4, <1>8, <1>9 DEF TotalsAreFinalLedgers, InTheTotal, Resolving

(* A step in which the registered ones among ids retire. *)
LEMMA RetireTotals ==
    ASSUME TotalsInv, CloseInv', AllPass, UNCHANGED opened,
           NEW ids, NEW counts, Retire(ids, conns', counts)
    PROVE  ResolvedAreFinal' /\ TotalsAreFinalLedgers'
<1> DEFINE leaving == ids \cap connections
<1>1. leaving \in SUBSET connections /\ connections' = connections \ leaving
  BY DEF Retire
<1>2. CASE leaving = {}
  <2>1. UNCHANGED <<connections, unresolved, totals>>
    BY <1>1, <1>2 DEF Retire, Account
  <2> QED
    BY <2>1, TotalsStay DEF TotalsInv, TotalsAreFinalLedgers, InTheTotal, Resolving
<1>3. CASE leaving # {}
  <2>1. Fold(unresolved \cup leaving, conns')
    BY <1>3 DEF Retire, Account
  <2> HIDE DEF leaving
  <2> QED
    BY <1>1, <2>1, FoldTotals
<1> QED
  BY <1>2, <1>3

(* A step that touches neither. *)
LEMMA NobodyRetires ==
    ASSUME TotalsInv, AllPass, UNCHANGED <<opened, connections, unresolved, totals>>
    PROVE  ResolvedAreFinal' /\ TotalsAreFinalLedgers'
BY TotalsStay DEF TotalsInv, TotalsAreFinalLedgers, InTheTotal, Resolving

(* A new connection is registered. *)
LEMMA ConnectTotals ==
    ASSUME TotalsInv, AllPass, NEW after \in Afters, Connect(after)
    PROVE  ResolvedAreFinal' /\ TotalsAreFinalLedgers'
<1>0. CloseInv /\ ObserverInv
  BY DEF TotalsInv, CloseInv
<1>1. ClosedMeanwhile = {}
  BY <1>0, NoneClosedMeanwhile
<1>2. /\ opened' = opened + 1 /\ connections' = connections \cup {opened + 1}
      /\ UNCHANGED <<unresolved, totals>>
  BY <1>1 DEF Connect, Account
<1>3. /\ opened \in Nat /\ connections \subseteq 1..opened /\ unresolved \subseteq 1..opened
      /\ unresolved \cap connections = {}
  BY <1>0, TotalsTypes DEF TotalsInv, TotalsAreFinalLedgers
<1>4. 1..opened' = (1..opened) \cup {opened + 1} /\ opened + 1 \notin 1..opened
  BY <1>2, <1>3
<1>5. InTheTotal' = InTheTotal /\ (unresolved \cap connections)' = {}
  BY <1>2, <1>3, <1>4 DEF InTheTotal, Resolving
<1> QED
  BY <1>2, <1>5, TotalsStay

LEMMA TotalsStep ==
    ASSUME TotalsInv, [Next]_vars
    PROVE  TotalsInv'
<1>0. CloseInv /\ AllPass /\ CloseInv'
  BY EveryStepPasses, CloseInvStays DEF TotalsInv
<1> SUFFICES ResolvedAreFinal' /\ TotalsAreFinalLedgers'
  BY <1>0 DEF TotalsInv
<1>1. CASE UNCHANGED <<opened, connections, unresolved, totals>>
  BY <1>0, <1>1, NobodyRetires
<1>2. CASE PublisherTurn
  <2>1. CASE handoff.records = << >>
    BY <1>1, <1>2, <2>1 DEF PublisherTurn
  <2>2. CASE handoff.records # << >>
    <3>1. Publish(Head(handoff.records)) /\ UNCHANGED opened
      BY <1>2, <2>2 DEF PublisherTurn
    <3>2. PICK encodes \in BOOLEAN, raising \in SUBSET connections :
              LET n      == Head(handoff.records)
                  cs     == [i \in Ids |-> IF i \in connections THEN Offered(conns[i], n, i \in raising)
                                                                ELSE conns[i]]
                  counts == [counters EXCEPT !["encode_failed"] = @ + (IF encodes THEN 0 ELSE 1),
                                             !["fanout_failed"] = @ + Cardinality(raising)]
              IN  conns' = cs /\ Retire({i \in connections : Closed(cs[i])}, cs, counts)
      BY <3>1 DEF Publish
    <3> DEFINE counts == [counters EXCEPT !["encode_failed"] = @ + (IF encodes THEN 0 ELSE 1),
                                          !["fanout_failed"] = @ + Cardinality(raising)]
               ids    == {i \in connections : Closed(conns'[i])}
    <3>3. Retire(ids, conns', counts)
      BY <3>2
    <3> HIDE DEF ids, counts
    <3> QED
      BY <1>0, <3>1, <3>3, RetireTotals
  <2> QED
    BY <2>1, <2>2
<1>3. ASSUME NEW after \in Afters, Connect(after) PROVE ResolvedAreFinal' /\ TotalsAreFinalLedgers'
  BY <1>0, <1>3, ConnectTotals
<1>4. ASSUME NEW i, NEW code, NEW counts, CloseAndRetire(i, code, counts), UNCHANGED opened
      PROVE  ResolvedAreFinal' /\ TotalsAreFinalLedgers'
  BY <1>0, <1>4, RetireTotals DEF CloseAndRetire
<1>5. ASSUME NEW i \in Ids, Disconnect(i) PROVE ResolvedAreFinal' /\ TotalsAreFinalLedgers'
  BY <1>4, <1>5 DEF Disconnect
<1>6. ASSUME NEW i \in Ids, WriterStep(i) PROVE ResolvedAreFinal' /\ TotalsAreFinalLedgers'
  <2>1. CASE PrepareFails(i)
    BY <1>4, <2>1 DEF PrepareFails
  <2>2. CASE WriterEnded(i)
    BY <1>1, <1>4, <2>2 DEF WriterEnded
  <2>3. CASE ~PrepareFails(i) /\ ~WriterEnded(i)
    BY <1>1, <1>6, <2>3
       DEF WriterStep, StartWriter, SendReturns, SendRefused, SendRaises, CancelWriter, WriterWakes
  <2> QED
    BY <2>1, <2>2, <2>3
<1>7. CASE RefuseClient
  <2>1. Retire(ClosedMeanwhile, conns', Count("refused_clients")) /\ UNCHANGED opened
    BY <1>7 DEF RefuseClient
  <2> QED
    BY <1>0, <2>1, RetireTotals
<1>8. CASE Stats
  <2>1. ClosedMeanwhile = {}
    BY <1>0, NoneClosedMeanwhile DEF CloseInv
  <2> DEFINE none == {}
  <2>2. /\ connections' = connections \ none /\ none \in SUBSET connections /\ UNCHANGED opened
        /\ Fold(unresolved \cup none, conns')
    BY <1>8, <2>1 DEF Stats
  <2> HIDE DEF none
  <2> QED
    BY <1>0, <2>2, FoldTotals
<1>9. CASE \/ \E version \in {feed.last, feed.last + 1} : SnapshotTaken(version)
           \/ SnapshotFails \/ Tick \/ Dispatch \/ UNCHANGED vars
  BY <1>1, <1>9 DEF SnapshotTaken, SnapshotFails, Tick, Dispatch, vars
<1> QED
  BY <1>2, <1>3, <1>5, <1>6, <1>7, <1>8, <1>9 DEF Next

LEMMA TotalsStart == Init => TotalsInv
<1> SUFFICES ASSUME Init PROVE TotalsInv
  OBVIOUS
<1>1. CloseInv
  BY InitEstablishes, NoneClosedAtStart DEF CloseInv
<1>2. InTheTotal = {} /\ unresolved \cap connections = {} /\ totals = [f \in LedgerFields |-> 0]
  BY DEF Init, InTheTotal, Resolving
<1>3. totals = SumOfLedgers(InTheTotal, conns)
  BY <1>1, <1>2, TotalsTypes, LedgersOfNone
<1> QED
  BY <1>1, <1>2, <1>3 DEF TotalsInv, ResolvedAreFinal, TotalsAreFinalLedgers, InTheTotal, Resolving

(* P5(f) of decisions/0010: closed_totals, which GET /status reports, is the    *)
(* sum of the ledgers of the connections that are closed and resolved, each    *)
(* counted once, in every reachable state and whatever the limits.             *)
THEOREM TotalsAreTheFinalLedgers == Spec => []TotalsAreFinalLedgers
<1>1. TotalsInv /\ [Next]_vars => TotalsInv'
  BY TotalsStep
<1>2. TotalsInv => TotalsAreFinalLedgers
  BY DEF TotalsInv
<1> QED
  BY <1>1, <1>2, TotalsStart, PTL DEF Spec

-----------------------------------------------------------------------------
(* The buffers. *)

(* A set of positions that with each holds the ones before it is a first stretch. *)
LEMMA FirstStretch ==
    ASSUME NEW m \in Nat, NEW T \in SUBSET (1..m), 1 \in T,
           \A k \in T : \A j \in 1..k : j \in T
    PROVE  Cardinality(T) \in T
<1>1. PICK h \in T : h + 1 \notin T
  <2> SUFFICES ASSUME \A k \in T : k + 1 \in T
               PROVE  FALSE
    OBVIOUS
  <2> DEFINE N == {n \in Nat : n + 1 \in T}
  <2>1. N \in SUBSET Nat /\ 0 \in N /\ \A n \in N : n + 1 \in N
    OBVIOUS
  <2> HIDE DEF N
  <2>2. \A n \in Nat : n \in N
    BY <2>1, NatSetInduction
  <2>3. m + 1 \in T
    BY <2>2 DEF N
  <2> QED
    BY <2>3
<1>2. T = 1..h
  <2>1. ASSUME NEW k \in T, k > h
        PROVE  FALSE
    <3>1. h + 1 \in 1..k
      BY <2>1
    <3> QED
      BY <1>1, <3>1
  <2>2. \A k \in T : k \in Nat /\ k >= 1 /\ k <= h
    BY <2>1
  <2>3. \A j \in 1..h : j \in T
    BY <1>1
  <2>4. T \subseteq 1..h
    BY <2>2
  <2> QED
    BY <2>3, <2>4
<1>3. Cardinality(1..h) = h
  <2>1. h \in Int /\ 1 \in Int /\ h >= 1
    OBVIOUS
  <2>2. Cardinality(1..h) = IF 1 > h THEN 0 ELSE h - 1 + 1
    BY <2>1, FS_Interval
  <2> QED
    BY <2>1, <2>2
<1> QED
  BY <1>2, <1>3

(* A longer end of a sequence has at least the bytes of a shorter one. *)
LEMMA LongerEndsAreLarger ==
    ASSUME NEW s \in Seq(Exchanges), NEW k \in 0..Len(s)
    PROVE  /\ Bytes(LastEvents(s, k)) = Bytes(s) - Bytes(SubSeq(s, 1, Len(s) - k))
           /\ Bytes(SubSeq(s, 1, Len(s) - k)) \in Nat
           /\ \A j \in 0..k : Bytes(SubSeq(s, 1, Len(s) - k)) <= Bytes(SubSeq(s, 1, Len(s) - j))
<1> DEFINE a == Len(s) - k
<1>0. TextSize \in [Exchanges -> Nat] /\ a \in 0..Len(s) /\ Len(s) \in Nat
  BY LimitsAssumption DEF LimitsAssumption
<1> HIDE DEF a
<1>1. /\ SubSeq(s, 1, a) \in Seq(Exchanges) /\ SubSeq(s, a + 1, Len(s)) \in Seq(Exchanges)
  BY <1>0
<1>2. Bytes(SubSeq(s, 1, a)) \in Nat /\ Bytes(SubSeq(s, a + 1, Len(s))) \in Nat
  BY <1>0, <1>1, TotalType DEF Bytes
<1>3. Bytes(s) = Bytes(SubSeq(s, 1, a)) + Bytes(SubSeq(s, a + 1, Len(s)))
  BY <1>0, TotalOfParts DEF Bytes
<1>4. ASSUME NEW j \in 0..k
      PROVE  Bytes(SubSeq(s, 1, a)) <= Bytes(SubSeq(s, 1, Len(s) - j))
  <2> DEFINE b == Len(s) - j
             t == SubSeq(s, 1, b)
  <2>1. b \in 0..Len(s) /\ a \in 0..b
    BY DEF a
  <2> HIDE DEF b
  <2>2. t \in Seq(Exchanges) /\ Len(t) = b /\ SubSeq(t, 1, a) = SubSeq(s, 1, a)
    BY <1>0, <2>1
  <2> HIDE DEF t
  <2>3. SubSeq(t, a + 1, Len(t)) \in Seq(Exchanges) /\ a \in 0..Len(t)
    BY <2>1, <2>2
  <2>4. Bytes(SubSeq(t, a + 1, Len(t))) \in Nat
    BY <1>0, <2>3, TotalType DEF Bytes
  <2>5. Bytes(t) = Bytes(SubSeq(t, 1, a)) + Bytes(SubSeq(t, a + 1, Len(t)))
    BY <1>0, <2>2, <2>3, TotalOfParts DEF Bytes
  <2>6. Bytes(SubSeq(s, 1, a)) <= Bytes(t)
    <3> DEFINE x == Bytes(SubSeq(s, 1, a))
               y == Bytes(SubSeq(t, a + 1, Len(t)))
    <3>1. Bytes(t) = x + y /\ x \in Nat /\ y \in Nat
      BY <1>2, <2>2, <2>4, <2>5
    <3> HIDE DEF x, y
    <3>2. x <= Bytes(t)
      BY <3>1
    <3> QED
      BY <3>2 DEF x
  <2> QED
    BY <2>6 DEF t, b
<1>5. LastEvents(s, k) = SubSeq(s, a + 1, Len(s))
  BY DEF LastEvents, a
<1> QED
  BY <1>2, <1>3, <1>4, <1>5 DEF a

(* A ring within its limits, which knows its size. *)
RingFits(r) ==
    /\ Len(r.events) <= HistoryMaxEvents
    /\ r.bytes = Bytes(r.events)
    /\ r.bytes <= HistoryMaxBytes \/ Len(r.events) = 1

(* add evicts as much as it must, and its count of bytes is of what stays. *)
LEMMA RingAddFits ==
    ASSUME NEW r, r.events \in Seq(Exchanges), r.bytes = Bytes(r.events), NEW n \in Exchanges
    PROVE  RingFits(RingAdd(r, n))
<1> DEFINE all      == Append(r.events, n)
           L        == Len(all)
           first(k) == Bytes(SubSeq(all, 1, L - k))
           bytes(k) == r.bytes + TextSize[n] - first(k)
           over(k)  == k > HistoryMaxEvents \/ (bytes(k) > HistoryMaxBytes /\ k > 1)
           fits     == {k \in 1..L : ~over(k)}
           kept     == Cardinality(fits)
<1>0. /\ TextSize \in [Exchanges -> Nat] /\ HistoryMaxEvents \in Nat \ {0}
      /\ HistoryMaxBytes \in Nat
  BY LimitsAssumption DEF LimitsAssumption
<1>1. RingAdd(r, n) = [events |-> LastEvents(all, kept), bytes |-> bytes(kept), lastSeq |-> n]
  BY DEF RingAdd
<1>2. all \in Seq(Exchanges) /\ L \in Nat /\ L >= 1
  OBVIOUS
<1>3. r.bytes + TextSize[n] = Bytes(all)
  BY <1>0, TotalOfAppend DEF Bytes
<1>4. Bytes(all) \in Nat
  BY <1>0, <1>2, TotalType DEF Bytes
<1> HIDE DEF all
<1>5. /\ \A k \in 1..L : bytes(k) = Bytes(all) - first(k) /\ first(k) \in Nat
      /\ 1 \in 1..L
  <2>1. ASSUME NEW k \in 1..L
        PROVE  first(k) \in Nat
    <3>1. k \in 0..Len(all)
      BY <1>2
    <3> QED
      BY <1>2, <3>1, LongerEndsAreLarger
  <2>2. r.bytes \in Nat /\ TextSize[n] \in Nat
    BY <1>0, TotalType DEF Bytes
  <2> HIDE DEF first
  <2> QED
    BY <1>2, <1>3, <2>1, <2>2
<1> HIDE DEF bytes
<1>6. ASSUME NEW k \in 1..L
      PROVE  /\ bytes(k) = Bytes(LastEvents(all, k)) /\ first(k) \in Nat
             /\ \A j \in 1..k : first(k) <= first(j) /\ first(j) \in Nat
  <2>1. k \in 0..Len(all) /\ \A j \in 1..k : j \in 0..k /\ j \in 0..Len(all)
    BY <1>2
  <2>2. \A j \in 1..k : first(j) \in Nat
    BY <1>2, <2>1, LongerEndsAreLarger
  <2>3. /\ Bytes(LastEvents(all, k)) = Bytes(all) - first(k) /\ first(k) \in Nat
        /\ \A j \in 0..k : first(k) <= first(j)
    BY <1>2, <2>1, LongerEndsAreLarger
  <2>4. bytes(k) = Bytes(LastEvents(all, k))
    BY <1>5, <2>3
  <2> QED
    BY <2>1, <2>2, <2>3, <2>4
<1> HIDE DEF first, L
<1>7. fits \in SUBSET (1..L) /\ 1 \in fits
  BY <1>0, <1>2
<1>8. ASSUME NEW k \in fits, NEW j \in 1..k
      PROVE  j \in fits
  <2>1. k \in 1..L /\ ~over(k) /\ k \in Nat /\ j \in Nat /\ j \in 1..L
    BY <1>2
  <2>2. first(k) \in Nat /\ first(j) \in Nat /\ first(k) <= first(j)
    BY <1>6, <2>1
  <2>3. CASE j = 1
    BY <1>7, <2>3
  <2>4. CASE j > 1
    <3>1. k > 1 /\ k <= HistoryMaxEvents /\ ~(bytes(k) > HistoryMaxBytes)
      BY <1>0, <2>1, <2>4
    <3>2. ~(bytes(j) > HistoryMaxBytes) /\ ~(j > HistoryMaxEvents)
      BY <1>0, <1>5, <1>4, <2>1, <2>2, <3>1
    <3> QED
      BY <2>1, <3>2
  <2> QED
    BY <2>1, <2>3, <2>4
<1> HIDE DEF fits
<1>9. kept \in fits
  BY <1>2, <1>7, <1>8, FirstStretch
<1>10. kept \in 1..L /\ ~over(kept)
  BY <1>9 DEF fits
<1> HIDE DEF kept
<1>11. bytes(kept) = Bytes(LastEvents(all, kept)) /\ Len(LastEvents(all, kept)) = kept
  <2>1. kept \in 0..Len(all)
    BY <1>2, <1>10 DEF L
  <2> QED
    BY <1>2, <1>6, <1>10, <2>1, LastEventsType
<1>12. bytes(kept) \in Int /\ kept \in Nat
  <2>1. first(kept) \in Nat
    BY <1>6, <1>10
  <2> QED
    BY <1>2, <1>5, <1>4, <1>10, <2>1
<1>13. kept <= HistoryMaxEvents /\ (bytes(kept) <= HistoryMaxBytes \/ kept = 1)
  BY <1>0, <1>2, <1>10, <1>12
<1> QED
  BY <1>1, <1>11, <1>13 DEF RingFits

(* The hand-off within its limits, which knows its size. *)
HandOffFits(h) ==
    /\ Len(h.records) <= HandOffMaxRecords
    /\ h.bytes = Total(RecordSize, h.records)
    /\ h.bytes <= HandOffMaxBytes

BuffersInv ==
    /\ CloseInv
    /\ HandOffFits(handoff)
    /\ RingFits(ring)
    /\ \A i \in Ids : Bounded(conns[i])

(* What the publisher takes makes room for as much as it was. *)
LEMMA HandOffTakes ==
    ASSUME NEW h, h.records \in Seq(Exchanges), h.records # << >>, HandOffFits(h),
           NEW g, g.records = Tail(h.records),
           g.bytes = h.bytes - RecordSize[Head(h.records)]
    PROVE  HandOffFits(g)
<1> DEFINE s == h.records
           r == Tail(s)
           n == RecordSize[Head(s)]
<1>0. RecordSize \in [Exchanges -> Nat] /\ HandOffMaxRecords \in Nat /\ HandOffMaxBytes \in Nat
  BY LimitsAssumption DEF LimitsAssumption
<1>1. r \in Seq(Exchanges) /\ Len(r) = Len(s) - 1 /\ Head(s) \in Exchanges /\ Len(s) \in Nat
  OBVIOUS
<1>2. Total(RecordSize, r) = Total(RecordSize, s) - n
  BY <1>0, TotalOfTail
<1>3. Total(RecordSize, s) \in Nat /\ n \in Nat
  BY <1>0, <1>1, TotalType
<1> HIDE DEF n
<1>4. g.bytes = Total(RecordSize, r) /\ g.bytes <= HandOffMaxBytes
  BY <1>0, <1>2, <1>3 DEF HandOffFits, n
<1>5. Len(r) <= HandOffMaxRecords
  BY <1>0, <1>1 DEF HandOffFits
<1> QED
  BY <1>4, <1>5 DEF HandOffFits

(* What is handed off is checked against both limits first. *)
LEMMA HandOffAccepts ==
    ASSUME NEW h, h.records \in Seq(Exchanges), HandOffFits(h), NEW n \in Exchanges,
           ~(Len(h.records) >= HandOffMaxRecords), ~(h.bytes + RecordSize[n] > HandOffMaxBytes),
           NEW g, g.records = Append(h.records, n), g.bytes = h.bytes + RecordSize[n]
    PROVE  HandOffFits(g)
<1>0. RecordSize \in [Exchanges -> Nat] /\ HandOffMaxRecords \in Nat /\ HandOffMaxBytes \in Nat
  BY LimitsAssumption DEF LimitsAssumption
<1>1. Total(RecordSize, g.records) = Total(RecordSize, h.records) + RecordSize[n]
  BY <1>0, TotalOfAppend
<1>2. Total(RecordSize, h.records) \in Nat /\ RecordSize[n] \in Nat
  BY <1>0, TotalType
<1>3. g.bytes = Total(RecordSize, g.records) /\ g.bytes <= HandOffMaxBytes
  BY <1>0, <1>1, <1>2 DEF HandOffFits
<1>4. Len(g.records) = Len(h.records) + 1 /\ Len(h.records) \in Nat
  OBVIOUS
<1>5. Len(g.records) <= HandOffMaxRecords
  BY <1>0, <1>4
<1> QED
  BY <1>3, <1>5 DEF HandOffFits

LEMMA BuffersTypes ==
    CloseInv => /\ handoff.records \in Seq(Exchanges) /\ issued \in 0..MaxIssued
                /\ handoff = [records |-> handoff.records, bytes |-> handoff.bytes,
                              dropped |-> handoff.dropped]
                /\ ring.events \in Seq(Exchanges)
BY DEF CloseInv, ObserverInv, TypeOK

(* The hand-off's part of a step. *)
LEMMA HandOffStep ==
    ASSUME BuffersInv, Dispatch \/ PublisherTurn
    PROVE  HandOffFits(handoff')
<1>0. handoff.records \in Seq(Exchanges) /\ issued \in 0..MaxIssued /\ MaxIssued \in Nat
      /\ handoff = [records |-> handoff.records, bytes |-> handoff.bytes, dropped |-> handoff.dropped]
  BY BuffersTypes, LimitsAssumption DEF BuffersInv, LimitsAssumption
<1>1. CASE Dispatch
  <2> DEFINE n    == issued + 1
             full == \/ Len(handoff.records) >= HandOffMaxRecords
                     \/ handoff.bytes + RecordSize[n] > HandOffMaxBytes
  <2>1. n \in Exchanges
    BY <1>0, <1>1 DEF Dispatch, Exchanges
  <2>2. CASE full
    <3>1. handoff' = [handoff EXCEPT !.dropped = @ + 1]
      BY <1>1, <2>2 DEF Dispatch
    <3>2. handoff'.records = handoff.records /\ handoff'.bytes = handoff.bytes
      BY <1>0, <3>1
    <3> QED
      BY <3>2 DEF BuffersInv, HandOffFits
  <2>3. CASE ~full
    <3>1. handoff' = [handoff EXCEPT !.records = Append(@, n), !.bytes = @ + RecordSize[n]]
      BY <1>1, <2>3 DEF Dispatch
    <3>2. /\ handoff'.records = Append(handoff.records, n)
          /\ handoff'.bytes = handoff.bytes + RecordSize[n]
      BY <1>0, <3>1
    <3> HIDE DEF n
    <3> QED
      BY <1>0, <2>1, <2>3, <3>2, HandOffAccepts DEF BuffersInv
  <2> QED
    BY <2>2, <2>3
<1>2. CASE PublisherTurn
  <2>1. CASE handoff.records = << >>
    BY <1>2, <2>1 DEF PublisherTurn, BuffersInv
  <2>2. CASE handoff.records # << >>
    <3>1. handoff' = [handoff EXCEPT !.records = Tail(@),
                                     !.bytes = @ - RecordSize[Head(handoff.records)]]
      BY <1>2, <2>2 DEF PublisherTurn
    <3>2. /\ handoff'.records = Tail(handoff.records)
          /\ handoff'.bytes = handoff.bytes - RecordSize[Head(handoff.records)]
      BY <1>0, <3>1
    <3> QED
      BY <1>0, <2>2, <3>2, HandOffTakes DEF BuffersInv
  <2> QED
    BY <2>1, <2>2
<1> QED
  BY <1>1, <1>2

LEMMA BuffersStep ==
    ASSUME BuffersInv, [Next]_vars
    PROVE  BuffersInv'
<1>0. CloseInv /\ CloseInv' /\ AllPass
  BY EveryStepPasses, CloseInvStays DEF BuffersInv
<1>1. \A i \in Ids : Bounded(conns'[i])
  BY <1>0 DEF BuffersInv, AllPass, Passes
<1>2. HandOffFits(handoff')
  <2>1. CASE Dispatch \/ PublisherTurn
    BY <2>1, HandOffStep
  <2>2. CASE UNCHANGED handoff
    BY <2>2 DEF BuffersInv
  <2>3. Dispatch \/ PublisherTurn \/ UNCHANGED handoff
    BY ZenonT(60) DEF Next, vars, stream, Connect, RefuseClient, Disconnect, Stats, WriterStep, StartWriter,
           PrepareFails, SendReturns, SendRefused, SendRaises, WriterEnded, CancelWriter, WriterWakes,
           SnapshotTaken, SnapshotFails, Tick
  <2> QED
    BY <2>1, <2>2, <2>3
<1>3. RingFits(ring')
  <2>1. CASE UNCHANGED ring
    BY <2>1 DEF BuffersInv
  <2>2. CASE PublisherTurn /\ handoff.records # << >>
    <3>1. Head(handoff.records) \in Exchanges /\ ring.events \in Seq(Exchanges)
      BY <1>0, <2>2, HeadIsExchange, BuffersTypes
    <3>2. ring' = RingAdd(ring, Head(handoff.records))
      BY <2>2 DEF PublisherTurn, Publish
    <3> QED
      BY <3>1, <3>2, RingAddFits DEF BuffersInv, RingFits
  <2>3. (PublisherTurn /\ handoff.records # << >>) \/ UNCHANGED ring
    BY ZenonT(60) DEF Next, vars, stream, Dispatch, PublisherTurn, Connect, RefuseClient, Disconnect, Stats,
           WriterStep, StartWriter, PrepareFails, SendReturns, SendRefused, SendRaises, WriterEnded,
           CancelWriter, WriterWakes, SnapshotTaken, SnapshotFails, Tick
  <2> QED
    BY <2>1, <2>2, <2>3
<1> QED
  BY <1>0, <1>1, <1>2, <1>3 DEF BuffersInv

LEMMA BuffersStart == Init => BuffersInv
<1> SUFFICES ASSUME Init PROVE BuffersInv
  OBVIOUS
<1>1. CloseInv
  BY InitEstablishes, NoneClosedAtStart DEF CloseInv
<1>2. Bytes(<< >>) = 0 /\ Total(RecordSize, << >>) = 0 /\ Len(<< >>) = 0
  BY TotalOfNone DEF Bytes
<1>3. HandOffFits(handoff)
  BY <1>2, LimitsAssumption DEF Init, HandOffFits, LimitsAssumption
<1>4. RingFits(ring)
  BY <1>2, LimitsAssumption DEF Init, RingFits, EmptyRing, LimitsAssumption
<1>5. \A i \in Ids : Bounded(conns[i])
  BY <1>2, LimitsAssumption DEF Init, Bounded, NewConnection, LimitsAssumption
<1> QED
  BY <1>1, <1>3, <1>4, <1>5 DEF BuffersInv

(* What waits is bounded, in the hand-off, in the ring and in every client's    *)
(* queue, and no count of bytes drifts from what its buffer holds, in every     *)
(* reachable state and whatever the limits and the sizes.                       *)
THEOREM BuffersStayBounded == Spec => []BuffersBounded
<1>1. BuffersInv /\ [Next]_vars => BuffersInv'
  BY BuffersStep
<1>2. BuffersInv => BuffersBounded
  <2> SUFFICES ASSUME BuffersInv PROVE BuffersBounded
    OBVIOUS
  <2>1. 1..opened \subseteq Ids
    BY TotalsTypes DEF BuffersInv
  <2> QED
    BY <2>1 DEF BuffersInv, BuffersBounded, HandOffFits, RingFits, Bounded
<1> QED
  BY <1>1, <1>2, BuffersStart, PTL DEF Spec

-----------------------------------------------------------------------------
(* Who is forced out. *)

(* All events are as long as each other. *)
EventsOfOneSize == \A n, m \in Exchanges : TextSize[n] = TextSize[m]

(* What is known at a time of a connection whose writer last took an exchange *)
(* at another: an overflow goes on only while nothing is taken, or until what *)
(* was taken lets the queue accept again; and it has lasted for a client that *)
(* was forced out.                                                            *)
Patient(c, took, time) ==
    /\ c.overflowSince <= time /\ took <= time
    /\ c.closeCode = TooSlow => /\ time >= c.overflowSince + OverflowDisconnect
                                /\ took <= c.overflowSince
    /\ ~Closed(c) /\ c.overflowSince # Never =>
            took <= c.overflowSince \/ \A n \in Exchanges : ~Full(c, n)

(* Whatever code a client gives for itself says nothing of its queue. *)
AllPatient == \A i \in Ids \ hungUp : Patient(conns[i], writer[i].took, now)

StalledInv == BuffersInv /\ EventsOfOneSize /\ AllPatient

(* What neither closes a connection nor touches its queue or its overflow. *)
SameQueue(c, d) ==
    /\ d.closeCode = c.closeCode /\ d.overflowSince = c.overflowSince
    /\ d.queue = c.queue /\ d.bytes = c.bytes

LEMMA SameQueueIsPatient ==
    ASSUME NEW c, NEW d, SameQueue(c, d), NEW took, NEW time, Patient(c, took, time)
    PROVE  Patient(d, took, time)
BY DEF SameQueue, Patient, Closed, Full

LEMMA SlotsKeepTheQueue ==
    ASSUME NEW c \in Connections, NEW version
    PROVE  /\ SameQueue(c, c)
           /\ SameQueue(c, SetState(c, version))
           /\ SameQueue(c, TakeState(c))
           /\ SameQueue(c, SetDropped(c))
           /\ SameQueue(c, [c EXCEPT !.changed = FALSE])
           /\ SameQueue(c, [c EXCEPT !.notice = FALSE])
           /\ SameQueue(c, MarkSent(c)) /\ SameQueue(c, MarkFailed(c)) /\ SameQueue(c, MarkUnknown(c))
<1>1. SameQueue(c, c)
  BY DEF SameQueue
<1>2. SameQueue(c, [c EXCEPT !.state = version, !.changed = TRUE])
  BY DEF SameQueue, Connections
<1>3. SameQueue(c, [c EXCEPT !.notice = TRUE, !.changed = TRUE])
  BY DEF SameQueue, Connections
<1>4. SameQueue(c, TakeState(c))
  BY DEF SameQueue, Connections, TakeState
<1>5. SameQueue(c, [c EXCEPT !.changed = FALSE]) /\ SameQueue(c, [c EXCEPT !.notice = FALSE])
  BY DEF SameQueue, Connections
<1>6. /\ SameQueue(c, [c EXCEPT !.inFlight = 0, !.sent = @ + 1])
      /\ SameQueue(c, [c EXCEPT !.inFlight = 0, !.discarded = @ + 1])
      /\ SameQueue(c, [c EXCEPT !.inFlight = 0, !.unknown = @ + 1])
  BY DEF SameQueue, Connections
<1>7. SameQueue(c, MarkSent(c)) /\ SameQueue(c, MarkFailed(c)) /\ SameQueue(c, MarkUnknown(c))
  BY <1>1, <1>6 DEF MarkSent, MarkFailed, MarkUnknown
<1> QED
  BY <1>1, <1>2, <1>3, <1>4, <1>5, <1>7 DEF SetState, SetDropped

(* A close that is not for slowness. *)
LEMMA CloseIsPatient ==
    ASSUME NEW c \in Connections, NEW code, code \notin {NotClosed, TooSlow}, NEW p,
           NEW took, NEW time, Patient(c, took, time)
    PROVE  Patient(Close(c, code, p), took, time)
<1>1. CASE Closed(c)
  BY <1>1 DEF Close
<1>2. CASE ~Closed(c)
  <2> DEFINE d == CloseNow(c, code, p)
  <2>1. d.closeCode = code /\ d.overflowSince = c.overflowSince
    BY DEF CloseNow, Connections
  <2> HIDE DEF d
  <2>2. Patient(d, took, time)
    BY <2>1 DEF Patient, Closed
  <2> QED
    BY <1>2, <2>2 DEF Close, d
<1> QED
  BY <1>1, <1>2

(* An offer that is accepted ends the overflow; one that is refused says that *)
(* the queue has no room, so nothing was taken since the overflow began.      *)
LEMMA OfferIsPatient ==
    ASSUME NEW c \in Connections, NEW n \in Exchanges, NEW took \in Nat, NEW time \in Nat,
           Patient(c, took, time)
    PROVE  Patient(Offer(c, n, time), took, time)
<1>1. CASE Closed(c)
  BY <1>1 DEF Offer
<1>2. CASE ~Closed(c) /\ ~Full(c, n)
  <2> DEFINE d == Enqueue(c, n)
  <2>1. d.closeCode = c.closeCode /\ d.overflowSince = Never
    BY DEF Enqueue, Connections
  <2> HIDE DEF d
  <2>2. Patient(d, took, time)
    BY <1>2, <2>1 DEF Patient, Closed, NotClosed, TooSlow, Never
  <2> QED
    BY <1>2, <2>2 DEF Offer, d
<1>3. CASE ~Closed(c) /\ Full(c, n)
  <2> DEFINE since == IF c.overflowSince = Never THEN time ELSE c.overflowSince
             d     == Drop(c, time)
             e     == CloseNow(d, TooSlow, d.publishedAtOpen + d.offered)
  <2>1. d.closeCode = c.closeCode /\ d.overflowSince = since
    BY DEF Drop, Connections
  <2>2. e.closeCode = TooSlow /\ e.overflowSince = since
    BY DEF CloseNow, Drop, Connections
  <2>3. since \in Int /\ since <= time /\ took <= since
    BY <1>3 DEF Patient, Connections
  <2>4. OverflowDisconnect \in Nat
    BY LimitsAssumption DEF LimitsAssumption
  <2>5. Offer(c, n, time) = IF time - since >= OverflowDisconnect THEN e ELSE d
    BY <1>3, <2>1 DEF Offer
  <2> HIDE DEF since, d, e
  <2>6. CASE time - since >= OverflowDisconnect
    <3>1. time >= since + OverflowDisconnect
      BY <2>3, <2>4, <2>6
    <3>2. Patient(e, took, time)
      BY <1>3, <2>2, <2>3, <3>1 DEF Patient, Closed, NotClosed, TooSlow
    <3> QED
      BY <2>5, <2>6, <3>2
  <2>7. CASE ~(time - since >= OverflowDisconnect)
    <3>1. Patient(d, took, time)
      BY <1>3, <2>1, <2>3 DEF Patient, Closed, NotClosed, TooSlow
    <3> QED
      BY <2>5, <2>7, <3>1
  <2> QED
    BY <2>6, <2>7
<1> QED
  BY <1>1, <1>2, <1>3

(* Taking an exchange of an open connection makes room for any other, since *)
(* they are of one size.                                                    *)
LEMMA NextMessageIsPatient ==
    ASSUME EventsOfOneSize, NEW c \in Connections, ~Closed(c), c.inFlight = 0, Bounded(c),
           NEW took \in Nat, NEW time \in Nat, Patient(c, took, time),
           NEW d, d = NextMessage(c)
    PROVE  Patient(d, IF d.inFlight # 0 THEN time ELSE took, time)
<1>1. CASE c.state # 0
  <2>1. SameQueue(c, d) /\ d.inFlight = 0
    BY <1>1, SlotsKeepTheQueue DEF NextMessage, TakeState, Connections
  <2> QED
    BY <2>1, SameQueueIsPatient
<1>2. CASE c.state = 0 /\ c.notice
  <2>1. SameQueue(c, d) /\ d.inFlight = 0
    BY <1>2, SlotsKeepTheQueue DEF NextMessage, Connections
  <2> QED
    BY <2>1, SameQueueIsPatient
<1>3. CASE c.state = 0 /\ ~c.notice /\ c.queue # << >>
  <2> DEFINE q == c.queue
             h == Head(q)
  <2>1. d.queue = Tail(q) /\ d.bytes = c.bytes - TextSize[h] /\ d.inFlight = h
        /\ d.closeCode = c.closeCode /\ d.overflowSince = c.overflowSince
    BY <1>3 DEF NextMessage, Connections
  <2>2. q \in Seq(Exchanges) /\ q # << >> /\ Len(q) \in Nat
    BY <1>3, LedgerTypes
  <2>3. Len(Tail(q)) = Len(q) - 1 /\ h \in Exchanges
    BY <2>2
  <2>4. /\ h # 0 /\ TextSize \in [Exchanges -> Nat] /\ ClientMaxMessages \in Nat /\ ClientMaxBytes \in Nat
        /\ c.bytes \in Int /\ c.overflowSince \in Int
    <3>1. c.bytes \in Int /\ c.overflowSince \in Int
      BY DEF Connections
    <3>2. h # 0
      <4> HIDE DEF h
      <4> QED
        BY <2>3 DEF Exchanges
    <3> QED
      BY <3>1, <3>2, LimitsAssumption DEF LimitsAssumption
  <2>5. Len(q) <= ClientMaxMessages /\ c.bytes <= ClientMaxBytes
    BY DEF Bounded
  <2> HIDE DEF q, h
  <2>6. ASSUME NEW n \in Exchanges
        PROVE  ~Full(d, n)
    <3>1. TextSize[n] = TextSize[h] /\ TextSize[h] \in Nat
      BY <2>3, <2>4 DEF EventsOfOneSize
    <3>2. ~(Len(d.queue) >= ClientMaxMessages)
      BY <2>1, <2>2, <2>3, <2>4, <2>5
    <3>3. ~(d.bytes + TextSize[n] > ClientMaxBytes)
      BY <2>1, <2>4, <2>5, <3>1
    <3> QED
      BY <3>2, <3>3 DEF Full
  <2> QED
    BY <2>1, <2>4, <2>6 DEF Patient, Closed, NotClosed, TooSlow
<1>4. CASE NothingToSend(c)
  <2>1. d = c
    BY <1>4 DEF NextMessage, NothingToSend
  <2> QED
    BY <2>1
<1> QED
  BY <1>1, <1>2, <1>3, <1>4 DEF NothingToSend

LEMMA StalledTypes ==
    ASSUME StalledInv, NEW i \in Ids
    PROVE  /\ conns \in [Ids -> Connections] /\ conns[i] \in Connections
           /\ writer \in [Ids -> [at : WriterStates, carrying : Nat, took : Nat]]
           /\ writer[i].took \in Nat /\ now \in Nat /\ CloseInv /\ EventsOfOneSize
           /\ (i \notin hungUp => Patient(conns[i], writer[i].took, now)) /\ Bounded(conns[i])
BY DEF StalledInv, AllPatient, BuffersInv, CloseInv, ObserverInv, TypeOK

(* A writer that goes on to its next await. *)
LEMMA TaskIsPatient ==
    ASSUME StalledInv, NEW i \in Ids, NEW d, NEW at, NEW carrying, NEW rest,
           Task(i, d, at, carrying, rest), UNCHANGED <<now, hungUp>>,
           i \notin hungUp => Patient(d, IF d.inFlight # 0 THEN now ELSE writer[i].took, now)
    PROVE  AllPatient'
<1>1. conns \in [Ids -> Connections] /\ writer \in [Ids -> [at : WriterStates, carrying : Nat, took : Nat]]
  BY StalledTypes
<1>2. /\ conns' = [conns EXCEPT ![i] = d]
      /\ writer' = [writer EXCEPT ![i] = [at |-> at, carrying |-> carrying,
                                          took |-> IF d.inFlight # 0 THEN now ELSE writer[i].took]]
  BY <1>1 DEF Task
<1>3. conns'[i] = d /\ writer'[i].took = IF d.inFlight # 0 THEN now ELSE writer[i].took
  BY <1>1, <1>2
<1>4. \A j \in Ids : j # i => conns'[j] = conns[j] /\ writer'[j] = writer[j]
  BY <1>1, <1>2
<1> QED
  BY <1>3, <1>4 DEF AllPatient, StalledInv

(* Nothing is in flight when a writer has resolved what it took. *)
LEMMA ProceedIsPatient ==
    ASSUME StalledInv, NEW i \in Ids, NEW c \in Connections, SameQueue(conns[i], c), c.inFlight = 0,
           NEW rest, Proceed(i, c, rest), UNCHANGED <<now, hungUp>>
    PROVE  AllPatient'
<1>1. /\ (i \notin hungUp => Patient(c, writer[i].took, now)) /\ Bounded(c) /\ EventsOfOneSize
      /\ writer[i].took \in Nat /\ now \in Nat
  BY StalledTypes, SameQueueIsPatient DEF SameQueue, Bounded
<1>2. CASE \E at, carrying, r : Task(i, c, at, carrying, r)
  BY <1>1, <1>2, TaskIsPatient
<1>3. CASE \E at, carrying, r : Task(i, [c EXCEPT !.changed = FALSE], at, carrying, r)
  <2> DEFINE d == [c EXCEPT !.changed = FALSE]
  <2>1. SameQueue(c, d) /\ d.inFlight = 0
    BY SlotsKeepTheQueue DEF Connections
  <2> HIDE DEF d
  <2>2. i \notin hungUp => Patient(d, IF d.inFlight # 0 THEN now ELSE writer[i].took, now)
    BY <1>1, <2>1, SameQueueIsPatient
  <2>3. PICK at, carrying, r : Task(i, d, at, carrying, r)
    BY <1>3 DEF d
  <2> QED
    BY <2>2, <2>3, TaskIsPatient
<1>4. CASE ~Closed(c) /\ \E at, carrying, r : Task(i, NextMessage(c), at, carrying, r)
  <2> DEFINE d == NextMessage(c)
  <2>1. i \notin hungUp => Patient(d, IF d.inFlight # 0 THEN now ELSE writer[i].took, now)
    BY <1>1, <1>4, NextMessageIsPatient
  <2> HIDE DEF d
  <2>2. PICK at, carrying, r : Task(i, d, at, carrying, r)
    BY <1>4 DEF d
  <2> QED
    BY <2>1, <2>2, TaskIsPatient
<1> QED
  BY <1>2, <1>3, <1>4 DEF Proceed

(* Every writer's step. *)
LEMMA NothingUnderWay ==
    ASSUME StalledInv, NEW i \in Ids
    PROVE  /\ writer[i].at # "live" => conns[i].inFlight = 0
           /\ MarkSent(conns[i]).inFlight = 0 /\ MarkSent(conns[i]) \in Connections
           /\ MarkFailed(conns[i]).inFlight = 0 /\ MarkUnknown(conns[i]).inFlight = 0
<1>1. conns[i] \in Connections
  BY StalledTypes
<1>2. writer[i].at # "live" => conns[i].inFlight = 0
  BY DEF StalledInv, BuffersInv, CloseInv, ObserverInv, InFlightOnlyWhileSending
<1>3. /\ MarkSent(conns[i]).inFlight = 0 /\ MarkFailed(conns[i]).inFlight = 0
      /\ MarkUnknown(conns[i]).inFlight = 0
  BY <1>1 DEF MarkSent, MarkFailed, MarkUnknown, Connections
<1>4. MarkSent(conns[i]) \in Connections
  BY <1>1, MarkBalances
<1> QED
  BY <1>2, <1>3, <1>4

LEMMA SendReturnsIsPatient ==
    ASSUME StalledInv, NEW i \in Ids, SendReturns(i), UNCHANGED <<now, hungUp>>
    PROVE  AllPatient'
<1> DEFINE c == conns[i]
<1>1. c \in Connections /\ (i \notin hungUp => Patient(c, writer[i].took, now))
  BY StalledTypes
<1>2. CASE writer[i].at # "live"
  <2>1. c.inFlight = 0
    BY <1>2, NothingUnderWay
  <2>2. \/ \E at, carrying, r : Task(i, TakeState(c), at, carrying, r)
        \/ \E r : Proceed(i, c, r)
    BY <1>2 DEF SendReturns
  <2>3. SameQueue(c, c) /\ SameQueue(c, TakeState(c)) /\ TakeState(c).inFlight = 0
    BY <1>1, <2>1, SlotsKeepTheQueue DEF TakeState, Connections
  <2>4. i \notin hungUp => Patient(TakeState(c), writer[i].took, now)
    BY <1>1, <2>3, SameQueueIsPatient
  <2> QED
    BY <1>1, <2>1, <2>2, <2>3, <2>4, TaskIsPatient, ProceedIsPatient
<1>3. CASE writer[i].at = "live"
  <2>1. \E r : Proceed(i, MarkSent(c), r)
    BY <1>3 DEF SendReturns
  <2>2. MarkSent(c).inFlight = 0 /\ MarkSent(c) \in Connections /\ SameQueue(c, MarkSent(c))
    BY <1>1, NothingUnderWay, SlotsKeepTheQueue
  <2> QED
    BY <2>1, <2>2, ProceedIsPatient
<1> QED
  BY <1>2, <1>3

(* A close by the handler, the server, a failed handshake or a dead writer, *)
(* or by a client.                                                          *)
LEMMA ClosingIsPatient ==
    ASSUME StalledInv, NEW i \in Ids, NEW code, code # NotClosed, NEW counts,
           CloseAndRetire(i, code, counts), now' = now, hungUp \subseteq hungUp',
           code = TooSlow => Closed(conns[i]) \/ i \in hungUp',
           \A j \in Ids : writer'[j].took = writer[j].took
    PROVE  AllPatient'
<1> DEFINE d == Close(conns[i], code, published)
<1>1. conns \in [Ids -> Connections] /\ conns' = [conns EXCEPT ![i] = d]
  BY StalledTypes DEF CloseAndRetire
<1>2. i \notin hungUp' => Patient(d, writer[i].took, now)
  <2>1. CASE Closed(conns[i])
    BY <2>1, StalledTypes DEF Close
  <2>2. CASE code # TooSlow
    BY <2>2, StalledTypes, CloseIsPatient
  <2> QED
    BY <2>1, <2>2
<1>3. conns'[i] = d /\ \A j \in Ids : j # i => conns'[j] = conns[j]
  BY <1>1
<1> HIDE DEF d
<1> QED
  BY <1>2, <1>3 DEF AllPatient, StalledInv

(* A step that leaves connections and writers' times as they are. *)
LEMMA NobodyIsPatientlyMoved ==
    ASSUME StalledInv, UNCHANGED <<conns, now, hungUp>>, \A j \in Ids : writer'[j].took = writer[j].took
    PROVE  AllPatient'
BY DEF AllPatient, StalledInv

LEMMA WriterStepsArePatient ==
    ASSUME StalledInv, NEW i \in Ids, WriterStep(i)
    PROVE  AllPatient'
<1> DEFINE c == conns[i]
<1>0. /\ c \in Connections /\ (i \notin hungUp => Patient(c, writer[i].took, now))
      /\ writer \in [Ids -> [at : WriterStates, carrying : Nat, took : Nat]]
  BY StalledTypes
<1>1. UNCHANGED <<now, hungUp>>
  BY DEF WriterStep, StartWriter, PrepareFails, SendReturns, SendRefused, SendRaises, WriterEnded,
         CancelWriter, WriterWakes
<1>2. CASE StartWriter(i) \/ PrepareFails(i) \/ WriterEnded(i)
  <2>1. \E at : writer' = [writer EXCEPT ![i].at = at]
    BY <1>2 DEF StartWriter, PrepareFails, WriterEnded
  <2>2. \A j \in Ids : writer'[j].took = writer[j].took
    BY <1>0, <2>1
  <2>3. \/ UNCHANGED conns
        \/ \E counts : CloseAndRetire(i, 1006, counts)
        \/ \E counts : CloseAndRetire(i, InternalError, counts)
    BY <1>2 DEF StartWriter, PrepareFails, WriterEnded
  <2>4. 1006 \notin {NotClosed, TooSlow} /\ InternalError \notin {NotClosed, TooSlow}
    BY DEF NotClosed, TooSlow, InternalError
  <2> QED
    BY <1>1, <2>2, <2>3, <2>4, ClosingIsPatient, NobodyIsPatientlyMoved
<1>3. CASE SendReturns(i)
  BY <1>1, <1>3, SendReturnsIsPatient
<1>4. CASE SendRefused(i) \/ SendRaises(i) \/ CancelWriter(i)
  <2>1. PICK d \in {MarkFailed(c), MarkUnknown(c)} :
               \E at, carrying, r : Task(i, d, at, carrying, r)
    BY <1>4 DEF SendRefused, SendRaises, CancelWriter
  <2>2. SameQueue(c, d) /\ d.inFlight = 0
    BY <1>0, <2>1, SlotsKeepTheQueue, NothingUnderWay
  <2>3. i \notin hungUp => Patient(d, writer[i].took, now)
    BY <1>0, <2>2, SameQueueIsPatient
  <2> QED
    BY <1>1, <2>1, <2>2, <2>3, TaskIsPatient
<1>5. CASE WriterWakes(i)
  <2> DEFINE d == [c EXCEPT !.changed = FALSE]
  <2>1. Proceed(i, d, << >>) /\ writer[i].at = "wait"
    BY <1>5 DEF WriterWakes
  <2>2. c.inFlight = 0
    BY <2>1, NothingUnderWay
  <2>3. d \in Connections /\ d.inFlight = 0 /\ SameQueue(c, d)
    BY <1>0, <2>2, SlotsKeepTheQueue DEF Connections
  <2> HIDE DEF d
  <2> QED
    BY <1>1, <2>1, <2>3, ProceedIsPatient
<1> QED
  BY <1>2, <1>3, <1>4, <1>5 DEF WriterStep

(* A publication. *)
LEMMA PublishIsPatient ==
    ASSUME StalledInv, NEW n \in Exchanges, Publish(n), UNCHANGED <<now, writer, hungUp>>
    PROVE  AllPatient'
<1>1. PICK raising \in SUBSET connections :
           conns' = [i \in Ids |-> IF i \in connections THEN Offered(conns[i], n, i \in raising)
                                                       ELSE conns[i]]
  BY DEF Publish
<1>2. ASSUME NEW i \in Ids \ hungUp
      PROVE  Patient(conns'[i], writer[i].took, now)
  <2>1. conns'[i] \in {conns[i], Close(conns[i], InternalError, published), Offer(conns[i], n, now)}
    BY <1>1 DEF Offered
  <2>2. InternalError \notin {NotClosed, TooSlow}
    BY DEF NotClosed, TooSlow, InternalError
  <2> QED
    BY <2>1, <2>2, StalledTypes, CloseIsPatient, OfferIsPatient
<1> QED
  BY <1>2 DEF AllPatient

(* A turn of run_state. *)
LEMMA PushIsPatient ==
    ASSUME StalledInv, \/ \E version \in {feed.last, feed.last + 1} : SnapshotTaken(version)
                       \/ SnapshotFails
    PROVE  AllPatient'
<1>1. UNCHANGED <<now, writer, hungUp>>
  BY DEF SnapshotTaken, SnapshotFails, tasks
<1>2. PICK version \in Nat : \E cs \in {conns, PushState(conns, version)} : conns' = PushDropped(cs)
  <2>1. feed.last \in Nat
    BY DEF StalledInv, BuffersInv, CloseInv, ObserverInv, TypeOK
  <2>2. CASE SnapshotFails
    BY <2>1, <2>2 DEF SnapshotFails
  <2>3. ASSUME NEW version \in {feed.last, feed.last + 1}, SnapshotTaken(version)
        PROVE  \E v \in Nat : \E cs \in {conns, PushState(conns, v)} : conns' = PushDropped(cs)
    BY <2>1, <2>3 DEF SnapshotTaken
  <2> QED
    BY <2>2, <2>3
<1>3. PICK cs \in {conns, PushState(conns, version)} : conns' = PushDropped(cs)
  BY <1>2
<1>4. ASSUME NEW i \in Ids \ hungUp
      PROVE  Patient(conns'[i], writer[i].took, now)
  <2> DEFINE c == conns[i]
             d == cs[i]
  <2>1. c \in Connections /\ Patient(c, writer[i].took, now)
    BY StalledTypes
  <2>2. d = c \/ d = SetState(c, version)
    BY <1>3 DEF PushState
  <2>3. conns'[i] = d \/ conns'[i] = SetDropped(d)
    BY <1>3 DEF PushDropped
  <2> HIDE DEF c, d
  <2>4. d \in Connections
    BY <2>1, <2>2, StateKeepsAccount DEF KeepsAccount
  <2>5. SameQueue(c, d)
    BY <2>1, <2>2, SlotsKeepTheQueue
  <2>6. Patient(d, writer[i].took, now)
    BY <2>1, <2>5, SameQueueIsPatient
  <2>7. SameQueue(d, conns'[i]) \/ conns'[i] = d
    BY <2>3, <2>4, SlotsKeepTheQueue
  <2> QED
    BY <2>6, <2>7, SameQueueIsPatient
<1> QED
  BY <1>1, <1>4 DEF AllPatient

(* A client that connects has taken nothing yet. *)
LEMMA ConnectIsPatient ==
    ASSUME StalledInv, NEW after \in Afters, Connect(after)
    PROVE  AllPatient'
<1> DEFINE e == NewConnection(ring.lastSeq, published, Len(Since(ring, after)))
           d == SetState(e, feed.last)
<1>1. /\ conns \in [Ids -> Connections] /\ conns' = [conns EXCEPT ![opened + 1] = d]
      /\ UNCHANGED <<now, writer, hungUp>> /\ now \in Nat
  BY DEF StalledInv, BuffersInv, CloseInv, ObserverInv, TypeOK, Connect
<1>2. d.closeCode = NotClosed /\ d.overflowSince = Never
  BY DEF SetState, NewConnection
<1> HIDE DEF d
<1>3. ASSUME NEW i \in Ids \ hungUp
      PROVE  Patient(conns'[i], writer[i].took, now)
  <2>1. Patient(conns[i], writer[i].took, now)
    BY StalledTypes
  <2>2. CASE i = opened + 1
    <3>1. conns'[i] = d
      BY <1>1, <2>2
    <3> QED
      BY <1>1, <1>2, <2>1, <3>1 DEF Patient, Never, NotClosed, TooSlow
  <2>3. CASE i # opened + 1
    BY <1>1, <2>1, <2>3
  <2> QED
    BY <2>2, <2>3
<1> QED
  BY <1>1, <1>3 DEF AllPatient

(* Time passes: what is over stays so. *)
LEMMA TickIsPatient ==
    ASSUME StalledInv, Tick
    PROVE  AllPatient'
<1>1. UNCHANGED <<conns, writer, hungUp>> /\ now' = now + 1 /\ now \in Nat /\ OverflowDisconnect \in Nat
  BY LimitsAssumption DEF Tick, tasks, StalledInv, BuffersInv, CloseInv, ObserverInv, TypeOK, LimitsAssumption
<1>2. ASSUME NEW i \in Ids \ hungUp
      PROVE  Patient(conns[i], writer[i].took, now + 1)
  <2>1. conns[i].overflowSince \in Int /\ writer[i].took \in Nat
    BY StalledTypes DEF Connections
  <2>2. Patient(conns[i], writer[i].took, now)
    BY StalledTypes
  <2> QED
    BY <1>1, <2>1, <2>2 DEF Patient
<1> QED
  BY <1>1, <1>2 DEF AllPatient

LEMMA StalledStep ==
    ASSUME StalledInv, [Next]_vars
    PROVE  StalledInv'
<1>0. BuffersInv' /\ CloseInv
  BY BuffersStep DEF StalledInv, BuffersInv
<1>1. AllPatient'
  <2>1. CASE PublisherTurn
    <3>1. UNCHANGED <<now, writer, hungUp>>
      BY <2>1 DEF PublisherTurn, tasks
    <3>2. CASE handoff.records = << >>
      BY <2>1, <3>1, <3>2, NobodyIsPatientlyMoved DEF PublisherTurn
    <3>3. CASE handoff.records # << >>
      BY <1>0, <2>1, <3>1, <3>3, HeadIsExchange, PublishIsPatient DEF PublisherTurn
    <3> QED
      BY <3>2, <3>3
  <2>2. ASSUME NEW after \in Afters, Connect(after) PROVE AllPatient'
    BY <2>2, ConnectIsPatient
  <2>3. ASSUME NEW i \in Ids, Disconnect(i) PROVE AllPatient'
    <3>1. PICK code : /\ code \in HandlerCodes \/ (code \in ClientCodes /\ (Closed(conns[i]) \/ i \in hungUp'))
                      /\ CloseAndRetire(i, code, counters)
      BY <2>3 DEF Disconnect
    <3>2. code # NotClosed /\ (code = TooSlow => Closed(conns[i]) \/ i \in hungUp')
      BY <3>1, ObserverAssumption DEF ObserverAssumption, NotClosed, TooSlow
    <3>3. UNCHANGED <<now, writer>> /\ hungUp \subseteq hungUp'
      BY <2>3 DEF Disconnect, tasks
    <3> QED
      BY <3>1, <3>2, <3>3, ClosingIsPatient
  <2>4. ASSUME NEW i \in Ids, WriterStep(i) PROVE AllPatient'
    BY <2>4, WriterStepsArePatient
  <2>5. CASE \/ \E version \in {feed.last, feed.last + 1} : SnapshotTaken(version)
             \/ SnapshotFails
    BY <2>5, PushIsPatient
  <2>6. CASE Tick
    BY <2>6, TickIsPatient
  <2>7. CASE Dispatch \/ RefuseClient \/ Stats \/ UNCHANGED vars
    <3>1. UNCHANGED <<conns, now, writer, hungUp>>
      BY <2>7 DEF Dispatch, RefuseClient, Stats, vars, tasks
    <3> QED
      BY <3>1, NobodyIsPatientlyMoved
  <2> QED
    BY <2>1, <2>2, <2>3, <2>4, <2>5, <2>6, <2>7 DEF Next
<1>2. EventsOfOneSize'
  BY DEF StalledInv, EventsOfOneSize
<1> QED
  BY <1>0, <1>1, <1>2 DEF StalledInv

LEMMA StalledStart ==
    ASSUME Init, EventsOfOneSize
    PROVE  StalledInv
<1>1. BuffersInv
  BY BuffersStart
<1>2. AllPatient
  BY DEF Init, AllPatient, Patient, NewConnection, Never, NotClosed, TooSlow, Closed
<1> QED
  BY <1>1, <1>2 DEF StalledInv

(* While events are of one size, a client is forced out only after a whole     *)
(* overflow time in which its writer took nothing from its queue, whatever the *)
(* limits and however the writer, the publisher and the clock interleave: one  *)
(* that reads, only slowly, is not taken for one that has stopped.  A client   *)
(* that says 1013 itself is not forced out.                                    *)
THEOREM OnlyTheStalledAreForcedOut == EventsOfOneSize => (Spec => []ForcedOutOnlyWhenStalled)
<1>1. StalledInv /\ [Next]_vars => StalledInv'
  BY StalledStep
<1>2. StalledInv => ForcedOutOnlyWhenStalled
  <2> SUFFICES ASSUME StalledInv PROVE ForcedOutOnlyWhenStalled
    OBVIOUS
  <2>1. 1..opened \subseteq Ids
    BY TotalsTypes DEF StalledInv, BuffersInv
  <2> QED
    BY <2>1 DEF StalledInv, AllPatient, Patient, ForcedOutOnlyWhenStalled
<1>3. Init /\ EventsOfOneSize => StalledInv
  BY StalledStart
<1> QED
  BY <1>1, <1>2, <1>3, PTL DEF Spec
=============================================================================
