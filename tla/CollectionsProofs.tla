------------------------- MODULE CollectionsProofs --------------------------
(***************************************************************************)
(* What the operators of Collections return, for every list and set; and   *)
(* induction and recursion over numbers in a form that needs no operator   *)
(* as a parameter.                                                         *)
(***************************************************************************)
EXTENDS Collections, FiniteSetTheorems, TLAPS

-----------------------------------------------------------------------------
(* Positions in a list.                                                    *)

(* The n-th position of a set is in it, and the positions are in order.    *)
LEMMA NthAt ==
    ASSUME NEW S \in SUBSET Nat, IsFiniteSet(S)
    PROVE  /\ Cardinality(S) \in Nat
           /\ \A n \in 1 .. Cardinality(S) : Nth(S, n) \in S
           /\ \A n, m \in 1 .. Cardinality(S) : n < m => Nth(S, n) < Nth(S, m)
           /\ \A i \in S : \E n \in 1 .. Cardinality(S) : Nth(S, n) = i
           /\ \A n \in 1 .. Cardinality(S), j \in S : j < Nth(S, n) => n > 1
<1> DEFINE B(i) == {j \in S : j < i}
           c == Cardinality(S)
           f == [i \in S |-> Cardinality(B(i)) + 1]
<1>1. c \in Nat BY FS_CardinalityType
<1>2. ASSUME NEW i \in S PROVE IsFiniteSet(B(i)) /\ Cardinality(B(i)) \in 0 .. c - 1
  <2>1. B(i) \in SUBSET S /\ i \notin B(i) OBVIOUS
  <2> HIDE DEF B
  <2>2. IsFiniteSet(B(i)) /\ Cardinality(B(i)) <= c /\ Cardinality(B(i)) # c
    BY <2>1, FS_Subset
  <2>3. Cardinality(B(i)) \in Nat BY <2>2, FS_CardinalityType
  <2> QED BY <1>1, <2>2, <2>3
<1>3. ASSUME NEW i \in S, NEW k \in S, i < k
      PROVE  Cardinality(B(i)) < Cardinality(B(k))
  <2>1. B(i) \in SUBSET B(k) /\ i \in B(k) /\ i \notin B(i)
    <3>1. i \in Nat /\ k \in Nat /\ \A j \in S : j \in Nat OBVIOUS
    <3>2. \A j \in S : j < i => j < k BY <1>3, <3>1
    <3>3. ~(i < i) BY <3>1
    <3> QED BY <1>3, <3>2, <3>3
  <2>2. /\ IsFiniteSet(B(k))
        /\ Cardinality(B(i)) \in 0 .. c - 1 /\ Cardinality(B(k)) \in 0 .. c - 1
    BY <1>2
  <2> HIDE DEF B
  <2>3. Cardinality(B(i)) <= Cardinality(B(k)) /\ Cardinality(B(i)) # Cardinality(B(k))
    BY <2>1, <2>2, FS_Subset
  <2> QED BY <1>1, <2>2, <2>3
<1> HIDE DEF B
<1>4. f \in Injection(S, 1 .. c)
  <2>1. f \in [S -> 1 .. c] BY <1>1, <1>2
  <2>2. ASSUME NEW i \in S, NEW k \in S, f[i] = f[k] PROVE i = k
    <3>1. i \in Nat /\ k \in Nat OBVIOUS
    <3>2. Cardinality(B(i)) = Cardinality(B(k)) BY <1>1, <1>2, <2>2
    <3>3. ~(i < k) /\ ~(k < i) BY <1>1, <1>2, <1>3, <3>2
    <3> QED BY <3>1, <3>3
  <2> QED BY <2>1, <2>2 DEF Injection, IsInjective
<1>5. IsFiniteSet(1 .. c) /\ Cardinality(1 .. c) = c
  <2>1. 1 \in Int /\ c \in Int /\ (IF 1 > c THEN 0 ELSE c - 1 + 1) = c BY <1>1
  <2> QED BY <2>1, FS_Interval
<1> HIDE DEF f
<1>6. f \in Surjection(S, 1 .. c) BY <1>4, <1>5, FS_Injection
<1>7. ASSUME NEW n \in 1 .. c PROVE Nth(S, n) \in S /\ Cardinality(B(Nth(S, n))) = n - 1
  <2>1. PICK i \in S : f[i] = n BY <1>6 DEF Surjection
  <2>2. Cardinality(B(i)) = n - 1 BY <1>1, <1>2, <2>1 DEF f
  <2> QED BY <2>2 DEF Nth, B
<1>8. ASSUME NEW n \in 1 .. c, NEW m \in 1 .. c, n < m PROVE Nth(S, n) < Nth(S, m)
  <2>1. Nth(S, n) \in Nat /\ Nth(S, m) \in Nat BY <1>7
  <2>2. Nth(S, n) # Nth(S, m)
    <3>1. Cardinality(B(Nth(S, n))) # Cardinality(B(Nth(S, m))) BY <1>7, <1>8
    <3> QED BY <3>1
  <2>3. ~(Nth(S, m) < Nth(S, n))
    <3>1. Cardinality(B(Nth(S, n))) < Cardinality(B(Nth(S, m))) BY <1>7, <1>8
    <3>2. Nth(S, m) < Nth(S, n) => Cardinality(B(Nth(S, m))) < Cardinality(B(Nth(S, n)))
      BY <1>3, <1>7
    <3>3. Cardinality(B(Nth(S, n))) \in Int /\ Cardinality(B(Nth(S, m))) \in Int
      BY <1>7
    <3> QED BY <3>1, <3>2, <3>3
  <2> QED BY <2>1, <2>2, <2>3
<1>9. ASSUME NEW i \in S PROVE \E n \in 1 .. c : Nth(S, n) = i
  <2>1. f[i] \in 1 .. c /\ f[i] \in Int BY <1>1, <1>4 DEF Injection
  <2>2. Nth(S, f[i]) \in S /\ Cardinality(B(Nth(S, f[i]))) = f[i] - 1 BY <2>1, <1>7
  <2>3. f[Nth(S, f[i])] = f[i]
    <3>1. f[Nth(S, f[i])] = Cardinality(B(Nth(S, f[i]))) + 1 BY <2>2 DEF f
    <3> QED BY <2>1, <2>2, <3>1
  <2>4. Nth(S, f[i]) = i BY <1>4, <2>2, <2>3 DEF Injection, IsInjective
  <2> QED BY <2>1, <2>4
<1>10. ASSUME NEW n \in 1 .. c, NEW j \in S, j < Nth(S, n) PROVE n > 1
  <2>1. PICK m \in 1 .. c : Nth(S, m) = j BY <1>9
  <2>2. Nth(S, n) \in Nat /\ j \in Nat BY <1>7
  <2>3. m # n /\ ~(n < m) BY <1>8, <1>10, <2>1, <2>2
  <2> QED BY <1>1, <2>1, <2>3
<1> QED BY <1>1, <1>7, <1>8, <1>9, <1>10

(* What Picked() leaves, and where it was.                                 *)
LEMMA PickedAt ==
    ASSUME NEW E, NEW s \in Seq(E), NEW S \in SUBSET DOMAIN s
    PROVE  /\ Picked(s, S) \in Seq(E) /\ Len(Picked(s, S)) <= Len(s)
           /\ \A n \in DOMAIN Picked(s, S) : Nth(S, n) \in S /\ Picked(s, S)[n] = s[Nth(S, n)]
           /\ \A n, k \in DOMAIN Picked(s, S) : n < k => Nth(S, n) < Nth(S, k)
           /\ \A i \in S : \E n \in DOMAIN Picked(s, S) : Nth(S, n) = i
           /\ S # DOMAIN s => Len(Picked(s, S)) < Len(s)
<1> DEFINE c == Cardinality(S)
<1>1. DOMAIN s = 1 .. Len(s) /\ Len(s) \in Nat
  OBVIOUS
<1>2. /\ S \in SUBSET Nat /\ IsFiniteSet(S) /\ c <= Len(s)
      /\ S # DOMAIN s => c # Len(s)
  <2>1. /\ 1 \in Int /\ Len(s) \in Int
        /\ (IF 1 > Len(s) THEN 0 ELSE Len(s) - 1 + 1) = Len(s)
    BY <1>1
  <2>2. IsFiniteSet(1 .. Len(s)) /\ Cardinality(1 .. Len(s)) = Len(s)
    BY <2>1, FS_Interval
  <2>3. S \in SUBSET (1 .. Len(s)) /\ S \in SUBSET Nat BY <1>1
  <2> QED BY <1>1, <2>2, <2>3, FS_Subset
<1>3. /\ c \in Nat /\ \A n \in 1 .. c : Nth(S, n) \in S
      /\ \A n, k \in 1 .. c : n < k => Nth(S, n) < Nth(S, k)
      /\ \A i \in S : \E n \in 1 .. c : Nth(S, n) = i
  BY <1>2, NthAt
<1> HIDE DEF c
<1>4. Picked(s, S) = [n \in 1 .. c |-> s[Nth(S, n)]] BY DEF Picked, c
<1>5. \A n \in 1 .. c : Nth(S, n) \in DOMAIN s /\ s[Nth(S, n)] \in E BY <1>3
<1>6. /\ Picked(s, S) \in Seq(E) /\ Len(Picked(s, S)) = c
      /\ DOMAIN Picked(s, S) = 1 .. c
  BY <1>3, <1>4, <1>5
<1>7. c # Len(s) => c < Len(s)
  <2>1. c \in Nat /\ c <= Len(s) /\ Len(s) \in Nat BY <1>1, <1>2, <1>3
  <2> QED BY <2>1
<1>8. \A n \in DOMAIN Picked(s, S) : Picked(s, S)[n] = s[Nth(S, n)] BY <1>4, <1>6
<1>9. Len(Picked(s, S)) <= Len(s) /\ (S # DOMAIN s => Len(Picked(s, S)) < Len(s))
  BY <1>2, <1>6, <1>7
<1> QED BY <1>3, <1>6, <1>8, <1>9

(* Nothing is taken out of a list that has none of it.                     *)
LEMMA PickedAll ==
    ASSUME NEW E, NEW s \in Seq(E)
    PROVE  Picked(s, DOMAIN s) = s
<1> DEFINE D == DOMAIN s
<1>1. DOMAIN s = 1 .. Len(s) /\ Len(s) \in Nat
  OBVIOUS
<1>2. \A k \in Nat : Cardinality(1 .. k) = k
  <2> SUFFICES ASSUME NEW k \in Nat PROVE Cardinality(1 .. k) = k
    OBVIOUS
  <2>1. 1 \in Int /\ k \in Int /\ (IF 1 > k THEN 0 ELSE k - 1 + 1) = k OBVIOUS
  <2> QED BY <2>1, FS_Interval
<1>3. ASSUME NEW i \in D PROVE Cardinality({j \in D : j < i}) = i - 1
  <2>1. {j \in D : j < i} = 1 .. (i - 1) BY <1>1
  <2>2. i - 1 \in Nat BY <1>1
  <2> QED BY <1>2, <2>1, <2>2
<1>4. ASSUME NEW n \in D PROVE Nth(D, n) = n
  <2>1. \A i \in D : Cardinality({j \in D : j < i}) = n - 1 <=> i = n
    <3>1. \A i \in D : i \in Nat BY <1>1
    <3> HIDE DEF D
    <3> QED BY <1>3, <3>1
  <2>2. Nth(D, n) = CHOOSE i \in D : Cardinality({j \in D : j < i}) = n - 1
    BY DEF Nth
  <2> HIDE DEF D
  <2> QED BY <2>1, <2>2
<1>5. Cardinality(D) = Len(s) BY <1>1, <1>2
<1>6. Picked(s, D) = [n \in D |-> s[n]]
  <2>1. Picked(s, D) = [n \in 1 .. Cardinality(D) |-> s[Nth(D, n)]] BY DEF Picked
  <2>2. 1 .. Cardinality(D) = D BY <1>1, <1>5
  <2> HIDE DEF D
  <2> QED BY <1>4, <2>1, <2>2
<1>7. s = [n \in DOMAIN s |-> s[n]]
  OBVIOUS
<1> QED BY <1>6, <1>7

(* A set of numbers in order has each of them once.                        *)
LEMMA AscendingAt ==
    ASSUME NEW S \in SUBSET Nat, IsFiniteSet(S)
    PROVE  /\ Ascending(S) \in Seq(S) /\ Len(Ascending(S)) = Cardinality(S)
           /\ \A n, k \in DOMAIN Ascending(S) : n < k => Ascending(S)[n] < Ascending(S)[k]
           /\ \A i \in S : \E n \in DOMAIN Ascending(S) : Ascending(S)[n] = i
<1> DEFINE c == Cardinality(S)
<1>1. /\ c \in Nat
      /\ \A n \in 1 .. c : Nth(S, n) \in S
      /\ \A n, k \in 1 .. c : n < k => Nth(S, n) < Nth(S, k)
      /\ \A i \in S : \E n \in 1 .. c : Nth(S, n) = i
  BY NthAt
<1>2. Ascending(S) = [n \in 1 .. c |-> Nth(S, n)] BY DEF Ascending
<1> HIDE DEF c
<1>3. Ascending(S) \in Seq(S) /\ Len(Ascending(S)) = c BY <1>1, <1>2
<1> QED BY <1>1, <1>2, <1>3 DEF c

(* And in descending order.                                                *)
LEMMA DescendingAt ==
    ASSUME NEW S \in SUBSET Nat, IsFiniteSet(S)
    PROVE  Descending(S) \in Seq(S) /\ {Descending(S)[n] : n \in DOMAIN Descending(S)} = S
<1> DEFINE c == Cardinality(S)
           d == [n \in 1 .. c |-> Nth(S, c + 1 - n)]
<1>1. /\ c \in Nat /\ \A n \in 1 .. c : Nth(S, n) \in S
      /\ \A i \in S : \E n \in 1 .. c : Nth(S, n) = i
  BY NthAt
<1>2. \A n \in 1 .. c : c + 1 - n \in 1 .. c /\ c + 1 - (c + 1 - n) = n BY <1>1
<1>3. Descending(S) = d BY DEF Descending
<1> HIDE DEF c
<1>4. \A n \in 1 .. c : d[n] \in S BY <1>1, <1>2
<1>5. d \in Seq(S) /\ DOMAIN d = 1 .. c BY <1>1, <1>4
<1>6. \A i \in S : \E n \in 1 .. c : d[n] = i
  <2> SUFFICES ASSUME NEW i \in S PROVE \E n \in 1 .. c : d[n] = i
    OBVIOUS
  <2>1. PICK n \in 1 .. c : Nth(S, n) = i BY <1>1
  <2>2. c + 1 - n \in 1 .. c /\ d[c + 1 - n] = i BY <1>2, <2>1
  <2> QED BY <2>2
<1> HIDE DEF d
<1> QED BY <1>3, <1>4, <1>5, <1>6

(* Where the elements of two lists that are joined come from.              *)
LEMMA JoinedAt ==
    ASSUME NEW E, NEW s \in Seq(E), NEW t \in Seq(E)
    PROVE  /\ s \o t \in Seq(E) /\ Len(s \o t) = Len(s) + Len(t) /\ DOMAIN (s \o t) = 1 .. Len(s \o t)
           /\ \A i \in 1 .. Len(s \o t) : (s \o t)[i] = IF i <= Len(s) THEN s[i] ELSE t[i - Len(s)]
OBVIOUS

-----------------------------------------------------------------------------
(* Induction.                                                              *)

(* A set of numbers that is not empty has a least one.                     *)
LEMMA LeastNat ==
    ASSUME NEW T \in SUBSET Nat, T # {}
    PROVE  \E m \in T : \A k \in T : m <= k
<1>1. PICK n \in T : TRUE OBVIOUS
<1> DEFINE S == {k \in T : k <= n}
<1>2. n \in Nat /\ S \in SUBSET Nat /\ S \in SUBSET (0 .. n) /\ n \in S
  <2>1. n \in Nat /\ \A k \in T : k \in Nat BY <1>1
  <2>2. \A k \in S : k \in Nat /\ k <= n BY <2>1
  <2>3. n \in S BY <1>1, <2>1
  <2> HIDE DEF S
  <2> QED BY <2>1, <2>2, <2>3
<1>3. IsFiniteSet(S) /\ Cardinality(S) \in Nat /\ Cardinality(S) # 0
  <2> HIDE DEF S
  <2>1. IsFiniteSet(0 .. n) BY <1>2, FS_Interval
  <2>2. IsFiniteSet(S) BY <1>2, <2>1, FS_Subset
  <2> QED BY <1>2, <2>2, FS_CardinalityType, FS_EmptySet
<1>4. /\ Nth(S, 1) \in S /\ 1 \in 1 .. Cardinality(S)
      /\ \A j \in S : j < Nth(S, 1) => 1 > 1
  <2> HIDE DEF S
  <2>1. 1 \in 1 .. Cardinality(S) BY <1>3
  <2> QED BY <1>2, <1>3, <2>1, NthAt
<1> DEFINE m == Nth(S, 1)
<1>5. m \in T /\ m \in Nat /\ m <= n /\ \A j \in S : ~(j < m)
  <2> HIDE DEF m
  <2>1. m \in S /\ \A j \in S : ~(j < m) BY <1>4 DEF m
  <2> QED BY <2>1
<1> HIDE DEF m
<1>6. ASSUME NEW k \in T PROVE m <= k
  <2>1. k \in Nat OBVIOUS
  <2>2. CASE k <= n BY <1>5, <2>1, <2>2
  <2>3. CASE n < k BY <1>2, <1>5, <2>1, <2>3
  <2> QED BY <1>2, <2>1, <2>2, <2>3
<1> QED BY <1>5, <1>6

(* What holds of zero and passes from each number to the next holds of all. *)
LEMMA NatUp ==
    ASSUME NEW P, 0 \in P, \A n \in Nat : n \in P => n + 1 \in P
    PROVE  \A n \in Nat : n \in P
<1> DEFINE T == {n \in Nat : n \notin P}
<1> SUFFICES ASSUME T # {} PROVE FALSE OBVIOUS
<1>1. PICK m \in T : \A k \in T : m <= k BY LeastNat
<1>2. m \in Nat /\ m # 0 BY <1>1
<1>3. m - 1 \in Nat /\ ~(m <= m - 1) /\ m - 1 + 1 = m BY <1>2
<1>4. m - 1 \in P BY <1>1, <1>3
<1> QED BY <1>1, <1>3, <1>4

(* What holds of nothing, and of a set when it holds of it without any one *)
(* of its elements, holds of every finite set.                             *)
LEMMA SetUp ==
    ASSUME NEW S, IsFiniteSet(S), NEW P, {} \in P,
           \A T \in SUBSET S : T # {} /\ (\A x \in T : T \ {x} \in P) => T \in P
    PROVE  \A T \in SUBSET S : T \in P
<1> DEFINE Q == {n \in Nat : \A T \in SUBSET S : Cardinality(T) = n => T \in P}
<1>1. \A T \in SUBSET S : IsFiniteSet(T) /\ Cardinality(T) \in Nat
  BY FS_Subset, FS_CardinalityType
<1>2. 0 \in Q
  <2>1. \A T \in SUBSET S : Cardinality(T) = 0 => T = {} BY <1>1, FS_EmptySet
  <2> QED BY <2>1
<1>3. ASSUME NEW n \in Nat, n \in Q PROVE n + 1 \in Q
  <2> SUFFICES ASSUME NEW T \in SUBSET S, Cardinality(T) = n + 1 PROVE T \in P
    OBVIOUS
  <2>1. T # {}
    <3>1. n + 1 # 0 OBVIOUS
    <3> QED BY <3>1, FS_EmptySet
  <2>2. ASSUME NEW x \in T PROVE T \ {x} \in P
    <3>1. Cardinality(T \ {x}) = n + 1 - 1 BY <1>1, FS_RemoveElement
    <3>2. T \ {x} \in SUBSET S /\ Cardinality(T \ {x}) = n BY <3>1
    <3> QED BY <1>3, <3>2
  <2> QED BY <2>1, <2>2
<1>4. \A n \in Nat : n \in Q
  <2> HIDE DEF Q
  <2> QED BY <1>2, <1>3, NatUp
<1> QED BY <1>1, <1>4

(* A finite set of numbers that is not empty has a largest.                *)
LEMMA LargestNat ==
    ASSUME NEW S \in SUBSET Nat, IsFiniteSet(S), S # {}
    PROVE  \E m \in S : \A k \in S : m >= k
<1> DEFINE P == {T \in SUBSET S : T = {} \/ \E m \in T : \A k \in T : m >= k}
<1>1. {} \in P OBVIOUS
<1>2. ASSUME NEW T \in SUBSET S, T # {}, \A x \in T : T \ {x} \in P PROVE T \in P
  <2>1. PICK x \in T : TRUE BY <1>2
  <2>2. x \in Nat /\ \A k \in T : k \in Nat OBVIOUS
  <2>3. T \ {x} \in P BY <1>2
  <2>4. CASE T \ {x} = {}
    <3>1. \A k \in T : k = x BY <2>4
    <3>2. \A k \in T : x >= k BY <2>2, <3>1
    <3> QED BY <2>1, <3>2
  <2>5. CASE T \ {x} # {}
    <3>1. PICK m \in T \ {x} : \A k \in T \ {x} : m >= k BY <2>3, <2>5
    <3> DEFINE n == IF m >= x THEN m ELSE x
    <3>2. n \in T /\ n >= x /\ n >= m /\ n \in Nat /\ m \in Nat BY <2>2
    <3>3. \A k \in T : n >= k
      <4> HIDE DEF n
      <4>1. ASSUME NEW k \in T PROVE n >= k
        <5>1. k = x \/ m >= k BY <3>1
        <5> QED BY <2>2, <3>2, <5>1
      <4> QED BY <4>1
    <3> QED BY <3>2, <3>3
  <2> QED BY <2>4, <2>5
<1>3. \A T \in SUBSET S : T \in P
  <2> HIDE DEF P
  <2> QED BY <1>1, <1>2, SetUp
<1>4. S \in P BY <1>3
<1> QED BY <1>4

(* The image of a finite set is finite.                                    *)
LEMMA FiniteImage ==
    ASSUME NEW S, IsFiniteSet(S), NEW f
    PROVE  IsFiniteSet({f[x] : x \in S})
<1> DEFINE g == [x \in S |-> f[x]]
           T == {f[x] : x \in S}
<1>1. g \in Surjection(S, T) BY DEF Surjection
<1> HIDE DEF g, T
<1>2. IsFiniteSet(T) BY <1>1, FS_Surjection
<1> QED BY <1>2 DEF T

\* A recursion over D, from base for the elements of Base, else by step from the
\* value for the next element, that goes down; and the function it defines.
Recursive(D, V, Base, base, next, step) ==
    /\ Base \in SUBSET D /\ base \in [Base -> V]
    /\ next \in [D \ Base -> D] /\ step \in [D \X V -> V]
    /\ \E N \in Nat : \E rank \in [D -> 0 .. N] : \A d \in D \ Base : rank[next[d]] < rank[d]
Solution(g, D, V, Base, base, next, step) ==
    /\ g \in [D -> V]
    /\ \A d \in D : g[d] = IF d \in Base THEN base[d] ELSE step[<<d, g[next[d]]>>]
    /\ \A f : (/\ f = [d \in D |-> f[d]]
               /\ \A d \in Base : f[d] = base[d]
               /\ \A d \in D \ Base : f[next[d]] \in V => f[d] = step[<<d, f[next[d]]>>])
             => f = g

(* Such a recursion has one solution, a function of the right kind; so it  *)
(* is what TLA+ means by f[d \in D] == IF d \in Base THEN base[d]          *)
(* ELSE step[<<d, f[next[d]]>>], which chooses a solution.                 *)
LEMMA Recursion ==
    ASSUME NEW D, NEW V, NEW Base, NEW base, NEW next, NEW step,
           Recursive(D, V, Base, base, next, step)
    PROVE  \E g : Solution(g, D, V, Base, base, next, step)
<1>10. /\ Base \in SUBSET D /\ base \in [Base -> V]
       /\ next \in [D \ Base -> D] /\ step \in [D \X V -> V]
  BY DEF Recursive
<1>11. PICK N \in Nat : \E rank \in [D -> 0 .. N] : \A d \in D \ Base : rank[next[d]] < rank[d]
  BY DEF Recursive
<1>12. PICK rank \in [D -> 0 .. N] : \A d \in D \ Base : rank[next[d]] < rank[d]
  BY <1>11
<1> DEFINE Below(n) == {d \in D : rank[d] < n}
           Solves(h, n) == \A d \in Below(n) :
                             h[d] = IF d \in Base THEN base[d] ELSE step[<<d, h[next[d]]>>]
           P == {n \in Nat : \E h \in [Below(n) -> V] : Solves(h, n)}
<1>1. \A d \in D : rank[d] \in Nat /\ rank[d] <= N OBVIOUS
<1>2. 0 \in P
  <2>1. Below(0) = {} BY <1>1
  <2>2. [d \in {} |-> 0] \in [Below(0) -> V] /\ Solves([d \in {} |-> 0], 0) BY <2>1
  <2> QED BY <2>2
<1>3. ASSUME NEW n \in Nat, n \in P PROVE n + 1 \in P
  <2>1. PICK h \in [Below(n) -> V] : Solves(h, n) BY <1>3
  <2> DEFINE k == [d \in Below(n + 1) |->
                     IF d \in Base THEN base[d] ELSE step[<<d, h[next[d]]>>]]
  <2>2. ASSUME NEW d \in Below(n + 1), d \notin Base PROVE next[d] \in Below(n)
    <3>1. d \in D /\ next[d] \in D /\ rank[next[d]] < rank[d] /\ rank[d] < n + 1 BY <1>10, <1>12, <2>2
    <3> QED BY <1>1, <3>1
  <2>3. \A d \in Below(n) : d \in Below(n + 1) BY <1>1
  <2>4. \A d \in Below(n) : k[d] = h[d] BY <2>1, <2>3
  <2>5. k \in [Below(n + 1) -> V]
    <3>1. ASSUME NEW d \in Below(n + 1), d \notin Base
          PROVE  step[<<d, h[next[d]]>>] \in V
      <4>1. d \in D /\ h[next[d]] \in V BY <2>2, <3>1
      <4> QED BY <1>10, <4>1
    <3> QED BY <1>10, <3>1
  <2>6. Solves(k, n + 1)
    <3>1. ASSUME NEW d \in Below(n + 1), d \notin Base PROVE k[next[d]] = h[next[d]]
      BY <2>2, <2>4, <3>1
    <3> QED BY <3>1
  <2> HIDE DEF k, Solves, Below
  <2> QED BY <2>5, <2>6
<1>4. N + 1 \in P
  <2> HIDE DEF P
  <2> QED BY <1>2, <1>3, NatUp
<1>5. Below(N + 1) = D BY <1>1
<1>6. PICK g \in [D -> V] : Solves(g, N + 1)
  <2> HIDE DEF Below, Solves
  <2> QED BY <1>4, <1>5
<1>7. \A d \in D : g[d] = IF d \in Base THEN base[d] ELSE step[<<d, g[next[d]]>>]
  BY <1>5, <1>6
<1>8. ASSUME NEW f,
             /\ f = [d \in D |-> f[d]]
             /\ \A d \in Base : f[d] = base[d]
             /\ \A d \in D \ Base : f[next[d]] \in V => f[d] = step[<<d, f[next[d]]>>]
      PROVE  f = g
  <2> DEFINE T == {rank[d] : d \in {e \in D : f[e] # g[e]}}
  <2>1. /\ \A d \in Base : f[d] = base[d]
        /\ \A d \in D \ Base : f[next[d]] \in V => f[d] = step[<<d, f[next[d]]>>]
    BY <1>8, Zenon
  <2>3. ASSUME T # {} PROVE FALSE
    <3>1. T \in SUBSET Nat BY <1>1
    <3>2. PICK m \in T : \A k \in T : m <= k
      <4> HIDE DEF T
      <4> QED BY <2>3, <3>1, LeastNat
    <3>3. PICK d \in D : f[d] # g[d] /\ rank[d] = m BY <3>2
    <3>4. CASE d \in Base BY <1>7, <2>1, <3>3, <3>4
    <3>5. CASE d \notin Base
      <4>1. next[d] \in D /\ rank[next[d]] < rank[d] BY <1>10, <1>12, <3>5
      <4>2. rank[next[d]] \notin T
        <5> HIDE DEF T
        <5>1. rank[next[d]] \in Nat /\ rank[d] \in Nat BY <1>1, <4>1
        <5>2. ~(m <= rank[next[d]]) BY <3>3, <4>1, <5>1
        <5> QED BY <3>2, <5>2
      <4>3. f[next[d]] = g[next[d]] /\ g[next[d]] \in V BY <4>1, <4>2
      <4> QED BY <1>7, <2>1, <3>3, <3>5, <4>3
    <3> QED BY <3>4, <3>5
  <2>4. \A d \in D : f[d] = g[d] BY <2>3
  <2>5. f = [d \in D |-> f[d]] BY <1>8, Zenon
  <2> QED BY <2>4, <2>5
<1>9. Solution(g, D, V, Base, base, next, step)
  <2>1. g \in [D -> V] OBVIOUS
  <2>2. \A f : (/\ f = [d \in D |-> f[d]]
                /\ \A d \in Base : f[d] = base[d]
                /\ \A d \in D \ Base : f[next[d]] \in V => f[d] = step[<<d, f[next[d]]>>])
               => f = g
    BY <1>8
  <2> QED BY <1>7, <2>1, <2>2 DEF Solution
<1> QED BY <1>9

-----------------------------------------------------------------------------
(* Sums of finite sets of numbers.                                         *)

\* g says the sum of each part of S.
Sums(g, w, S) ==
    /\ g \in [SUBSET S -> Nat]
    /\ \A T \in SUBSET S : g[T] = IF T = {} THEN 0
                                  ELSE w[CHOOSE y \in T : TRUE] + g[T \ {CHOOSE y \in T : TRUE}]

(* One function says the sums of the parts of a finite set of numbers.     *)
LEMMA OneSum ==
    ASSUME NEW S, IsFiniteSet(S), NEW w, \A x \in S : w[x] \in Nat
    PROVE  \E g : Sums(g, w, S) /\ Total(w, S) = g[S] /\ \A f : Sums(f, w, S) => f = g
<1> DEFINE D == SUBSET S
           one(T) == CHOOSE y \in T : TRUE
           base == [T \in {{}} |-> 0]
           next == [T \in D \ {{}} |-> T \ {one(T)}]
           step == [x \in D \X Nat |-> IF x[1] = {} THEN 0 ELSE w[one(x[1])] + x[2]]
           rank == [T \in D |-> Cardinality(T)]
           N == Cardinality(S)
           F(sum) == [T \in SUBSET S |->
                        IF T = {} THEN 0 ELSE w[one(T)] + sum[T \ {one(T)}]]
           U == CHOOSE sum : sum = F(sum)
<1>1. \A T \in D : T # {} => one(T) \in T /\ one(T) \in S /\ w[one(T)] \in Nat /\ T \ {one(T)} \in D
  <2> SUFFICES ASSUME NEW T \in D, T # {} PROVE one(T) \in T /\ one(T) \in S
    OBVIOUS
  <2>1. \E y : y \in T OBVIOUS
  <2> QED BY <2>1
<1>2. /\ N \in Nat
      /\ \A T \in D : IsFiniteSet(T) /\ Cardinality(T) \in 0 .. N
      /\ \A T \in D : \A y \in T : Cardinality(T \ {y}) < Cardinality(T)
  <2>1. N \in Nat BY FS_CardinalityType
  <2>2. ASSUME NEW T \in D PROVE IsFiniteSet(T) /\ Cardinality(T) \in Nat /\ Cardinality(T) <= N
    BY FS_Subset, FS_CardinalityType
  <2>3. ASSUME NEW T \in D, NEW y \in T PROVE Cardinality(T \ {y}) < Cardinality(T)
    <3>1. IsFiniteSet(T) /\ Cardinality(T) \in Nat BY <2>2
    <3>2. Cardinality(T \ {y}) = Cardinality(T) - 1 BY <3>1, FS_RemoveElement
    <3> QED BY <3>1, <3>2
  <2> HIDE DEF N, D
  <2> QED BY <2>1, <2>2, <2>3
<1> HIDE DEF one, N
<1>3. /\ {{}} \in SUBSET D /\ base \in [{{}} -> Nat] /\ base[{}] = 0 /\ {} \in D
      /\ next \in [D \ {{}} -> D] /\ \A T \in D : T # {} => next[T] = T \ {one(T)}
  BY <1>1
<1>4. rank \in [D -> 0 .. N] /\ \A T \in D \ {{}} : rank[next[T]] < rank[T]
  <2>1. \A T \in D : T # {} => Cardinality(T \ {one(T)}) < Cardinality(T) BY <1>1, <1>2
  <2> QED BY <1>1, <1>2, <2>1
<1>5. step \in [D \X Nat -> Nat] /\ \A T \in D, n \in Nat : T # {} => step[<<T, n>>] = w[one(T)] + n
  <2>1. ASSUME NEW x \in D \X Nat PROVE (IF x[1] = {} THEN 0 ELSE w[one(x[1])] + x[2]) \in Nat
    <3>1. x[1] \in D /\ x[2] \in Nat OBVIOUS
    <3>2. x[1] # {} => w[one(x[1])] + x[2] \in Nat BY <1>1, <3>1
    <3> QED BY <3>2
  <2> HIDE DEF D
  <2> QED BY <2>1
<1> HIDE DEF D, base, next, step, rank
<1>6. Recursive(D, Nat, {{}}, base, next, step) BY <1>2, <1>3, <1>4, <1>5 DEF Recursive
<1>7. PICK g : Solution(g, D, Nat, {{}}, base, next, step) BY <1>6, Recursion
<1>8. /\ g \in [D -> Nat]
      /\ \A d \in D : g[d] = IF d \in {{}} THEN base[d] ELSE step[<<d, g[next[d]]>>]
      /\ \A f : (/\ f = [d \in D |-> f[d]]
                 /\ \A d \in {{}} : f[d] = base[d]
                 /\ \A d \in D \ {{}} : f[next[d]] \in Nat => f[d] = step[<<d, f[next[d]]>>])
                => f = g
  BY <1>7 DEF Solution
<1>9. \A T \in D : g[T] = IF T = {} THEN 0 ELSE w[one(T)] + g[T \ {one(T)}]
  <2>1. ASSUME NEW T \in D, T # {} PROVE g[T] = w[one(T)] + g[T \ {one(T)}]
    <3>1. next[T] = T \ {one(T)} /\ next[T] \in D BY <1>3, <2>1
    <3>2. g[T] = step[<<T, g[next[T]]>>] /\ g[next[T]] \in Nat BY <1>8, <2>1, <3>1
    <3> QED BY <1>5, <2>1, <3>1, <3>2
  <2> QED BY <1>3, <1>8, <2>1
<1>10. ASSUME NEW f, f = [T \in D |-> f[T]],
              \A T \in D : f[T] = IF T = {} THEN 0 ELSE w[one(T)] + f[T \ {one(T)}]
       PROVE  f = g
  <2>1. \A d \in {{}} : f[d] = base[d] BY <1>3, <1>10
  <2>2. ASSUME NEW T \in D \ {{}}, f[next[T]] \in Nat PROVE f[T] = step[<<T, f[next[T]]>>]
    <3>1. next[T] = T \ {one(T)} /\ T # {} BY <1>3
    <3>2. f[T] = w[one(T)] + f[next[T]] BY <1>10, <3>1
    <3> QED BY <1>5, <2>2, <3>1, <3>2
  <2> QED BY <1>8, <1>10, <2>1, <2>2
<1>11. U = g
  <2>1. g = F(g)
    <3>1. g = [T \in SUBSET S |-> g[T]] BY <1>8 DEF D
    <3>2. \A T \in SUBSET S : g[T] = IF T = {} THEN 0 ELSE w[one(T)] + g[T \ {one(T)}]
      BY <1>9 DEF D
    <3> QED BY <3>1, <3>2, Zenon
  <2>2. ASSUME NEW f, f = F(f) PROVE f = g
    <3>1. \A T \in SUBSET S : f[T] = IF T = {} THEN 0 ELSE w[one(T)] + f[T \ {one(T)}]
      BY <2>2, Zenon
    <3>2. f = [T \in SUBSET S |-> f[T]] BY <2>2, <3>1, Zenon
    <3> QED BY <1>10, <3>1, <3>2 DEF D
  <2> HIDE DEF F
  <2> QED BY <2>1, <2>2
<1>12. Total(w, S) = g[S]
  <2>1. Total(w, S) = U[S] BY Zenon DEF Total, one
  <2> QED BY <1>11, <2>1
<1>13. Sums(g, w, S) BY <1>8, <1>9 DEF Sums, D, one
<1>14. ASSUME NEW f, Sums(f, w, S) PROVE f = g
  <2>1. f = [T \in D |-> f[T]] BY <1>14 DEF Sums, D
  <2>2. \A T \in D : f[T] = IF T = {} THEN 0 ELSE w[one(T)] + f[T \ {one(T)}]
    BY <1>14 DEF Sums, D, one
  <2> QED BY <1>10, <2>1, <2>2
<1> QED BY <1>12, <1>13, <1>14

(* That function says the sums of all parts.                               *)
LEMMA TotalSteps ==
    ASSUME NEW S, IsFiniteSet(S), NEW w, \A x \in S : w[x] \in Nat
    PROVE  /\ \A T \in SUBSET S : Total(w, T) \in Nat
           /\ Total(w, {}) = 0
           /\ \A T \in SUBSET S : T # {} => \E y \in T : Total(w, T) = w[y] + Total(w, T \ {y})
<1>1. PICK g : Sums(g, w, S) BY OneSum
<1>2. ASSUME NEW T \in SUBSET S PROVE Total(w, T) = g[T]
  <2>1. IsFiniteSet(T) /\ \A x \in T : w[x] \in Nat BY FS_Subset
  <2>2. PICK h : /\ Sums(h, w, T) /\ Total(w, T) = h[T]
                 /\ \A f : Sums(f, w, T) => f = h
    BY <2>1, OneSum
  <2> DEFINE k == [X \in SUBSET T |-> g[X]]
  <2>3. Sums(k, w, T)
    <3>1. \A X \in SUBSET T : X \in SUBSET S OBVIOUS
    <3>2. k \in [SUBSET T -> Nat] BY <1>1, <3>1 DEF Sums
    <3>3. ASSUME NEW X \in SUBSET T, NEW y
          PROVE  k[X] = g[X] /\ k[X \ {y}] = g[X \ {y}] /\ X \in SUBSET S
      BY <3>1
    <3>4. \A X \in SUBSET T :
            k[X] = IF X = {} THEN 0
                   ELSE w[CHOOSE y \in X : TRUE] + k[X \ {CHOOSE y \in X : TRUE}]
      <4> HIDE DEF k
      <4> QED BY <1>1, <3>3, Zenon DEF Sums
    <3> HIDE DEF k
    <3> QED BY <3>2, <3>4 DEF Sums
  <2>4. k[T] = g[T] OBVIOUS
  <2> HIDE DEF k
  <2> QED BY <2>2, <2>3, <2>4
<1>3. /\ \A T \in SUBSET S : g[T] \in Nat
      /\ g[{}] = 0
      /\ \A T \in SUBSET S : T # {} =>
           g[T] = w[CHOOSE y \in T : TRUE] + g[T \ {CHOOSE y \in T : TRUE}]
  BY <1>1 DEF Sums
<1>4. ASSUME NEW T \in SUBSET S, T # {}
      PROVE  \E y \in T : Total(w, T) = w[y] + Total(w, T \ {y})
  <2> DEFINE y == CHOOSE x \in T : TRUE
  <2>1. y \in T
    <3>1. \E x : x \in T BY <1>4
    <3> QED BY <3>1
  <2>2. g[T] = w[y] + g[T \ {y}] BY <1>3, <1>4
  <2> HIDE DEF y
  <2>3. T \ {y} \in SUBSET S OBVIOUS
  <2> QED BY <1>2, <2>1, <2>2, <2>3
<1> QED BY <1>2, <1>3, <1>4

\* Any one of the numbers can be added last.
Additive(w, S) == \A T \in SUBSET S : \A x \in T : Total(w, T) = w[x] + Total(w, T \ {x})

(* So it is of a finite set of numbers.                                    *)
LEMMA TotalAdd ==
    ASSUME NEW S, IsFiniteSet(S), NEW w, \A x \in S : w[x] \in Nat
    PROVE  Additive(w, S)
<1> DEFINE P == {T \in SUBSET S : \A x \in T : Total(w, T) = w[x] + Total(w, T \ {x})}
<1>1. {} \in P OBVIOUS
<1>2. ASSUME NEW T \in SUBSET S, T # {}, \A x \in T : T \ {x} \in P PROVE T \in P
  <2>1. PICK y \in T : Total(w, T) = w[y] + Total(w, T \ {y}) BY <1>2, TotalSteps
  <2>2. ASSUME NEW x \in T PROVE Total(w, T) = w[x] + Total(w, T \ {x})
    <3>1. CASE x = y BY <2>1, <3>1
    <3>2. CASE x # y
      <4> DEFINE A == T \ {y}
                 B == T \ {x}
                 C == A \ {x}
      <4>1. B \ {y} = C /\ x \in A /\ y \in B BY <3>2
      <4>2. A \in P /\ B \in P BY <1>2
      <4>3. Total(w, A) = w[x] + Total(w, C) BY <4>1, <4>2
      <4>4. Total(w, B) = w[y] + Total(w, C) BY <4>1, <4>2
      <4>5. /\ w[x] \in Nat /\ w[y] \in Nat
            /\ Total(w, C) \in Nat
        BY TotalSteps
      <4> HIDE DEF C
      <4> QED BY <2>1, <4>3, <4>4, <4>5
    <3> QED BY <3>1, <3>2
  <2> QED BY <2>2
<1>3. \A T \in SUBSET S : T \in P
  <2> HIDE DEF P
  <2> QED BY <1>1, <1>2, SetUp
<1> QED BY <1>3 DEF Additive

(* More and larger numbers have a larger sum.                              *)
LEMMA TotalGrows ==
    ASSUME NEW S, IsFiniteSet(S), NEW w, NEW v,
           \A x \in S : v[x] \in Nat /\ w[x] \in Nat /\ w[x] <= v[x],
           NEW R \in SUBSET S
    PROVE  Total(w, R) <= Total(v, S)
<1> DEFINE P == {T \in SUBSET S : \A X \in SUBSET T : Total(w, X) <= Total(v, T)}
<1>1. /\ \A T \in SUBSET S : Total(w, T) \in Nat /\ Total(v, T) \in Nat
      /\ Total(w, {}) = 0 /\ Total(v, {}) = 0
  BY TotalSteps
<1>2. /\ \A T \in SUBSET S : \A x \in T : Total(w, T) = w[x] + Total(w, T \ {x})
      /\ \A T \in SUBSET S : \A x \in T : Total(v, T) = v[x] + Total(v, T \ {x})
  <2>1. \A x \in S : w[x] \in Nat OBVIOUS
  <2>2. \A x \in S : v[x] \in Nat OBVIOUS
  <2>3. Additive(w, S) /\ Additive(v, S) BY <2>1, <2>2, TotalAdd
  <2> QED BY <2>3 DEF Additive
<1>3. {} \in P
  <2>1. \A X \in SUBSET {} : X = {} OBVIOUS
  <2> QED BY <1>1, <2>1
<1>4. ASSUME NEW T \in SUBSET S, T # {}, \A x \in T : T \ {x} \in P PROVE T \in P
  <2> SUFFICES ASSUME NEW X \in SUBSET T PROVE Total(w, X) <= Total(v, T)
    OBVIOUS
  <2>1. PICK x \in T : TRUE BY <1>4
  <2> DEFINE A == T \ {x}
             B == X \ {x}
  <2>2. A \in P /\ B \in SUBSET A /\ A \in SUBSET S /\ B \in SUBSET S BY <1>4
  <2>3. Total(w, B) <= Total(v, A) BY <2>2
  <2>4. Total(v, T) = v[x] + Total(v, A) BY <1>2
  <2>5. x \in X => Total(w, X) = w[x] + Total(w, B) BY <1>2
  <2>6. x \notin X => X = B OBVIOUS
  <2>7. Total(w, B) \in Nat /\ Total(v, A) \in Nat /\ v[x] \in Nat /\ w[x] \in Nat /\ w[x] <= v[x]
    BY <1>1, <2>2
  <2> HIDE DEF A, B
  <2> QED BY <2>3, <2>4, <2>5, <2>6, <2>7
<1>5. \A T \in SUBSET S : T \in P
  <2> HIDE DEF P
  <2> QED BY <1>3, <1>4, SetUp
<1> QED BY <1>5

(* The sum of two sets that have nothing in common.                        *)
LEMMA TotalJoin ==
    ASSUME NEW S, IsFiniteSet(S), NEW w, \A x \in S : w[x] \in Nat,
           NEW A \in SUBSET S, NEW B \in SUBSET S, A \cap B = {}
    PROVE  Total(w, A \cup B) = Total(w, A) + Total(w, B)
<1> DEFINE P == {T \in SUBSET B : Total(w, A \cup T) = Total(w, A) + Total(w, T)}
<1>1. \A T \in SUBSET S : Total(w, T) \in Nat BY TotalSteps
<1>2. \A T \in SUBSET S : \A x \in T : Total(w, T) = w[x] + Total(w, T \ {x})
  <2>1. Additive(w, S) BY TotalAdd
  <2> QED BY <2>1 DEF Additive
<1>3. {} \in P
  <2>1. Total(w, {}) = 0 /\ A \cup {} = A BY TotalSteps
  <2> QED BY <1>1, <2>1
<1>4. ASSUME NEW T \in SUBSET B, T # {}, \A x \in T : T \ {x} \in P PROVE T \in P
  <2>1. PICK x \in T : TRUE BY <1>4
  <2> DEFINE R == T \ {x}
  <2>2. (A \cup T) \ {x} = A \cup R /\ x \in A \cup T /\ A \cup T \in SUBSET S OBVIOUS
  <2>3. Total(w, A \cup T) = w[x] + Total(w, A \cup R) BY <1>2, <2>2
  <2>4. T \in SUBSET S /\ Total(w, T) = w[x] + Total(w, R) BY <1>2
  <2>5. Total(w, A \cup R) = Total(w, A) + Total(w, R) BY <1>4
  <2>6. R \in SUBSET S /\ w[x] \in Nat OBVIOUS
  <2>7. Total(w, A) \in Nat /\ Total(w, R) \in Nat BY <1>1, <2>6
  <2> HIDE DEF R
  <2>8. Total(w, A \cup T) = Total(w, A) + Total(w, T) BY <2>3, <2>4, <2>5, <2>6, <2>7
  <2> QED BY <2>8
<1>5. IsFiniteSet(B) BY FS_Subset
<1>6. \A T \in SUBSET B : T \in P
  <2> HIDE DEF P
  <2> QED BY <1>3, <1>4, <1>5, SetUp
<1>7. B \in P BY <1>6
<1> QED BY <1>7

-----------------------------------------------------------------------------
(* Queues of messages, added to at the end and taken from at the head.     *)

\* How many of M there are among the messages of q.
Count(q, M) == Cardinality({i \in 1 .. Len(q) : q[i] \in M})

\* One of M is among the messages; one at most; none of M after one of N.
Carries(q, M) == \E i \in DOMAIN q : q[i] \in M
Single(q, M) == \A i, j \in DOMAIN q : q[i] \in M /\ q[j] \in M => i = j
Before(q, M, N) == \A i, j \in DOMAIN q : q[i] \in M /\ q[j] \in N => i < j

(* A message that is added, or taken from the head.                        *)
LEMMA MessageAdded ==
    ASSUME NEW S, NEW q \in Seq(S), NEW c \in S
    PROVE  /\ Append(q, c) \in Seq(S)
           /\ \A M : Carries(Append(q, c), M) <=> Carries(q, M) \/ c \in M
           /\ \A M : Single(q, M) /\ (c \in M => ~Carries(q, M)) => Single(Append(q, c), M)
           /\ \A M, N : Before(q, M, N) /\ c \notin M => Before(Append(q, c), M, N)
           /\ \A M, N : Before(q, M, N) /\ ~Carries(q, N) /\ c \notin N => Before(Append(q, c), M, N)
<1> DEFINE r == Append(q, c)
           n == Len(q)
<1>1. /\ n \in Nat /\ DOMAIN q = 1 .. n /\ r \in Seq(S) /\ DOMAIN r = 1 .. n + 1 /\ r[n + 1] = c
      /\ \A i \in 1 .. n : r[i] = q[i]
  OBVIOUS
<1> HIDE DEF r, n
<1>2. ASSUME NEW i \in DOMAIN r
      PROVE  \/ i \in DOMAIN q /\ r[i] = q[i] /\ i < n + 1
             \/ i = n + 1 /\ r[i] = c
  BY <1>1
<1>3. \A M : Carries(r, M) <=> Carries(q, M) \/ c \in M
  <2> SUFFICES ASSUME NEW M PROVE Carries(r, M) <=> Carries(q, M) \/ c \in M
    OBVIOUS
  <2>1. ASSUME Carries(r, M) PROVE Carries(q, M) \/ c \in M BY <1>2, <2>1 DEF Carries
  <2>2. ASSUME Carries(q, M) PROVE Carries(r, M)
    <3>1. PICK i \in 1 .. n : q[i] \in M BY <1>1, <2>2 DEF Carries
    <3>2. i \in DOMAIN r /\ r[i] \in M BY <1>1, <3>1
    <3> QED BY <3>2 DEF Carries
  <2>3. ASSUME c \in M PROVE Carries(r, M)
    <3>1. n + 1 \in DOMAIN r BY <1>1
    <3> QED BY <1>1, <2>3, <3>1 DEF Carries
  <2> QED BY <2>1, <2>2, <2>3
<1>4. \A M : Single(q, M) /\ (c \in M => ~Carries(q, M)) => Single(r, M)
  BY <1>2 DEF Single, Carries
<1>5. \A M, N : Before(q, M, N) /\ c \notin M => Before(r, M, N)
  <2> SUFFICES ASSUME NEW M, NEW N, Before(q, M, N), c \notin M,
                      NEW i \in DOMAIN r, NEW j \in DOMAIN r, r[i] \in M, r[j] \in N
               PROVE  i < j
    BY DEF Before
  <2>1. i \in DOMAIN q /\ r[i] = q[i] /\ i < n + 1 BY <1>2
  <2> QED BY <1>2, <2>1 DEF Before
<1>6. \A M, N : Before(q, M, N) /\ ~Carries(q, N) /\ c \notin N => Before(r, M, N)
  BY <1>2 DEF Before, Carries
<1> QED BY <1>1, <1>3, <1>4, <1>5, <1>6 DEF r

(* The head goes, the others stay in their order.                          *)
LEMMA MessageTaken ==
    ASSUME NEW S, NEW q \in Seq(S), q # <<>>
    PROVE  /\ Head(q) \in S /\ Tail(q) \in Seq(S)
           /\ \A M : Carries(Tail(q), M) => Carries(q, M)
           /\ \A M : Head(q) \in M => Carries(q, M)
           /\ \A M : Carries(q, M) /\ Head(q) \notin M => Carries(Tail(q), M)
           /\ \A M : Single(q, M) => Single(Tail(q), M)
           /\ \A M : Single(q, M) /\ Head(q) \in M => ~Carries(Tail(q), M)
           /\ \A M, N : Before(q, M, N) => Before(Tail(q), M, N)
           /\ \A M, N : Before(q, M, N) /\ Head(q) \in N => ~Carries(q, M)
<1> DEFINE r == Tail(q)
           n == Len(q)
<1>1. /\ n \in Nat /\ n # 0 /\ DOMAIN q = 1 .. n /\ r \in Seq(S) /\ DOMAIN r = 1 .. n - 1
      /\ Head(q) = q[1] /\ Head(q) \in S
      /\ \A i \in 1 .. n - 1 : r[i] = q[i + 1]
  OBVIOUS
<1> HIDE DEF r, n
<1>2. ASSUME NEW i \in DOMAIN r PROVE i \in Nat /\ i + 1 \in DOMAIN q /\ r[i] = q[i + 1] /\ i + 1 # 1
  BY <1>1
<1>3. ASSUME NEW i \in DOMAIN q, i # 1 PROVE i - 1 \in DOMAIN r /\ r[i - 1] = q[i]
  BY <1>1, <1>3
<1>4. 1 \in DOMAIN q BY <1>1
<1>5. \A M : Carries(r, M) => Carries(q, M) BY <1>2 DEF Carries
<1>6. \A M : Head(q) \in M => Carries(q, M) BY <1>1, <1>4 DEF Carries
<1>7. \A M : Carries(q, M) /\ Head(q) \notin M => Carries(r, M)
  <2> SUFFICES ASSUME NEW M, NEW i \in DOMAIN q, q[i] \in M, Head(q) \notin M PROVE Carries(r, M)
    BY DEF Carries
  <2>1. i - 1 \in DOMAIN r /\ r[i - 1] = q[i] BY <1>1, <1>3
  <2> QED BY <2>1 DEF Carries
<1>8. \A M : Single(q, M) => Single(r, M)
  <2> SUFFICES ASSUME NEW M, Single(q, M), NEW i \in DOMAIN r, NEW j \in DOMAIN r,
                      r[i] \in M, r[j] \in M
               PROVE  i = j
    BY DEF Single
  <2>1. i + 1 = j + 1 BY <1>2 DEF Single
  <2> QED BY <1>2, <2>1
<1>9. \A M : Single(q, M) /\ Head(q) \in M => ~Carries(r, M)
  <2> SUFFICES ASSUME NEW M, Single(q, M), Head(q) \in M, NEW i \in DOMAIN r, r[i] \in M
               PROVE  FALSE
    BY DEF Carries
  <2>1. i + 1 = 1 BY <1>1, <1>2, <1>4 DEF Single
  <2> QED BY <1>2, <2>1
<1>10. \A M, N : Before(q, M, N) => Before(r, M, N)
  <2> SUFFICES ASSUME NEW M, NEW N, Before(q, M, N), NEW i \in DOMAIN r, NEW j \in DOMAIN r,
                      r[i] \in M, r[j] \in N
               PROVE  i < j
    BY DEF Before
  <2>1. i + 1 < j + 1 BY <1>2 DEF Before
  <2> QED BY <1>2, <2>1
<1>11. \A M, N : Before(q, M, N) /\ Head(q) \in N => ~Carries(q, M)
  <2> SUFFICES ASSUME NEW M, NEW N, Before(q, M, N), Head(q) \in N, NEW i \in DOMAIN q, q[i] \in M
               PROVE  FALSE
    BY DEF Carries
  <2>1. i < 1 BY <1>1, <1>4 DEF Before
  <2> QED BY <1>1, <2>1
<1> QED BY <1>1, <1>5, <1>6, <1>7, <1>8, <1>9, <1>10, <1>11 DEF r

(* There is a number of them.                                              *)
LEMMA CountIsNumber ==
    ASSUME NEW S, NEW q \in Seq(S), NEW M
    PROVE  Count(q, M) \in Nat
<1> DEFINE I == {i \in 1 .. Len(q) : q[i] \in M}
<1>1. IsFiniteSet(1 .. Len(q)) BY FS_Interval
<1>2. IsFiniteSet(I) BY <1>1, FS_Subset
<1> QED BY <1>2, FS_CardinalityType DEF Count

(* How many there are of M then.                                           *)
LEMMA CountedAdded ==
    ASSUME NEW S, NEW q \in Seq(S), NEW c \in S, NEW M
    PROVE  /\ Count(q, M) \in Nat
           /\ Count(Append(q, c), M) = IF c \in M THEN Count(q, M) + 1 ELSE Count(q, M)
<1> DEFINE n == Len(q)
           r == Append(q, c)
           I == {i \in 1 .. n : q[i] \in M}
           J == {i \in 1 .. Len(r) : r[i] \in M}
<1>1. /\ n \in Nat /\ Len(r) = n + 1 /\ r[n + 1] = c
      /\ \A i \in 1 .. n : r[i] = q[i]
  OBVIOUS
<1> HIDE DEF r, n
<1>2. IsFiniteSet(1 .. n) BY <1>1, FS_Interval
<1>3. IsFiniteSet(I) BY <1>2, FS_Subset
<1>4. n + 1 \notin I BY <1>1
<1>5. J = IF c \in M THEN I \cup {n + 1} ELSE I BY <1>1
<1> HIDE DEF I, J
<1>6. Cardinality(I) \in Nat /\ Cardinality(I \cup {n + 1}) = Cardinality(I) + 1
  BY <1>3, <1>4, FS_CardinalityType, FS_AddElement
<1>7. Cardinality(J) = IF c \in M THEN Cardinality(I) + 1 ELSE Cardinality(I) BY <1>5, <1>6
<1> QED BY <1>6, <1>7 DEF Count, I, J, r, n

(* And when the head goes.                                                 *)
LEMMA CountedTaken ==
    ASSUME NEW S, NEW q \in Seq(S), q # <<>>, NEW M
    PROVE  /\ Count(Tail(q), M) \in Nat
           /\ Count(q, M) = IF Head(q) \in M THEN Count(Tail(q), M) + 1 ELSE Count(Tail(q), M)
<1> DEFINE n == Len(q)
           r == Tail(q)
           I == {i \in 1 .. n : q[i] \in M}
           J == {i \in 1 .. Len(r) : r[i] \in M}
           K == I \ {1}
           f == [i \in J |-> i + 1]
<1>1. /\ n \in Nat /\ n # 0 /\ Len(r) = n - 1 /\ Head(q) = q[1]
      /\ \A i \in 1 .. n - 1 : r[i] = q[i + 1]
  OBVIOUS
<1> HIDE DEF r, n
<1>2. n - 1 \in Nat /\ IsFiniteSet(1 .. n - 1) /\ IsFiniteSet(1 .. n) BY <1>1, FS_Interval
<1>3. IsFiniteSet(I) /\ IsFiniteSet(J) /\ IsFiniteSet(K) BY <1>1, <1>2, FS_Subset
<1>4. ASSUME NEW i \in J PROVE i \in Nat /\ i + 1 \in K BY <1>1
<1>5. ASSUME NEW k \in K PROVE k - 1 \in J /\ (k - 1) + 1 = k BY <1>1
<1>6. 1 \in I <=> Head(q) \in M BY <1>1
<1>7. 1 \notin K /\ I = IF 1 \in I THEN K \cup {1} ELSE K OBVIOUS
<1> HIDE DEF I, J, K
<1>8. f \in Bijection(J, K)
  <2>1. f \in [J -> K] BY <1>4
  <2>2. \A i, j \in J : f[i] = f[j] => i = j BY <1>4
  <2>3. \A k \in K : \E i \in J : f[i] = k BY <1>5
  <2> QED BY <2>1, <2>2, <2>3 DEF Bijection, Injection, Surjection, IsInjective
<1>9. Cardinality(J) = Cardinality(K)
  <2>1. ExistsBijection(J, K) BY <1>8 DEF ExistsBijection
  <2> QED BY <1>3, <2>1, FS_Bijection
<1>10. Cardinality(J) \in Nat /\ Cardinality(K \cup {1}) = Cardinality(K) + 1
  BY <1>3, <1>7, FS_CardinalityType, FS_AddElement
<1>11. Cardinality(I) = IF Head(q) \in M THEN Cardinality(J) + 1 ELSE Cardinality(J)
  BY <1>6, <1>7, <1>9, <1>10
<1> QED BY <1>10, <1>11 DEF Count, I, J, r, n

(* Several messages are added at once.                                     *)
LEMMA MessagesJoined ==
    ASSUME NEW S, NEW q \in Seq(S), NEW r \in Seq(S)
    PROVE  /\ q \o r \in Seq(S)
           /\ \A M : Carries(q \o r, M) <=> Carries(q, M) \/ Carries(r, M)
           /\ \A M : ~Carries(r, M) => Count(q \o r, M) = Count(q, M)
<1> DEFINE m == Len(q)
           n == Len(r)
           t == q \o r
<1>1. /\ m \in Nat /\ n \in Nat /\ DOMAIN q = 1 .. m /\ DOMAIN r = 1 .. n
      /\ t \in Seq(S) /\ DOMAIN t = 1 .. m + n /\ Len(t) = m + n
      /\ \A i \in 1 .. m + n : t[i] = IF i <= m THEN q[i] ELSE r[i - m]
  OBVIOUS
<1> HIDE DEF m, n, t
<1>2. ASSUME NEW i \in 1 .. m PROVE i \in DOMAIN t /\ t[i] = q[i] BY <1>1
<1>3. ASSUME NEW i \in 1 .. n PROVE i + m \in DOMAIN t /\ t[i + m] = r[i] BY <1>1
<1>4. ASSUME NEW i \in DOMAIN t
      PROVE  \/ i \in 1 .. m /\ t[i] = q[i]
             \/ i - m \in 1 .. n /\ t[i] = r[i - m]
  BY <1>1
<1>5. \A M : Carries(t, M) <=> Carries(q, M) \/ Carries(r, M)
  <2> SUFFICES ASSUME NEW M PROVE Carries(t, M) <=> Carries(q, M) \/ Carries(r, M)
    OBVIOUS
  <2>1. ASSUME Carries(t, M) PROVE Carries(q, M) \/ Carries(r, M)
    BY <1>1, <1>4, <2>1 DEF Carries
  <2>2. ASSUME Carries(q, M) PROVE Carries(t, M) BY <1>1, <1>2, <2>2 DEF Carries
  <2>3. ASSUME Carries(r, M) PROVE Carries(t, M) BY <1>1, <1>3, <2>3 DEF Carries
  <2> QED BY <2>1, <2>2, <2>3
<1>6. ASSUME NEW M, ~Carries(r, M) PROVE Count(t, M) = Count(q, M)
  <2>1. \A i \in 1 .. m : i \in 1 .. m + n BY <1>1
  <2>2. {i \in 1 .. Len(t) : t[i] \in M} = {i \in 1 .. m : q[i] \in M}
    BY <1>1, <1>2, <1>4, <1>6, <2>1 DEF Carries
  <2> QED BY <2>2 DEF Count, m
<1> QED BY <1>1, <1>5, <1>6 DEF t
=============================================================================
