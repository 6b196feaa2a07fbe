------------------------ MODULE NotificationsProofs -------------------------
(***************************************************************************)
(* That no handler of Notifications stores a value of the wrong kind or    *)
(* overfills a list (TypeOK), that the counter on the bar is what the      *)
(* history says (UnreadExact), that the sweep timer runs whenever          *)
(* something is to expire (SweepRuns), that toasts and history are in one  *)
(* order (OrdersAgree), and that what is listed stays answerable           *)
(* (ListedAnswerable).  The lists are proved to hold no id twice: without  *)
(* that, neither the counter nor the order survives a removal.             *)
(***************************************************************************)
EXTENDS Notifications, CollectionsProofs

-----------------------------------------------------------------------------
(* Lists and what is left of them.                                         *)

(* t is what is left of s, or as much of it as matters here: the ids, in   *)
(* their order.                                                            *)
Within(t, s) ==
    \E m \in [DOMAIN t -> DOMAIN s] :
        /\ \A i, j \in DOMAIN t : i < j => m[i] < m[j]
        /\ \A i \in DOMAIN t : t[i].id = s[m[i]].id

(* What Picked() leaves is in the order it had.                            *)
LEMMA PickedWithin ==
    ASSUME NEW E, NEW s \in Seq(E), NEW S \in SUBSET DOMAIN s
    PROVE  /\ Picked(s, S) \in Seq(E) /\ Len(Picked(s, S)) <= Len(s)
           /\ Within(Picked(s, S), s)
           /\ \A i \in DOMAIN Picked(s, S) : \E k \in S : Picked(s, S)[i] = s[k]
           /\ S # DOMAIN s => Len(Picked(s, S)) < Len(s)
<1> DEFINE t == Picked(s, S)
           m == [n \in DOMAIN t |-> Nth(S, n)]
<1>1. /\ t \in Seq(E) /\ Len(t) <= Len(s)
      /\ \A n \in DOMAIN t : Nth(S, n) \in S /\ t[n] = s[Nth(S, n)]
      /\ \A n, k \in DOMAIN t : n < k => Nth(S, n) < Nth(S, k)
      /\ S # DOMAIN s => Len(t) < Len(s)
  BY PickedAt
<1> HIDE DEF t
<1>2. m \in [DOMAIN t -> DOMAIN s] /\ \A n \in DOMAIN t : m[n] = Nth(S, n) BY <1>1
<1> HIDE DEF m
<1>3. Within(t, s)
  <2>1. \A n, k \in DOMAIN t : n < k => m[n] < m[k] BY <1>1, <1>2
  <2>2. \A n \in DOMAIN t : t[n].id = s[m[n]].id BY <1>1, <1>2
  <2> QED BY <1>2, <2>1, <2>2 DEF Within
<1>4. \A n \in DOMAIN t : \E k \in S : t[n] = s[k] BY <1>1
<1> QED BY <1>1, <1>3, <1>4 DEF t

-----------------------------------------------------------------------------
(* No id is in a list twice: the toasts the shell sends to itself carry    *)
(* none.                                                                   *)
Distinct(s) == \A i, j \in DOMAIN s : s[i].id = s[j].id /\ s[i].id \in Ids => i = j

(* Toasts t appear in the order of the history h.                          *)
Agree(t, h) ==
    \A i, j \in DOMAIN t, k, l \in DOMAIN h :
        t[i].id = h[k].id /\ t[j].id = h[l].id /\ i < j => k < l

(* What is left of a list has no other ids, nor any of them twice.         *)
LEMMA WithinIds ==
    ASSUME NEW E, NEW F, NEW s \in Seq(E), NEW t \in Seq(F), Within(t, s)
    PROVE  IdsIn(t) \subseteq IdsIn(s) /\ (Distinct(s) => Distinct(t))
<1>1. PICK m \in [DOMAIN t -> DOMAIN s] :
        /\ \A i, j \in DOMAIN t : i < j => m[i] < m[j]
        /\ \A i \in DOMAIN t : t[i].id = s[m[i]].id
  BY DEF Within
<1>2. /\ \A i \in DOMAIN t : i \in Nat /\ m[i] \in DOMAIN s
      /\ \A k \in DOMAIN s : k \in Nat
  OBVIOUS
<1>3. IdsIn(t) \subseteq IdsIn(s) BY <1>1, <1>2 DEF IdsIn
<1>4. ASSUME Distinct(s), NEW i \in DOMAIN t, NEW j \in DOMAIN t,
             t[i].id = t[j].id, t[i].id \in Ids
      PROVE  i = j
  <2>1. m[i] = m[j]
    <3>1. s[m[i]].id = s[m[j]].id /\ s[m[i]].id \in Ids BY <1>1, <1>4
    <3> QED BY <1>2, <1>4, <3>1 DEF Distinct
  <2>2. i \in Nat /\ j \in Nat /\ m[i] \in Nat BY <1>2
  <2>3. ~(i < j) /\ ~(j < i)
    <3>1. i < j => m[i] < m[j] BY <1>1
    <3>2. j < i => m[j] < m[i] BY <1>1
    <3> QED BY <2>1, <2>2, <3>1, <3>2
  <2> QED BY <2>2, <2>3
<1> QED BY <1>3, <1>4 DEF Distinct

(* What is left of two lists in one order is in one order.                 *)
LEMMA WithinAgree ==
    ASSUME NEW E, NEW F, NEW t \in Seq(E), NEW h \in Seq(F),
           NEW t2 \in Seq(E), NEW h2 \in Seq(F),
           Agree(t, h), Within(t2, t), Within(h2, h)
    PROVE  Agree(t2, h2)
<1>1. PICK m \in [DOMAIN t2 -> DOMAIN t] :
        /\ \A i, j \in DOMAIN t2 : i < j => m[i] < m[j]
        /\ \A i \in DOMAIN t2 : t2[i].id = t[m[i]].id
  BY DEF Within
<1>2. PICK p \in [DOMAIN h2 -> DOMAIN h] :
        /\ \A i, j \in DOMAIN h2 : i < j => p[i] < p[j]
        /\ \A i \in DOMAIN h2 : h2[i].id = h[p[i]].id
  BY DEF Within
<1>3. SUFFICES ASSUME NEW i \in DOMAIN t2, NEW j \in DOMAIN t2,
                      NEW k \in DOMAIN h2, NEW l \in DOMAIN h2,
                      t2[i].id = h2[k].id, t2[j].id = h2[l].id, i < j
               PROVE  k < l
  BY DEF Agree
<1>4. /\ m[i] \in DOMAIN t /\ m[j] \in DOMAIN t /\ p[k] \in DOMAIN h /\ p[l] \in DOMAIN h
      /\ m[i] < m[j] /\ t[m[i]].id = h[p[k]].id /\ t[m[j]].id = h[p[l]].id
  BY <1>1, <1>2, <1>3
<1>5. p[k] < p[l] BY <1>4 DEF Agree
<1>6. k \in Nat /\ l \in Nat /\ p[k] \in Nat /\ p[l] \in Nat
  <2>1. \A q \in DOMAIN h : q \in Nat OBVIOUS
  <2>2. \A q \in DOMAIN h2 : q \in Nat OBVIOUS
  <2> QED BY <1>4, <2>1, <2>2
<1>7. l < k => p[l] < p[k] BY <1>2
<1> QED BY <1>5, <1>6, <1>7

(* What is left of what is left.                                           *)
LEMMA WithinTrans ==
    ASSUME NEW E, NEW s \in Seq(E), NEW t \in Seq(E), NEW u \in Seq(E),
           Within(u, t), Within(t, s)
    PROVE  Within(u, s)
<1>1. PICK m \in [DOMAIN u -> DOMAIN t] :
        /\ \A i, j \in DOMAIN u : i < j => m[i] < m[j]
        /\ \A i \in DOMAIN u : u[i].id = t[m[i]].id
  BY DEF Within
<1>2. PICK p \in [DOMAIN t -> DOMAIN s] :
        /\ \A i, j \in DOMAIN t : i < j => p[i] < p[j]
        /\ \A i \in DOMAIN t : t[i].id = s[p[i]].id
  BY DEF Within
<1> DEFINE q == [i \in DOMAIN u |-> p[m[i]]]
<1>3. q \in [DOMAIN u -> DOMAIN s] /\ \A i \in DOMAIN u : q[i] = p[m[i]] BY <1>1, <1>2
<1>4. \A i \in DOMAIN u : m[i] \in DOMAIN t BY <1>1
<1> HIDE DEF q
<1>5. \A i, j \in DOMAIN u : i < j => q[i] < q[j] BY <1>1, <1>2, <1>3, <1>4
<1>6. \A i \in DOMAIN u : u[i].id = s[q[i]].id BY <1>1, <1>2, <1>3, <1>4
<1> QED BY <1>3, <1>5, <1>6 DEF Within

(* Other entries under the same ids.                                       *)
LEMMA SameWithin ==
    ASSUME NEW E, NEW s \in Seq(E), NEW t \in Seq(E), DOMAIN t = DOMAIN s,
           \A i \in DOMAIN s : t[i].id = s[i].id
    PROVE  Within(t, s)
<1> DEFINE m == [i \in DOMAIN s |-> i]
<1>1. m \in [DOMAIN s -> DOMAIN s] /\ \A i \in DOMAIN s : m[i] = i
  OBVIOUS
<1> HIDE DEF m
<1> QED BY <1>1 DEF Within

(* The newest n entries.                                                   *)
LEMMA LastAt ==
    ASSUME NEW E, NEW s \in Seq(E), NEW n \in Nat
    PROVE  /\ Last(s, n) \in Seq(E) /\ Len(Last(s, n)) <= n
           /\ Len(Last(s, n)) <= Len(s) /\ Within(Last(s, n), s)
           /\ \A i \in DOMAIN Last(s, n) : \E k \in DOMAIN s : Last(s, n)[i] = s[k]
           /\ Len(s) <= n => Last(s, n) = s
           /\ Len(s) > n => /\ Len(Last(s, n)) = n
                            /\ \A i \in DOMAIN Last(s, n) :
                                  /\ i + (Len(s) - n) \in DOMAIN s
                                  /\ Last(s, n)[i] = s[i + (Len(s) - n)]
<1>1. CASE Len(s) <= n
  <2>1. Last(s, n) = s BY <1>1 DEF Last
  <2>2. Within(s, s) BY SameWithin
  <2> QED BY <1>1, <2>1, <2>2
<1>2. CASE Len(s) > n
  <2> DEFINE d == Len(s) - n
             r == SubSeq(s, d + 1, Len(s))
             m == [i \in 1 .. n |-> i + d]
  <2>1. d \in Nat /\ Len(s) \in Nat /\ d + n = Len(s) /\ d >= 1 BY <1>2
  <2>2. Last(s, n) = r BY <1>2 DEF Last
  <2>3. /\ r \in Seq(E) /\ Len(r) = n /\ DOMAIN r = 1 .. n
        /\ \A i \in 1 .. n : i + d \in DOMAIN s /\ r[i] = s[i + d]
    BY <2>1
  <2> HIDE DEF r
  <2>4. /\ m \in [1 .. n -> DOMAIN s] /\ \A i \in 1 .. n : m[i] = i + d
    BY <2>3
  <2>5. \A i, j \in 1 .. n : i < j => m[i] < m[j] BY <2>1, <2>4
  <2> HIDE DEF m
  <2>6. Within(r, s)
    <3>1. m \in [DOMAIN r -> DOMAIN s] BY <2>3, <2>4
    <3>2. \A i, j \in DOMAIN r : i < j => m[i] < m[j] BY <2>3, <2>5
    <3>3. \A i \in DOMAIN r : r[i].id = s[m[i]].id BY <2>3, <2>4
    <3> QED BY <3>1, <3>2, <3>3 DEF Within
  <2>7. Len(r) <= n /\ Len(r) <= Len(s) BY <2>1, <2>3
  <2>8. \A i \in DOMAIN r : i + d \in DOMAIN s /\ r[i] = s[i + d] BY <2>3
  <2> HIDE DEF d
  <2>9. \A i \in DOMAIN r : \E k \in DOMAIN s : r[i] = s[k] BY <2>8
  <2>10. ~(Len(s) <= n) BY <1>2, <2>1
  <2> QED BY <1>2, <2>2, <2>3, <2>6, <2>7, <2>8, <2>9, <2>10 DEF d
<1> QED BY <1>1, <1>2

(* What is appended comes last.                                            *)
LEMMA AppendAt ==
    ASSUME NEW E, NEW s \in Seq(E), NEW e \in E
    PROVE  /\ Append(s, e) \in Seq(E) /\ Len(Append(s, e)) = Len(s) + 1
           /\ Len(s) \in Nat
           /\ DOMAIN Append(s, e) = DOMAIN s \cup {Len(s) + 1}
           /\ Append(s, e)[Len(s) + 1] = e
           /\ \A i \in DOMAIN s : /\ i \in Nat /\ i < Len(s) + 1
                                  /\ Append(s, e)[i] = s[i]
OBVIOUS

(* An id that is not in a list may be appended to it.                      *)
LEMMA AppendDistinct ==
    ASSUME NEW E, NEW s \in Seq(E), NEW e \in E, Distinct(s), e.id \notin IdsIn(s) \cap Ids
    PROVE  Distinct(Append(s, e)) /\ IdsIn(Append(s, e)) = IdsIn(s) \cup {e.id}
<1> DEFINE a == Append(s, e)
           n == Len(s) + 1
<1>1. /\ DOMAIN a = DOMAIN s \cup {n} /\ a[n] = e
      /\ \A i \in DOMAIN s : a[i] = s[i]
  BY AppendAt
<1> HIDE DEF a, n
<1>2. \A i \in DOMAIN s : s[i].id \in IdsIn(s) BY DEF IdsIn
<1>3. Distinct(a) BY <1>1, <1>2 DEF Distinct
<1>4. IdsIn(a) = IdsIn(s) \cup {e.id} BY <1>1 DEF IdsIn
<1> QED BY <1>3, <1>4 DEF a

(* What is not in the history may be appended to the toasts.               *)
LEMMA AppendShown ==
    ASSUME NEW E, NEW F, NEW t \in Seq(E), NEW h \in Seq(F), NEW e \in E, Agree(t, h),
           e.id \notin IdsIn(h)
    PROVE  Agree(Append(t, e), h)
<1> DEFINE a == Append(t, e)
           n == Len(t) + 1
<1>1. /\ DOMAIN a = DOMAIN t \cup {n} /\ a[n] = e /\ n \in Nat
      /\ \A i \in DOMAIN t : i \in Nat /\ i < n /\ a[i] = t[i]
  BY AppendAt
<1> HIDE DEF a, n
<1>2. \A k \in DOMAIN h : h[k].id \in IdsIn(h) BY DEF IdsIn
<1>3. Agree(a, h) BY <1>1, <1>2 DEF Agree
<1> QED BY <1>3 DEF a

(* To the history, what is not shown; or the same to both.                 *)
LEMMA AppendAgree ==
    ASSUME NEW E, NEW F, NEW t \in Seq(E), NEW h \in Seq(F), NEW e \in E, NEW f \in F,
           Agree(t, h)
    PROVE  /\ f.id \notin IdsIn(t) => Agree(t, Append(h, f))
           /\ /\ e.id = f.id /\ e.id \notin IdsIn(h) /\ e.id \notin IdsIn(t)
              => Agree(Append(t, e), Append(h, f))
<1> DEFINE a == Append(t, e)
           n == Len(t) + 1
           b == Append(h, f)
           o == Len(h) + 1
<1>1. /\ DOMAIN a = DOMAIN t \cup {n} /\ a[n] = e /\ n \in Nat
      /\ \A i \in DOMAIN t : i \in Nat /\ i < n /\ a[i] = t[i]
  BY AppendAt
<1>2. /\ DOMAIN b = DOMAIN h \cup {o} /\ b[o] = f /\ o \in Nat
      /\ \A i \in DOMAIN h : i \in Nat /\ i < o /\ b[i] = h[i]
  BY AppendAt
<1> HIDE DEF a, b, n, o
<1>3. /\ \A i \in DOMAIN t : t[i].id \in IdsIn(t)
      /\ \A k \in DOMAIN h : h[k].id \in IdsIn(h)
  BY DEF IdsIn
<1>5. ASSUME f.id \notin IdsIn(t) PROVE Agree(t, b)
  BY <1>2, <1>3, <1>5 DEF Agree
<1>6. ASSUME e.id = f.id, e.id \notin IdsIn(h), e.id \notin IdsIn(t)
      PROVE  Agree(a, b)
  <2> SUFFICES ASSUME NEW i \in DOMAIN a, NEW j \in DOMAIN a,
                      NEW k \in DOMAIN b, NEW l \in DOMAIN b,
                      a[i].id = b[k].id, a[j].id = b[l].id, i < j
               PROVE  k < l
    BY DEF Agree
  <2>1. i \in DOMAIN t
    <3>1. i = n => ~(i < j) BY <1>1
    <3> QED BY <1>1, <3>1
  <2>2. a[i] = t[i] /\ a[i].id # e.id BY <1>1, <1>3, <1>6, <2>1
  <2>3. k \in DOMAIN h BY <1>2, <1>6, <2>2
  <2>4. b[k] = h[k] BY <1>2, <2>3
  <2>5. CASE l = o BY <1>2, <2>3, <2>5
  <2>6. CASE l # o
    <3>1. l \in DOMAIN h /\ b[l] = h[l] BY <1>2, <2>6
    <3>2. j \in DOMAIN t /\ a[j] = t[j]
      <4>1. a[j].id # e.id BY <1>3, <1>6, <3>1
      <4> QED BY <1>1, <4>1
    <3> QED BY <2>1, <2>2, <2>3, <2>4, <3>1, <3>2 DEF Agree
  <2> QED BY <2>5, <2>6
<1> QED BY <1>5, <1>6 DEF a, b

-----------------------------------------------------------------------------
(* The unread ones.                                                        *)
Items == [id : Ids, hints : Kinds, read : BOOLEAN]
Toasts == [id : Int, hints : Kinds \cup {{"transient"}}, due : BOOLEAN]

(* There are as many as the list is long at most, and none when all are    *)
(* read.                                                                   *)
LEMMA UnreadAt ==
    ASSUME NEW s \in Seq(Items)
    PROVE  /\ Unread(s) \in Nat /\ Unread(s) <= Len(s)
           /\ (\A i \in DOMAIN s : s[i].read) => Unread(s) = 0
<1> DEFINE U == {i \in DOMAIN s : ~s[i].read}
<1>1. Len(s) \in Nat /\ DOMAIN s = 1 .. Len(s)
  OBVIOUS
<1>2. IsFiniteSet(1 .. Len(s)) /\ Cardinality(1 .. Len(s)) = Len(s)
  <2>1. /\ 1 \in Int /\ Len(s) \in Int
        /\ (IF 1 > Len(s) THEN 0 ELSE Len(s) - 1 + 1) = Len(s)
    BY <1>1
  <2> QED BY <2>1, FS_Interval
<1>3. U \in SUBSET (1 .. Len(s)) BY <1>1
<1>4. (\A i \in DOMAIN s : s[i].read) => U = {} OBVIOUS
<1> HIDE DEF U
<1>5. IsFiniteSet(U) /\ Cardinality(U) <= Len(s) BY <1>2, <1>3, FS_Subset
<1>6. Cardinality(U) \in Nat BY <1>5, FS_CardinalityType
<1>7. Cardinality({}) = 0 BY FS_EmptySet
<1> QED BY <1>4, <1>5, <1>6, <1>7 DEF U, Unread

(* One that is appended is counted unless it is read.                      *)
LEMMA UnreadAppend ==
    ASSUME NEW s \in Seq(Items), NEW e \in Items
    PROVE  Unread(Append(s, e)) = Unread(s) + (IF e.read THEN 0 ELSE 1)
<1> DEFINE a == Append(s, e)
           n == Len(s) + 1
           U == {i \in DOMAIN s : ~s[i].read}
           V == {i \in DOMAIN a : ~a[i].read}
<1>1. /\ DOMAIN a = DOMAIN s \cup {n} /\ a[n] = e /\ n \in Nat
      /\ \A i \in DOMAIN s : i \in Nat /\ i < n /\ a[i] = s[i]
  BY AppendAt
<1>2. n \notin DOMAIN s BY <1>1
<1>3. IsFiniteSet(U) /\ Cardinality(U) \in Nat
  <2>1. Len(s) \in Int /\ 1 \in Int /\ U \in SUBSET (1 .. Len(s)) OBVIOUS
  <2> HIDE DEF U
  <2>2. IsFiniteSet(1 .. Len(s)) BY <2>1, FS_Interval
  <2>3. IsFiniteSet(U) BY <2>1, <2>2, FS_Subset
  <2> QED BY <2>3, FS_CardinalityType
<1> HIDE DEF a, n
<1>4. V = IF e.read THEN U ELSE U \cup {n} BY <1>1
<1>5. n \notin U BY <1>2
<1> HIDE DEF U, V
<1>6. Cardinality(U \cup {n}) = Cardinality(U) + 1 BY <1>3, <1>5, FS_AddElement
<1>7. Cardinality(V) = Cardinality(U) + (IF e.read THEN 0 ELSE 1) BY <1>3, <1>4, <1>6
<1> QED BY <1>7 DEF U, V, a, Unread

(* A list without an id twice has no more than there are.                  *)
LEMMA DistinctLength ==
    ASSUME NEW s \in Seq(Items), Distinct(s)
    PROVE  Len(s) <= MaxDeliveries
<1> DEFINE f == [i \in 1 .. Len(s) |-> s[i].id]
<1>1. /\ Len(s) \in Nat /\ DOMAIN s = 1 .. Len(s) /\ MaxDeliveries \in Nat
      /\ \A i \in DOMAIN s : s[i].id \in Ids
  <2>1. \A x \in Items : x.id \in Ids BY DEF Items
  <2>2. \A i \in DOMAIN s : s[i] \in Items OBVIOUS
  <2>3. MaxDeliveries \in Nat BY BoundsAssumption
  <2>4. Len(s) \in Nat /\ DOMAIN s = 1 .. Len(s) OBVIOUS
  <2> QED BY <2>1, <2>2, <2>3, <2>4
<1>2. f \in Injection(1 .. Len(s), Ids)
  <2>1. f \in [1 .. Len(s) -> Ids] /\ \A i \in 1 .. Len(s) : f[i] = s[i].id BY <1>1
  <2> HIDE DEF f
  <2>2. \A i, j \in 1 .. Len(s) : f[i] = f[j] => i = j BY <1>1, <2>1 DEF Distinct
  <2> QED BY <2>1, <2>2 DEF Injection, IsInjective
<1> HIDE DEF f
<1>3. \A k \in Nat : IsFiniteSet(1 .. k) /\ Cardinality(1 .. k) = k
  <2> SUFFICES ASSUME NEW k \in Nat PROVE IsFiniteSet(1 .. k) /\ Cardinality(1 .. k) = k
    OBVIOUS
  <2>1. 1 \in Int /\ k \in Int /\ (IF 1 > k THEN 0 ELSE k - 1 + 1) = k OBVIOUS
  <2> QED BY <2>1, FS_Interval
<1>4. IsFiniteSet(Ids) /\ Cardinality(Ids) = MaxDeliveries BY <1>1, <1>3 DEF Ids
<1>5. Cardinality(1 .. Len(s)) <= Cardinality(Ids) BY <1>2, <1>4, FS_Injection
<1> QED BY <1>1, <1>3, <1>4, <1>5

(* What Without() leaves.                                                  *)
LEMMA WithoutAt ==
    ASSUME NEW E, NEW s \in Seq(E), NEW ids
    PROVE  /\ Without(s, ids) \in Seq(E) /\ Len(Without(s, ids)) <= Len(s)
           /\ Within(Without(s, ids), s)
           /\ \A i \in DOMAIN Without(s, ids) :
                 \E k \in DOMAIN s : Without(s, ids)[i] = s[k] /\ s[k].id \notin ids
           /\ IdsIn(Without(s, ids)) \subseteq IdsIn(s) \ ids
           /\ IdsIn(s) \cap ids = {} => Without(s, ids) = s
           /\ IdsIn(s) \cap ids # {} => Len(Without(s, ids)) < Len(s)
<1> DEFINE S == {i \in DOMAIN s : s[i].id \notin ids}
           w == Without(s, ids)
<1>1. S \in SUBSET DOMAIN s /\ \A k \in S : k \in DOMAIN s /\ s[k].id \notin ids
  OBVIOUS
<1>2. IdsIn(s) \cap ids = {} <=> S = DOMAIN s BY DEF IdsIn
<1>3. w = Picked(s, S) BY DEF Without
<1> HIDE DEF S, w
<1>4. /\ w \in Seq(E) /\ Len(w) <= Len(s) /\ Within(w, s)
      /\ \A i \in DOMAIN w : \E k \in S : w[i] = s[k]
      /\ S # DOMAIN s => Len(w) < Len(s)
  BY <1>1, <1>3, PickedWithin
<1>5. \A i \in DOMAIN w : \E k \in DOMAIN s : w[i] = s[k] /\ s[k].id \notin ids
  BY <1>1, <1>4
<1>6. IdsIn(w) \subseteq IdsIn(s) \ ids BY <1>5 DEF IdsIn
<1>7. IdsIn(s) \cap ids = {} => w = s BY <1>2, <1>3, PickedAll
<1>8. IdsIn(s) \cap ids # {} => Len(w) < Len(s) BY <1>2, <1>4
<1> QED BY <1>4, <1>5, <1>6, <1>7, <1>8 DEF w

-----------------------------------------------------------------------------
(* The invariant of the lists.                                             *)
Lists(h, t) ==
    /\ h \in Seq(Items) /\ t \in Seq(Toasts)
    /\ Distinct(h) /\ Distinct(t) /\ Agree(t, h)

ListInv ==
    /\ Lists(history, toasts)
    /\ Len(history) <= MaxHistory /\ Len(toasts) <= MaxToasts
    /\ unread \in 0 .. MaxDeliveries /\ UnreadExact

(* What is left of the lists is as good as they were.                      *)
LEMMA ThinLists ==
    ASSUME NEW h, NEW t, Lists(h, t), NEW h2 \in Seq(Items), NEW t2 \in Seq(Toasts),
           Within(h2, h), Within(t2, t)
    PROVE  Lists(h2, t2)
<1>1. h \in Seq(Items) /\ t \in Seq(Toasts) /\ Distinct(h) /\ Distinct(t) /\ Agree(t, h)
  BY DEF Lists
<1>2. Distinct(h2) BY <1>1, WithinIds
<1>3. Distinct(t2) BY <1>1, WithinIds
<1>4. Agree(t2, h2) BY <1>1, WithinAgree
<1> QED BY <1>2, <1>3, <1>4 DEF Lists

(* A step that takes nothing in: toasts are left of ts, and the unread     *)
(* ones are counted unless the history stands.                             *)
Thinned(ts) ==
    /\ history' \in Seq(Items) /\ Within(history', history)
    /\ Len(history') <= Len(history)
    /\ toasts' \in Seq(Toasts) /\ Within(toasts', ts) /\ Len(toasts') <= Len(ts)
    /\ unread' = Unread(history') \/ UNCHANGED <<history, unread>>

(* Counted, the unread ones are as many as they can be.                    *)
LEMMA CountedAt ==
    ASSUME NEW h \in Seq(Items), Distinct(h)
    PROVE  /\ Unread(h) \in 0 .. MaxDeliveries /\ Unread(h) \in Int
           /\ Len(h) \in Nat /\ Unread(h) - Unread(h) = 0
<1>1. Unread(h) \in Nat /\ Unread(h) <= Len(h) /\ Len(h) \in Nat BY UnreadAt
<1>2. Len(h) <= MaxDeliveries /\ MaxDeliveries \in Nat
  BY DistinctLength, BoundsAssumption
<1> QED BY <1>1, <1>2

(* Such a step leaves the lists as good as they were.                      *)
LEMMA ThinnedLists ==
    ASSUME ListInv, NEW ts, Lists(history, ts), Len(ts) <= MaxToasts, Thinned(ts)
    PROVE  ListInv'
<1>1. Lists(history', toasts') BY ThinLists DEF Thinned
<1>2. Len(history') <= MaxHistory /\ Len(toasts') <= MaxToasts
  <2>1. ts \in Seq(Toasts) /\ history \in Seq(Items) BY DEF ListInv, Lists
  <2>2. /\ Len(history') \in Nat /\ Len(toasts') \in Nat
        /\ Len(ts) \in Nat /\ Len(history) \in Nat
    BY <2>1 DEF Thinned
  <2>3. MaxHistory \in Nat /\ MaxToasts \in Nat BY LimitsAssumption
  <2> QED BY <2>2, <2>3 DEF Thinned, ListInv
<1>3. CASE UNCHANGED <<history, unread>>
  BY <1>1, <1>2, <1>3 DEF ListInv, UnreadExact
<1>4. CASE unread' = Unread(history')
  <2>1. history' \in Seq(Items) /\ Distinct(history') BY <1>1 DEF Lists
  <2>2. unread' \in 0 .. MaxDeliveries /\ unread' - Unread(history') = 0
    BY <1>4, <2>1, CountedAt
  <2> QED BY <1>1, <1>2, <2>2 DEF ListInv, UnreadExact
<1> QED BY <1>3, <1>4 DEF Thinned

(* A list that is capped is left of what it was.                           *)
LEMMA CappedAt ==
    ASSUME NEW s \in Seq(Toasts)
    PROVE  /\ Capped(s) \in Seq(Toasts) /\ Len(Capped(s)) <= MaxToasts
           /\ Within(Capped(s), s)
<1>1. MaxToasts \in Nat BY LimitsAssumption
<1> QED BY <1>1, LastAt DEF Capped

(* What is made of a notification.                                         *)
LEMMA EntryTypes ==
    ASSUME NEW id \in Ids, NEW hints \in Kinds
    PROVE  /\ Toast(id, hints) \in Toasts /\ Toast(id, hints).id = id
           /\ \A read \in BOOLEAN : /\ Item(id, hints, read) \in Items
                                    /\ Item(id, hints, read).id = id
                                    /\ Item(id, hints, read).read = read
BY DEF Toast, Item, Toasts, Items, Ids

(* The toast that tells of the end of Do Not Disturb.                      *)
LEMMA EndDndLists ==
    ASSUME ListInv, deliveries \in Nat
    PROVE  Lists(history, EndDnd(toasts)) /\ Len(EndDnd(toasts)) <= MaxToasts
<1>0. /\ history \in Seq(Items) /\ toasts \in Seq(Toasts) /\ Distinct(history)
      /\ Distinct(toasts) /\ Agree(toasts, history)
  BY DEF ListInv, Lists
<1>1. Summary \in Toasts /\ Summary.id \notin Ids
  <2>1. Summary = [id |-> -deliveries, hints |-> {"transient"}, due |-> FALSE]
    BY DEF Summary, Toast
  <2>2. -deliveries \in Int /\ -deliveries \notin Ids BY DEF Ids
  <2> QED BY <2>1, <2>2 DEF Toasts
<1>2. Summary.id \notin IdsIn(history)
  <2>1. \A i \in DOMAIN history : history[i].id \in Ids
    <3>1. \A x \in Items : x.id \in Ids BY DEF Items
    <3>2. \A i \in DOMAIN history : history[i] \in Items BY <1>0
    <3> QED BY <3>1, <3>2
  <2> QED BY <1>1, <2>1 DEF IdsIn
<1> DEFINE a == Append(toasts, Summary)
<1>3. a \in Seq(Toasts) BY <1>0, <1>1
<1>4. Distinct(a) BY <1>0, <1>1, AppendDistinct
<1>5. Agree(a, history) BY <1>0, <1>1, <1>2, AppendShown
<1>6. Lists(history, a) BY <1>0, <1>3, <1>4, <1>5 DEF Lists
<1> HIDE DEF a
<1>7. Lists(history, Capped(a)) /\ Len(Capped(a)) <= MaxToasts
  <2>1. Within(history, history) BY <1>0, SameWithin
  <2> QED BY <1>0, <1>3, <1>6, <2>1, CappedAt, ThinLists
<1>8. Lists(history, toasts) /\ Len(toasts) <= MaxToasts BY DEF ListInv
<1> QED BY <1>7, <1>8 DEF EndDnd, a

(* What neither list has may be appended to the one, the other or both.    *)
LEMMA Grown ==
    ASSUME NEW h, NEW t, Lists(h, t), NEW id \in Ids, NEW hints \in Kinds,
           NEW read \in BOOLEAN, id \notin IdsIn(h), id \notin IdsIn(t)
    PROVE  /\ Lists(Append(h, Item(id, hints, read)), t)
           /\ Lists(h, Append(t, Toast(id, hints)))
           /\ Lists(Append(h, Item(id, hints, read)), Append(t, Toast(id, hints)))
<1> DEFINE e == Toast(id, hints)
           f == Item(id, hints, read)
<1>1. e \in Toasts /\ e.id = id /\ f \in Items /\ f.id = id BY EntryTypes
<1>2. h \in Seq(Items) /\ t \in Seq(Toasts) /\ Distinct(h) /\ Distinct(t) /\ Agree(t, h)
  BY DEF Lists
<1> HIDE DEF e, f
<1>3. Append(h, f) \in Seq(Items) /\ Append(t, e) \in Seq(Toasts) BY <1>1, <1>2
<1>4. Distinct(Append(h, f)) BY <1>1, <1>2, AppendDistinct
<1>5. Distinct(Append(t, e)) BY <1>1, <1>2, AppendDistinct
<1>6. Agree(Append(t, e), h) BY <1>1, <1>2, AppendShown
<1>7. Agree(t, Append(h, f)) /\ Agree(Append(t, e), Append(h, f))
  BY <1>1, <1>2, AppendAgree
<1> QED BY <1>2, <1>3, <1>4, <1>5, <1>6, <1>7 DEF Lists, e, f

(* A list is what is left of itself.                                       *)
LEMMA WithinSelf ==
    ASSUME NEW h, NEW t, Lists(h, t)
    PROVE  Within(h, h) /\ Within(t, t)
<1>1. h \in Seq(Items) /\ t \in Seq(Toasts) BY DEF Lists
<1> QED BY <1>1, SameWithin

(* What replaces a listed notification leaves the lists as good.           *)
LEMMA UpdateLists ==
    ASSUME ListInv, NEW id \in Ids, NEW hints \in Kinds, Update(id, hints)
    PROVE  ListInv'
<1> DEFINE hw == Without(history, {id})
           tw == Without(toasts, {id})
           h == Append(hw, Item(id, hints, FALSE))
           t == Append(tw, Toast(id, hints))
<1>1. /\ Lists(history, toasts) /\ history \in Seq(Items) /\ toasts \in Seq(Toasts)
      /\ Len(history) <= MaxHistory /\ Len(toasts) <= MaxToasts
      /\ MaxHistory \in Nat /\ MaxToasts \in Nat
  BY LimitsAssumption DEF ListInv, Lists
<1>2. /\ hw \in Seq(Items) /\ Within(hw, history) /\ id \notin IdsIn(hw)
      /\ id \notin IdsIn(history) => hw = history
      /\ id \in IdsIn(history) => Len(hw) < Len(history)
  BY <1>1, WithoutAt
<1>3. /\ tw \in Seq(Toasts) /\ Within(tw, toasts) /\ id \notin IdsIn(tw)
      /\ id \notin IdsIn(toasts) => tw = toasts
  BY <1>1, WithoutAt
<1>4. Lists(hw, tw) BY <1>1, <1>2, <1>3, ThinLists
<1>5. Lists(h, tw) /\ Lists(hw, t) /\ Lists(h, t) BY <1>2, <1>3, <1>4, Grown
<1>6. /\ history' = IF id \in IdsIn(history) THEN h ELSE history
      /\ toasts' = Capped(t) \/ (toasts' = toasts /\ id \notin IdsIn(toasts))
      /\ unread' = Unread(history')
  BY DEF Update
<1>7. id \in IdsIn(history) => Len(h) <= MaxHistory
  <2>1. /\ Len(hw) \in Nat /\ Len(history) \in Nat
        /\ Len(h) = Len(hw) + 1
    BY <1>1, <1>2
  <2> QED BY <1>1, <1>2, <2>1
<1> HIDE DEF hw, tw, h, t
<1>8. Lists(history', t) /\ (tw = toasts => Lists(history', toasts))
  BY <1>2, <1>4, <1>5, <1>6
<1>9. t \in Seq(Toasts) /\ Capped(t) \in Seq(Toasts) /\ Within(Capped(t), t)
      /\ Len(Capped(t)) <= MaxToasts
  <2>1. t \in Seq(Toasts) BY <1>5 DEF Lists
  <2> QED BY <2>1, CappedAt
<1>10. Lists(history', toasts') /\ Len(toasts') <= MaxToasts
  <2>1. CASE toasts' = toasts /\ id \notin IdsIn(toasts) BY <1>1, <1>3, <1>8, <2>1
  <2>2. CASE toasts' = Capped(t)
    <3>1. Within(history', history') /\ history' \in Seq(Items)
      BY <1>8, WithinSelf DEF Lists
    <3> QED BY <1>8, <1>9, <2>2, <3>1, ThinLists
  <2> QED BY <1>6, <2>1, <2>2
<1>11. Len(history') <= MaxHistory BY <1>1, <1>6, <1>7
<1>12. unread' \in 0 .. MaxDeliveries /\ unread' - Unread(history') = 0
  <2>1. history' \in Seq(Items) /\ Distinct(history') BY <1>10 DEF Lists
  <2> QED BY <1>6, <2>1, CountedAt
<1> QED BY <1>10, <1>11, <1>12 DEF ListInv, UnreadExact

(* What makes the history overflow is a new entry, and something leaves it. *)
LEMMA OverflowAt ==
    ASSUME NEW h \in Seq(Items), Distinct(h)
    PROVE  LET l == Last(h, MaxHistory)
               out == IdsIn(h) \ IdsIn(l)
           IN /\ l \in Seq(Items) /\ Len(l) <= MaxHistory /\ Within(l, h)
              /\ Len(h) <= MaxHistory <=> out = {}
              /\ out = {} => l = h
              /\ out # {} => Len(l) = MaxHistory /\ MaxHistory < Len(h)
<1> DEFINE l == Last(h, MaxHistory)
           out == IdsIn(h) \ IdsIn(l)
           d == Len(h) - MaxHistory
<1>1. MaxHistory \in Nat \ {0} /\ Len(h) \in Nat BY LimitsAssumption
<1>2. /\ l \in Seq(Items) /\ Len(l) <= MaxHistory /\ Within(l, h)
      /\ Len(h) <= MaxHistory => l = h
      /\ Len(h) > MaxHistory =>
            /\ Len(l) = MaxHistory
            /\ \A i \in DOMAIN l : i + d \in DOMAIN h /\ l[i] = h[i + d]
  BY <1>1, LastAt
<1> HIDE DEF l
<1>3. ASSUME Len(h) > MaxHistory PROVE h[1].id \in out
  <2>1. 1 \in DOMAIN h /\ h[1] \in Items BY <1>1, <1>3
  <2>2. h[1].id \in IdsIn(h) /\ h[1].id \in Ids BY <2>1 DEF IdsIn, Items
  <2>3. ASSUME NEW i \in DOMAIN l PROVE l[i].id # h[1].id
    <3>1. i + d \in DOMAIN h /\ l[i] = h[i + d] BY <1>2, <1>3
    <3>2. i + d # 1
      <4>1. i \in Nat /\ 1 <= i BY <1>2
      <4> QED BY <1>1, <1>3, <4>1
    <3> QED BY <2>1, <2>2, <3>1, <3>2 DEF Distinct
  <2> QED BY <2>2, <2>3 DEF IdsIn
<1>4. Len(h) <= MaxHistory => out = {} BY <1>2
<1>5. Len(h) > MaxHistory <=> ~(Len(h) <= MaxHistory) BY <1>1
<1>6. Len(h) > MaxHistory => MaxHistory < Len(h) BY <1>1
<1> HIDE DEF out, d
<1>7. /\ Len(h) <= MaxHistory <=> out = {}
      /\ out = {} => l = h
      /\ out # {} => Len(l) = MaxHistory /\ MaxHistory < Len(h)
  BY <1>2, <1>3, <1>4, <1>5, <1>6
<1> QED BY <1>2, <1>7 DEF l, out

(* A new notification does too, however it is listed and whatever it makes *)
(* overflow; the unread ones may be counted once too often.                *)
LEMMA IngestLists ==
    ASSUME ListInv, NEW id \in Ids, id \notin Listed, NEW hints \in Kinds,
           NEW carry \in BOOLEAN, IngestNew(id, hints, carry)
    PROVE  ListInv'
<1> DEFINE lasting == "transient" \notin hints
           read == carry \/ "feedback" \in hints
           e == Item(id, hints, read)
           h == IF lasting THEN Append(history, e) ELSE history
           l == Last(h, MaxHistory)
           out == IdsIn(h) \ IdsIn(l)
           left == Without(toasts, out)
           toasted == Shows(hints) /\ (lasting => ~carry)
           t == IF toasted THEN Append(left, Toast(id, hints)) ELSE left
<1>1. /\ Lists(history, toasts) /\ history \in Seq(Items) /\ toasts \in Seq(Toasts)
      /\ Len(history) <= MaxHistory /\ Len(toasts) <= MaxToasts
      /\ MaxHistory \in Nat /\ MaxToasts \in Nat /\ Distinct(history)
      /\ id \notin IdsIn(history) /\ id \notin IdsIn(toasts)
  BY LimitsAssumption DEF ListInv, Lists, Listed
<1>2. read \in BOOLEAN /\ e \in Items /\ e.read = read
  <2>1. read \in BOOLEAN OBVIOUS
  <2> HIDE DEF read
  <2> QED BY <2>1, EntryTypes
<1>3. /\ history' = l
      /\ toasts' = IF toasted THEN Capped(t) ELSE t
      /\ unread' = (IF lasting /\ ~read
                    THEN (IF out = {} THEN unread ELSE Unread(l)) + 1
                    ELSE (IF out = {} THEN unread ELSE Unread(l)))
  BY DEF IngestNew
<1>4. /\ left \in Seq(Toasts) /\ Within(left, toasts) /\ Len(left) <= Len(toasts)
      /\ id \notin IdsIn(left)
  <2>1. /\ left \in Seq(Toasts) /\ Within(left, toasts) /\ Len(left) <= Len(toasts)
        /\ IdsIn(left) \subseteq IdsIn(toasts)
    <3> HIDE DEF out
    <3> QED BY <1>1, WithoutAt
  <2> QED BY <1>1, <2>1
<1>5. (lasting => h = Append(history, e)) /\ (~lasting => h = history)
  OBVIOUS
<1>6. (toasted => t = Append(left, Toast(id, hints))) /\ (~toasted => t = left)
  OBVIOUS
<1> HIDE DEF out, left
<1>7. Lists(history, left)
  <2>1. Within(history, history) BY <1>1, WithinSelf
  <2> QED BY <1>1, <1>4, <2>1, ThinLists
<1>8. /\ Lists(Append(history, e), left)
      /\ Lists(history, Append(left, Toast(id, hints)))
      /\ Lists(Append(history, e), Append(left, Toast(id, hints)))
  <2> HIDE DEF read
  <2> QED BY <1>1, <1>2, <1>4, <1>7, Grown
<1> HIDE DEF lasting, read, e, h, t, toasted
<1>9. Lists(h, t) BY <1>5, <1>6, <1>7, <1>8
<1>10. h \in Seq(Items) /\ Distinct(h) /\ t \in Seq(Toasts) BY <1>9 DEF Lists
<1>11. /\ l \in Seq(Items) /\ Len(l) <= MaxHistory /\ Within(l, h)
       /\ Len(h) <= MaxHistory <=> out = {}
       /\ out = {} => l = h
       /\ out # {} => Len(l) = MaxHistory /\ MaxHistory < Len(h)
  BY <1>10, OverflowAt DEF out
<1> HIDE DEF l
<1>12. /\ toasts' \in Seq(Toasts) /\ Within(toasts', t) /\ Len(toasts') <= MaxToasts
  <2>1. CASE toasted BY <1>3, <1>10, <2>1, CappedAt
  <2>2. CASE ~toasted
    <3>1. toasts' = left /\ t = left BY <1>3, <1>6, <2>2
    <3>2. Within(t, t) BY <1>9, WithinSelf
    <3>3. Len(left) \in Nat /\ Len(toasts) \in Nat BY <1>1, <1>4
    <3> QED BY <1>1, <1>4, <3>1, <3>2, <3>3
  <2> QED BY <2>1, <2>2
<1>13. Lists(history', toasts') BY <1>3, <1>9, <1>11, <1>12, ThinLists
<1>14. /\ Unread(h) \in Nat /\ Unread(l) \in Nat /\ Unread(history) \in Nat
       /\ Unread(l) <= Len(l) /\ Len(l) \in Nat /\ Len(h) \in Nat
       /\ Unread(h) <= Len(h) /\ Len(h) <= MaxDeliveries /\ MaxDeliveries \in Nat
       /\ unread \in Nat /\ Len(history) \in Nat /\ unread <= MaxDeliveries
  <2>1. MaxDeliveries \in Nat BY BoundsAssumption
  <2>2. Unread(h) \in Nat /\ Unread(h) <= Len(h) /\ Len(h) \in Nat BY <1>10, UnreadAt
  <2>3. Unread(l) \in Nat /\ Unread(l) <= Len(l) /\ Len(l) \in Nat BY <1>11, UnreadAt
  <2>4. Unread(history) \in Nat /\ Len(history) \in Nat BY <1>1, UnreadAt
  <2>5. Len(h) <= MaxDeliveries BY <1>10, DistinctLength
  <2>6. unread \in Nat /\ unread <= MaxDeliveries BY <2>1 DEF ListInv
  <2> QED BY <2>1, <2>2, <2>3, <2>4, <2>5, <2>6
<1>15. /\ unread' \in 0 .. MaxDeliveries
       /\ unread' - Unread(l) \in (IF Len(l) = MaxHistory THEN {0, 1} ELSE {0})
  <2>1. CASE out # {}
    <3>1. unread' = Unread(l) \/ unread' = Unread(l) + 1 BY <1>3, <2>1
    <3>2. Len(l) = MaxHistory /\ MaxHistory < Len(h) BY <1>11, <2>1
    <3>3. unread' \in 0 .. MaxDeliveries BY <1>14, <3>1, <3>2
    <3>4. unread' - Unread(l) \in {0, 1} BY <1>14, <3>1
    <3> QED BY <3>2, <3>3, <3>4
  <2>2. CASE out = {} /\ lasting
    <3>1. l = h /\ h = Append(history, e) /\ Len(h) <= MaxHistory BY <1>5, <1>11, <2>2
    <3>2. Len(history) # MaxHistory
      <4>1. Len(h) = Len(history) + 1 BY <1>1, <1>2, <3>1, AppendAt
      <4> QED BY <1>1, <1>14, <3>1, <4>1
    <3>3. unread = Unread(history)
      <4>1. unread - Unread(history) = 0 BY <3>2 DEF ListInv, UnreadExact
      <4> QED BY <1>14, <4>1
    <3>4. Unread(h) = Unread(history) + (IF read THEN 0 ELSE 1)
      BY <1>1, <1>2, <3>1, UnreadAppend
    <3>5. unread' = IF ~read THEN unread + 1 ELSE unread BY <1>3, <2>2
    <3>6. unread' = Unread(h) BY <1>2, <1>14, <3>3, <3>4, <3>5
    <3>7. unread' \in 0 .. MaxDeliveries /\ unread' - Unread(l) = 0
      BY <1>14, <3>1, <3>6
    <3> QED BY <3>7
  <2>3. CASE out = {} /\ ~lasting
    <3>1. l = history /\ unread' = unread BY <1>3, <1>5, <1>11, <2>3
    <3> QED BY <3>1 DEF ListInv, UnreadExact
  <2> QED BY <2>1, <2>2, <2>3
<1> QED BY <1>3, <1>11, <1>12, <1>13, <1>15 DEF ListInv, UnreadExact

-----------------------------------------------------------------------------
(* The rest of the invariant: the timer and the exits, what the server     *)
(* holds, Do Not Disturb.                                                  *)
ExitInv ==
    /\ sweep \in BOOLEAN /\ SweepRuns
    /\ exits \subseteq IdsIn(toasts) \X (Answers \cup {"dismiss"})

HeldInv ==
    /\ Tracked \subseteq Ids /\ \A id \in Tracked : tracked[id] \in Kinds
    /\ live \subseteq Ids /\ told \in Ids \cup {0}
    /\ carried \subseteq Tracked /\ carried \cap Listed = {}

QuietInv ==
    /\ dnd \in BOOLEAN /\ takeover \in BOOLEAN /\ until \in {"none", "running", "passed"}
    /\ deliveries \in 0 .. MaxDeliveries /\ silenced \in 0 .. deliveries
    /\ reloads \in 0 .. MaxReloads

NotifInv == ListInv /\ ExitInv /\ HeldInv /\ QuietInv

(* What the user does to what is listed takes nothing in.                  *)
UserNext == ExitNext \/ CenterNext

(* Taking ids out of the lists.                                            *)
LEMMA RemoveThinned ==
    ASSUME ListInv
    PROVE  /\ \A ids : /\ Without(history, ids) \in Seq(Items)
                       /\ Within(Without(history, ids), history)
                       /\ Len(Without(history, ids)) <= Len(history)
           /\ \A ids : /\ Without(toasts, ids) \in Seq(Toasts)
                       /\ Within(Without(toasts, ids), toasts)
                       /\ Len(Without(toasts, ids)) <= Len(toasts)
           /\ history \in Seq(Items) /\ toasts \in Seq(Toasts)
           /\ Within(history, history) /\ Within(toasts, toasts)
           /\ Len(history) <= Len(history) /\ Len(toasts) <= Len(toasts)
<1>1. history \in Seq(Items) /\ toasts \in Seq(Toasts) BY DEF ListInv, Lists
<1>2. Len(history) \in Nat /\ Len(toasts) \in Nat BY <1>1
<1>3. Within(history, history) /\ Within(toasts, toasts) BY WithinSelf DEF ListInv
<1>4. \A ids : /\ Without(history, ids) \in Seq(Items)
               /\ Within(Without(history, ids), history)
               /\ Len(Without(history, ids)) <= Len(history)
  BY <1>1, WithoutAt
<1>5. \A ids : /\ Without(toasts, ids) \in Seq(Toasts)
               /\ Within(Without(toasts, ids), toasts)
               /\ Len(Without(toasts, ids)) <= Len(toasts)
  BY <1>1, WithoutAt
<1> QED BY <1>1, <1>2, <1>3, <1>4, <1>5

(* Entries that are marked as read are under the ids they were.            *)
LEMMA MarkedThinned ==
    ASSUME ListInv, NEW h, DOMAIN h = DOMAIN history,
           \A i \in DOMAIN history :
              h[i] = history[i] \/ h[i] = [history[i] EXCEPT !.read = TRUE],
           h = [i \in DOMAIN history |-> h[i]]
    PROVE  h \in Seq(Items) /\ Within(h, history) /\ Len(h) <= Len(history)
<1>1. /\ history \in Seq(Items) /\ Len(history) \in Nat
      /\ DOMAIN history = 1 .. Len(history)
      /\ \A i \in DOMAIN history : history[i] \in Items
  BY DEF ListInv, Lists
<1>2. \A x \in Items : /\ [x EXCEPT !.read = TRUE] \in Items
                       /\ [x EXCEPT !.read = TRUE].id = x.id
  BY DEF Items
<1>3. \A i \in DOMAIN history : h[i] \in Items /\ h[i].id = history[i].id BY <1>1, <1>2
<1>4. h \in Seq(Items) /\ Len(h) = Len(history) BY <1>1, <1>3
<1> QED BY <1>1, <1>3, <1>4, SameWithin

(* Nothing is left.                                                        *)
LEMMA EmptyThinned ==
    ASSUME ListInv, history' = <<>>, toasts' = <<>>, unread' = 0
    PROVE  Thinned(toasts)
<1>1. /\ <<>> \in Seq(Items) /\ <<>> \in Seq(Toasts) /\ DOMAIN <<>> = {} /\ Len(<<>>) = 0
  OBVIOUS
<1>2. Len(history) \in Nat /\ Len(toasts) \in Nat BY DEF ListInv, Lists
<1>3. Within(<<>>, history) /\ Within(<<>>, toasts)
  <2>1. <<>> \in [{} -> DOMAIN history] /\ <<>> \in [{} -> DOMAIN toasts]
    OBVIOUS
  <2> QED BY <1>1, <2>1 DEF Within
<1>4. Unread(<<>>) = 0 BY <1>1, UnreadAt
<1> QED BY <1>1, <1>2, <1>3, <1>4 DEF Thinned

(* The user's operations on the lists.                                     *)
LEMMA UserThinned ==
    ASSUME ListInv, ExitInv, UserNext
    PROVE  Thinned(toasts) /\ (SyncModels \/ UNCHANGED <<lists, sweep, exits>>)
<1>1. ASSUME NEW ids, Remove(ids) PROVE Thinned(toasts) /\ SyncModels
  BY <1>1, RemoveThinned DEF Remove, Thinned
<1>2. ASSUME UNCHANGED <<lists, sweep, exits>> PROVE Thinned(toasts)
  BY <1>2, RemoveThinned DEF Thinned, lists
<1>3. ASSUME NEW id, DismissToast(id) PROVE Thinned(toasts) /\ SyncModels
  BY <1>3, RemoveThinned DEF DismissToast, Thinned
<1>4. ASSUME NEW id, NEW ident, InvokeAction(id, ident)
      PROVE  Thinned(toasts) /\ (SyncModels \/ UNCHANGED <<lists, sweep, exits>>)
  BY <1>1, <1>2, <1>4 DEF InvokeAction
<1>5. ASSUME NEW id, DismissNotification(id) PROVE Thinned(toasts) /\ SyncModels
  BY <1>1, <1>5 DEF DismissNotification
<1>6. ASSUME NEW id, InvokeDefaultAction(id)
      PROVE  Thinned(toasts) /\ (SyncModels \/ UNCHANGED <<lists, sweep, exits>>)
  BY <1>4, <1>5, <1>6 DEF InvokeDefaultAction
<1>7. ASSUME NEW id, SendInlineReply(id) PROVE Thinned(toasts) /\ SyncModels
  <2>1. CASE Remove({id}) BY <1>1, <2>1
  <2>2. CASE ~Remove({id})
    <3> DEFINE r(e) == IF e.id = id THEN [e EXCEPT !.read = TRUE] ELSE e
               h == [i \in DOMAIN history |-> r(history[i])]
    <3>1. /\ history' = h /\ toasts' = Without(toasts, {id})
          /\ unread' = Unread(history') /\ SyncModels
      BY <1>7, <2>2 DEF SendInlineReply
    <3>2. h \in Seq(Items) /\ Within(h, history) /\ Len(h) <= Len(history)
      BY MarkedThinned
    <3> QED BY <3>1, <3>2, RemoveThinned DEF Thinned
  <2> QED BY <2>1, <2>2
<1>8. ASSUME MarkAllRead PROVE Thinned(toasts) /\ SyncModels
  <2> DEFINE h == [i \in DOMAIN history |-> [history[i] EXCEPT !.read = TRUE]]
  <2>1. history' = h /\ unread' = 0 /\ toasts' = toasts /\ SyncModels
    BY <1>8 DEF MarkAllRead
  <2>2. h \in Seq(Items) /\ Within(h, history) /\ Len(h) <= Len(history)
    BY MarkedThinned
  <2>3. \A i \in DOMAIN h : h[i].read
    <3>1. \A i \in DOMAIN history : history[i] \in Items BY DEF ListInv, Lists
    <3> QED BY <3>1 DEF Items
  <2> HIDE DEF h
  <2>4. Unread(h) = 0 BY <2>2, <2>3, UnreadAt
  <2> QED BY <2>1, <2>2, <2>4, RemoveThinned DEF Thinned
<1>9. ASSUME ClearAll PROVE Thinned(toasts) /\ SyncModels
  <2>1. history' = <<>> /\ toasts' = <<>> /\ unread' = 0 /\ SyncModels
    BY <1>9 DEF ClearAll
  <2> QED BY <2>1, EmptyThinned
<1>10. ASSUME NEW ids, ClearApp(ids) PROVE Thinned(toasts) /\ SyncModels
  BY <1>1, <1>10 DEF ClearApp
<1>11. CASE ExitNext
  <2>1. PICK x \in exits : ExitDone(x) BY <1>11 DEF ExitNext
  <2>2. x[2] \in {"default", "button", "reply", "dismiss"} BY DEF ExitInv, Answers
  <2>3. \/ DismissToast(x[1]) \/ InvokeDefaultAction(x[1])
        \/ InvokeAction(x[1], "button") \/ SendInlineReply(x[1])
    BY <2>1, <2>2 DEF ExitDone
  <2> QED BY <1>3, <1>4, <1>6, <1>7, <2>3
<1>12. CASE CenterNext
  BY <1>4, <1>5, <1>6, <1>7, <1>8, <1>9, <1>10, <1>12 DEF CenterNext
<1> QED BY <1>11, <1>12 DEF UserNext

(* Turning Do Not Disturb on or off: critical toasts stay, and what was    *)
(* silenced is told at the end.                                            *)
LEMMA SetDndThinned ==
    ASSUME ListInv, QuietInv, NEW on, NEW deadline, SetDnd(on, deadline)
    PROVE  Thinned(toasts) \/ Thinned(EndDnd(toasts))
<1>1. UNCHANGED <<history, unread>> /\ toasts \in Seq(Toasts)
  BY DEF SetDnd, ListInv, Lists
<1>2. CASE toasts' = EndDnd(toasts)
  <2>1. Lists(history, EndDnd(toasts)) BY EndDndLists DEF QuietInv
  <2>2. /\ EndDnd(toasts) \in Seq(Toasts) /\ Within(EndDnd(toasts), EndDnd(toasts))
        /\ Len(EndDnd(toasts)) <= Len(EndDnd(toasts))
    <3>1. EndDnd(toasts) \in Seq(Toasts) BY <2>1 DEF Lists
    <3>2. Len(EndDnd(toasts)) \in Nat BY <3>1
    <3> QED BY <2>1, <3>1, <3>2, WithinSelf
  <2> QED BY <1>1, <1>2, <2>2, RemoveThinned DEF Thinned
<1>3. CASE toasts' = toasts BY <1>1, <1>3, RemoveThinned DEF Thinned
<1>4. CASE toasts' = Picked(toasts, {i \in DOMAIN toasts : Critical(toasts[i].hints)})
  <2> DEFINE S == {i \in DOMAIN toasts : Critical(toasts[i].hints)}
  <2>1. S \in SUBSET DOMAIN toasts OBVIOUS
  <2> HIDE DEF S
  <2>2. /\ Picked(toasts, S) \in Seq(Toasts) /\ Within(Picked(toasts, S), toasts)
        /\ Len(Picked(toasts, S)) <= Len(toasts)
    BY <1>1, <2>1, PickedWithin
  <2> QED BY <1>1, <1>4, <2>2, RemoveThinned DEF Thinned, S
<1> QED BY <1>2, <1>3, <1>4 DEF SetDnd

(* A sweep takes toasts out.                                               *)
LEMMA ExpireThinned ==
    ASSUME ListInv, NEW ts \in Seq(Toasts), Expire(ts), UNCHANGED history
    PROVE  Thinned(ts)
<1>1. Within(ts, ts) /\ Len(ts) \in Nat BY SameWithin
<1>2. \A ids : /\ Without(ts, ids) \in Seq(Toasts) /\ Within(Without(ts, ids), ts)
               /\ Len(Without(ts, ids)) <= Len(ts)
  BY WithoutAt
<1>3. unread' = unread \/ unread' = Unread(history) BY DEF Expire
<1>4. toasts' = ts \/ \E ids : toasts' = Without(ts, ids) BY DEF Expire
<1> QED BY <1>1, <1>2, <1>3, <1>4, RemoveThinned DEF Thinned

(* So does one that ends Do Not Disturb first.                             *)
LEMMA SweepThinned ==
    ASSUME ListInv, QuietInv, SweepTick
    PROVE  Thinned(toasts) \/ Thinned(EndDnd(toasts))
<1>1. UNCHANGED history BY DEF SweepTick
<1>2. toasts \in Seq(Toasts) /\ EndDnd(toasts) \in Seq(Toasts)
  <2>1. Lists(history, EndDnd(toasts)) BY EndDndLists DEF QuietInv
  <2> QED BY <2>1 DEF Lists, ListInv
<1> QED BY <1>1, <1>2, ExpireThinned DEF SweepTick

(* The lists are as good after every step.                                 *)
LEMMA ListStep ==
    ASSUME NotifInv, Next
    PROVE  ListInv'
<1>0. ListInv /\ ExitInv /\ HeldInv /\ QuietInv BY DEF NotifInv
<1>1. ASSUME Thinned(toasts) PROVE ListInv'
  <2>1. Lists(history, toasts) /\ Len(toasts) <= MaxToasts BY <1>0 DEF ListInv
  <2> QED BY <1>0, <1>1, <2>1, ThinnedLists
<1>2. ASSUME Thinned(EndDnd(toasts)) PROVE ListInv'
  <2>1. Lists(history, EndDnd(toasts)) /\ Len(EndDnd(toasts)) <= MaxToasts
    BY <1>0, EndDndLists DEF QuietInv
  <2> QED BY <1>0, <1>2, <2>1, ThinnedLists
<1>3. ASSUME UNCHANGED lists PROVE ListInv'
  BY <1>0, <1>1, <1>3, RemoveThinned DEF Thinned, lists
<1>4. CASE HandOver
  <2>1. PICK id \in carried : IngestNew(id, tracked[id], TRUE) BY <1>4 DEF HandOver
  <2>2. id \in Ids /\ id \notin Listed /\ tracked[id] \in Kinds BY <1>0 DEF HeldInv
  <2> QED BY <1>0, <2>1, <2>2, IngestLists
<1>5. CASE ToastClock
  <2>1. PICK i \in DOMAIN toasts : toasts' = [toasts EXCEPT ![i].due = TRUE]
    BY <1>5 DEF ToastClock, DeadlinePasses
  <2>2. UNCHANGED <<history, unread>> BY <1>5 DEF ToastClock, OthersStand
  <2>3. toasts \in Seq(Toasts) /\ toasts[i] \in Toasts BY <1>0 DEF ListInv, Lists
  <2>4. [toasts[i] EXCEPT !.due = TRUE] \in Toasts BY <2>3 DEF Toasts
  <2>5. /\ toasts' \in Seq(Toasts) /\ DOMAIN toasts' = DOMAIN toasts
        /\ Len(toasts') = Len(toasts)
        /\ \A j \in DOMAIN toasts : toasts'[j].id = toasts[j].id
    <3>1. toasts' = [toasts EXCEPT ![i] = [toasts[i] EXCEPT !.due = TRUE]] BY <2>1
    <3>2. [toasts[i] EXCEPT !.due = TRUE].id = toasts[i].id BY <2>3 DEF Toasts
    <3> QED BY <2>3, <2>4, <3>1, <3>2
  <2>6. Within(toasts', toasts) BY <2>3, <2>5, SameWithin
  <2> QED BY <1>0, <1>1, <2>2, <2>5, <2>6, RemoveThinned DEF Thinned
<1>6. CASE DndClock
  BY <1>3, <1>6 DEF DndClock, DndDeadlinePasses, OthersStand, lists
<1>7. CASE AppNext
  <2>1. ASSUME NEW id \in Ids, NEW hints \in Kinds, Notify(id, hints) PROVE ListInv'
    BY <1>0, <2>1, UpdateLists, IngestLists DEF Notify
  <2>2. ASSUME NEW id \in Ids, AppCloses(id) PROVE ListInv'
    <3>1. history' = Without(history, {id}) /\ toasts' = Without(toasts, {id})
      BY <2>2 DEF AppCloses
    <3>2. unread' = Unread(history') \/ UNCHANGED <<history, unread>>
      <4>1. CASE id \in Listed BY <2>2, <4>1 DEF AppCloses
      <4>2. CASE id \notin Listed
        <5>1. unread' = unread /\ IdsIn(history) \cap {id} = {}
          BY <2>2, <4>2 DEF AppCloses, Listed
        <5>2. history' = history BY <1>0, <3>1, <5>1, WithoutAt DEF ListInv, Lists
        <5> QED BY <5>1, <5>2
      <4> QED BY <4>1, <4>2
    <3> QED BY <1>0, <1>1, <3>1, <3>2, RemoveThinned DEF Thinned
  <2> QED BY <1>7, <2>1, <2>2 DEF AppNext
<1>8. CASE SweepTick BY <1>0, <1>1, <1>2, <1>8, SweepThinned
<1>9. CASE OverlayNext BY <1>3, <1>9 DEF OverlayNext, lists
<1>10. CASE ExitNext \/ CenterNext BY <1>0, <1>1, <1>10, UserThinned DEF UserNext
<1>11. CASE ShellNext
  <2>1. CASE ToggleDnd \/ SetDndTimed \/ SetDndUntilOff
    <3>1. \E on, deadline : SetDnd(on, deadline)
      BY <2>1 DEF ToggleDnd, SetDndTimed, SetDndUntilOff
    <3> QED BY <1>0, <1>1, <1>2, <3>1, SetDndThinned
  <2>2. CASE TakeoverOff \/ Reload
    <3>1. history' = <<>> /\ toasts' = <<>> /\ unread' = 0
      BY <2>2 DEF TakeoverOff, Reload
    <3> QED BY <1>0, <1>1, <3>1, EmptyThinned
  <2>3. CASE TakeoverOn
    <3>1. UNCHANGED <<history, unread>> /\ toasts' = <<>> BY <2>3 DEF TakeoverOn
    <3>2. /\ <<>> \in Seq(Toasts) /\ Within(<<>>, toasts) /\ Len(<<>>) <= Len(toasts)
      <4>1. <<>> \in Seq(Toasts) /\ DOMAIN <<>> = {} /\ Len(<<>>) = 0 OBVIOUS
      <4>2. <<>> \in [{} -> DOMAIN toasts] OBVIOUS
      <4>3. Len(toasts) \in Nat BY <1>0 DEF ListInv, Lists
      <4>4. Within(<<>>, toasts) BY <4>1, <4>2 DEF Within
      <4> QED BY <4>1, <4>3, <4>4
    <3> QED BY <1>0, <1>1, <3>1, <3>2, RemoveThinned DEF Thinned
  <2> QED BY <1>11, <2>1, <2>2, <2>3 DEF ShellNext
<1> QED BY <1>4, <1>5, <1>6, <1>7, <1>8, <1>9, <1>10, <1>11 DEF Next

-----------------------------------------------------------------------------
(* Do Not Disturb and the counters.                                        *)
LEMMA QuietStep ==
    ASSUME NotifInv, Next
    PROVE  QuietInv'
<1>0. QuietInv BY DEF NotifInv
<1>1. MaxDeliveries \in Nat /\ MaxReloads \in Nat BY BoundsAssumption
<1>2. /\ deliveries \in Nat /\ silenced \in Nat /\ silenced <= deliveries
      /\ deliveries <= MaxDeliveries /\ reloads \in Nat
  BY <1>0, <1>1 DEF QuietInv
<1>3. ASSUME UNCHANGED <<quiet, takeover, deliveries, reloads>> PROVE QuietInv'
  BY <1>0, <1>3 DEF QuietInv, quiet
<1>4. CASE HandOver
  <2>1. PICK id \in carried : IngestNew(id, tracked[id], TRUE) BY <1>4 DEF HandOver
  <2>2. silenced' = silenced BY <2>1 DEF IngestNew
  <2> QED BY <1>3, <1>4, <2>2 DEF HandOver, quiet
<1>5. CASE ToastClock BY <1>3, <1>5 DEF ToastClock, DeadlinePasses, OthersStand, quiet
<1>6. CASE DndClock
  BY <1>0, <1>6 DEF DndClock, DndDeadlinePasses, OthersStand, QuietInv
<1>7. CASE AppNext
  <2>1. ASSUME NEW id, NEW hints, Notify(id, hints) PROVE QuietInv'
    <3>1. /\ UNCHANGED <<dnd, until, takeover, reloads>> /\ deliveries < MaxDeliveries
          /\ deliveries' = deliveries + 1
      BY <2>1 DEF Notify
    <3>2. silenced' = silenced \/ silenced' = silenced + 1
      BY <2>1 DEF Notify, Update, IngestNew
    <3>3. deliveries' \in 0 .. MaxDeliveries /\ silenced' \in 0 .. deliveries'
      BY <1>1, <1>2, <3>1, <3>2
    <3> QED BY <1>0, <3>1, <3>3 DEF QuietInv
  <2>2. ASSUME NEW id, AppCloses(id) PROVE QuietInv'
    BY <1>3, <2>2 DEF AppCloses
  <2> QED BY <1>7, <2>1, <2>2 DEF AppNext
<1>8. ASSUME UNCHANGED <<takeover, deliveries, reloads>>, dnd' \in BOOLEAN,
             until' \in {"none", "running", "passed"}, silenced' \in {0, silenced}
      PROVE  QuietInv'
  <2>1. silenced' \in 0 .. deliveries BY <1>2, <1>8
  <2> QED BY <1>0, <1>8, <2>1 DEF QuietInv
<1>9. CASE SweepTick
  <2>1. \/ UNCHANGED quiet
        \/ dnd' = FALSE /\ until' = "none" /\ silenced' = 0
    BY <1>9 DEF SweepTick
  <2>2. UNCHANGED <<takeover, deliveries, reloads>> BY <1>9 DEF SweepTick
  <2> QED BY <1>3, <1>8, <2>1, <2>2
<1>10. CASE OverlayNext \/ ExitNext \/ CenterNext
  BY <1>3, <1>10 DEF OverlayNext, ExitNext, CenterNext
<1>11. CASE ShellNext
  <2>1. CASE ToggleDnd \/ SetDndTimed \/ SetDndUntilOff
    <3>1. /\ UNCHANGED <<takeover, deliveries, reloads>>
          /\ dnd' = ~dnd \/ dnd' = TRUE
          /\ until' \in {"none", "running", until} /\ silenced' \in {0, silenced}
      BY <2>1 DEF ToggleDnd, SetDndTimed, SetDndUntilOff, SetDnd
    <3>2. dnd' \in BOOLEAN BY <1>0, <3>1 DEF QuietInv
    <3>3. until' \in {"none", "running", "passed"} BY <1>0, <3>1 DEF QuietInv
    <3> QED BY <1>8, <3>1, <3>2, <3>3
  <2>2. CASE TakeoverOff \/ TakeoverOn
    BY <1>0, <2>2 DEF TakeoverOff, TakeoverOn, QuietInv, quiet
  <2>3. CASE Reload
    <3>1. /\ reloads' \in 0 .. MaxReloads /\ silenced' \in 0 .. deliveries
          /\ UNCHANGED <<dnd, takeover, deliveries>> /\ until' = "none"
      BY <1>1, <1>2, <2>3 DEF Reload
    <3> QED BY <1>0, <3>1 DEF QuietInv
  <2> QED BY <1>11, <2>1, <2>2, <2>3 DEF ShellNext
<1> QED BY <1>4, <1>5, <1>6, <1>7, <1>9, <1>10, <1>11 DEF Next

-----------------------------------------------------------------------------
(* The timer and the exits.                                                *)

(* syncModels() sees to both.                                              *)
LEMMA SyncAt ==
    ASSUME ExitInv, dnd' \in BOOLEAN, SyncModels
    PROVE  ExitInv'
<1>1. sweep' \in BOOLEAN /\ SweepRuns' BY DEF SyncModels, SweepRuns, NeedSweep
<1>2. exits' \subseteq IdsIn(toasts') \X (Answers \cup {"dismiss"})
  <2> SUFFICES ASSUME NEW x \in exits'
               PROVE  x \in IdsIn(toasts') \X (Answers \cup {"dismiss"})
    OBVIOUS
  <2>1. x \in exits /\ x[1] \in IdsIn(toasts') BY DEF SyncModels
  <2>2. x \in IdsIn(toasts) \X (Answers \cup {"dismiss"}) BY <2>1 DEF ExitInv
  <2> QED BY <2>1, <2>2
<1>3. Answers' = Answers BY DEF Answers
<1> QED BY <1>1, <1>2, <1>3 DEF ExitInv

(* Without it they stand where nothing more needs the timer.               *)
LEMMA StandAt ==
    ASSUME ExitInv, UNCHANGED <<toasts, sweep, exits>>,
           sweep \/ (NeedSweep(toasts, dnd', until') => NeedSweep(toasts, dnd, until))
    PROVE  ExitInv'
<1>1. NeedSweep(toasts', dnd', until')  => sweep'
  <2>1. toasts' = toasts /\ sweep' = sweep OBVIOUS
  <2>2. NeedSweep(toasts, dnd', until') => sweep BY DEF ExitInv, SweepRuns
  <2> QED BY <2>1, <2>2
<1>2. SweepRuns' BY <1>1 DEF SweepRuns
<1>3. UNCHANGED <<IdsIn(toasts), exits, sweep, Answers>> BY DEF Answers
<1> QED BY <1>2, <1>3 DEF ExitInv

(* No handler leaves the timer standing that it needs, or a toast on its   *)
(* way out that has gone.                                                  *)
LEMMA ExitStep ==
    ASSUME NotifInv, Next
    PROVE  ExitInv'
<1>0. ListInv /\ ExitInv /\ QuietInv BY DEF NotifInv
<1>1. dnd' \in BOOLEAN BY QuietStep DEF QuietInv
<1>2. ASSUME SyncModels PROVE ExitInv' BY <1>0, <1>1, <1>2, SyncAt
<1>3. ASSUME UNCHANGED <<toasts, sweep, exits, dnd, until>> PROVE ExitInv'
  <2>1. NeedSweep(toasts, dnd', until') = NeedSweep(toasts, dnd, until) BY <1>3
  <2> QED BY <1>0, <1>3, <2>1, StandAt
<1>4. CASE HandOver BY <1>2, <1>4 DEF HandOver
<1>5. CASE ToastClock
  <2>1. PICK i \in DOMAIN toasts :
           Timed(toasts[i].hints) /\ toasts' = [toasts EXCEPT ![i].due = TRUE]
    BY <1>5 DEF ToastClock, DeadlinePasses
  <2>2. sweep
    <3>1. NeedSweep(toasts, dnd, until) BY <2>1 DEF NeedSweep
    <3> QED BY <1>0, <3>1 DEF ExitInv, SweepRuns
  <2>3. UNCHANGED <<sweep, exits>> BY <1>5 DEF ToastClock, OthersStand
  <2>4. IdsIn(toasts') = IdsIn(toasts)
    <3>1. toasts \in Seq(Toasts) /\ toasts[i] \in Toasts BY <1>0 DEF ListInv, Lists
    <3>2. toasts' = [toasts EXCEPT ![i] = [toasts[i] EXCEPT !.due = TRUE]] BY <2>1
    <3>3. [toasts[i] EXCEPT !.due = TRUE].id = toasts[i].id BY <3>1 DEF Toasts
    <3>4. DOMAIN toasts' = DOMAIN toasts BY <3>2
    <3>5. \A j \in DOMAIN toasts : toasts'[j].id = toasts[j].id
      BY <3>1, <3>2, <3>3
    <3> QED BY <3>4, <3>5 DEF IdsIn
  <2>5. Answers' = Answers BY DEF Answers
  <2> QED BY <1>0, <2>2, <2>3, <2>4, <2>5 DEF ExitInv, SweepRuns
<1>6. CASE DndClock
  <2>1. /\ UNCHANGED <<toasts, sweep, exits, dnd>> /\ until = "running"
    BY <1>6 DEF DndClock, DndDeadlinePasses, OthersStand
  <2>2. NeedSweep(toasts, dnd', until') => NeedSweep(toasts, dnd, until)
    BY <2>1 DEF NeedSweep
  <2> QED BY <1>0, <2>1, <2>2, StandAt
<1>7. CASE AppNext
  <2>1. ASSUME NEW id, NEW hints, Notify(id, hints) PROVE ExitInv'
    BY <1>2, <2>1 DEF Notify
  <2>2. ASSUME NEW id, AppCloses(id) PROVE ExitInv'
    <3>1. CASE id \in Listed BY <1>2, <2>2, <3>1 DEF AppCloses
    <3>2. CASE id \notin Listed
      <4>1. /\ toasts' = Without(toasts, {id}) /\ UNCHANGED <<sweep, exits, dnd, until>>
            /\ IdsIn(toasts) \cap {id} = {}
        BY <2>2, <3>2 DEF AppCloses, quiet, Listed
      <4>2. toasts' = toasts BY <1>0, <4>1, WithoutAt DEF ListInv, Lists
      <4> QED BY <1>3, <4>1, <4>2
    <3> QED BY <3>1, <3>2
  <2> QED BY <1>7, <2>1, <2>2 DEF AppNext
<1>8. CASE SweepTick
  <2>1. CASE toasts' = toasts
    <3>1. sweep /\ UNCHANGED <<toasts, sweep, exits>> BY <1>8, <2>1 DEF SweepTick
    <3> QED BY <1>0, <3>1, StandAt
  <2>2. CASE toasts' # toasts BY <1>2, <1>8, <2>2 DEF SweepTick
  <2> QED BY <2>1, <2>2
<1>9. CASE OverlayNext
  <2>1. UNCHANGED <<toasts, sweep, dnd, until>> BY <1>9 DEF OverlayNext, lists, quiet
  <2>2. PICK id \in IdsIn(toasts), a \in Answers \cup {"dismiss"} :
           exits' = exits \cup {<<id, a>>}
    BY <1>9 DEF OverlayNext, RequestDismiss, RequestExit
  <2>3. SweepRuns' BY <1>0, <2>1 DEF ExitInv, SweepRuns
  <2>4. exits' \subseteq IdsIn(toasts') \X (Answers \cup {"dismiss"})
    BY <1>0, <2>1, <2>2 DEF ExitInv
  <2>5. Answers' = Answers BY DEF Answers
  <2> QED BY <1>0, <2>1, <2>3, <2>4, <2>5 DEF ExitInv
<1>10. CASE ExitNext \/ CenterNext
  <2>1. UNCHANGED <<dnd, until>> BY <1>10 DEF ExitNext, CenterNext, quiet
  <2>2. SyncModels \/ UNCHANGED <<toasts, sweep, exits>>
    BY <1>0, <1>10, UserThinned DEF UserNext, lists
  <2> QED BY <1>2, <1>3, <2>1, <2>2
<1>11. CASE ShellNext
  <2>1. CASE ToggleDnd
    <3>1. CASE dnd /\ silenced = 0
      <4>1. /\ toasts' = EndDnd(toasts) /\ dnd' = FALSE /\ UNCHANGED <<sweep, exits>>
        BY <2>1, <3>1 DEF ToggleDnd, SetDnd
      <4>2. toasts' = toasts BY <3>1, <4>1 DEF EndDnd
      <4>3. NeedSweep(toasts, dnd', until') => NeedSweep(toasts, dnd, until)
        BY <4>1 DEF NeedSweep
      <4> QED BY <1>0, <4>1, <4>2, <4>3, StandAt
    <3>2. CASE ~(dnd /\ silenced = 0) BY <1>2, <2>1, <3>2 DEF ToggleDnd
    <3> QED BY <3>1, <3>2
  <2>2. CASE SetDndTimed
    <3>1. CASE dnd
      <4>1. sweep' = TRUE /\ UNCHANGED <<toasts, exits>>
        BY <2>2, <3>1 DEF SetDndTimed, SetDnd
      <4>2. Answers' = Answers /\ IdsIn(toasts') = IdsIn(toasts) BY <4>1 DEF Answers
      <4> QED BY <1>0, <4>1, <4>2 DEF ExitInv, SweepRuns
    <3>2. CASE ~dnd BY <1>2, <2>2, <3>2 DEF SetDndTimed
    <3> QED BY <3>1, <3>2
  <2>3. CASE SetDndUntilOff
    <3>1. CASE dnd
      <4>1. until' = "none" /\ UNCHANGED <<toasts, sweep, exits>>
        BY <2>3, <3>1 DEF SetDndUntilOff, SetDnd
      <4>2. NeedSweep(toasts, dnd', until') => NeedSweep(toasts, dnd, until)
        BY <4>1 DEF NeedSweep
      <4> QED BY <1>0, <4>1, <4>2, StandAt
    <3>2. CASE ~dnd BY <1>2, <2>3, <3>2 DEF SetDndUntilOff
    <3> QED BY <3>1, <3>2
  <2>4. CASE TakeoverOff BY <1>2, <2>4 DEF TakeoverOff
  <2>5. CASE TakeoverOn
    <3>1. CASE toasts = <<>>
      <4>1. UNCHANGED <<toasts, sweep, exits, dnd, until>>
        BY <2>5, <3>1 DEF TakeoverOn, quiet
      <4> QED BY <1>3, <4>1
    <3>2. CASE toasts # <<>> BY <1>2, <2>5, <3>2 DEF TakeoverOn
    <3> QED BY <3>1, <3>2
  <2>6. CASE Reload
    <3>1. toasts' = <<>> /\ until' = "none" /\ sweep' = FALSE /\ exits' = {}
      BY <2>6 DEF Reload
    <3>2. DOMAIN <<>> = {} OBVIOUS
    <3>3. ~NeedSweep(toasts', dnd', until') BY <3>1, <3>2 DEF NeedSweep
    <3> QED BY <3>1, <3>3 DEF ExitInv, SweepRuns
  <2> QED BY <1>11, <2>1, <2>2, <2>3, <2>4, <2>5, <2>6 DEF ShellNext
<1> QED BY <1>4, <1>5, <1>6, <1>7, <1>8, <1>9, <1>10, <1>11 DEF Next

-----------------------------------------------------------------------------
(* What the server and the shell hold.                                     *)

(* What arrives drives the listed ones out of the server.                  *)
DrivesOut(id, hints, out) ==
    /\ tracked' = [i \in (Tracked \cup {id}) \ (out \cap live) |-> Track(id, hints)[i]]
    /\ live' = GcLive(IF out \cap live = {} THEN live \cup {id} ELSE live \ (out \cup {id}),
                      history', toasts')
    /\ out # {} => Len(history) = MaxHistory

(* Where a notification that is new gets listed, and what it drives out.   *)
LEMMA IngestIds ==
    ASSUME ListInv, NEW id \in Ids, NEW hints \in Kinds, NEW carry \in BOOLEAN,
           IngestNew(id, hints, carry)
    PROVE  /\ Listed' \subseteq Listed \cup {id}
           /\ \E out \in SUBSET (Listed \cup {id}) : DrivesOut(id, hints, out)
<1> DEFINE lasting == "transient" \notin hints
           read == carry \/ "feedback" \in hints
           e == Item(id, hints, read)
           h == IF lasting THEN Append(history, e) ELSE history
           l == Last(h, MaxHistory)
           out == IdsIn(h) \ IdsIn(l)
           left == Without(toasts, out)
           t == Append(left, Toast(id, hints))
<1>1. /\ history \in Seq(Items) /\ toasts \in Seq(Toasts) /\ Distinct(toasts)
      /\ Len(history) <= MaxHistory /\ Len(history) \in Nat /\ MaxHistory \in Nat
  BY LimitsAssumption DEF ListInv, Lists
<1>2. read \in BOOLEAN OBVIOUS
<1> HIDE DEF read
<1>3. e \in Items /\ e.id = id /\ Toast(id, hints) \in Toasts /\ Toast(id, hints).id = id
  BY <1>2, EntryTypes
<1>4. /\ history' = l /\ toasts' \in {left, Capped(t)}
      /\ tracked' = [i \in (Tracked \cup {id}) \ (out \cap live) |-> Track(id, hints)[i]]
      /\ live' = GcLive(IF out \cap live = {} THEN live \cup {id}
                        ELSE live \ (out \cup {id}), history', toasts')
  BY DEF IngestNew, read
<1>5. h \in {history, Append(history, e)} OBVIOUS
<1> HIDE DEF e, h
<1>6. h \in Seq(Items) /\ IdsIn(h) \subseteq IdsIn(history) \cup {id}
      /\ Len(h) <= Len(history) + 1 /\ Len(h) \in Nat
  <2>1. CASE h = history BY <1>1, <2>1
  <2>2. CASE h = Append(history, e)
    <3> DEFINE n == Len(history) + 1
    <3>1. /\ DOMAIN h = DOMAIN history \cup {n} /\ h[n] = e /\ h \in Seq(Items)
          /\ Len(h) = n /\ n \in Nat /\ \A i \in DOMAIN history : h[i] = history[i]
      BY <1>1, <1>3, <2>2, AppendAt
    <3> HIDE DEF n
    <3>2. IdsIn(h) \subseteq IdsIn(history) \cup {id} BY <1>3, <3>1 DEF IdsIn
    <3> QED BY <3>1, <3>2 DEF n
  <2> QED BY <1>5, <2>1, <2>2
<1>7. /\ l \in Seq(Items) /\ IdsIn(l) \subseteq IdsIn(h)
      /\ Len(h) <= MaxHistory => l = h
  <2>1. l \in Seq(Items) /\ Within(l, h) /\ (Len(h) <= MaxHistory => l = h)
    BY <1>1, <1>6, LastAt
  <2> QED BY <1>6, <2>1, WithinIds
<1> HIDE DEF l
<1>8. out # {} => Len(history) = MaxHistory
  <2>1. out # {} => ~(Len(h) <= MaxHistory) BY <1>7
  <2> QED BY <1>1, <1>6, <2>1
<1>9. out \subseteq Listed \cup {id} BY <1>6 DEF Listed
<1> HIDE DEF out
<1>10. left \in Seq(Toasts) /\ IdsIn(left) \subseteq IdsIn(toasts)
  BY <1>1, WithoutAt
<1> HIDE DEF left
<1>11. t \in Seq(Toasts) /\ IdsIn(t) \subseteq IdsIn(toasts) \cup {id}
  <2> DEFINE n == Len(left) + 1
  <2>1. /\ DOMAIN t = DOMAIN left \cup {n} /\ t[n] = Toast(id, hints) /\ t \in Seq(Toasts)
        /\ \A i \in DOMAIN left : t[i] = left[i]
    BY <1>3, <1>10, AppendAt
  <2> HIDE DEF n, t
  <2>2. IdsIn(t) \subseteq IdsIn(left) \cup {id} BY <1>3, <2>1 DEF IdsIn
  <2> QED BY <1>10, <2>1, <2>2
<1> HIDE DEF t
<1>12. IdsIn(Capped(t)) \subseteq IdsIn(t)
  <2>1. Capped(t) \in Seq(Toasts) /\ Within(Capped(t), t) BY <1>11, CappedAt
  <2> QED BY <1>11, <2>1, WithinIds
<1>13. IdsIn(toasts') \subseteq IdsIn(toasts) \cup {id} BY <1>4, <1>10, <1>11, <1>12
<1>14. IdsIn(history') \subseteq IdsIn(history) \cup {id} BY <1>4, <1>6, <1>7
<1>15. Listed' \subseteq Listed \cup {id} BY <1>13, <1>14 DEF Listed
<1>16. DrivesOut(id, hints, out) BY <1>4, <1>8 DEF DrivesOut
<1> QED BY <1>9, <1>15, <1>16

(* The server forgets what is closed, and keeps the hints of the rest.     *)
LEMMA UntrackAt ==
    ASSUME HeldInv, NEW ids, tracked' = Untrack(ids)
    PROVE  Tracked' \subseteq Ids' /\ \A i \in Tracked' : tracked'[i] \in Kinds
BY DEF HeldInv, Untrack, Tracked, Ids

(* What holds of them after a step in which nothing is to be handed over.  *)
LEMMA HeldAt ==
    ASSUME HeldInv, carried = {}, UNCHANGED carried,
           \/ \E ids : tracked' = Untrack(ids)
           \/ UNCHANGED tracked
           \/ \E id \in Ids, hints \in Kinds : tracked' = Track(id, hints),
           live' \subseteq Ids, told' \in Ids \cup {0}
    PROVE  HeldInv'
<1>1. Ids' = Ids BY DEF Ids
<1>2. Tracked' \subseteq Ids /\ \A i \in Tracked' : tracked'[i] \in Kinds
  <2>1. ASSUME NEW ids, tracked' = Untrack(ids)
        PROVE  Tracked' \subseteq Ids /\ \A i \in Tracked' : tracked'[i] \in Kinds
    BY <1>1, <2>1, UntrackAt
  <2>2. ASSUME UNCHANGED tracked
        PROVE  Tracked' \subseteq Ids /\ \A i \in Tracked' : tracked'[i] \in Kinds
    BY <2>2 DEF HeldInv, Tracked
  <2>3. ASSUME NEW id \in Ids, NEW hints \in Kinds, tracked' = Track(id, hints)
        PROVE  Tracked' \subseteq Ids /\ \A i \in Tracked' : tracked'[i] \in Kinds
    BY <2>3 DEF HeldInv, Track, Tracked
  <2> QED BY <2>1, <2>2, <2>3
<1> QED BY <1>1, <1>2 DEF HeldInv

(* What the user does closes what it closes, and tells at most one         *)
(* application, that of a live object.                                     *)
LEMMA UserHeld ==
    ASSUME HeldInv, ExitInv, UserNext
    PROVE  /\ (\E ids : tracked' = Untrack(ids)) \/ UNCHANGED tracked
           /\ live' \subseteq live /\ told' \in live \cup {0}
<1> DEFINE G == /\ (\E ids : tracked' = Untrack(ids)) \/ UNCHANGED tracked
                /\ live' \subseteq live /\ told' \in live \cup {0}
<1>1. ASSUME NEW ids, Close(ids)
      PROVE  (\E ids2 : tracked' = Untrack(ids2)) /\ live' \subseteq live
  BY <1>1 DEF Close, GcLive
<1>2. ASSUME NEW id, DismissToast(id) PROVE G
  <2>1. told' = 0 /\ \E ids : Close(ids) BY <1>2 DEF DismissToast, Silent
  <2> QED BY <1>1, <2>1
<1>3. ASSUME NEW id, NEW ident, InvokeAction(id, ident) PROVE G
  <2>1. told' \in live \cup {0} /\ \E ids : Close(ids) BY <1>3 DEF InvokeAction
  <2> QED BY <1>1, <2>1
<1>4. ASSUME NEW id, DismissNotification(id) PROVE G
  BY <1>1, <1>4 DEF DismissNotification, Silent
<1>5. ASSUME NEW id, InvokeDefaultAction(id) PROVE G
  BY <1>3, <1>4, <1>5 DEF InvokeDefaultAction
<1>6. ASSUME NEW id, SendInlineReply(id) PROVE G
  <2>1. told' \in live \cup {0} BY <1>6 DEF SendInlineReply
  <2>2. (\E ids : Close(ids)) \/ UNCHANGED <<live, tracked>> BY <1>6 DEF SendInlineReply
  <2> QED BY <1>1, <2>1, <2>2
<1>7. ASSUME MarkAllRead PROVE G BY <1>7 DEF MarkAllRead, Silent
<1>8. ASSUME ClearAll PROVE G BY <1>8 DEF ClearAll, Silent, GcLive
<1>9. ASSUME NEW ids, ClearApp(ids) PROVE G
  <2>1. told' = 0 /\ Close(ids \cap IdsIn(history)) BY <1>9 DEF ClearApp, Silent
  <2> QED BY <1>1, <2>1
<1> HIDE DEF G
<1>10. ExitNext => G
  <2> SUFFICES ASSUME NEW x \in exits, ExitDone(x) PROVE G BY DEF ExitNext
  <2>1. x[2] \in {"default", "button", "reply", "dismiss"} BY DEF ExitInv, Answers
  <2> QED BY <1>2, <1>3, <1>5, <1>6, <2>1 DEF ExitDone
<1>11. CenterNext => G
  BY <1>3, <1>4, <1>5, <1>6, <1>7, <1>8, <1>9 DEF CenterNext
<1> QED BY <1>10, <1>11 DEF UserNext, G

(* A notification the server still has to hand over is not listed before.  *)
LEMMA HeldStep ==
    ASSUME NotifInv, Next
    PROVE  HeldInv'
<1>0. ListInv /\ HeldInv /\ QuietInv /\ ExitInv BY DEF NotifInv
<1>1. Ids' = Ids /\ live \subseteq Ids BY <1>0 DEF Ids, HeldInv
<1>2. CASE HandOver
  <2>1. PICK id \in carried : carried' = carried \ {id} /\ IngestNew(id, tracked[id], TRUE)
    BY <1>2 DEF HandOver
  <2>2. /\ id \in Ids /\ id \in Tracked /\ tracked[id] \in Kinds /\ told' = 0
        /\ carried \subseteq Tracked /\ carried \cap Listed = {} /\ Tracked \subseteq Ids
        /\ \A i \in Tracked : tracked[i] \in Kinds
    BY <1>0, <1>2, <2>1 DEF HeldInv, HandOver, Silent
  <2>3. Listed' \subseteq Listed \cup {id} BY <1>0, <2>1, <2>2, IngestIds
  <2>4. PICK out \in SUBSET (Listed \cup {id}) : DrivesOut(id, tracked[id], out)
    <3>1. TRUE \in BOOLEAN OBVIOUS
    <3> QED BY <1>0, <2>1, <2>2, <3>1, IngestIds
  <2>5. Tracked' = (Tracked \cup {id}) \ (out \cap live) BY <2>4 DEF Tracked, DrivesOut
  <2>6. \A i \in Tracked' : tracked'[i] \in Kinds
    <3> SUFFICES ASSUME NEW i \in Tracked' PROVE tracked'[i] \in Kinds OBVIOUS
    <3>1. i \in Tracked \cup {id} /\ tracked'[i] = Track(id, tracked[id])[i]
      BY <2>4, <2>5 DEF DrivesOut
    <3>2. Track(id, tracked[id])[i] = tracked[i] BY <2>2, <3>1 DEF Track
    <3> QED BY <2>2, <3>1, <3>2
  <2>7. live' \subseteq Ids BY <1>1, <2>2, <2>4 DEF GcLive, DrivesOut
  <2>8. carried' \subseteq Tracked' /\ carried' \cap Listed' = {}
    BY <2>1, <2>2, <2>3, <2>5
  <2> QED BY <1>1, <2>2, <2>5, <2>6, <2>7, <2>8 DEF HeldInv
<1>3. CASE ToastClock \/ DndClock
  <2>1. /\ carried = {} /\ UNCHANGED <<carried, tracked, live>> /\ told' = 0
    BY <1>3 DEF ToastClock, DndClock, OthersStand, Silent
  <2> QED BY <1>0, <1>1, <2>1, HeldAt
<1>4. ASSUME carried = {}, AppNext PROVE HeldInv'
  <2>1. ASSUME NEW id \in Ids, NEW hints \in Kinds, Notify(id, hints) PROVE HeldInv'
    <3>1. UNCHANGED carried /\ told' = 0 BY <2>1 DEF Notify, Silent
    <3>2. CASE id \in Listed
      <4>1. tracked' = Track(id, hints) /\ live' \subseteq live \cup {id}
        BY <2>1, <3>2 DEF Notify, Update, GcLive
      <4> QED BY <1>0, <1>1, <1>4, <3>1, <4>1, HeldAt
    <3>3. CASE id \notin Listed
      <4>1. IngestNew(id, hints, FALSE) BY <2>1, <3>3 DEF Notify
      <4>2. PICK out \in SUBSET (Listed \cup {id}) : DrivesOut(id, hints, out)
        <5>1. FALSE \in BOOLEAN OBVIOUS
        <5> QED BY <1>0, <4>1, <5>1, IngestIds
      <4>3. Tracked' = (Tracked \cup {id}) \ (out \cap live) BY <4>2 DEF Tracked, DrivesOut
      <4>4. Tracked' \subseteq Ids BY <1>0, <4>3 DEF HeldInv
      <4>5. \A i \in Tracked' : tracked'[i] \in Kinds
        <5> SUFFICES ASSUME NEW i \in Tracked' PROVE tracked'[i] \in Kinds OBVIOUS
        <5>1. i \in Tracked \cup {id} /\ tracked'[i] = Track(id, hints)[i]
          BY <4>2, <4>3 DEF DrivesOut
        <5>2. Track(id, hints)[i] \in {hints, tracked[i]} BY <5>1 DEF Track
        <5>3. i # id => i \in Tracked /\ tracked[i] \in Kinds
          BY <1>0, <5>1 DEF HeldInv
        <5>4. i = id => Track(id, hints)[i] = hints BY <5>1 DEF Track
        <5> QED BY <5>1, <5>2, <5>3, <5>4
      <4>6. live' \subseteq Ids BY <1>1, <4>2 DEF GcLive, DrivesOut
      <4>7. carried' = {} BY <1>4, <3>1
      <4> QED BY <1>1, <3>1, <4>4, <4>5, <4>6, <4>7 DEF HeldInv
    <3> QED BY <3>2, <3>3
  <2>2. ASSUME NEW id \in Ids, AppCloses(id) PROVE HeldInv'
    <3>1. /\ UNCHANGED carried /\ told' = 0 /\ tracked' = Untrack({id})
          /\ live' \subseteq live
      BY <2>2 DEF AppCloses, Silent, GcLive
    <3> QED BY <1>0, <1>1, <1>4, <3>1, HeldAt
  <2> QED BY <1>4, <2>1, <2>2 DEF AppNext
<1>5. ASSUME carried = {}, SweepTick PROVE HeldInv'
  <2>1. UNCHANGED carried /\ told' = 0 BY <1>5 DEF SweepTick, Silent
  <2>2. \E ts : Expire(ts) BY <1>5 DEF SweepTick
  <2>3. (\E ids : tracked' = Untrack(ids)) /\ live' \subseteq live
    BY <2>2 DEF Expire, GcLive
  <2> QED BY <1>0, <1>1, <1>5, <2>1, <2>3, HeldAt
<1>6. ASSUME carried = {}, OverlayNext PROVE HeldInv'
  <2>1. UNCHANGED <<carried, tracked, live>> /\ told' = 0 BY <1>6 DEF OverlayNext, Silent
  <2> QED BY <1>0, <1>1, <1>6, <2>1, HeldAt
<1>7. ASSUME carried = {}, UserNext PROVE HeldInv'
  <2>1. UNCHANGED carried BY <1>7 DEF UserNext, ExitNext, CenterNext
  <2>2. /\ (\E ids : tracked' = Untrack(ids)) \/ UNCHANGED tracked
        /\ live' \subseteq Ids /\ told' \in Ids \cup {0}
    BY <1>0, <1>1, <1>7, UserHeld
  <2> QED BY <1>0, <1>7, <2>1, <2>2, HeldAt
<1>8. ASSUME carried = {}, ShellNext PROVE HeldInv'
  <2>1. CASE ToggleDnd \/ SetDndTimed \/ SetDndUntilOff \/ TakeoverOn
    <3>1. UNCHANGED <<carried, tracked, live>> /\ told' = 0
      BY <2>1 DEF ToggleDnd, SetDndTimed, SetDndUntilOff, SetDnd, TakeoverOn, Silent
    <3> QED BY <1>0, <1>1, <1>8, <3>1, HeldAt
  <2>2. CASE TakeoverOff
    <3>1. /\ carried' = {} /\ told' = 0 /\ tracked' = <<>> /\ live' = {}
      BY <1>8, <2>2 DEF TakeoverOff, Silent
    <3>2. Tracked' = {} BY <3>1 DEF Tracked
    <3> QED BY <3>1, <3>2 DEF HeldInv
  <2>3. CASE Reload
    <3>1. /\ carried' = Tracked /\ told' = 0 /\ UNCHANGED tracked /\ live' = {}
          /\ history' = <<>> /\ toasts' = <<>>
      BY <2>3 DEF Reload, Silent
    <3>2. Tracked' = Tracked BY <3>1 DEF Tracked
    <3>3. Listed' = {}
      <4>1. DOMAIN <<>> = {} OBVIOUS
      <4>2. history' = <<>> /\ toasts' = <<>> BY <3>1
      <4> QED BY <4>1, <4>2 DEF Listed, IdsIn
    <3> QED BY <1>0, <1>1, <3>1, <3>2, <3>3 DEF HeldInv
  <2> QED BY <1>8, <2>1, <2>2, <2>3 DEF ShellNext
<1> QED BY <1>2, <1>3, <1>4, <1>5, <1>6, <1>7, <1>8 DEF Next, UserNext

-----------------------------------------------------------------------------
(* The theorems.                                                           *)

(* An empty centre, whose timer has nothing to wait for.                   *)
LEMMA InitInv == Init => NotifInv
<1> SUFFICES ASSUME Init PROVE NotifInv
  OBVIOUS
<1>1. /\ <<>> \in Seq(Items) /\ <<>> \in Seq(Toasts) /\ DOMAIN <<>> = {} /\ Len(<<>>) = 0
  OBVIOUS
<1>2. /\ MaxDeliveries \in Nat /\ MaxReloads \in Nat
      /\ MaxHistory \in Nat \ {0} /\ MaxToasts \in Nat
  BY BoundsAssumption, LimitsAssumption
<1>3. ListInv
  <2>1. Lists(<<>>, <<>>) BY <1>1 DEF Lists, Distinct, Agree
  <2>2. Unread(<<>>) = 0 BY <1>1, UnreadAt
  <2>3. history = <<>> /\ toasts = <<>> /\ unread = 0 BY DEF Init
  <2>4. unread - Unread(history) = 0 BY <2>2, <2>3
  <2>5. unread \in 0 .. MaxDeliveries BY <1>2, <2>3
  <2>6. Len(history) <= MaxHistory /\ Len(toasts) <= MaxToasts BY <1>1, <1>2, <2>3
  <2> QED BY <2>1, <2>3, <2>4, <2>5, <2>6 DEF ListInv, UnreadExact
<1>4. ExitInv
  <2>1. toasts = <<>> /\ dnd = FALSE /\ sweep = FALSE /\ exits = {} BY DEF Init
  <2>2. ~NeedSweep(toasts, dnd, until) BY <1>1, <2>1 DEF NeedSweep
  <2> QED BY <2>1, <2>2 DEF ExitInv, SweepRuns
<1>5. HeldInv BY <1>1 DEF Init, HeldInv, Tracked
<1>6. QuietInv
  <2>1. 0 \in 0 .. 0 /\ 0 \in 0 .. MaxDeliveries /\ 0 \in 0 .. MaxReloads BY <1>2
  <2>2. deliveries = 0 /\ silenced = 0 /\ reloads = 0 BY DEF Init
  <2>3. dnd = FALSE /\ takeover = TRUE /\ until = "none" BY DEF Init
  <2> QED BY <2>1, <2>2, <2>3 DEF QuietInv
<1> QED BY <1>3, <1>4, <1>5, <1>6 DEF NotifInv

(* The invariant, of which all that follows is a part.                     *)
LEMMA Invariant == Spec => []NotifInv
<1>1. NotifInv /\ Next => NotifInv'
  BY ListStep, ExitStep, HeldStep, QuietStep DEF NotifInv
<1>2. NotifInv /\ UNCHANGED vars => NotifInv'
  <2> SUFFICES ASSUME NotifInv, UNCHANGED vars PROVE NotifInv'
    OBVIOUS
  <2>1. ListInv' BY DEF NotifInv, ListInv, UnreadExact, vars, lists
  <2>2. ExitInv'
    BY DEF NotifInv, ExitInv, SweepRuns, NeedSweep, Answers, vars, lists, quiet
  <2>3. HeldInv' BY DEF NotifInv, HeldInv, Tracked, Listed, Ids, vars, lists
  <2>4. QuietInv' BY DEF NotifInv, QuietInv, vars, quiet
  <2> QED BY <2>1, <2>2, <2>3, <2>4 DEF NotifInv
<1> QED BY InitInv, <1>1, <1>2, PTL DEF Spec

(* Every handler stores what it may, and no list grows beyond its limit.   *)
THEOREM NotificationsTypeCorrect == Spec => []TypeOK
<1>1. NotifInv => TypeOK
  <2> SUFFICES ASSUME NotifInv PROVE TypeOK
    OBVIOUS
  <2>1. silenced \in 0 .. MaxDeliveries
    <3>1. deliveries \in 0 .. MaxDeliveries /\ silenced \in 0 .. deliveries
      BY DEF NotifInv, QuietInv
    <3>2. MaxDeliveries \in Nat BY BoundsAssumption
    <3> QED BY <3>1, <3>2
  <2>2. /\ history \in Seq(Items) /\ toasts \in Seq(Toasts)
        /\ Len(history) <= MaxHistory /\ Len(toasts) <= MaxToasts
        /\ unread \in 0 .. MaxDeliveries
    BY DEF NotifInv, ListInv, Lists
  <2>3. /\ sweep \in BOOLEAN
        /\ exits \subseteq IdsIn(toasts) \X (Answers \cup {"dismiss"})
    BY DEF NotifInv, ExitInv
  <2>4. /\ dnd \in BOOLEAN /\ takeover \in BOOLEAN
        /\ until \in {"none", "running", "passed"}
        /\ deliveries \in 0 .. MaxDeliveries /\ reloads \in 0 .. MaxReloads
    BY DEF NotifInv, QuietInv
  <2>5. /\ Tracked \subseteq Ids /\ \A id \in Tracked : tracked[id] \in Kinds
        /\ live \subseteq Ids /\ carried \subseteq Tracked /\ told \in Ids \cup {0}
    BY DEF NotifInv, HeldInv
  <2> QED BY <2>1, <2>2, <2>3, <2>4, <2>5 DEF TypeOK, Items, Toasts
<1> QED BY <1>1, Invariant, PTL

(* The counter on the bar, kept up here and counted again there, is the    *)
(* number of unread entries, or one more when the history is full.         *)
THEOREM UnreadCounted == Spec => []UnreadExact
<1>1. NotifInv => UnreadExact BY DEF NotifInv, ListInv
<1> QED BY <1>1, Invariant, PTL

(* The timer that expires toasts and ends Do Not Disturb never stands      *)
(* still while there is something for it to do.                            *)
THEOREM SweepAlwaysRuns == Spec => []SweepRuns
<1>1. NotifInv => SweepRuns BY DEF NotifInv, ExitInv
<1> QED BY <1>1, Invariant, PTL

(* What the overlay and the popup show is in one order.                    *)
THEOREM OneOrder == Spec => []OrdersAgree
<1>1. NotifInv => OrdersAgree BY DEF NotifInv, ListInv, Lists, Agree, OrdersAgree
<1> QED BY <1>1, Invariant, PTL

-----------------------------------------------------------------------------
(* What is listed can be answered.                                         *)

(* Whoever stays listed, and with the server, keeps a live object.         *)
Kept == \A id \in Listed \cap Listed' \cap Tracked' \cap live : id \in live'

(* Whoever gets listed has one, unless the history is full.                *)
Fresh ==
    \A id \in Tracked' \cap Listed' :
        id \in Listed \/ id \in live' \/ Len(history) = MaxHistory

(* What lists nothing leaves ids that were listed.                         *)
LEMMA ThinnedIds ==
    ASSUME ListInv, NEW ts \in Seq(Toasts), Thinned(ts)
    PROVE  Listed' \subseteq IdsIn(history) \cup IdsIn(ts)
<1>1. history \in Seq(Items) BY DEF ListInv, Lists
<1>2. /\ history' \in Seq(Items) /\ Within(history', history)
      /\ toasts' \in Seq(Toasts) /\ Within(toasts', ts)
  BY DEF Thinned
<1>3. IdsIn(history') \subseteq IdsIn(history) BY <1>1, <1>2, WithinIds
<1>4. IdsIn(toasts') \subseteq IdsIn(ts) BY <1>2, WithinIds
<1> QED BY <1>3, <1>4 DEF Listed

(* The summary of Do Not Disturb is not the server's.                      *)
LEMMA EndDndIds ==
    ASSUME ListInv, deliveries \in Nat
    PROVE  EndDnd(toasts) \in Seq(Toasts) /\ IdsIn(EndDnd(toasts)) \cap Ids \subseteq Listed
<1> DEFINE a == Append(toasts, Summary)
           n == Len(toasts) + 1
<1>1. toasts \in Seq(Toasts) BY DEF ListInv, Lists
<1>2. Summary \in Toasts /\ Summary.id \notin Ids
  <2>1. Summary = [id |-> -deliveries, hints |-> {"transient"}, due |-> FALSE]
    BY DEF Summary, Toast
  <2>2. -deliveries \in Int /\ -deliveries \notin Ids BY DEF Ids
  <2> QED BY <2>1, <2>2 DEF Toasts
<1>3. /\ a \in Seq(Toasts) /\ DOMAIN a = DOMAIN toasts \cup {n} /\ a[n] = Summary
      /\ \A i \in DOMAIN toasts : a[i] = toasts[i]
  BY <1>1, <1>2, AppendAt
<1> HIDE DEF a, n
<1>4. IdsIn(a) \cap Ids \subseteq IdsIn(toasts) BY <1>2, <1>3 DEF IdsIn
<1>5. Capped(a) \in Seq(Toasts) /\ IdsIn(Capped(a)) \subseteq IdsIn(a)
  <2>1. Capped(a) \in Seq(Toasts) /\ Within(Capped(a), a) BY <1>3, CappedAt
  <2> QED BY <1>3, <2>1, WithinIds
<1>6. EndDnd(toasts) \in {toasts, Capped(a)} BY DEF EndDnd, a
<1> QED BY <1>1, <1>4, <1>5, <1>6 DEF Listed

(* What replaces a listed notification is listed for it.                   *)
LEMMA UpdateIds ==
    ASSUME ListInv, NEW id \in Ids, id \in Listed, NEW hints \in Kinds, Update(id, hints)
    PROVE  Listed' \subseteq Listed
<1> DEFINE hw == Without(history, {id})
           tw == Without(toasts, {id})
           e == Item(id, hints, FALSE)
           f == Toast(id, hints)
           h == Append(hw, e)
           t == Append(tw, f)
<1>1. history \in Seq(Items) /\ toasts \in Seq(Toasts) BY DEF ListInv, Lists
<1>2. hw \in Seq(Items) /\ IdsIn(hw) \subseteq IdsIn(history) BY <1>1, WithoutAt
<1>3. tw \in Seq(Toasts) /\ IdsIn(tw) \subseteq IdsIn(toasts) BY <1>1, WithoutAt
<1>4. e \in Items /\ e.id = id /\ f \in Toasts /\ f.id = id BY EntryTypes
<1>5. history' \in {h, history} /\ toasts' \in {Capped(t), toasts} BY DEF Update
<1> HIDE DEF hw, tw, e, f
<1>6. IdsIn(h) \subseteq IdsIn(hw) \cup {id}
  <2> DEFINE n == Len(hw) + 1
  <2>1. /\ DOMAIN h = DOMAIN hw \cup {n} /\ h[n] = e /\ \A i \in DOMAIN hw : h[i] = hw[i]
    BY <1>2, <1>4, AppendAt
  <2> HIDE DEF n, h
  <2> QED BY <1>4, <2>1 DEF IdsIn
<1>7. t \in Seq(Toasts) /\ IdsIn(t) \subseteq IdsIn(tw) \cup {id}
  <2> DEFINE n == Len(tw) + 1
  <2>1. /\ DOMAIN t = DOMAIN tw \cup {n} /\ t[n] = f /\ t \in Seq(Toasts)
        /\ \A i \in DOMAIN tw : t[i] = tw[i]
    BY <1>3, <1>4, AppendAt
  <2> HIDE DEF n, t
  <2> QED BY <1>4, <2>1 DEF IdsIn
<1> HIDE DEF h, t
<1>8. IdsIn(Capped(t)) \subseteq IdsIn(t)
  <2>1. Capped(t) \in Seq(Toasts) /\ Within(Capped(t), t) BY <1>7, CappedAt
  <2> QED BY <1>7, <2>1, WithinIds
<1> QED BY <1>2, <1>3, <1>5, <1>6, <1>7, <1>8 DEF Listed

(* What the server closes it no longer tracks.                             *)
LEMMA CloseKept ==
    ASSUME Listed' \subseteq Listed, NEW ids, Close(ids)
    PROVE  Kept
<1> SUFFICES ASSUME NEW id \in Listed, id \in Listed', id \in Tracked', id \in live
             PROVE  id \in live'
  BY DEF Kept
<1>1. id \notin ids BY DEF Close, Untrack, Tracked
<1> QED BY <1>1 DEF Close, GcLive, Listed

(* The user takes no object from what stays.                               *)
LEMMA UserKept ==
    ASSUME ListInv, ExitInv, UserNext
    PROVE  Listed' \subseteq Listed /\ Kept
<1>1. Listed' \subseteq Listed
  <2>1. toasts \in Seq(Toasts) BY DEF ListInv, Lists
  <2> QED BY <2>1, UserThinned, ThinnedIds DEF Listed
<1>2. ASSUME NEW ids, Close(ids) PROVE Kept BY <1>1, <1>2, CloseKept
<1>3. ASSUME UNCHANGED live PROVE Kept BY <1>3 DEF Kept
<1>4. ASSUME NEW id, DismissToast(id) PROVE Kept BY <1>2, <1>4 DEF DismissToast
<1>5. ASSUME NEW id, NEW ident, InvokeAction(id, ident) PROVE Kept
  BY <1>2, <1>5 DEF InvokeAction
<1>6. ASSUME NEW id, DismissNotification(id) PROVE Kept
  BY <1>2, <1>6 DEF DismissNotification
<1>7. ASSUME NEW id, InvokeDefaultAction(id) PROVE Kept
  BY <1>5, <1>6, <1>7 DEF InvokeDefaultAction
<1>8. ASSUME NEW id, SendInlineReply(id) PROVE Kept
  <2>1. (\E ids : Close(ids)) \/ UNCHANGED live BY <1>8 DEF SendInlineReply
  <2> QED BY <1>2, <1>3, <2>1
<1>9. ASSUME MarkAllRead PROVE Kept BY <1>3, <1>9 DEF MarkAllRead
<1>10. ASSUME ClearAll PROVE Kept
  <2>1. DOMAIN <<>> = {} OBVIOUS
  <2>2. history' = <<>> /\ toasts' = <<>> BY <1>10 DEF ClearAll
  <2>3. Listed' = {} BY <2>1, <2>2 DEF Listed, IdsIn
  <2> QED BY <2>3 DEF Kept
<1>11. ASSUME NEW ids, ClearApp(ids) PROVE Kept BY <1>2, <1>11 DEF ClearApp
<1>12. ExitNext => Kept
  <2> SUFFICES ASSUME NEW x \in exits, ExitDone(x) PROVE Kept BY DEF ExitNext
  <2>1. x[2] \in {"default", "button", "reply", "dismiss"} BY DEF ExitInv, Answers
  <2> QED BY <1>4, <1>5, <1>7, <1>8, <2>1 DEF ExitDone
<1>13. CenterNext => Kept
  BY <1>5, <1>6, <1>7, <1>8, <1>9, <1>10, <1>11 DEF CenterNext
<1> QED BY <1>1, <1>12, <1>13 DEF UserNext

(* A notification that is new may drive others out, but takes no object    *)
(* from what stays.                                                        *)
LEMMA IngestKept ==
    ASSUME ListInv, NEW id \in Ids, id \notin Listed, NEW hints \in Kinds,
           NEW carry \in BOOLEAN, IngestNew(id, hints, carry)
    PROVE  Kept /\ Fresh
<1>1. Listed' \subseteq Listed \cup {id} BY IngestIds
<1>2. PICK out \in SUBSET (Listed \cup {id}) : DrivesOut(id, hints, out) BY IngestIds
<1>3. Tracked' = (Tracked \cup {id}) \ (out \cap live) BY <1>2 DEF DrivesOut, Tracked
<1>4. live' = GcLive(IF out \cap live = {} THEN live \cup {id} ELSE live \ (out \cup {id}),
                     history', toasts')
  BY <1>2 DEF DrivesOut
<1>5. live' = (IF out \cap live = {} THEN live \cup {id} ELSE live \ (out \cup {id}))
              \cap Listed'
  BY <1>4 DEF GcLive, Listed
<1>6. Kept BY <1>3, <1>5 DEF Kept
<1>7. out # {} => Len(history) = MaxHistory BY <1>2 DEF DrivesOut
<1>8. Fresh BY <1>1, <1>5, <1>7 DEF Fresh
<1> QED BY <1>6, <1>8

(* Nor does any other handler, whatever _gcLive() follows.                 *)
LEMMA KeptStep ==
    ASSUME NotifInv, Next
    PROVE  Kept /\ Fresh
<1>0. ListInv /\ HeldInv /\ QuietInv /\ ExitInv BY DEF NotifInv
<1>1. /\ toasts \in Seq(Toasts) /\ deliveries \in Nat /\ Lists(history, toasts)
      /\ Len(toasts) <= MaxToasts
  <2>1. MaxDeliveries \in Nat BY BoundsAssumption
  <2> QED BY <1>0, <2>1 DEF ListInv, Lists, QuietInv
<1>2. Tracked' \subseteq Ids
  <2>1. Ids' = Ids BY DEF Ids
  <2> QED BY <2>1, HeldStep DEF HeldInv
<1>3. ASSUME Listed' \cap Ids \subseteq Listed, Kept PROVE Kept /\ Fresh
  BY <1>2, <1>3 DEF Fresh
<1>4. ASSUME Listed' \cap Ids \subseteq Listed, UNCHANGED live PROVE Kept /\ Fresh
  BY <1>3, <1>4 DEF Kept
<1>5. ASSUME history' = <<>>, toasts' = <<>> PROVE Kept /\ Fresh
  <2>1. DOMAIN <<>> = {} OBVIOUS
  <2>2. Listed' = {} BY <1>5, <2>1 DEF Listed, IdsIn
  <2> QED BY <2>2 DEF Kept, Fresh
<1>6. CASE HandOver
  <2>1. PICK id \in carried : IngestNew(id, tracked[id], TRUE) BY <1>6 DEF HandOver
  <2>2. /\ id \in Ids /\ id \notin Listed /\ tracked[id] \in Kinds /\ TRUE \in BOOLEAN
    BY <1>0 DEF HeldInv
  <2> QED BY <1>0, <2>1, <2>2, IngestKept
<1>7. CASE ToastClock
  <2>1. PICK i \in DOMAIN toasts : toasts' = [toasts EXCEPT ![i].due = TRUE]
    BY <1>7 DEF ToastClock, DeadlinePasses
  <2>2. UNCHANGED <<history, live>> BY <1>7 DEF ToastClock, OthersStand
  <2>3. toasts[i] \in Toasts BY <1>1
  <2>4. toasts' = [toasts EXCEPT ![i] = [toasts[i] EXCEPT !.due = TRUE]] BY <2>1
  <2>5. [toasts[i] EXCEPT !.due = TRUE].id = toasts[i].id BY <2>3 DEF Toasts
  <2>6. DOMAIN toasts' = DOMAIN toasts BY <2>4
  <2>7. \A j \in DOMAIN toasts : toasts'[j].id = toasts[j].id BY <1>1, <2>4, <2>5
  <2>8. IdsIn(toasts') \subseteq IdsIn(toasts) BY <2>6, <2>7 DEF IdsIn
  <2>9. Listed' \subseteq Listed BY <2>2, <2>8 DEF Listed
  <2> QED BY <1>4, <2>2, <2>9
<1>8. CASE DndClock \/ OverlayNext
  <2>1. UNCHANGED <<history, toasts, live>>
    BY <1>8 DEF DndClock, DndDeadlinePasses, OthersStand, OverlayNext, lists
  <2> QED BY <1>4, <2>1 DEF Listed
<1>9. CASE AppNext
  <2>1. ASSUME NEW id \in Ids, NEW hints \in Kinds, Notify(id, hints) PROVE Kept /\ Fresh
    <3>1. CASE id \in Listed
      <4>1. Update(id, hints) BY <2>1, <3>1 DEF Notify
      <4>2. Listed' \subseteq Listed BY <1>0, <3>1, <4>1, UpdateIds
      <4>3. live' = (live \cup {id}) \cap Listed' BY <4>1 DEF Update, GcLive, Listed
      <4>4. Kept BY <4>3 DEF Kept
      <4> QED BY <1>3, <4>2, <4>4
    <3>2. CASE id \notin Listed
      <4>1. IngestNew(id, hints, FALSE) /\ FALSE \in BOOLEAN BY <2>1, <3>2 DEF Notify
      <4> QED BY <1>0, <3>2, <4>1, IngestKept
    <3> QED BY <3>1, <3>2
  <2>2. ASSUME NEW id \in Ids, AppCloses(id) PROVE Kept /\ Fresh
    <3>1. /\ history' = Without(history, {id}) /\ toasts' = Without(toasts, {id})
          /\ live' = (live \ {id}) \cap Listed /\ tracked' = Untrack({id})
      BY <2>2 DEF AppCloses, GcLive, Listed
    <3>2. Listed' \subseteq Listed
      <4>1. history \in Seq(Items) BY <1>1 DEF Lists
      <4>2. IdsIn(history') \subseteq IdsIn(history) BY <3>1, <4>1, WithoutAt
      <4>3. IdsIn(toasts') \subseteq IdsIn(toasts) BY <1>1, <3>1, WithoutAt
      <4> QED BY <4>2, <4>3 DEF Listed
    <3>3. id \notin Tracked' BY <3>1 DEF Untrack, Tracked
    <3>4. Kept BY <3>1, <3>2, <3>3 DEF Kept
    <3> QED BY <1>3, <3>2, <3>4
  <2> QED BY <1>9, <2>1, <2>2 DEF AppNext
<1>10. CASE SweepTick
  <2>1. PICK ts \in {toasts, EndDnd(toasts)} : Expire(ts) BY <1>10 DEF SweepTick
  <2>2. UNCHANGED history BY <1>10 DEF SweepTick
  <2>3. ts \in Seq(Toasts) /\ IdsIn(ts) \cap Ids \subseteq Listed
    BY <1>0, <1>1, <2>1, EndDndIds DEF Listed
  <2>4. Thinned(ts) BY <1>0, <2>1, <2>2, <2>3, ExpireThinned
  <2>5. Listed' \subseteq IdsIn(history) \cup IdsIn(ts) BY <1>0, <2>3, <2>4, ThinnedIds
  <2>6. PICK ended : /\ tracked' = Untrack(ended \cap live)
                     /\ live' = IF ended \cap live = {} THEN live
                                ELSE GcLive(live \ ended, history, ts)
    BY <2>1 DEF Expire
  <2>7. \A id \in Tracked' \cap live : id \notin ended BY <2>6 DEF Untrack, Tracked
  <2>8. Kept BY <2>5, <2>6, <2>7 DEF Kept, GcLive
  <2> QED BY <1>3, <2>3, <2>5, <2>8 DEF Listed
<1>11. CASE ExitNext \/ CenterNext
  <2>1. Listed' \subseteq Listed /\ Kept BY <1>0, <1>11, UserKept DEF UserNext
  <2> QED BY <1>3, <2>1
<1>12. CASE ShellNext
  <2>1. CASE ToggleDnd \/ SetDndTimed \/ SetDndUntilOff
    <3>1. PICK on, deadline : SetDnd(on, deadline)
      BY <2>1 DEF ToggleDnd, SetDndTimed, SetDndUntilOff
    <3>2. PICK ts \in {toasts, EndDnd(toasts)} : Thinned(ts)
      BY <1>0, <3>1, SetDndThinned
    <3>3. ts \in Seq(Toasts) /\ IdsIn(ts) \cap Ids \subseteq Listed
      BY <1>0, <1>1, EndDndIds DEF Listed
    <3>4. Listed' \subseteq IdsIn(history) \cup IdsIn(ts) BY <1>0, <3>2, <3>3, ThinnedIds
    <3>5. UNCHANGED live BY <3>1 DEF SetDnd
    <3> QED BY <1>4, <3>3, <3>4, <3>5 DEF Listed
  <2>2. CASE TakeoverOff \/ Reload BY <1>5, <2>2 DEF TakeoverOff, Reload
  <2>3. CASE TakeoverOn
    <3>1. UNCHANGED <<history, live>> /\ toasts' = <<>> BY <2>3 DEF TakeoverOn
    <3>2. DOMAIN <<>> = {} OBVIOUS
    <3>3. Listed' \subseteq Listed BY <3>1, <3>2 DEF Listed, IdsIn
    <3> QED BY <1>4, <3>1, <3>3
  <2> QED BY <1>12, <2>1, <2>2, <2>3 DEF ShellNext
<1> QED BY <1>6, <1>7, <1>8, <1>9, <1>10, <1>11, <1>12 DEF Next

(* Through every closing, replacement, sweep and reload, what is offered   *)
(* stays answerable, except what arrives while the history is full.        *)
THEOREM ListedStayAnswerable == Spec => ListedAnswerable
<1> DEFINE Answerable == \A id \in (Listed' \cap Tracked') \ live' :
              IF id \in Listed THEN id \notin live ELSE Len(history) = MaxHistory
<1>1. Kept /\ Fresh => Answerable BY DEF Kept, Fresh
<1>2. NotifInv /\ [Next]_vars => [Answerable]_vars BY <1>1, KeptStep
<1> QED BY <1>2, Invariant, PTL DEF Spec, ListedAnswerable
=============================================================================
