------------------------ MODULE DockerMonitorProofs -------------------------
(***************************************************************************)
(* That no step of DockerMonitor stores a value of the wrong kind          *)
(* (TypeOK), and that no change of the containers is lost between the      *)
(* samples (NoLostEvent), however often the containers change, the daemon  *)
(* stops and starts, and the user asks.  Both rest on the order of the     *)
(* steps a handler has still to take (Whole).                              *)
(***************************************************************************)
EXTENDS DockerMonitor, TLAPS

-----------------------------------------------------------------------------
(* Positions in sequences.                                                 *)
LEMMA TailAt ==
    ASSUME NEW S, NEW s \in Seq(S), s # <<>>
    PROVE  /\ 1 \in DOMAIN s /\ s[1] = Head(s) /\ Tail(s) \in Seq(S)
           /\ \A i \in DOMAIN s : i \in Nat /\ 1 <= i
           /\ \A i \in DOMAIN Tail(s) :
                 /\ i \in Nat /\ 1 <= i
                 /\ i + 1 \in DOMAIN s /\ Tail(s)[i] = s[i + 1]
           /\ \A i \in DOMAIN s :
                 i # 1 => i - 1 \in DOMAIN Tail(s) /\ Tail(s)[i - 1] = s[i]
OBVIOUS

(* The second is the first of the rest.                                    *)
LEMMA SecondAt ==
    ASSUME NEW S, NEW s \in Seq(S), s # <<>>, 1 + 1 \in DOMAIN s
    PROVE  Tail(s) # <<>> /\ Head(Tail(s)) = s[1 + 1]
<1>1. 1 + 1 # 1 /\ (1 + 1) - 1 = 1 OBVIOUS
<1>2. Tail(s) \in Seq(S) /\ 1 \in DOMAIN Tail(s) /\ Tail(s)[1] = s[1 + 1]
  BY <1>1, TailAt
<1>3. \A r \in Seq(S) : 1 \in DOMAIN r => r # <<>> /\ Head(r) = r[1]
  OBVIOUS
<1> QED BY <1>2, <1>3

(* Where the elements of two sequences are in both together.               *)
LEMMA ConcatAt ==
    ASSUME NEW S, NEW s \in Seq(S), NEW t \in Seq(S)
    PROVE  /\ s \o t \in Seq(S)
           /\ \A i \in DOMAIN s :
                 /\ i \in Nat /\ 1 <= i /\ i <= Len(s)
                 /\ i \in DOMAIN (s \o t) /\ (s \o t)[i] = s[i]
           /\ \A k \in DOMAIN t :
                 /\ k \in Nat /\ 1 <= k
                 /\ Len(s) + k \in DOMAIN (s \o t) /\ (s \o t)[Len(s) + k] = t[k]
           /\ \A i \in DOMAIN (s \o t) :
                 \/ i \in DOMAIN s
                 \/ /\ i \in Nat /\ Len(s) < i
                    /\ i - Len(s) \in DOMAIN t /\ (s \o t)[i] = t[i - Len(s)]
           /\ Len(s) \in Nat
OBVIOUS

-----------------------------------------------------------------------------
(* The steps of a handler: a state is read, its lists are read, and it is  *)
(* published, or kept by an action on a project that then takes a sample.  *)
Ordered(s) ==
    \A i \in DOMAIN s :
       /\ s[i] = "info" => i + 1 \in DOMAIN s /\ s[i + 1] = "list"
       /\ s[i] = "list" => i + 1 \in DOMAIN s /\ s[i + 1] \in {"publish", "adopt"}
       /\ s[i] = "adopt" => i + 1 \in DOMAIN s /\ s[i + 1] = "info"
       /\ i # 1 /\ s[i] = "list" => s[i - 1] = "info"
       /\ i # 1 /\ s[i] = "publish" => s[i - 1] = "list"

(* What does not begin in the middle of that.                              *)
Begins(s) == s # <<>> => s[1] \notin {"list", "publish"}
Whole(s) == s \in Seq(Ops) /\ Ordered(s) /\ Begins(s)

(* A handler that goes on keeps the order; only after a read or the lists  *)
(* is it in the middle.                                                    *)
LEMMA TailOrdered ==
    ASSUME NEW s \in Seq(Ops), s # <<>>, Ordered(s)
    PROVE  /\ Tail(s) \in Seq(Ops) /\ Ordered(Tail(s))
           /\ Head(s) \notin {"info", "list"} => Begins(Tail(s))
<1> DEFINE r == Tail(s)
<1>1. /\ 1 \in DOMAIN s /\ s[1] = Head(s) /\ r \in Seq(Ops)
      /\ \A i \in DOMAIN s : i \in Nat /\ 1 <= i
      /\ \A i \in DOMAIN r : /\ i \in Nat /\ 1 <= i
                             /\ i + 1 \in DOMAIN s /\ r[i] = s[i + 1]
      /\ \A i \in DOMAIN s : i # 1 => i - 1 \in DOMAIN r /\ r[i - 1] = s[i]
  BY TailAt
<1>2. r # <<>> => 1 \in DOMAIN r
  OBVIOUS
<1> HIDE DEF r
<1>3. ASSUME NEW i \in DOMAIN r
      PROVE  /\ r[i] = "info" => i + 1 \in DOMAIN r /\ r[i + 1] = "list"
             /\ r[i] = "list" => i + 1 \in DOMAIN r /\ r[i + 1] \in {"publish", "adopt"}
             /\ r[i] = "adopt" => i + 1 \in DOMAIN r /\ r[i + 1] = "info"
             /\ i # 1 /\ r[i] = "list" => r[i - 1] = "info"
             /\ i # 1 /\ r[i] = "publish" => r[i - 1] = "list"
  <2>1. i \in Nat /\ 1 <= i /\ i + 1 \in DOMAIN s /\ r[i] = s[i + 1] BY <1>1
  <2>2. i + 2 \in DOMAIN s => i + 1 \in DOMAIN r /\ r[i + 1] = s[i + 2]
    <3>1. i + 2 # 1 /\ (i + 2) - 1 = i + 1 BY <2>1
    <3> QED BY <1>1, <3>1
  <2>3. i # 1 => r[i - 1] = s[i]
    <3>1. i # 1 => i - 1 \in Nat /\ 1 <= i - 1 BY <2>1
    <3>2. i # 1 => i \in DOMAIN s
      BY <2>1
    <3> QED BY <1>1, <2>1, <3>1, <3>2
  <2>4. (i + 1) + 1 = i + 2 /\ (i + 1) - 1 = i /\ i + 1 # 1 BY <2>1
  <2> QED BY <2>1, <2>2, <2>3, <2>4 DEF Ordered
<1>4. Ordered(r) BY <1>3 DEF Ordered
<1>5. Head(s) \notin {"info", "list"} => Begins(r)
  <2> SUFFICES ASSUME Head(s) \notin {"info", "list"}, r # <<>>
               PROVE  r[1] \notin {"list", "publish"}
    BY DEF Begins
  <2>1. 2 \in DOMAIN s /\ r[1] = s[2] /\ 2 - 1 = 1 BY <1>1, <1>2
  <2> QED BY <1>1, <2>1 DEF Ordered
<1> QED BY <1>1, <1>4, <1>5 DEF r

(* One script after another is one.                                        *)
LEMMA ConcatOrdered ==
    ASSUME NEW s, Whole(s), NEW t \in Seq(Ops), Ordered(t), Begins(t)
    PROVE  Whole(s \o t)
<1> DEFINE r == s \o t
<1>0. s \in Seq(Ops) BY DEF Whole
<1>1. /\ r \in Seq(Ops) /\ Len(s) \in Nat
      /\ \A i \in DOMAIN s : /\ i \in Nat /\ 1 <= i /\ i <= Len(s)
                             /\ i \in DOMAIN r /\ r[i] = s[i]
      /\ \A k \in DOMAIN t : /\ k \in Nat /\ 1 <= k
                             /\ Len(s) + k \in DOMAIN r /\ r[Len(s) + k] = t[k]
      /\ \A i \in DOMAIN r : \/ i \in DOMAIN s
                             \/ /\ i \in Nat /\ Len(s) < i
                                /\ i - Len(s) \in DOMAIN t /\ r[i] = t[i - Len(s)]
  BY <1>0, ConcatAt
<1>2. /\ s # <<>> => 1 \in DOMAIN s
      /\ s = <<>> => r = t
      /\ \A i \in Nat : 1 <= i /\ i <= Len(s) => i \in DOMAIN s
      /\ t # <<>> => 1 \in DOMAIN t
      /\ DOMAIN t # {} => t # <<>>
  BY <1>0
<1> HIDE DEF r
<1>3. ASSUME NEW i \in DOMAIN r
      PROVE  /\ r[i] = "info" => i + 1 \in DOMAIN r /\ r[i + 1] = "list"
             /\ r[i] = "list" => i + 1 \in DOMAIN r /\ r[i + 1] \in {"publish", "adopt"}
             /\ r[i] = "adopt" => i + 1 \in DOMAIN r /\ r[i + 1] = "info"
             /\ i # 1 /\ r[i] = "list" => r[i - 1] = "info"
             /\ i # 1 /\ r[i] = "publish" => r[i - 1] = "list"
  <2>1. CASE i \in DOMAIN s
    <3>1. i \in Nat /\ 1 <= i /\ i <= Len(s) /\ r[i] = s[i] BY <1>1, <2>1
    <3>2. i + 1 \in DOMAIN s => i + 1 \in DOMAIN r /\ r[i + 1] = s[i + 1] BY <1>1
    <3>3. i # 1 => r[i - 1] = s[i - 1] /\ i - 1 \in DOMAIN s
      <4>1. i # 1 => i - 1 \in Nat /\ 1 <= i - 1 /\ i - 1 <= Len(s) BY <1>1, <3>1
      <4> QED BY <1>1, <1>2, <4>1
    <3> QED BY <2>1, <3>1, <3>2, <3>3 DEF Whole, Ordered
  <2>2. CASE i \notin DOMAIN s
    <3> DEFINE k == i - Len(s)
    <3>1. /\ i \in Nat /\ k \in DOMAIN t /\ k \in Nat /\ 1 <= k /\ r[i] = t[k]
          /\ i = Len(s) + k
      BY <1>1, <2>2
    <3>2. k + 1 \in DOMAIN t => i + 1 \in DOMAIN r /\ r[i + 1] = t[k + 1]
      <4>1. i + 1 = Len(s) + (k + 1) BY <1>1, <3>1
      <4> QED BY <1>1, <4>1
    <3>3. ASSUME k # 1 PROVE i # 1 /\ r[i - 1] = t[k - 1]
      <4>1. /\ i # 1 /\ i - 1 \in Nat /\ Len(s) < i - 1
            /\ i - 1 = Len(s) + (k - 1) /\ k - 1 \in Nat /\ 1 <= k - 1
        BY <1>1, <3>1, <3>3
      <4>2. k - 1 \in DOMAIN t BY <3>1, <4>1
      <4> QED BY <1>1, <4>1, <4>2
    <3>4. k = 1 => r[i] \notin {"list", "publish"}
      BY <1>2, <3>1 DEF Begins
    <3> HIDE DEF k
    <3> QED BY <3>1, <3>2, <3>3, <3>4 DEF Ordered
  <2> QED BY <2>1, <2>2
<1>4. Ordered(r) BY <1>3 DEF Ordered
<1>5. Begins(r)
  <2>1. CASE s = <<>> BY <1>2, <2>1
  <2>2. CASE s # <<>>
    <3>1. r[1] = s[1] BY <1>1, <1>2, <2>2
    <3> QED BY <2>2, <3>1 DEF Whole, Begins
  <2> QED BY <2>1, <2>2
<1> QED BY <1>1, <1>4, <1>5 DEF Whole, r

(* What the handlers are made of.                                          *)
LEMMA Pieces ==
    /\ Whole(<<>>) /\ Whole(Sample) /\ Whole(<<"watch", "connect">>)
    /\ \A x \in Ops \ {"info", "list", "publish", "adopt"} : Whole(<<x>>)
    /\ Whole(<<"info", "list", "adopt">> \o Sample)
<1>1. Whole(<<>>)
  BY DEF Whole, Ordered, Begins
<1>2. Whole(Sample)
  <2> DEFINE s == <<"info", "list", "publish">>
  <2>1. /\ s \in Seq(Ops) /\ s # <<>> /\ DOMAIN s = {1, 2, 3}
        /\ s[1] = "info" /\ s[2] = "list" /\ s[3] = "publish"
    BY DEF Ops
  <2> HIDE DEF s
  <2>2. Whole(s) BY <2>1 DEF Whole, Ordered, Begins
  <2> QED BY <2>2 DEF s, Sample
<1>3. Whole(<<"watch", "connect">>)
  <2> DEFINE s == <<"watch", "connect">>
  <2>1. /\ s \in Seq(Ops) /\ DOMAIN s = {1, 2} /\ s[1] = "watch" /\ s[2] = "connect"
    BY DEF Ops
  <2> HIDE DEF s
  <2>2. Whole(s) BY <2>1 DEF Whole, Ordered, Begins
  <2> QED BY <2>2 DEF s
<1>4. ASSUME NEW x \in Ops \ {"info", "list", "publish", "adopt"}
      PROVE  Whole(<<x>>)
  <2> DEFINE s == <<x>>
  <2>1. s \in Seq(Ops) /\ DOMAIN s = {1} /\ s[1] = x
    OBVIOUS
  <2> HIDE DEF s
  <2>2. Whole(s) BY <2>1 DEF Whole, Ordered, Begins
  <2> QED BY <2>2 DEF s
<1>5. Whole(<<"info", "list", "adopt">> \o Sample)
  <2> DEFINE p == <<"info", "list", "adopt">>
             r == p \o Sample
  <2>1. /\ p \in Seq(Ops) /\ Len(p) = 3 /\ DOMAIN p = {1, 2, 3}
        /\ p[1] = "info" /\ p[2] = "list" /\ p[3] = "adopt"
    BY DEF Ops
  <2>2. /\ Sample \in Seq(Ops) /\ DOMAIN Sample = {1, 2, 3}
        /\ Sample[1] = "info" /\ Sample[2] = "list" /\ Sample[3] = "publish"
    BY DEF Ops, Sample
  <2> HIDE DEF p
  <2>3. /\ r \in Seq(Ops)
        /\ \A i \in {1, 2, 3} : i \in DOMAIN r /\ r[i] = p[i]
        /\ \A i \in {1, 2, 3} : 3 + i \in DOMAIN r /\ r[3 + i] = Sample[i]
        /\ \A i \in DOMAIN r : i \in {1, 2, 3} \/ (i - 3 \in {1, 2, 3} /\ i \in Nat)
    <3>1. /\ r \in Seq(Ops)
          /\ \A i \in DOMAIN p : i \in DOMAIN r /\ r[i] = p[i]
          /\ \A i \in DOMAIN Sample : /\ Len(p) + i \in DOMAIN r
                                      /\ r[Len(p) + i] = Sample[i]
          /\ \A i \in DOMAIN r : \/ i \in DOMAIN p
                                 \/ i \in Nat /\ i - Len(p) \in DOMAIN Sample
      <4>1. p \in Seq(Ops) /\ Sample \in Seq(Ops) BY <2>1, <2>2
      <4> QED BY <4>1, ConcatAt
    <3> QED BY <2>1, <2>2, <3>1
  <2> HIDE DEF r
  <2>4. /\ r[1] = "info" /\ r[2] = "list" /\ r[3] = "adopt"
        /\ r[4] = "info" /\ r[5] = "list" /\ r[6] = "publish"
        /\ DOMAIN r = {1, 2, 3, 4, 5, 6}
    <3>1. /\ 3 + 1 = 4 /\ 3 + 2 = 5 /\ 3 + 3 = 6
          /\ \A i \in Nat : i - 3 \in {1, 2, 3} => i \in {4, 5, 6}
      OBVIOUS
    <3>2. {4, 5, 6} \subseteq DOMAIN r BY <2>3, <3>1
    <3> QED BY <2>1, <2>2, <2>3, <3>1, <3>2
  <2>5. Whole(r) BY <2>3, <2>4 DEF Whole, Ordered, Begins
  <2> QED BY <2>5 DEF p, r
<1> QED BY <1>1, <1>2, <1>3, <1>4, <1>5

(* One script after another, of whole ones.                                *)
LEMMA ConcatWhole ==
    ASSUME NEW s, Whole(s), NEW t, Whole(t)
    PROVE  Whole(s \o t)
BY ConcatOrdered DEF Whole

(* Whatever the user asks for, the handler keeps the order.                *)
LEMMA ScriptsWhole ==
    ASSUME NEW op \in UserOps, NEW s \in Scripts(op)
    PROVE  Whole(s)
<1> DEFINE adopt == <<"info", "list", "adopt">>
<1>1. /\ Whole(Sample \o <<"idle">>) /\ Whole(<<"idle">>)
      /\ Whole(<<"watch", "connect">> \o Sample \o <<"idle">>)
      /\ Whole(<<"close">> \o Sample \o <<"watch", "idle">>)
      /\ Whole(adopt \o Sample \o <<"idle">>)
      /\ Whole(<<>> \o Sample \o <<"idle">>)
  <2>1. /\ Whole(Sample) /\ Whole(<<"idle">>) /\ Whole(<<"close">>)
        /\ Whole(<<"watch", "connect">>) /\ Whole(adopt \o Sample) /\ Whole(<<"watch">>)
        /\ Whole(<<>>)
    BY Pieces DEF Ops
  <2>2. Whole(<<"watch", "idle">>)
    <3>1. <<"watch", "idle">> = <<"watch">> \o <<"idle">> OBVIOUS
    <3>2. Whole(<<"watch">> \o <<"idle">>) BY <2>1, ConcatWhole
    <3> QED BY <3>1, <3>2
  <2> DEFINE a == adopt \o Sample
             b == <<"watch", "connect">>
             c == <<"close">>
             d == <<"watch", "idle">>
             e == <<"idle">>
             n == <<>>
  <2>3. Whole(a) /\ Whole(b) /\ Whole(c) /\ Whole(d) /\ Whole(e) /\ Whole(Sample) /\ Whole(n)
    BY <2>1, <2>2
  <2> HIDE DEF a, b, c, d, e, n
  <2>4. /\ Whole(b \o Sample) /\ Whole(c \o Sample) /\ Whole(n \o Sample)
        /\ Whole(Sample \o e) /\ Whole(a \o e)
    BY <2>3, ConcatWhole
  <2>5. Whole((b \o Sample) \o e) /\ Whole((c \o Sample) \o d) /\ Whole((n \o Sample) \o e)
    BY <2>3, <2>4, ConcatWhole
  <2> QED BY <2>3, <2>4, <2>5 DEF a, b, c, d, e, n
<1>2. UserOps \subseteq {"refresh", "action", "remove", "logs", "project", "startService",
                         "stopService"}
  BY UserOpsAssumption
<1> DEFINE find == IF lastState.list = Unknown THEN adopt ELSE <<>>
<1>3. Whole(find \o Sample \o <<"idle">>)
  <2>1. CASE lastState.list = Unknown BY <1>1, <2>1
  <2>2. CASE lastState.list # Unknown BY <1>1, <2>2
  <2> QED BY <2>1, <2>2
<1> DEFINE a == Sample \o <<"idle">>
           b == <<"idle">>
           c == <<"watch", "connect">> \o Sample \o <<"idle">>
           d == <<"close">> \o Sample \o <<"watch", "idle">>
           p == find \o Sample \o <<"idle">>
<1>4. /\ op \in {"refresh", "action", "remove"} => Scripts(op) = {a}
      /\ op = "logs" => Scripts(op) = {b}
      /\ op = "project" => Scripts(op) = {p}
      /\ op = "startService" => Scripts(op) = {b, c}
      /\ op = "stopService" => Scripts(op) = {b, d}
  BY DEF Scripts
<1>5. Whole(a) /\ Whole(b) /\ Whole(c) /\ Whole(d) /\ Whole(p) BY <1>1, <1>3
<1> HIDE DEF a, b, c, d, p
<1> QED BY <1>2, <1>4, <1>5

-----------------------------------------------------------------------------
(* The steps of the handler that runs are in order, and nothing is read of *)
(* a connection that there is not.                                         *)
LEMMA OrderedInit == Init => Whole(todo)
<1>1. Whole(Sample) /\ Whole(<<"watch">>) /\ Whole(<<"connect">>)
  BY Pieces DEF Ops
<1>2. Whole(<<"watch">> \o Sample) BY <1>1, ConcatWhole
<1> DEFINE a == <<"watch">> \o Sample
           b == <<"connect">>
<1>3. Whole(a) /\ Whole(b) BY <1>1, <1>2
<1> HIDE DEF a, b
<1>4. Whole(a \o b) BY <1>3, ConcatWhole
<1> QED BY <1>4 DEF Init, a, b

(* A step that goes on goes on in order, from the first of the three that  *)
(* belong together to the next.                                            *)
LEMMA GoesOn ==
    ASSUME todo \in Seq(Ops), Ordered(todo), todo # <<>>
    PROVE  /\ Tail(todo) \in Seq(Ops) /\ Ordered(Tail(todo))
           /\ Head(todo) \notin {"info", "list"} => Begins(Tail(todo))
           /\ Head(todo) = "info" => Tail(todo) # <<>> /\ Head(Tail(todo)) = "list"
           /\ Head(todo) = "list" =>
                Tail(todo) # <<>> /\ Head(Tail(todo)) \in {"publish", "adopt"}
           /\ Head(todo) = "adopt" => Tail(todo) # <<>> /\ Head(Tail(todo)) = "info"
<1>1. 1 \in DOMAIN todo /\ todo[1] = Head(todo) BY TailAt
<1>2. /\ Head(todo) = "info" => 1 + 1 \in DOMAIN todo /\ todo[1 + 1] = "list"
      /\ Head(todo) = "list" =>
           1 + 1 \in DOMAIN todo /\ todo[1 + 1] \in {"publish", "adopt"}
      /\ Head(todo) = "adopt" => 1 + 1 \in DOMAIN todo /\ todo[1 + 1] = "info"
  BY <1>1, Zenon DEF Ordered
<1>3. 1 + 1 \in DOMAIN todo => Tail(todo) # <<>> /\ Head(Tail(todo)) = todo[1 + 1]
  BY SecondAt
<1>4. Head(todo) = "info" => Tail(todo) # <<>> /\ Head(Tail(todo)) = "list"
  BY <1>2, <1>3, Zenon
<1>5. Head(todo) = "list" => Tail(todo) # <<>> /\ Head(Tail(todo)) \in {"publish", "adopt"}
  BY <1>2, <1>3, Zenon
<1>6. Head(todo) = "adopt" => Tail(todo) # <<>> /\ Head(Tail(todo)) = "info"
  BY <1>2, <1>3, Zenon
<1> QED BY <1>4, <1>5, <1>6, TailOrdered

(* What goes first in the handler's place.                                 *)
LEMMA PutFirst ==
    ASSUME todo \in Seq(Ops), Ordered(todo), todo # <<>>,
           Head(todo) \notin {"info", "list"}, NEW s, Whole(s)
    PROVE  Whole(s \o Tail(todo))
BY GoesOn, ConcatOrdered

(* The steps of a handler keep it in order.                                *)
LEMMA HandlerOrdered ==
    ASSUME TypeOK, Ordered(todo), HandlerStep
    PROVE  todo' \in Seq(Ops) /\ Ordered(todo')
<1>0. todo \in Seq(Ops) BY DEF TypeOK
<1>1. CASE todo # <<>> /\ todo' = Tail(todo) BY <1>0, <1>1, GoesOn
<1>2. CASE todo # <<>> /\ Head(todo) = "info" /\ todo' = Tail(Tail(todo))
  <2>1. /\ Tail(todo) \in Seq(Ops) /\ Ordered(Tail(todo)) /\ Tail(todo) # <<>>
    BY <1>0, <1>2, GoesOn
  <2> QED BY <1>2, <2>1, TailOrdered
<1>3. CASE /\ todo # <<>> /\ Head(todo) \notin {"info", "list"}
           /\ \/ todo' = <<"retry">> \o Tail(todo) \/ todo' = <<"watch">> \o Tail(todo)
              \/ todo' = Sample \o Tail(todo)
  <2>1. Whole(<<"retry">>) /\ Whole(<<"watch">>) /\ Whole(Sample) BY Pieces DEF Ops
  <2>2. Whole(todo') BY <1>0, <1>3, <2>1, PutFirst
  <2> QED BY <2>2 DEF Whole
<1>4. CASE SetupFsWatcher BY <1>1, <1>4 DEF SetupFsWatcher, Step, GoOn
<1>5. CASE ConnectEvents BY <1>1, <1>3, <1>5 DEF ConnectEvents, Step
<1>6. CASE CloseForService \/ BreakStream
  BY <1>1, <1>6 DEF CloseForService, BreakStream, Step, GoOn
<1>7. CASE RetryOrWatch BY <1>1, <1>3, <1>7 DEF RetryOrWatch, Step, GoOn
<1>8. CASE ReadInfo BY <1>1, <1>2, <1>8 DEF ReadInfo, Step, GoOn
<1>9. CASE ReadList \/ Publish \/ AdoptState \/ SetIdle
  BY <1>1, <1>9 DEF ReadList, Publish, AdoptState, SetIdle, Step, GoOn
<1>10. CASE TriggerSample BY <1>1, <1>3, <1>10 DEF TriggerSample, Step, GoOn
<1> QED
  BY <1>4, <1>5, <1>6, <1>7, <1>8, <1>9, <1>10 DEF HandlerStep

(* What is parsed is a handler's whole.                                    *)
LEMMA ParseWhole ==
    /\ Whole(Parse)
    /\ stream.hello # "bad" /\ conn = "headers" => Parse # <<>> /\ Head(Parse) = "info"
    /\ stream.hello # "bad" /\ stream.events => \E i \in DOMAIN Parse : Parse[i] = "event"
<1> DEFINE opening == IF conn = "headers" THEN Sample ELSE <<>>
           events == IF stream.events THEN <<"event">> ELSE <<>>
           end == IF stream.end = "chunk" THEN <<"broken">> ELSE <<>>
           broken == <<"broken">>
<1>1. Whole(opening) /\ Whole(events) /\ Whole(end) /\ Whole(broken)
  <2>1. Whole(Sample) /\ Whole(<<"event">>) /\ Whole(<<"broken">>) /\ Whole(<<>>)
    BY Pieces DEF Ops
  <2> QED BY <2>1
<1>2. /\ conn = "headers" => opening \in Seq(Ops) /\ 1 \in DOMAIN opening /\ opening[1] = "info"
      /\ stream.events => 1 \in DOMAIN events /\ events[1] = "event"
  <2>1. Sample \in Seq(Ops) /\ 1 \in DOMAIN Sample /\ Sample[1] = "info"
    BY DEF Sample, Ops
  <2>2. 1 \in DOMAIN <<"event">> /\ <<"event">>[1] = "event" OBVIOUS
  <2>3. (conn = "headers" => opening = Sample) /\ (stream.events => events = <<"event">>)
    OBVIOUS
  <2> HIDE DEF opening, events
  <2> QED BY <2>1, <2>2, <2>3
<1>3. Parse = IF stream.hello = "bad" THEN broken ELSE (opening \o events) \o end
  BY DEF Parse
<1> HIDE DEF opening, events, end, broken
<1>4. Whole(opening \o events) /\ Whole((opening \o events) \o end)
  BY <1>1, ConcatWhole
<1>5. opening \in Seq(Ops) /\ events \in Seq(Ops) /\ end \in Seq(Ops) BY <1>1 DEF Whole
<1> DEFINE oe == opening \o events
           all == oe \o end
<1>6. /\ oe \in Seq(Ops)
      /\ \A i \in DOMAIN opening : i \in DOMAIN oe /\ oe[i] = opening[i]
      /\ \A k \in DOMAIN events : /\ Len(opening) + k \in DOMAIN oe
                                  /\ oe[Len(opening) + k] = events[k]
  BY <1>5, ConcatAt
<1>7. Whole(all) BY <1>4
<1> HIDE DEF oe
<1>8. all \in Seq(Ops) /\ \A i \in DOMAIN oe : i \in DOMAIN all /\ all[i] = oe[i]
  BY <1>5, <1>6, ConcatAt
<1>9. conn = "headers" => 1 \in DOMAIN all /\ all[1] = "info" BY <1>2, <1>6, <1>8
<1>10. stream.events => \E i \in DOMAIN all : all[i] = "event" BY <1>2, <1>6, <1>8
<1>11. Parse = IF stream.hello = "bad" THEN broken ELSE all BY <1>3 DEF oe
<1> HIDE DEF all
<1>12. 1 \in DOMAIN all => all # <<>> /\ Head(all) = all[1]
  BY <1>8
<1> QED BY <1>1, <1>7, <1>9, <1>10, <1>11, <1>12

(* So is what any other handler starts with.                               *)
LEMMA HandleWhole ==
    ASSUME TypeOK, Handle, todo' # todo
    PROVE  Whole(todo')
<1>1. /\ Whole(Sample) /\ Whole(<<"connect">>) /\ Whole(<<"retry">>)
      /\ Whole(<<"watch", "connect">>)
  BY Pieces DEF Ops
<1>2. Whole(Sample \o <<"retry">>) BY <1>1, ConcatWhole
<1>3. CASE RunRequest
  <2>1. wq # <<>> /\ wq \in Seq(UserOps) /\ todo' \in Scripts(Head(wq))
    BY <1>3 DEF RunRequest, TypeOK
  <2>2. Head(wq) \in UserOps BY <2>1
  <2> QED BY <2>1, <2>2, ScriptsWhole
<1> QED
  BY <1>1, <1>2, <1>3, ParseWhole
  DEF Handle, OnEventsReadyRead, OnEventsLost, OnSocketDirectoryChanged,
      DebounceTimeout, ReconnectEvents

-----------------------------------------------------------------------------
(* Every value has its type, and the steps of the handler are in order.    *)
MonitorInv == TypeOK /\ Ordered(todo)

Signal == [n : {"busy"}, v : BOOLEAN] \cup [n : {"state"}, v : States]

(* What is told the GUI.                                                   *)
LEMMA SignalTypes ==
    ASSUME TypeOK
    PROVE  /\ \A b \in BOOLEAN : Busy(b) \in Signal
           /\ \A s \in States : Changed(s) \in Signal
           /\ gq \in Seq(Signal)
           /\ \A x \in Signal : Append(gq, x) \in Seq(Signal)
           /\ gq # <<>> => /\ Tail(gq) \in Seq(Signal)
                           /\ Head(gq).n = "state" => Head(gq).v \in States
                           /\ Head(gq).n = "busy" => Head(gq).v \in BOOLEAN
<1>1. gq \in Seq(Signal) BY DEF TypeOK, Signal
<1>2. /\ \A b \in BOOLEAN : Busy(b) \in Signal
      /\ \A s \in States : Changed(s) \in Signal
  BY DEF Busy, Changed, Signal
<1>3. \A x \in Signal : /\ x.n = "state" => x.v \in States
                        /\ x.n = "busy" => x.v \in BOOLEAN
  BY DEF Signal
<1> HIDE DEF Signal
<1>4. \A x \in Signal : Append(gq, x) \in Seq(Signal) BY <1>1
<1>5. gq # <<>> => Tail(gq) \in Seq(Signal) /\ Head(gq) \in Signal BY <1>1
<1> QED BY <1>1, <1>2, <1>3, <1>4, <1>5

(* What may be seen of the containers.                                     *)
LEMMA SeenTypes ==
    ASSUME TypeOK
    PROVE  /\ Down \in States /\ Current \in States
           /\ [info |-> world, list |-> Unknown] \in States
           /\ [snap EXCEPT !.list = world] \in States
BY DEF TypeOK, States, Seen, Down, Current

Streams == [hello : {"none", "ok", "bad"}, events : BOOLEAN, end : {"no", "chunk", "eof"}]

(* What is read of the connection.                                         *)
LEMMA StreamTypes ==
    ASSUME TypeOK
    PROVE  /\ NoStream \in Streams /\ stream \in Streams
           /\ [stream EXCEPT !.hello = "none", !.events = FALSE] \in Streams
           /\ [stream EXCEPT !.events = TRUE] \in Streams
           /\ \A h \in {"ok", "bad"} : [stream EXCEPT !.hello = h] \in Streams
           /\ \A e \in {"no", "chunk", "eof"} : [stream EXCEPT !.end = e] \in Streams
           /\ conn = "none" => ~Readable /\ ~Subscribed
<1>1. NoStream \in Streams /\ stream \in Streams
  BY DEF TypeOK, Streams, NoStream
<1>2. /\ [stream EXCEPT !.hello = "none", !.events = FALSE] \in Streams
      /\ [stream EXCEPT !.events = TRUE] \in Streams
  BY <1>1 DEF Streams
<1>3. \A h \in {"ok", "bad"} : [stream EXCEPT !.hello = h] \in Streams
  BY <1>1 DEF Streams
<1>4. \A e \in {"no", "chunk", "eof"} : [stream EXCEPT !.end = e] \in Streams
  BY <1>1 DEF Streams
<1>5. conn = "none" => ~Readable /\ ~Subscribed
  BY DEF TypeOK, NoStream, Readable, Subscribed
<1> QED BY <1>1, <1>2, <1>3, <1>4, <1>5

(* The steps of the handler keep the types.                                *)
LEMMA HandlerTypes == MonitorInv /\ HandlerStep => MonitorInv'
<1> SUFFICES ASSUME MonitorInv, HandlerStep PROVE MonitorInv'
  OBVIOUS
<1>0. TypeOK BY DEF MonitorInv
<1>1. todo' \in Seq(Ops) /\ Ordered(todo') BY HandlerOrdered DEF MonitorInv
<1>2. UNCHANGED <<wq, view, busy, requests, up, file, world, starts>>
  BY DEF HandlerStep, guiVars, daemonVars
<1>3. /\ conn' \in {"none", "headers", "live"} /\ stream' \in Streams
      /\ conn' = "none" => stream' = NoStream
  BY <1>0, StreamTypes
  DEF HandlerStep, SetupFsWatcher, ConnectEvents, CloseForService, CloseEvents,
      BreakStream, RetryOrWatch, ReadInfo, ReadList, Publish, AdoptState, TriggerSample,
      SetIdle, TypeOK, Streams
<1>4. {lastState', snap', view'} \subseteq States
  BY <1>0, <1>2, SeenTypes
  DEF HandlerStep, SetupFsWatcher, ConnectEvents, CloseForService, BreakStream,
      RetryOrWatch, ReadInfo, ReadList, Publish, AdoptState, TriggerSample, SetIdle, TypeOK
<1>5. /\ initialized' \in BOOLEAN /\ debounce' \in BOOLEAN /\ reconnect' \in BOOLEAN
      /\ watching' \in BOOLEAN /\ notice' \in BOOLEAN
  BY <1>0
  DEF HandlerStep, SetupFsWatcher, ConnectEvents, CloseForService, BreakStream,
      RetryOrWatch, ReadInfo, ReadList, Publish, AdoptState, TriggerSample, SetIdle, TypeOK
<1>6. gq' \in Seq(Signal)
  <2>1. gq' = gq \/ \E x \in Signal : gq' = Append(gq, x)
    BY <1>0, SignalTypes
    DEF HandlerStep, SetupFsWatcher, ConnectEvents, CloseForService, BreakStream,
        RetryOrWatch, ReadInfo, ReadList, Publish, AdoptState, TriggerSample, SetIdle, TypeOK
  <2> QED BY <1>0, <2>1, SignalTypes
<1> QED BY <1>0, <1>1, <1>2, <1>3, <1>4, <1>5, <1>6 DEF MonitorInv, TypeOK, Signal, Streams

(* So does what starts a handler.                                          *)
LEMMA HandleTypes == MonitorInv /\ Handle => MonitorInv'
<1> SUFFICES ASSUME MonitorInv, Handle PROVE MonitorInv'
  OBVIOUS
<1>0. TypeOK BY DEF MonitorInv
<1>1. todo' \in Seq(Ops) /\ Ordered(todo')
  BY HandleWhole DEF MonitorInv, TypeOK, Whole
<1>2. UNCHANGED <<initialized, lastState, snap, watching, view, busy, requests, up, file,
                  world, starts>>
  BY DEF Handle, guiVars, daemonVars
<1>3. /\ conn' \in {"none", "headers", "live"} /\ stream' \in Streams
      /\ conn' = "none" => stream' = NoStream
  BY <1>0, StreamTypes
  DEF Handle, OnEventsReadyRead, OnEventsLost, CloseEvents, OnSocketDirectoryChanged,
      DebounceTimeout, ReconnectEvents, RunRequest, TypeOK, Streams
<1>4. debounce' \in BOOLEAN /\ reconnect' \in BOOLEAN /\ notice' \in BOOLEAN
  BY <1>0
  DEF Handle, OnEventsReadyRead, OnEventsLost, OnSocketDirectoryChanged,
      DebounceTimeout, ReconnectEvents, RunRequest, TypeOK
<1>5. wq' \in Seq(UserOps) /\ gq' \in Seq(Signal)
  <2>1. /\ wq' = wq \/ (wq # <<>> /\ wq' = Tail(wq))
        /\ gq' = gq \/ gq' = Append(gq, Busy(TRUE))
    BY DEF Handle, OnEventsReadyRead, OnEventsLost, OnSocketDirectoryChanged,
           DebounceTimeout, ReconnectEvents, RunRequest
  <2>2. wq \in Seq(UserOps) BY <1>0 DEF TypeOK
  <2>3. wq' \in Seq(UserOps) BY <2>1, <2>2
  <2>4. gq' \in Seq(Signal) BY <1>0, <2>1, SignalTypes
  <2> QED BY <2>3, <2>4
<1> QED BY <1>0, <1>1, <1>2, <1>3, <1>4, <1>5 DEF MonitorInv, TypeOK, Signal, Streams

(* And so do the GUI and the daemon.                                       *)
LEMMA OtherTypes == MonitorInv /\ (Request \/ Deliver \/ Daemon) => MonitorInv'
<1> SUFFICES ASSUME MonitorInv, Request \/ Deliver \/ Daemon PROVE MonitorInv'
  OBVIOUS
<1>0. TypeOK BY DEF MonitorInv
<1>1. UNCHANGED workerVars /\ UNCHANGED <<todo, conn>>
  BY DEF Request, Deliver, Daemon, workerVars
<1>2. Ordered(todo') BY <1>1 DEF MonitorInv
<1>3. CASE Request
  <2>1. PICK op \in UserOps : wq' = Append(wq, op) BY <1>3 DEF Request
  <2>2. wq' \in Seq(UserOps) BY <1>0, <2>1 DEF TypeOK
  <2>3. requests' \in 0 .. MaxRequests
    BY <1>0, <1>3, BoundsAssumption DEF Request, TypeOK
  <2> QED
    BY <1>0, <1>1, <1>2, <1>3, <2>2, <2>3
    DEF Request, MonitorInv, TypeOK, workerVars, daemonVars
<1>4. CASE Deliver
  <2>1. gq' \in Seq(Signal) /\ view' \in States
    BY <1>0, <1>4, SignalTypes DEF Deliver, TypeOK
  <2>2. busy' \in BOOLEAN BY <1>0, <1>4, SignalTypes DEF Deliver, TypeOK
  <2> QED
    BY <1>0, <1>1, <1>2, <1>4, <2>1, <2>2
    DEF Deliver, MonitorInv, TypeOK, workerVars, daemonVars, Signal
<1>5. CASE Daemon
  <2>1. stream' \in Streams /\ (conn = "none" => stream' = stream)
    <3>1. CASE DaemonExits
      <4>1. PICK e \in {"no", "chunk", "eof"} :
               stream' = IF conn = "none" THEN stream ELSE [stream EXCEPT !.end = e]
        BY <1>0, <3>1 DEF DaemonExits, TypeOK
      <4> QED BY <1>0, <4>1, StreamTypes
    <3> QED
      BY <1>0, <1>5, <3>1, StreamTypes
      DEF Daemon, DaemonStarts, WorldChanges, DaemonAnswers, OtherFile
  <2>2. /\ up' \in BOOLEAN /\ file' \in BOOLEAN /\ notice' \in BOOLEAN
        /\ world' \in 0 .. MaxChanges /\ starts' \in 0 .. MaxStarts
    <3>1. world' \in 0 .. MaxChanges /\ starts' \in 0 .. MaxStarts
      BY <1>0, <1>5, BoundsAssumption
      DEF Daemon, DaemonStarts, DaemonExits, WorldChanges, DaemonAnswers, OtherFile,
          TypeOK, daemonVars
    <3>2. up' \in BOOLEAN /\ file' \in BOOLEAN
      BY <1>0, <1>5
      DEF Daemon, DaemonStarts, DaemonExits, WorldChanges, DaemonAnswers, OtherFile,
          TypeOK, daemonVars
    <3>3. notice' \in BOOLEAN
      <4>1. notice' = watching \/ notice' = notice
        BY <1>5
        DEF Daemon, DaemonStarts, DaemonExits, WorldChanges, DaemonAnswers, OtherFile,
            Touched, daemonVars
      <4>2. watching \in BOOLEAN /\ notice \in BOOLEAN BY <1>0 DEF TypeOK
      <4> QED BY <4>1, <4>2
    <3> QED BY <3>1, <3>2, <3>3
  <2>3. UNCHANGED <<wq, gq, guiVars>> BY <1>5 DEF Daemon
  <2> QED
    BY <1>0, <1>1, <1>2, <2>1, <2>2, <2>3
    DEF MonitorInv, TypeOK, workerVars, guiVars, Streams
<1> QED BY <1>3, <1>4, <1>5

(* All of this holds at the start.                                         *)
LEMMA MonitorInit == Init => MonitorInv
<1> SUFFICES ASSUME Init PROVE MonitorInv
  OBVIOUS
<1>1. todo \in Seq(Ops) /\ Ordered(todo) BY OrderedInit DEF Whole
<1>2. wq \in Seq(UserOps) /\ gq \in Seq(Signal) BY DEF Init
<1>3. lastState \in States /\ snap \in States /\ view \in States
  <2>1. Down \in States BY DEF Down, States, Seen
  <2> QED BY <2>1 DEF Init
<1>4. /\ requests \in 0 .. MaxRequests /\ world \in 0 .. MaxChanges
      /\ starts \in 0 .. MaxStarts
  BY BoundsAssumption DEF Init
<1>5. /\ initialized \in BOOLEAN /\ debounce \in BOOLEAN /\ reconnect \in BOOLEAN
      /\ watching \in BOOLEAN /\ notice \in BOOLEAN /\ busy \in BOOLEAN
      /\ up \in BOOLEAN /\ file \in BOOLEAN
  <2>1. up \in BOOLEAN /\ file \in {TRUE, up} BY DEF Init
  <2>2. file \in BOOLEAN BY <2>1
  <2> QED BY <2>1, <2>2 DEF Init
<1>6. /\ conn \in {"none", "headers", "live"} /\ stream = NoStream
      /\ NoStream \in [hello : {"none", "ok", "bad"}, events : BOOLEAN,
                        end : {"no", "chunk", "eof"}]
  BY DEF Init, NoStream
<1> QED BY <1>1, <1>2, <1>3, <1>4, <1>5, <1>6 DEF MonitorInv, TypeOK, Signal

(* No handler, slot or signal stores a value of the wrong kind, and no     *)
(* handler takes the steps of a sample in another order.                   *)
THEOREM MonitorTypeCorrect == Spec => []TypeOK
<1>1. MonitorInv /\ UNCHANGED vars => MonitorInv'
  BY DEF vars, workerVars, guiVars, daemonVars, MonitorInv, TypeOK
<1>2. MonitorInv /\ [Next]_vars => MonitorInv'
  BY <1>1, HandlerTypes, HandleTypes, OtherTypes DEF Next
<1>3. MonitorInv => TypeOK BY DEF MonitorInv
<1> QED BY <1>2, <1>3, MonitorInit, PTL DEF Spec

-----------------------------------------------------------------------------
(* What will mend a state that is not the daemon's.                        *)
Mending == stream.events \/ debounce \/ Takes("info") \/ Takes("event")

Listens == conn = "live" /\ stream.end = "no"

(* A sample that is under way has read the present, or another one is to   *)
(* come; between the samples the state is the daemon's.                    *)
Synced ==
    \/ Mending
    \/ Step("list") /\ snap.info = world
    \/ Step("publish") /\ snap = Current
    \/ ~Step("list") /\ ~Step("publish") /\ lastState = Current

MendInv ==
    /\ conn # "none" /\ stream.end = "no" => up
    /\ conn = "live" => stream.hello = "none"
    /\ Listens => Synced

(* What comes later is not lost with the first step, whatever is put in    *)
(* its place.                                                              *)
LEMMA Later ==
    ASSUME NEW q \in Seq(Ops), q # <<>>, NEW s \in Seq(Ops),
           NEW x, x # Head(q), \E i \in DOMAIN q : q[i] = x
    PROVE  /\ \E i \in DOMAIN Tail(q) : Tail(q)[i] = x
           /\ \E i \in DOMAIN (s \o Tail(q)) : (s \o Tail(q))[i] = x
<1> DEFINE r == Tail(q)
<1>1. r \in Seq(Ops) /\ \E i \in DOMAIN r : r[i] = x BY TailAt
<1> HIDE DEF r
<1>2. PICK k \in DOMAIN r : r[k] = x BY <1>1
<1>3. Len(s) + k \in DOMAIN (s \o r) /\ (s \o r)[Len(s) + k] = r[k] BY <1>1
<1>4. \E i \in DOMAIN (s \o r) : (s \o r)[i] = x BY <1>2, <1>3
<1> QED BY <1>1, <1>4 DEF r

(* What a handler has still to take, it has still to take after a step.    *)
LEMMA TakesOn ==
    ASSUME todo \in Seq(Ops), todo # <<>>, NEW s \in Seq(Ops),
           todo' = Tail(todo) \/ todo' = s \o Tail(todo)
    PROVE  \A x \in Ops : Takes(x) /\ Head(todo) # x => Takes(x)'
<1> SUFFICES ASSUME NEW x \in Ops, Takes(x), Head(todo) # x PROVE Takes(x)'
  OBVIOUS
<1> DEFINE r == Tail(todo)
<1>1. /\ \E i \in DOMAIN r : r[i] = x
      /\ \E i \in DOMAIN (s \o r) : (s \o r)[i] = x
  BY Later DEF Takes
<1>2. todo' = r \/ todo' = s \o r OBVIOUS
<1> HIDE DEF r
<1> QED BY <1>1, <1>2 DEF Takes

(* What it begins with, it has still to take.                              *)
LEMMA FirstTaken ==
    ASSUME NEW s \in Seq(Ops), s # <<>>
    PROVE  /\ \E i \in DOMAIN s : s[i] = Head(s)
           /\ Begins(s) => Head(s) \notin {"list", "publish"}
<1>1. 1 \in DOMAIN s /\ s[1] = Head(s) BY TailAt
<1> QED BY <1>1 DEF Begins

(* What is adopted is read anew.                                           *)
LEMMA AdoptReads ==
    ASSUME NEW s \in Seq(Ops), Ordered(s), s # <<>>, Head(s) = "adopt"
    PROVE  \E i \in DOMAIN s : s[i] = "info"
<1>1. 1 \in DOMAIN s /\ s[1] = "adopt" BY TailAt
<1>2. 1 + 1 \in DOMAIN s /\ s[1 + 1] = "info" BY <1>1 DEF Ordered
<1> QED BY <1>2

(* A step that has nothing to do with a sample changes nothing of this.    *)
LEMMA OtherStep ==
    ASSUME MonitorInv, MendInv, todo # <<>>,
           Head(todo) \notin {"info", "list", "publish", "adopt", "event"},
           todo' = Tail(todo) \/ todo' = <<"watch">> \o Tail(todo),
           UNCHANGED <<conn, stream, up, world, lastState, debounce, snap>>
    PROVE  MendInv'
<1>1. todo \in Seq(Ops) /\ Ordered(todo) BY DEF MonitorInv, TypeOK
<1>2. Whole(<<"watch">>) /\ <<"watch">> \in Seq(Ops) BY Pieces DEF Ops, Whole
<1>3. (Takes("info") => Takes("info")') /\ (Takes("event") => Takes("event")')
  BY <1>1, <1>2, TakesOn DEF Ops
<1>4. Whole(todo')
  <2>1. Whole(Tail(todo)) BY <1>1, GoesOn DEF Whole
  <2>2. Whole(<<"watch">> \o Tail(todo)) BY <1>1, <1>2, PutFirst
  <2> QED BY <2>1, <2>2
<1>5. ~Step("list")' /\ ~Step("publish")' BY <1>4, FirstTaken DEF Step, Whole
<1>6. ~Step("list") /\ ~Step("publish") BY DEF Step
<1>7. Current' = Current BY DEF Current, Down
<1> QED BY <1>3, <1>5, <1>6, <1>7 DEF MendInv, Listens, Synced, Mending

(* A step of the handler mends what it finds, or leaves it to be mended.   *)
LEMMA HandlerMends ==
    ASSUME ~Timeouts
    PROVE  MonitorInv /\ MendInv /\ HandlerStep => MendInv'
<1> SUFFICES ASSUME MonitorInv, MendInv, HandlerStep PROVE MendInv'
  OBVIOUS
<1>0. TypeOK /\ todo \in Seq(Ops) /\ Ordered(todo) BY DEF MonitorInv, TypeOK
<1>1. up' = up /\ world' = world /\ Current' = Current
  BY DEF HandlerStep, daemonVars, Current, Down
<1>2. CASE SetupFsWatcher \/ SetIdle \/ RetryOrWatch
  <2>1. /\ todo # <<>> /\ Head(todo) \in {"watch", "idle", "retry"}
        /\ todo' = Tail(todo) \/ todo' = <<"watch">> \o Tail(todo)
        /\ UNCHANGED <<conn, stream, lastState, debounce, snap>>
    BY <1>2 DEF SetupFsWatcher, SetIdle, RetryOrWatch, Step, GoOn
  <2> QED BY <1>1, <2>1, OtherStep
<1>3. CASE ConnectEvents \/ CloseForService \/ BreakStream
  BY <1>1, <1>3
  DEF ConnectEvents, CloseForService, BreakStream, CloseEvents, MendInv, Listens
<1>4. CASE ReadInfo
  <2>1. todo # <<>> /\ Head(todo) = "info" /\ UNCHANGED <<conn, stream>>
    BY <1>4 DEF ReadInfo, Step
  <2>2. CASE Listens
    <3>1. up BY <2>2 DEF MendInv, Listens
    <3>2. snap'.info = world /\ todo' = Tail(todo)
      BY <1>4, <3>1 DEF ReadInfo, GoOn
    <3>3. todo' # <<>> /\ Head(todo') = "list" BY <1>0, <2>1, <3>2, GoesOn
    <3> QED BY <1>1, <2>1, <3>2, <3>3 DEF MendInv, Synced, Step
  <2> QED BY <1>1, <2>1, <2>2 DEF MendInv, Listens
<1>5. CASE ReadList
  <2>1. /\ todo # <<>> /\ Head(todo) = "list" /\ todo' = Tail(todo)
        /\ UNCHANGED <<conn, stream, debounce>>
    BY <1>5 DEF ReadList, Step, GoOn
  <2>2. CASE Listens /\ Mending
    <3>1. <<>> \in Seq(Ops) OBVIOUS
    <3>2. Takes("info") \/ Takes("event") => Takes("info")' \/ Takes("event")'
      BY <1>0, <2>1, <3>1, TakesOn DEF Ops
    <3> QED BY <1>1, <2>1, <2>2, <3>2 DEF MendInv, Listens, Synced, Mending
  <2>3. CASE Listens /\ ~Mending
    <3>1. up /\ snap.info = world BY <2>1, <2>3 DEF MendInv, Listens, Synced, Step
    <3>2. snap' = [snap EXCEPT !.list = world] BY <1>5, <3>1 DEF ReadList
    <3>3. snap' = Current
      <4>1. snap \in [info : Seen, list : Seen] BY <1>0 DEF TypeOK, States
      <4> QED BY <3>1, <3>2, <4>1 DEF Current
    <3>4. todo' # <<>> /\ Head(todo') \in {"publish", "adopt"}
      BY <1>0, <2>1, GoesOn
    <3>5. CASE Head(todo') = "publish"
      BY <1>1, <2>1, <3>3, <3>4, <3>5 DEF MendInv, Synced, Step
    <3>6. CASE Head(todo') = "adopt"
      <4>1. Tail(todo) \in Seq(Ops) /\ Ordered(Tail(todo)) BY <1>0, <2>1, GoesOn
      <4>2. \E i \in DOMAIN Tail(todo) : Tail(todo)[i] = "info"
        BY <2>1, <3>4, <3>6, <4>1, AdoptReads
      <4> QED BY <1>1, <2>1, <4>2 DEF MendInv, Synced, Mending, Takes
    <3> QED BY <3>4, <3>5, <3>6
  <2> QED BY <1>1, <2>1, <2>2, <2>3 DEF MendInv, Listens
<1>6. CASE Publish
  <2>1. /\ todo # <<>> /\ Head(todo) = "publish" /\ todo' = Tail(todo)
        /\ UNCHANGED <<conn, stream, debounce>>
    BY <1>6 DEF Publish, Step, GoOn
  <2>2. CASE Listens /\ Mending
    <3>1. <<>> \in Seq(Ops) OBVIOUS
    <3>2. Takes("info") \/ Takes("event") => Takes("info")' \/ Takes("event")'
      BY <1>0, <2>1, <3>1, TakesOn DEF Ops
    <3> QED BY <1>1, <2>1, <2>2, <3>2 DEF MendInv, Listens, Synced, Mending
  <2>3. CASE Listens /\ ~Mending
    <3>1. snap = Current BY <2>1, <2>3 DEF MendInv, Synced, Step
    <3>2. lastState' = Current' BY <1>1, <1>6, <3>1 DEF Publish
    <3>3. Tail(todo) \in Seq(Ops) /\ Begins(Tail(todo)) BY <1>0, <2>1, GoesOn
    <3>4. ~Step("list")' /\ ~Step("publish")' BY <2>1, <3>3, FirstTaken DEF Step
    <3> QED BY <1>1, <2>1, <3>2, <3>4 DEF MendInv, Synced
  <2> QED BY <1>1, <2>1, <2>2, <2>3 DEF MendInv, Listens
<1>7. CASE AdoptState
  <2>1. /\ todo # <<>> /\ Head(todo) = "adopt" /\ todo' = Tail(todo)
        /\ UNCHANGED <<conn, stream>>
    BY <1>7 DEF AdoptState, Step, GoOn
  <2>2. Takes("info")'
    <3>1. Tail(todo) \in Seq(Ops) /\ Tail(todo) # <<>> /\ Head(Tail(todo)) = "info"
      BY <1>0, <2>1, GoesOn
    <3> QED BY <2>1, <3>1, FirstTaken DEF Takes
  <2> QED BY <1>1, <2>1, <2>2 DEF MendInv, Listens, Synced, Mending
<1>8. CASE TriggerSample
  <2>1. UNCHANGED <<conn, stream>> BY <1>8 DEF TriggerSample
  <2>2. debounce' \/ Takes("info")'
    <3>1. CASE initialized BY <1>8, <3>1 DEF TriggerSample
    <3>2. CASE ~initialized
      <4>1. /\ todo # <<>> /\ todo' = Sample \o Tail(todo)
        BY <1>8, <3>2 DEF TriggerSample, Step
      <4>2. Sample \in Seq(Ops) /\ 1 \in DOMAIN Sample /\ Sample[1] = "info"
        BY DEF Sample, Ops
      <4>3. Tail(todo) \in Seq(Ops) BY <1>0, <4>1, GoesOn
      <4>4. 1 \in DOMAIN todo' /\ todo'[1] = "info" BY <4>1, <4>2, <4>3, ConcatAt
      <4> QED BY <4>4 DEF Takes
    <3> QED BY <3>1, <3>2
  <2> QED BY <1>1, <2>1, <2>2 DEF MendInv, Listens, Synced, Mending
<1> QED
  BY <1>2, <1>3, <1>4, <1>5, <1>6, <1>7, <1>8 DEF HandlerStep

(* So does what starts one.                                                *)
LEMMA HandleMends == MonitorInv /\ MendInv /\ Handle => MendInv'
<1> SUFFICES ASSUME MonitorInv, MendInv, Handle PROVE MendInv'
  OBVIOUS
<1>0. TypeOK BY DEF MonitorInv
<1>1. /\ todo = <<>> /\ UNCHANGED <<lastState, up, world>> /\ Current' = Current
  BY DEF Handle, daemonVars, Current, Down
<1>2. ~Takes("info") /\ ~Takes("event") /\ ~Step("list") /\ ~Step("publish")
  BY <1>1 DEF Takes, Step
<1>3. Listens => stream.events \/ debounce \/ lastState = Current
  BY <1>2 DEF MendInv, Synced, Mending
<1>4. ~Step("list")' /\ ~Step("publish")'
  <2>1. CASE todo' = todo BY <1>1, <2>1 DEF Step
  <2>2. CASE todo' # todo
    <3>1. Whole(todo') BY <1>0, <2>2, HandleWhole
    <3> QED BY <3>1, FirstTaken DEF Step, Whole
  <2> QED BY <2>1, <2>2
<1>5. CASE OnEventsReadyRead
  <2>1. /\ todo' = Parse /\ debounce' = debounce
        /\ conn' = IF stream.hello = "ok" THEN "live" ELSE conn
        /\ stream' = [stream EXCEPT !.hello = "none", !.events = FALSE]
        /\ conn = "headers" => stream.hello # "none"
    BY <1>5 DEF OnEventsReadyRead
  <2>2. /\ stream \in Streams /\ conn # "none"
        /\ stream'.hello = "none" /\ stream'.end = stream.end
    <3>1. stream \in Streams /\ conn # "none"
      BY <1>0, <1>5, StreamTypes DEF OnEventsReadyRead
    <3> QED BY <2>1, <3>1 DEF Streams
  <2>3. ASSUME Listens' PROVE Synced'
    <3>1. CASE conn = "headers"
      <4>1. stream.hello = "ok" BY <2>1, <2>3, <3>1 DEF Listens
      <4>2. Parse \in Seq(Ops) /\ Parse # <<>> /\ Head(Parse) = "info"
        BY <3>1, <4>1, ParseWhole DEF Whole
      <4>3. Takes("info")' BY <2>1, <4>2, FirstTaken DEF Takes
      <4> QED BY <4>3 DEF Synced, Mending
    <3>2. CASE conn = "live"
      <4>1. Listens /\ stream.hello = "none" BY <2>2, <2>3, <3>2 DEF Listens, MendInv
      <4>2. CASE stream.events
        <5>1. \E i \in DOMAIN Parse : Parse[i] = "event" BY <4>1, <4>2, ParseWhole
        <5> QED BY <2>1, <5>1 DEF Synced, Mending, Takes
      <4>3. CASE ~stream.events
        BY <1>1, <1>3, <1>4, <2>1, <4>1, <4>3 DEF Synced, Mending
      <4> QED BY <4>2, <4>3
    <3> QED BY <1>0, <2>2, <3>1, <3>2 DEF TypeOK
  <2> QED BY <1>1, <2>1, <2>2, <2>3 DEF MendInv
<1>6. CASE OnEventsLost
  BY <1>1, <1>6 DEF OnEventsLost, CloseEvents, MendInv, Listens
<1>7. CASE OnSocketDirectoryChanged \/ ReconnectEvents \/ RunRequest
  <2>1. UNCHANGED <<conn, stream, debounce>>
    BY <1>7 DEF OnSocketDirectoryChanged, ReconnectEvents, RunRequest
  <2> QED BY <1>1, <1>3, <1>4, <2>1 DEF MendInv, Listens, Synced, Mending
<1>8. CASE DebounceTimeout
  <2>1. UNCHANGED <<conn, stream>> /\ todo' = Sample BY <1>8 DEF DebounceTimeout
  <2>2. 1 \in DOMAIN Sample /\ Sample[1] = "info" BY DEF Sample
  <2>3. Takes("info")' BY <2>1, <2>2 DEF Takes
  <2> QED BY <1>1, <2>1, <2>3 DEF MendInv, Listens, Synced, Mending
<1> QED BY <1>5, <1>6, <1>7, <1>8 DEF Handle

(* And so do the GUI and the daemon: a change is told.                     *)
LEMMA OtherMends == MonitorInv /\ MendInv /\ (Request \/ Deliver \/ Daemon) => MendInv'
<1> SUFFICES ASSUME MonitorInv, MendInv, Request \/ Deliver \/ Daemon PROVE MendInv'
  OBVIOUS
<1>0. TypeOK BY DEF MonitorInv
<1>1. UNCHANGED <<todo, conn, lastState, snap, debounce>>
  BY DEF Request, Deliver, Daemon, workerVars
<1>2. \A x \in Ops : Takes(x)' = Takes(x) /\ Step(x)' = Step(x)
  BY <1>1 DEF Takes, Step
<1>3. ASSUME stream' = stream, up' = up, world' = world PROVE MendInv'
  <2>1. Current' = Current BY <1>3 DEF Current, Down
  <2> QED BY <1>1, <1>2, <1>3, <2>1 DEF MendInv, Listens, Synced, Mending, Ops
<1>4. CASE Request \/ Deliver
  BY <1>3, <1>4 DEF Request, Deliver, daemonVars
<1>5. CASE DaemonAnswers
  <2>1. conn = "headers" /\ up' = up /\ up BY <1>5 DEF DaemonAnswers, daemonVars
  <2> QED BY <1>1, <2>1 DEF MendInv, Listens
<1>6. CASE DaemonStarts
  <2>1. ~up /\ up' /\ stream' = stream BY <1>6 DEF DaemonStarts
  <2> QED BY <1>1, <2>1 DEF MendInv, Listens
<1>7. CASE DaemonExits
  <2>1. PICK e \in {"chunk", "eof"} :
           stream' = IF conn = "none" THEN stream
                     ELSE [stream EXCEPT !.end = IF @ # "no" THEN @ ELSE
                             IF conn = "live" \/ stream.hello = "ok" THEN e ELSE "eof"]
    BY <1>7 DEF DaemonExits
  <2>2. stream \in Streams BY <1>0, StreamTypes
  <2>3. conn # "none" => stream'.end # "no" /\ stream'.hello = stream.hello
    BY <2>1, <2>2 DEF Streams
  <2> QED BY <1>1, <2>3 DEF MendInv, Listens
<1>8. CASE WorldChanges
  <2>1. /\ up' = up /\ stream' = IF Subscribed THEN [stream EXCEPT !.events = TRUE] ELSE stream
    BY <1>8 DEF WorldChanges
  <2>2. stream \in Streams BY <1>0, StreamTypes
  <2>3. /\ stream'.end = stream.end /\ stream'.hello = stream.hello
        /\ Subscribed => stream'.events
    BY <2>1, <2>2 DEF Streams
  <2>4. Listens => Subscribed BY DEF Listens, Subscribed
  <2> QED BY <1>1, <2>1, <2>3, <2>4 DEF MendInv, Listens, Synced, Mending
<1>9. CASE OtherFile BY <1>3, <1>9 DEF OtherFile, daemonVars
<1> QED BY <1>4, <1>5, <1>6, <1>7, <1>8, <1>9 DEF Daemon

(* Over a live connection, a state that is not the daemon's is one that an *)
(* unread event, the debounce timer or the running handler will mend, as   *)
(* long as a daemon that is up answers in time.                            *)
THEOREM NoEventIsLost ==
    ASSUME ~Timeouts
    PROVE  Spec => []NoLostEvent
<1>1. Init => MonitorInv /\ MendInv
  <2>1. Init => MendInv BY DEF Init, MendInv, Listens
  <2> QED BY <2>1, MonitorInit
<1>2. MonitorInv /\ MendInv /\ [Next]_vars => MonitorInv' /\ MendInv'
  <2>1. MonitorInv /\ UNCHANGED vars => MonitorInv'
    BY DEF vars, workerVars, guiVars, daemonVars, MonitorInv, TypeOK
  <2>2. MendInv /\ UNCHANGED vars => MendInv'
    BY DEF vars, workerVars, guiVars, daemonVars, MendInv, Listens, Synced, Mending,
           Takes, Step, Current, Down
  <2> QED
    BY <2>1, <2>2, HandlerTypes, HandleTypes, OtherTypes, HandlerMends, HandleMends,
       OtherMends DEF Next
<1>3. MonitorInv /\ MendInv => NoLostEvent
  BY DEF MendInv, Listens, Synced, Mending, NoLostEvent
<1> QED BY <1>1, <1>2, <1>3, PTL DEF Spec
=============================================================================
