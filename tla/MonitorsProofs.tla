--------------------------- MODULE MonitorsProofs ---------------------------
(***************************************************************************)
(* What the monitors of MCMonitors show, for any sources, paths, queries   *)
(* and bounds: an invariant for each component, which the steps of the     *)
(* others do not touch, and the claims that are its parts.                 *)
(***************************************************************************)
EXTENDS MCMonitors, CollectionsProofs, FiniteSetTheorems, FunctionTheorems, TLAPS

-----------------------------------------------------------------------------
(* Of a queue of messages some carry a value: those in the domain of the   *)
(* function of, which says it.                                             *)

(* The value carried last, or else the one there is now, is goal.          *)
Arrives(of, msgs, goal, now) ==
    /\ \A i \in DOMAIN msgs :
         /\ msgs[i] \in DOMAIN of
         /\ \A j \in DOMAIN msgs : j > i => msgs[j] \notin DOMAIN of
         => of[msgs[i]] = goal
    /\ (\A i \in DOMAIN msgs : msgs[i] \notin DOMAIN of) => now = goal

(* A message that is put in the queue: what it carries, if anything,       *)
(* counts.                                                                 *)
LEMMA ArrivesMore ==
    ASSUME NEW M, NEW msgs \in Seq(M), NEW m \in M, NEW of, NEW goal, NEW now,
           Arrives(of, msgs, goal, now)
    PROVE  /\ Append(msgs, m) \in Seq(M)
           /\ m \notin DOMAIN of => Arrives(of, Append(msgs, m), goal, now)
           /\ m \in DOMAIN of => \A other : Arrives(of, Append(msgs, m), of[m], other)
<1> DEFINE r == Append(msgs, m)
<1>1. /\ r \in Seq(M) /\ Len(msgs) \in Nat /\ Len(r) = Len(msgs) + 1
      /\ DOMAIN r = 1 .. Len(r) /\ DOMAIN msgs = 1 .. Len(msgs)
      /\ \A i \in 1 .. Len(msgs) : r[i] = msgs[i]
      /\ r[Len(msgs) + 1] = m
  OBVIOUS
<1>2. Len(r) \in DOMAIN r /\ DOMAIN msgs \subseteq DOMAIN r BY <1>1
<1> HIDE DEF r
<1>3. ASSUME m \in DOMAIN of, NEW other PROVE Arrives(of, r, of[m], other)
  <2>1. ASSUME NEW i \in DOMAIN r, r[i] \in DOMAIN of,
               \A j \in DOMAIN r : j > i => r[j] \notin DOMAIN of
        PROVE  of[r[i]] = of[m]
    <3>1. ~(Len(r) > i) BY <1>1, <1>2, <1>3, <2>1
    <3>2. i = Len(r) BY <1>1, <3>1
    <3> QED BY <1>1, <3>2
  <2> QED BY <1>1, <1>2, <1>3, <2>1 DEF Arrives
<1>4. ASSUME m \notin DOMAIN of PROVE Arrives(of, r, goal, now)
  <2>1. ASSUME NEW i \in DOMAIN r, r[i] \in DOMAIN of,
               \A j \in DOMAIN r : j > i => r[j] \notin DOMAIN of
        PROVE  of[r[i]] = goal
    <3>1. i \in DOMAIN msgs /\ r[i] = msgs[i] BY <1>1, <1>4, <2>1
    <3>2. \A j \in DOMAIN msgs : j > i => msgs[j] \notin DOMAIN of BY <1>1, <1>2, <2>1
    <3> QED BY <2>1, <3>1, <3>2 DEF Arrives
  <2>2. ASSUME \A i \in DOMAIN r : r[i] \notin DOMAIN of PROVE now = goal
    BY <1>1, <1>2, <2>2 DEF Arrives
  <2> QED BY <2>1, <2>2 DEF Arrives
<1> QED BY <1>1, <1>3, <1>4 DEF r

(* Whatever was queued before, the last value put in is the goal.          *)
LEMMA LastCounts ==
    ASSUME NEW M, NEW msgs \in Seq(M), NEW m \in M, NEW of, m \in DOMAIN of, NEW now
    PROVE  Arrives(of, Append(msgs, m), of[m], now)
<1> DEFINE r == Append(msgs, m)
<1>1. /\ Len(msgs) \in Nat /\ Len(r) = Len(msgs) + 1 /\ DOMAIN r = 1 .. Len(r)
      /\ r[Len(r)] = m
  OBVIOUS
<1>2. Len(r) \in DOMAIN r BY <1>1
<1> HIDE DEF r
<1>3. ASSUME NEW i \in DOMAIN r, \A j \in DOMAIN r : j > i => r[j] \notin DOMAIN of
      PROVE  r[i] = m
  <2>1. ~(Len(r) > i) BY <1>1, <1>2, <1>3
  <2> QED BY <1>1, <2>1
<1> QED BY <1>1, <1>2, <1>3 DEF Arrives, r

(* The message taken from the queue: what it carries is what there is now. *)
LEMMA ArrivesLess ==
    ASSUME NEW M, NEW msgs \in Seq(M), msgs # <<>>, NEW of, NEW goal, NEW now,
           Arrives(of, msgs, goal, now)
    PROVE  /\ Head(msgs) \in M /\ Tail(msgs) \in Seq(M)
           /\ Head(msgs) \notin DOMAIN of => Arrives(of, Tail(msgs), goal, now)
           /\ Head(msgs) \in DOMAIN of => Arrives(of, Tail(msgs), goal, of[Head(msgs)])
<1> DEFINE r == Tail(msgs)
           h == Head(msgs)
<1>1. /\ r \in Seq(M) /\ Len(msgs) \in Nat /\ Len(r) = Len(msgs) - 1
      /\ DOMAIN r = 1 .. Len(r) /\ DOMAIN msgs = 1 .. Len(msgs) /\ 1 \in DOMAIN msgs
      /\ \A i \in 1 .. Len(r) : r[i] = msgs[i + 1]
      /\ h = msgs[1] /\ h \in M
  OBVIOUS
<1> HIDE DEF r, h
<1>2. \A i \in DOMAIN msgs : i # 1 => i - 1 \in DOMAIN r /\ r[i - 1] = msgs[i]
  <2> SUFFICES ASSUME NEW i \in DOMAIN msgs, i # 1
               PROVE  i - 1 \in DOMAIN r /\ r[i - 1] = msgs[i]
    OBVIOUS
  <2>1. i - 1 \in 1 .. Len(r) /\ (i - 1) + 1 = i BY <1>1
  <2> QED BY <1>1, <2>1
<1>3. \A i \in DOMAIN r : i + 1 \in DOMAIN msgs /\ r[i] = msgs[i + 1] BY <1>1
<1>4. ASSUME NEW i \in DOMAIN r, r[i] \in DOMAIN of,
             \A j \in DOMAIN r : j > i => r[j] \notin DOMAIN of
      PROVE  of[r[i]] = goal
  <2>1. i + 1 \in DOMAIN msgs /\ r[i] = msgs[i + 1] /\ i \in Nat BY <1>1, <1>3
  <2>2. ASSUME NEW j \in DOMAIN msgs, j > i + 1 PROVE msgs[j] \notin DOMAIN of
    <3>1. j # 1 /\ j - 1 > i BY <1>1, <2>1, <2>2
    <3> QED BY <1>2, <1>4, <3>1
  <2> QED BY <1>4, <2>1, <2>2 DEF Arrives
<1>5. ASSUME \A i \in DOMAIN r : r[i] \notin DOMAIN of, h \in DOMAIN of PROVE of[h] = goal
  <2>1. \A j \in DOMAIN msgs : j > 1 => msgs[j] \notin DOMAIN of BY <1>1, <1>2, <1>5
  <2> QED BY <1>1, <1>5, <2>1 DEF Arrives
<1>6. ASSUME \A i \in DOMAIN r : r[i] \notin DOMAIN of, h \notin DOMAIN of PROVE now = goal
  <2>1. \A i \in DOMAIN msgs : msgs[i] \notin DOMAIN of BY <1>1, <1>2, <1>6
  <2> QED BY <2>1 DEF Arrives
<1> QED BY <1>1, <1>4, <1>5, <1>6 DEF Arrives, r, h

-----------------------------------------------------------------------------
(* The calendar.                                                           *)

HolidayTypes ==
    /\ calendars \in [Calendars -> [there : BOOLEAN, version : Nat]]
    /\ path \in Calendars \cup {NoPath}
    /\ watch \in [on : {path, NoPath}, changed : SUBSET Calendars]
    /\ serial \in [id : Nat, sets : Nat, edits : Nat]
    /\ loads \subseteq [id : 1 .. serial.id, of : Calendars, read : BOOLEAN, version : Nat]
    /\ events \in [of : Calendars \cup {NoPath}, version : Nat]

(* The load whose answer will be taken is the only one of its number, and  *)
(* one of the path that is set.                                            *)
LastLoad ==
    /\ \A l, m \in loads : l.id = m.id => l = m
    /\ \A l \in loads : l.id = serial.id /\ path # NoPath => l.of = path

(* What was read of a file that is watched is what is in it, or else the   *)
(* change is still to be reported.                                         *)
Fits(v) == v = calendars[path].version

WatchedFits ==
    watch.on # NoPath =>
        /\ calendars[path].there
        /\ path \notin watch.changed =>
              /\ \A l \in loads : l.id = serial.id /\ l.read => Fits(l.version)
              /\ \/ \E l \in loads : l.id = serial.id
                 \/ events.of = path /\ Fits(events.version)

HolidayInv == HolidayTypes /\ LastLoad /\ WatchedFits

(* The calendar starts with nothing to load and nothing watched.           *)
LEMMA HolidayInit == Holidays!Init => HolidayInv
BY DEF Holidays!Init, Holidays!NoEvents, HolidayInv, HolidayTypes, LastLoad, WatchedFits, Fits

(* A load that is started supersedes those before it.                      *)
LEMMA LoadAt ==
    ASSUME HolidayTypes, LastLoad, path' \in Calendars, path' # NoPath, NEW s,
           s \in [id : {serial.id}, sets : Nat, edits : Nat], Holidays!Load(path', s)
    PROVE  /\ serial' \in [id : Nat, sets : Nat, edits : Nat]
           /\ loads' \subseteq
                 [id : 1 .. serial'.id, of : Calendars, read : BOOLEAN, version : Nat]
           /\ LastLoad'
           /\ \E l \in loads' : l.id = serial'.id
           /\ \A l \in loads' : l.id = serial'.id => ~l.read
<1> DEFINE n == [id |-> s.id + 1, of |-> path', read |-> FALSE, version |-> 0]
<1>1. /\ serial' = [s EXCEPT !.id = @ + 1] /\ loads' = loads \cup {n}
  BY DEF Holidays!Load
<1>2. /\ s.id = serial.id /\ serial.id \in Nat
      /\ loads \subseteq [id : 1 .. serial.id, of : Calendars, read : BOOLEAN, version : Nat]
  BY DEF HolidayTypes
<1>3. serial' \in [id : Nat, sets : Nat, edits : Nat] /\ serial'.id = serial.id + 1
  BY <1>1, <1>2
<1>4. n.id = serial.id + 1 /\ n.of = path' /\ ~n.read /\ n.version = 0 /\ n.read = FALSE
  BY <1>2
<1>5. n \in [id : 1 .. serial'.id, of : Calendars, read : BOOLEAN, version : Nat]
  BY <1>2, <1>3
<1> HIDE DEF n
<1>6. \A l \in loads : l.id \in 1 .. serial.id BY <1>2
<1>7. \A l \in loads : l.id # n.id BY <1>2, <1>4, <1>6
<1>8. \A l \in loads :
         l \in [id : 1 .. serial'.id, of : Calendars, read : BOOLEAN, version : Nat]
  <2>1. 1 .. serial.id \subseteq 1 .. serial'.id BY <1>2, <1>3
  <2> QED BY <1>2, <2>1
<1>9. LastLoad' BY <1>1, <1>3, <1>4, <1>7 DEF LastLoad
<1> QED BY <1>1, <1>3, <1>4, <1>5, <1>7, <1>8, <1>9

(* No step shows anything but what the file watched holds, or leaves that  *)
(* unread.                                                                 *)
LEMMA HolidayStep ==
    ASSUME HolidayInv, Holidays!Next
    PROVE  HolidayInv'
<1> USE DEF HolidayInv
<1>0. /\ calendars \in [Calendars -> [there : BOOLEAN, version : Nat]]
      /\ path \in Calendars \cup {NoPath}
      /\ watch \in [on : {path, NoPath}, changed : SUBSET Calendars]
      /\ serial \in [id : Nat, sets : Nat, edits : Nat]
      /\ loads \subseteq [id : 1 .. serial.id, of : Calendars, read : BOOLEAN, version : Nat]
      /\ events \in [of : Calendars \cup {NoPath}, version : Nat]
  BY DEF HolidayTypes
<1>1. CASE Holidays!Edit
  <2>1. PICK c \in Calendars, how \in {"write", "replace", "remove"} :
           /\ calendars' = [calendars EXCEPT ![c] =
                  [there |-> how # "remove", version |-> serial'.edits]]
           /\ watch' = IF watch.on # c THEN watch
                       ELSE [on |-> IF how = "write" THEN c ELSE NoPath,
                             changed |-> watch.changed \cup {c}]
    BY <1>1 DEF Holidays!Edit
  <2>2. UNCHANGED <<path, loads, events>> /\ serial' = [serial EXCEPT !.edits = @ + 1]
    BY <1>1 DEF Holidays!Edit
  <2>3. /\ serial' \in [id : Nat, sets : Nat, edits : Nat] /\ serial'.id = serial.id
        /\ serial'.edits \in Nat
    BY <1>0, <2>2
  <2>4. calendars' \in [Calendars -> [there : BOOLEAN, version : Nat]] BY <1>0, <2>1, <2>3
  <2>5. watch' \in [on : {path', NoPath}, changed : SUBSET Calendars]
    BY <1>0, <2>1, <2>2
  <2>6. HolidayTypes' BY <1>0, <2>2, <2>3, <2>4, <2>5 DEF HolidayTypes
  <2>7. LastLoad' BY <2>2, <2>3 DEF LastLoad
  <2>8. WatchedFits'
    <3>1. CASE watch.on = c
      <4>1. /\ watch'.on # NoPath => how = "write" /\ c = path
            /\ c \in watch'.changed
        BY <1>0, <2>1, <3>1
      <4>2. how = "write" => calendars'[c].there BY <1>0, <2>1
      <4> QED BY <2>2, <4>1, <4>2 DEF WatchedFits
    <3>2. CASE watch.on # c
      <4>1. watch' = watch BY <2>1, <3>2
      <4>2. watch.on # NoPath => path # c /\ calendars'[path] = calendars[path]
        BY <1>0, <2>1, <3>2
      <4> QED BY <2>2, <2>3, <4>1, <4>2 DEF WatchedFits, Fits
    <3> QED BY <3>1, <3>2
  <2> QED BY <2>6, <2>7, <2>8
<1>2. ASSUME NEW s, s \in [id : {serial.id}, sets : Nat, edits : Nat],
             Holidays!Load(path', s), UNCHANGED <<calendars, events>>,
             path' \in Calendars \cup {NoPath},
             watch' \in [on : {path', NoPath}, changed : SUBSET Calendars],
             watch'.on # NoPath => calendars[path'].there,
             path' # NoPath \/ UNCHANGED path
      PROVE  HolidayInv'
  <2>1. CASE path' = NoPath
    <3>1. serial' = s /\ UNCHANGED loads BY <1>2, <2>1 DEF Holidays!Load
    <3>2. HolidayTypes' BY <1>0, <1>2, <3>1 DEF HolidayTypes
    <3>3. watch'.on = NoPath BY <1>2, <2>1
    <3>4. LastLoad' BY <2>1, <3>1 DEF LastLoad
    <3> QED BY <3>2, <3>3, <3>4 DEF WatchedFits
  <2>2. CASE path' # NoPath
    <3>1. path' \in Calendars BY <1>2, <2>2
    <3>2. /\ serial' \in [id : Nat, sets : Nat, edits : Nat]
          /\ loads' \subseteq
                [id : 1 .. serial'.id, of : Calendars, read : BOOLEAN, version : Nat]
          /\ LastLoad'
          /\ \E l \in loads' : l.id = serial'.id
          /\ \A l \in loads' : l.id = serial'.id => ~l.read
      BY <1>2, <2>2, <3>1, LoadAt
    <3>3. HolidayTypes' BY <1>0, <1>2, <3>2 DEF HolidayTypes
    <3>4. WatchedFits' BY <1>2, <3>2 DEF WatchedFits
    <3> QED BY <3>2, <3>3, <3>4
  <2> QED BY <2>1, <2>2
<1>3. CASE Holidays!SetIcsPath
  <2>1. PICK p \in Calendars \cup {NoPath} :
           /\ p # path /\ path' = p
           /\ watch' = [watch EXCEPT !.on =
                  IF p # NoPath /\ calendars[p].there THEN p ELSE NoPath]
           /\ Holidays!Load(p, [serial EXCEPT !.sets = @ + 1])
    BY <1>3 DEF Holidays!SetIcsPath
  <2>2. [serial EXCEPT !.sets = @ + 1] \in [id : {serial.id}, sets : Nat, edits : Nat]
    BY <1>0
  <2>3. UNCHANGED <<calendars, events>> BY <1>3 DEF Holidays!SetIcsPath
  <2>4. /\ watch' \in [on : {path', NoPath}, changed : SUBSET Calendars]
        /\ watch'.on # NoPath => calendars[path'].there
    BY <1>0, <2>1
  <2>5. CASE path' # NoPath BY <1>2, <2>1, <2>2, <2>3, <2>4, <2>5
  <2>6. CASE path' = NoPath
    <3>1. serial' = [serial EXCEPT !.sets = @ + 1] /\ UNCHANGED loads
      BY <2>1, <2>6 DEF Holidays!Load
    <3>2. serial' \in [id : Nat, sets : Nat, edits : Nat] /\ serial'.id = serial.id
      BY <1>0, <3>1
    <3>3. HolidayTypes' BY <1>0, <2>1, <2>3, <2>4, <3>1, <3>2 DEF HolidayTypes
    <3>4. watch'.on = NoPath BY <2>4, <2>6
    <3>5. LastLoad' BY <2>6, <3>1 DEF LastLoad
    <3> QED BY <3>3, <3>4, <3>5 DEF WatchedFits
  <2> QED BY <2>5, <2>6
<1>4. CASE Holidays!Reload
  <2>1. /\ Holidays!Load(path', [serial EXCEPT !.sets = @ + 1])
        /\ UNCHANGED <<calendars, path, watch, events>>
    BY <1>4 DEF Holidays!Reload
  <2>2. [serial EXCEPT !.sets = @ + 1] \in [id : {serial.id}, sets : Nat, edits : Nat]
    BY <1>0
  <2>3. watch.on # NoPath => calendars[path].there BY DEF WatchedFits
  <2> QED BY <1>0, <1>2, <2>1, <2>2, <2>3
<1>5. CASE Holidays!OnFileChanged
  <2>1. PICK c \in watch.changed :
           /\ watch' = [watch EXCEPT !.changed = @ \ {c}]
           /\ IF c = path THEN Holidays!Load(path, serial) ELSE UNCHANGED <<loads, serial>>
           /\ UNCHANGED <<calendars, path, events>>
    BY <1>5 DEF Holidays!OnFileChanged
  <2>2. /\ watch' \in [on : {path, NoPath}, changed : SUBSET Calendars]
        /\ watch'.on = watch.on /\ watch'.changed = watch.changed \ {c}
    BY <1>0, <2>1
  <2>3. watch.on # NoPath => calendars[path].there BY DEF WatchedFits
  <2>4. CASE c = path
    <3>1. serial \in [id : {serial.id}, sets : Nat, edits : Nat] BY <1>0
    <3>2. Holidays!Load(path', serial) BY <2>1, <2>4
    <3> QED BY <1>0, <1>2, <2>1, <2>2, <2>3, <3>1, <3>2
  <2>5. CASE c # path
    <3>1. HolidayTypes' BY <1>0, <2>1, <2>2, <2>5 DEF HolidayTypes
    <3>2. LastLoad' BY <2>1, <2>5 DEF LastLoad
    <3>3. WatchedFits' BY <2>1, <2>2, <2>5 DEF WatchedFits, Fits
    <3> QED BY <3>1, <3>2, <3>3
  <2> QED BY <2>4, <2>5
<1>6. CASE Holidays!ReadFile
  <2>1. PICK l \in loads :
           /\ ~l.read
           /\ loads' = (loads \ {l}) \cup {[l EXCEPT !.read = TRUE, !.version =
                  IF calendars[l.of].there THEN calendars[l.of].version ELSE 0]}
           /\ UNCHANGED <<calendars, path, watch, events, serial>>
    BY <1>6 DEF Holidays!ReadFile
  <2> DEFINE v == IF calendars[l.of].there THEN calendars[l.of].version ELSE 0
             n == [l EXCEPT !.read = TRUE, !.version = v]
  <2>2. l.of \in Calendars /\ v \in Nat BY <1>0
  <2>3. /\ n \in [id : 1 .. serial.id, of : Calendars, read : BOOLEAN, version : Nat]
        /\ n.id = l.id /\ n.of = l.of /\ n.version = v
    BY <1>0, <2>2
  <2> HIDE DEF n
  <2>4. loads' = (loads \ {l}) \cup {n} BY <2>1 DEF n
  <2>5. HolidayTypes' BY <1>0, <2>1, <2>3, <2>4 DEF HolidayTypes
  <2>6. LastLoad' BY <2>1, <2>3, <2>4 DEF LastLoad
  <2>7. WatchedFits'
    <3> SUFFICES ASSUME watch.on # NoPath, path \notin watch.changed
                 PROVE  /\ \A m \in loads' : m.id = serial.id /\ m.read => Fits(m.version)
                        /\ \/ \E m \in loads' : m.id = serial.id
                           \/ events.of = path /\ Fits(events.version)
      BY <2>1 DEF WatchedFits, Fits
    <3>1. calendars[path].there /\ path # NoPath BY <1>0 DEF WatchedFits
    <3>2. n.id = serial.id => Fits(n.version)
      <4>1. l.id = serial.id => l.of = path BY <3>1 DEF LastLoad
      <4> QED BY <2>3, <3>1, <4>1 DEF Fits
    <3> QED BY <2>3, <2>4, <3>2 DEF WatchedFits
  <2> QED BY <2>5, <2>6, <2>7
<1>7. CASE Holidays!EventsLoaded
  <2>1. PICK l \in loads :
           /\ l.read /\ loads' = loads \ {l}
           /\ events' = IF l.id = serial.id THEN [of |-> l.of, version |-> l.version]
                        ELSE events
           /\ UNCHANGED <<calendars, path, watch, serial>>
    BY <1>7 DEF Holidays!EventsLoaded
  <2>2. l.of \in Calendars /\ l.version \in Nat BY <1>0
  <2>3. HolidayTypes' BY <1>0, <2>1, <2>2 DEF HolidayTypes
  <2>4. LastLoad' BY <2>1 DEF LastLoad
  <2>5. WatchedFits'
    <3> SUFFICES ASSUME watch.on # NoPath, path \notin watch.changed
                 PROVE  /\ \A m \in loads' : m.id = serial.id /\ m.read => Fits(m.version)
                        /\ \/ \E m \in loads' : m.id = serial.id
                           \/ events'.of = path /\ Fits(events'.version)
      BY <2>1 DEF WatchedFits, Fits
    <3>1. path # NoPath BY <1>0
    <3>2. CASE l.id = serial.id
      <4>1. l.of = path /\ Fits(l.version) BY <2>1, <3>1, <3>2 DEF LastLoad, WatchedFits
      <4> QED BY <2>1, <3>2, <4>1 DEF WatchedFits
    <3>3. CASE l.id # serial.id BY <2>1, <3>3 DEF WatchedFits
    <3> QED BY <3>2, <3>3
  <2> QED BY <2>3, <2>4, <2>5
<1> QED BY <1>1, <1>3, <1>4, <1>5, <1>6, <1>7 DEF Holidays!Next, Holidays!Internal

(* A step of the sum is a step of the calendar, or leaves it alone.        *)
LEMMA HolidayAlone == [Next]_vars => [Holidays!Next]_holidayVars
BY DEF Next, vars, OnlyEthernet, OnlyTailscale, OnlyUsage, OnlyHolidays, OnlyPricing,
       OnlySearch, OnlyProbe, holidayVars

(* The calendar keeps its invariant through the steps of all components.   *)
LEMMA HolidayInvariant == Spec => []HolidayInv
<1>1. Init => HolidayInv BY HolidayInit DEF Init
<1>2. HolidayInv /\ [Next]_vars => HolidayInv'
  <2> SUFFICES ASSUME HolidayInv, [Next]_vars PROVE HolidayInv'
    OBVIOUS
  <2>1. CASE Holidays!Next BY <2>1, HolidayStep
  <2>2. CASE UNCHANGED holidayVars
    BY <2>2 DEF holidayVars, HolidayInv, HolidayTypes, LastLoad, WatchedFits, Fits
  <2> QED BY <2>1, <2>2, HolidayAlone
<1> QED BY <1>1, <1>2, PTL DEF Spec

(* CalendarCurrent holds for any calendars, sets and edits: as long as the *)
(* watcher holds the file, what is read late or out of order does not stay *)
(* (HolidayProvider.cpp).                                                  *)
THEOREM CalendarStaysCurrent == Spec => []CalendarCurrent
<1>1. HolidayInv => CalendarCurrent
  BY DEF HolidayInv, HolidayTypes, WatchedFits, Fits, CalendarCurrent, Holidays!CalendarCurrent
<1> QED BY <1>1, HolidayInvariant, PTL

-----------------------------------------------------------------------------
(* The state of tailscaled.                                                *)

States == [on : BOOLEAN, status : 0 .. 2, prefs : 0 .. 2]

Message ==
    [type : {"state"}, state : States] \cup [type : {"busy"}, busy : BOOLEAN]
        \cup [type : {"netcheck"}]

Samples ==
    [at : {"none", "status", "prefs", "rewatch"}, read : States,
     after : {"nothing", "lost", "abort", "action"}]

Workers ==
    [watch : {"none", "opened", "streaming"}, line : BOOLEAN, hangup : BOOLEAN,
     watching : BOOLEAN, change : BOOLEAN, retry : BOOLEAN, debounce : BOOLEAN,
     initialized : BOOLEAN, last : States, sample : Samples, slipped : BOOLEAN,
     glimpsed : BOOLEAN]

DaemonTypes ==
    /\ daemon \in [listens : BOOLEAN, file : BOOLEAN, dir : BOOLEAN, state : {1, 2}]
    /\ tailscale \in Workers
    /\ answers \in Seq(Message)
    /\ panel \in [running : BOOLEAN, busy : BOOLEAN, netcheck : BOOLEAN, shown : States]
    /\ used \in [events : 0 .. MaxEvents, asks : 0 .. MaxAsks]

\* A sample that will end in a reconnection.
Reviving == tailscale.sample.at # "none" /\ tailscale.sample.after \in {"lost", "abort"}

Subscribed ==
    /\ daemon.listens => daemon.file
    /\ daemon.file => daemon.dir
    /\ tailscale.line \/ tailscale.hangup => Tailscale!Connected
    /\ tailscale.watch = "opened" => tailscale.line
    /\ Tailscale!Connected => ~tailscale.retry /\ (daemon.listens \/ tailscale.hangup)
    /\ Reviving => tailscale.watch = "none"
    /\ tailscale.sample.at = "rewatch" => Reviving /\ (~daemon.listens \/ tailscale.slipped)
    /\ tailscale.sample.at = "prefs" => tailscale.sample.read.on

(* While the subscription has nothing new to say, what the worker read     *)
(* last is so still.                                                       *)
Heard ==
    Tailscale!Connected /\ ~tailscale.line /\ ~tailscale.hangup /\ ~tailscale.debounce =>
        /\ Tailscale!Waiting => tailscale.last = Tailscale!Now
        /\ tailscale.sample.at = "prefs" => tailscale.sample.read.status = daemon.state

(* Without a subscription, a daemon that is there is about to be noticed,  *)
(* and what was read is that there is none.                                *)
Awaited ==
    tailscale.watch = "none" =>
        /\ daemon.listens /\ tailscale.watching =>
               tailscale.slipped \/ tailscale.change \/ tailscale.retry \/ Reviving
        /\ \/ tailscale.watching /\ Tailscale!Waiting
           \/ tailscale.change /\ Tailscale!Waiting
           \/ tailscale.sample.at = "rewatch"
           => tailscale.last = Tailscale!Offline \/ tailscale.glimpsed

Told == [m \in [type : {"state"}, state : States] |-> m.state]

(* The state reported last is on its way to the panel, or shown.           *)
Reaches(msgs, state, seen) == Arrives(Told, msgs, state, seen)

DaemonInv ==
    /\ DaemonTypes /\ Subscribed /\ Heard /\ Awaited
    /\ Reaches(answers, tailscale.last, panel.shown)

(* The state reported last is on its way when an answer is queued.         *)
LEMMA ReachesMore ==
    ASSUME NEW msgs \in Seq(Message), NEW m \in Message, NEW state, NEW seen,
           Reaches(msgs, state, seen)
    PROVE  /\ Append(msgs, m) \in Seq(Message)
           /\ m.type # "state" => Reaches(Append(msgs, m), state, seen)
           /\ m.type = "state" => Reaches(Append(msgs, m), m.state, seen)
<1>1. m.type = "state" <=> m \in DOMAIN Told BY DEF Message, Told
<1>2. m.type = "state" => Told[m] = m.state BY <1>1 DEF Told
<1> QED BY <1>1, <1>2, ArrivesMore DEF Reaches

(* The state reported last is on its way when an answer is taken.          *)
LEMMA ReachesLess ==
    ASSUME NEW msgs \in Seq(Message), msgs # <<>>, NEW state, NEW seen,
           Reaches(msgs, state, seen)
    PROVE  /\ Head(msgs) \in Message /\ Tail(msgs) \in Seq(Message)
           /\ Head(msgs).type # "state" => Reaches(Tail(msgs), state, seen)
           /\ Head(msgs).type = "state" => Reaches(Tail(msgs), state, Head(msgs).state)
<1>0. Head(msgs) \in Message OBVIOUS
<1>1. Head(msgs).type = "state" <=> Head(msgs) \in DOMAIN Told BY <1>0 DEF Message, Told
<1>2. Head(msgs).type = "state" => Told[Head(msgs)] = Head(msgs).state BY <1>1 DEF Told
<1> QED BY <1>1, <1>2, ArrivesLess DEF Reaches

(* The bounds on what the daemon and the user do are numbers.              *)
LEMMA EventBounds == MaxEvents \in Nat /\ MaxAsks \in Nat
BY BoundsAssumption

(* What an attempt to subscribe leaves of the worker, and when it succeeds. *)
LEMMA AttemptIs ==
    ASSUME DaemonTypes, Subscribed, NEW w \in Workers, NEW r, r = Tailscale!Attempt(w)
    PROVE  /\ r \in Workers
           /\ r.watching = w.watching /\ r.change = w.change /\ r.debounce = w.debounce
           /\ r.initialized = w.initialized /\ r.last = w.last /\ r.sample = w.sample
           /\ r.slipped = w.slipped /\ r.glimpsed = w.glimpsed
           /\ \/ r.watch = "opened" /\ r.line /\ ~r.hangup /\ ~r.retry /\ daemon.listens
              \/ r.watch = "none" /\ ~r.line /\ ~r.hangup /\ ~daemon.listens
<1>1. daemon.listens => daemon.file BY DEF Subscribed
<1> QED BY <1>1 DEF Workers, Tailscale!Attempt, Tailscale!Lost, DaemonTypes

(* Tailscale starts unsubscribed, and the panel shows what was read:       *)
(* nothing.                                                                *)
LEMMA DaemonInit == Tailscale!Init => DaemonInv
<1> SUFFICES ASSUME Tailscale!Init PROVE DaemonInv
  OBVIOUS
<1>1. answers = <<>> /\ panel.shown = tailscale.last BY DEF Tailscale!Init
<1>2. Reaches(answers, tailscale.last, panel.shown) BY <1>1 DEF Reaches, Arrives
<1>3. daemon \in [listens : BOOLEAN, file : BOOLEAN, dir : BOOLEAN, state : {1, 2}]
  BY DEF Tailscale!Init
<1>4. Tailscale!Offline \in States BY DEF Tailscale!Offline, States
<1>5. tailscale \in Workers
  BY <1>4 DEF Tailscale!Init, Workers, Samples, Tailscale!NoRead
<1>6. panel \in [running : BOOLEAN, busy : BOOLEAN, netcheck : BOOLEAN, shown : States]
  BY <1>4 DEF Tailscale!Init
<1>7. used \in [events : 0 .. MaxEvents, asks : 0 .. MaxAsks]
  BY EventBounds DEF Tailscale!Init
<1>8. DaemonTypes BY <1>1, <1>3, <1>5, <1>6, <1>7 DEF DaemonTypes
<1>9. Subscribed /\ Heard /\ Awaited
  BY DEF Tailscale!Init, Subscribed, Heard, Awaited, Reviving, Tailscale!Connected,
         Tailscale!Waiting, Tailscale!Offline, Tailscale!NoRead
<1> QED BY <1>2, <1>8, <1>9 DEF DaemonInv

(* The daemon comes, goes and changes: each leaves something to be         *)
(* noticed.                                                                *)
LEMMA DaemonEvents ==
    ASSUME DaemonInv,
           \/ Tailscale!DaemonStarts \/ Tailscale!DaemonEnds \/ Tailscale!DaemonChanges
    PROVE  DaemonInv'
<1>0. /\ daemon \in [listens : BOOLEAN, file : BOOLEAN, dir : BOOLEAN, state : {1, 2}]
      /\ tailscale \in Workers
      /\ used \in [events : 0 .. MaxEvents, asks : 0 .. MaxAsks]
      /\ Subscribed /\ Heard /\ Awaited
  BY DEF DaemonInv, DaemonTypes
<1>1. UNCHANGED <<answers, panel>> /\ Tailscale!Event
  BY DEF Tailscale!DaemonStarts, Tailscale!DaemonEnds, Tailscale!DaemonChanges
<1>2. used' \in [events : 0 .. MaxEvents, asks : 0 .. MaxAsks]
  BY <1>0, <1>1, EventBounds DEF Tailscale!Event
<1>3. ASSUME daemon' \in [listens : BOOLEAN, file : BOOLEAN, dir : BOOLEAN, state : {1, 2}],
             tailscale' \in Workers, tailscale'.last = tailscale.last
      PROVE  DaemonTypes' /\ Reaches(answers, tailscale.last, panel.shown)'
  BY <1>1, <1>2, <1>3 DEF DaemonInv, DaemonTypes
<1>7. CASE Tailscale!DaemonStarts
  <2>1. /\ daemon' = [daemon EXCEPT !.listens = TRUE, !.file = TRUE, !.dir = TRUE]
        /\ tailscale' = [tailscale EXCEPT !.change = @ \/ tailscale.watching,
                              !.slipped = @ \/ tailscale.sample.at = "rewatch"]
        /\ ~daemon.listens
    BY <1>7 DEF Tailscale!DaemonStarts
  <2>2. daemon' \in [listens : BOOLEAN, file : BOOLEAN, dir : BOOLEAN, state : {1, 2}]
    BY <1>0, <2>1
  <2>3. tailscale' \in Workers /\ tailscale'.last = tailscale.last BY <1>0, <2>1 DEF Workers
  <2>4. Subscribed' /\ Heard' /\ Awaited'
    BY <1>0, <2>1
    DEF Workers, Subscribed, Heard, Awaited, Reviving, Tailscale!Connected, Tailscale!Waiting,
        Tailscale!Now
  <2> QED BY <1>3, <2>2, <2>3, <2>4 DEF DaemonInv
<1>8. CASE Tailscale!DaemonEnds
  <2>1. PICK f \in BOOLEAN, d \in BOOLEAN :
           /\ f => d
           /\ daemon' = [daemon EXCEPT !.listens = FALSE, !.file = f, !.dir = d]
           /\ tailscale' = [tailscale EXCEPT
                 !.change = @ \/ (tailscale.watching /\ ~f),
                 !.watching = @ /\ d, !.hangup = Tailscale!Connected]
    BY <1>8 DEF Tailscale!DaemonEnds
  <2>2. daemon' \in [listens : BOOLEAN, file : BOOLEAN, dir : BOOLEAN, state : {1, 2}]
    BY <1>0, <2>1
  <2>3. tailscale' \in Workers /\ tailscale'.last = tailscale.last
    <3> DEFINE c == tailscale.change \/ (tailscale.watching /\ ~f)
               v == tailscale.watching /\ d
    <3>1. Tailscale!Connected \in BOOLEAN /\ c \in BOOLEAN /\ v \in BOOLEAN
      BY DEF Tailscale!Connected
    <3>2. tailscale' = [tailscale EXCEPT !.change = c, !.watching = v,
                                         !.hangup = Tailscale!Connected]
      BY <2>1
    <3> HIDE DEF c, v
    <3> QED BY <1>0, <3>1, <3>2 DEF Workers
  <2>4. Subscribed' /\ Heard' /\ Awaited'
    BY <1>0, <2>1
    DEF Workers, Subscribed, Heard, Awaited, Reviving, Tailscale!Connected, Tailscale!Waiting,
        Tailscale!Now
  <2> QED BY <1>3, <2>2, <2>3, <2>4 DEF DaemonInv
<1>9. CASE Tailscale!DaemonChanges
  <2>1. /\ daemon' = [daemon EXCEPT !.state = 3 - @]
        /\ tailscale' = [tailscale EXCEPT !.line = Tailscale!Connected]
    BY <1>9 DEF Tailscale!DaemonChanges
  <2>2. daemon' \in [listens : BOOLEAN, file : BOOLEAN, dir : BOOLEAN, state : {1, 2}]
    BY <1>0, <2>1
  <2>3. tailscale' \in Workers /\ tailscale'.last = tailscale.last
    <3>1. Tailscale!Connected \in BOOLEAN BY DEF Tailscale!Connected
    <3> QED BY <1>0, <2>1, <3>1 DEF Workers
  <2>4. Subscribed' /\ Heard' /\ Awaited'
    BY <1>0, <2>1
    DEF Workers, Subscribed, Heard, Awaited, Reviving, Tailscale!Connected, Tailscale!Waiting,
        Tailscale!Now
  <2> QED BY <1>3, <2>2, <2>3, <2>4 DEF DaemonInv
<1> QED BY <1>7, <1>8, <1>9

(* A sample begins.                                                        *)
LEMMA ReadingIs ==
    ASSUME NEW w \in Workers, NEW after \in {"nothing", "lost", "abort", "action"},
           NEW r, r = Tailscale!Reading(w, after)
    PROVE  /\ r \in Workers /\ r.sample.at = "status" /\ r.sample.after = after
           /\ r.watch = w.watch /\ r.line = w.line /\ r.hangup = w.hangup
           /\ r.watching = w.watching /\ r.change = w.change /\ r.retry = w.retry
           /\ r.debounce = w.debounce /\ r.last = w.last
<1> DEFINE n == [at |-> "status", read |-> Tailscale!Offline, after |-> after]
<1>1. n \in Samples /\ n.at = "status" /\ n.after = after
  BY DEF Samples, States, Tailscale!Offline
<1>2. r = [w EXCEPT !.sample = n] BY DEF Tailscale!Reading
<1> HIDE DEF n
<1> QED BY <1>1, <1>2 DEF Workers

(* Every worker's step that reports nothing.                               *)
LEMMA Silently ==
    ASSUME DaemonInv, UNCHANGED <<answers, panel>>,
           daemon' \in [listens : BOOLEAN, file : BOOLEAN, dir : BOOLEAN, state : {1, 2}],
           used' \in [events : 0 .. MaxEvents, asks : 0 .. MaxAsks],
           tailscale' \in Workers, tailscale'.last = tailscale.last,
           Subscribed', Heard', Awaited'
    PROVE  DaemonInv'
BY DEF DaemonInv, DaemonTypes

(* The slots of the socket, of the file watcher and of the two timers.     *)
LEMMA DaemonWatch ==
    ASSUME DaemonInv,
           \/ Tailscale!OnWatchSocketDisconnected \/ Tailscale!OnWatchSocketRefused
           \/ Tailscale!OnWatchSocketReadyRead \/ Tailscale!OnSocketDirectoryChanged
           \/ Tailscale!ReconnectWatchBus \/ Tailscale!Debounced
    PROVE  DaemonInv'
<1>0. /\ daemon \in [listens : BOOLEAN, file : BOOLEAN, dir : BOOLEAN, state : {1, 2}]
      /\ tailscale \in Workers /\ DaemonTypes
      /\ used \in [events : 0 .. MaxEvents, asks : 0 .. MaxAsks]
      /\ Subscribed /\ Heard /\ Awaited
  BY DEF DaemonInv, DaemonTypes
<1>1. UNCHANGED <<daemon, answers, panel>> /\ Tailscale!Waiting
  BY DEF Tailscale!OnWatchSocketDisconnected, Tailscale!OnWatchSocketRefused,
         Tailscale!OnWatchSocketReadyRead, Tailscale!OnSocketDirectoryChanged,
         Tailscale!ReconnectWatchBus, Tailscale!Debounced
<1>2. used' \in [events : 0 .. MaxEvents, asks : 0 .. MaxAsks]
  BY <1>0, EventBounds
  DEF Tailscale!OnWatchSocketDisconnected, Tailscale!OnWatchSocketRefused,
      Tailscale!OnWatchSocketReadyRead, Tailscale!OnSocketDirectoryChanged,
      Tailscale!ReconnectWatchBus, Tailscale!Debounced, Tailscale!Event
<1>3. SUFFICES /\ tailscale' \in Workers /\ tailscale'.last = tailscale.last
               /\ Subscribed' /\ Heard' /\ Awaited'
  BY <1>0, <1>1, <1>2, Silently
<1>4. CASE \/ Tailscale!OnWatchSocketDisconnected
           \/ Tailscale!OnWatchSocketRefused
  <2>1. PICK after \in {"lost", "abort"} :
           tailscale' = Tailscale!Reading(Tailscale!Lost(tailscale), after)
    BY <1>4 DEF Tailscale!OnWatchSocketDisconnected, Tailscale!OnWatchSocketRefused
  <2> DEFINE w == Tailscale!Lost(tailscale)
  <2>2. /\ w \in Workers /\ w.watch = "none" /\ ~w.line /\ ~w.hangup
        /\ w.last = tailscale.last
    BY <1>0 DEF Workers, Tailscale!Lost
  <2> HIDE DEF w
  <2>3. /\ tailscale' \in Workers
        /\ tailscale'.sample.at = "status" /\ tailscale'.sample.after = after
        /\ tailscale'.watch = "none" /\ ~tailscale'.line /\ ~tailscale'.hangup
        /\ tailscale'.last = tailscale.last
    BY <2>1, <2>2, ReadingIs DEF w
  <2> QED
    BY <1>0, <1>1, <2>3
    DEF Subscribed, Heard, Awaited, Reviving, Tailscale!Connected, Tailscale!Waiting
<1>5. CASE Tailscale!OnWatchSocketReadyRead
  <2> DEFINE w == [tailscale EXCEPT !.watch = "streaming", !.line = FALSE]
  <2>1. tailscale' = Tailscale!Trigger(w) /\ Tailscale!Connected
    BY <1>5 DEF Tailscale!OnWatchSocketReadyRead
  <2>2. /\ w \in Workers /\ w.watch = "streaming" /\ ~w.line /\ w.last = tailscale.last
        /\ w.hangup = tailscale.hangup /\ w.watching = tailscale.watching
        /\ w.change = tailscale.change /\ w.retry = tailscale.retry
        /\ w.sample = tailscale.sample
    BY <1>0 DEF Workers
  <2> HIDE DEF w
  <2>3. CASE w.initialized
    <3>1. tailscale' = [w EXCEPT !.debounce = TRUE] BY <2>1, <2>3 DEF Tailscale!Trigger
    <3>2. /\ tailscale' \in Workers /\ tailscale'.watch = "streaming" /\ ~tailscale'.line
          /\ tailscale'.last = tailscale.last /\ tailscale'.hangup = tailscale.hangup
          /\ tailscale'.retry = tailscale.retry /\ tailscale'.sample = tailscale.sample
          /\ tailscale'.debounce
      BY <2>2, <3>1 DEF Workers
    <3> QED
      BY <1>0, <1>1, <2>1, <3>2
      DEF Subscribed, Heard, Awaited, Reviving, Tailscale!Connected, Tailscale!Waiting
  <2>4. CASE ~w.initialized
    <3>1. tailscale' = Tailscale!Reading(w, "nothing") BY <2>1, <2>4 DEF Tailscale!Trigger
    <3>2. /\ tailscale' \in Workers /\ tailscale'.watch = "streaming" /\ ~tailscale'.line
          /\ tailscale'.last = tailscale.last /\ tailscale'.hangup = tailscale.hangup
          /\ tailscale'.retry = tailscale.retry
          /\ tailscale'.sample.at = "status" /\ tailscale'.sample.after = "nothing"
      BY <2>2, <3>1, ReadingIs
    <3> QED
      BY <1>0, <1>1, <2>1, <3>2
      DEF Subscribed, Heard, Awaited, Reviving, Tailscale!Connected, Tailscale!Waiting
  <2> QED BY <2>3, <2>4
<1>6. CASE Tailscale!OnSocketDirectoryChanged
  <2>1. CASE ~Tailscale!Connected /\ daemon.file
    <3> DEFINE w == [tailscale EXCEPT !.change = FALSE, !.retry = FALSE,
                                      !.watching = daemon.dir]
    <3>1. tailscale' = Tailscale!Attempt(w)
      BY <1>0, <1>6, <2>1 DEF Tailscale!OnSocketDirectoryChanged, Workers
    <3>2. w \in Workers /\ w.last = tailscale.last /\ w.sample = tailscale.sample
          /\ w.glimpsed = tailscale.glimpsed
      BY <1>0 DEF Workers
    <3> HIDE DEF w
    <3>3. tailscale.change /\ tailscale.watch = "none"
      BY <1>0, <1>6, <2>1 DEF Tailscale!OnSocketDirectoryChanged, Tailscale!Connected, Workers
    <3>4. tailscale.last = Tailscale!Offline \/ tailscale.glimpsed
      BY <1>0, <1>1, <3>3 DEF Awaited
    <3>5. /\ tailscale' \in Workers /\ tailscale'.last = tailscale.last
          /\ tailscale'.sample = tailscale.sample /\ tailscale'.glimpsed = tailscale.glimpsed
          /\ \/ /\ tailscale'.watch = "opened" /\ tailscale'.line /\ ~tailscale'.hangup
                /\ ~tailscale'.retry /\ daemon.listens
             \/ /\ tailscale'.watch = "none" /\ ~tailscale'.line /\ ~tailscale'.hangup
                /\ ~daemon.listens
      BY <1>0, <3>1, <3>2, AttemptIs
    <3> QED
      BY <1>0, <1>1, <3>4, <3>5
      DEF Subscribed, Heard, Awaited, Reviving, Tailscale!Connected, Tailscale!Waiting
  <2>2. CASE ~(~Tailscale!Connected /\ daemon.file)
    <3>1. tailscale' = [tailscale EXCEPT !.change = FALSE]
      BY <1>6, <2>2 DEF Tailscale!OnSocketDirectoryChanged
    <3>2. tailscale' \in Workers /\ tailscale'.last = tailscale.last
      BY <1>0, <3>1 DEF Workers
    <3> QED
      BY <1>0, <1>1, <2>2, <3>1, <3>2
      DEF Workers, Subscribed, Heard, Awaited, Reviving, Tailscale!Connected, Tailscale!Waiting,
          Tailscale!Now
  <2> QED BY <2>1, <2>2
<1>7. CASE Tailscale!ReconnectWatchBus
  <2> DEFINE w == [tailscale EXCEPT !.retry = FALSE]
  <2>1. tailscale' = Tailscale!Attempt(w) /\ tailscale.retry
    BY <1>7 DEF Tailscale!ReconnectWatchBus
  <2>2. /\ w \in Workers /\ w.last = tailscale.last /\ w.sample = tailscale.sample
        /\ w.glimpsed = tailscale.glimpsed /\ w.watching = tailscale.watching
        /\ w.change = tailscale.change
    BY <1>0 DEF Workers
  <2> HIDE DEF w
  <2>3. tailscale.watch = "none"
    BY <1>0, <2>1 DEF Subscribed, Tailscale!Connected, Workers
  <2>4. /\ tailscale' \in Workers /\ tailscale'.last = tailscale.last
        /\ tailscale'.sample = tailscale.sample /\ tailscale'.glimpsed = tailscale.glimpsed
        /\ tailscale'.watching = tailscale.watching /\ tailscale'.change = tailscale.change
        /\ \/ /\ tailscale'.watch = "opened" /\ tailscale'.line /\ ~tailscale'.hangup
              /\ ~tailscale'.retry /\ daemon.listens
           \/ /\ tailscale'.watch = "none" /\ ~tailscale'.line /\ ~tailscale'.hangup
              /\ ~daemon.listens
    BY <1>0, <2>1, <2>2, AttemptIs
  <2> QED
    BY <1>0, <1>1, <2>3, <2>4
    DEF Subscribed, Heard, Awaited, Reviving, Tailscale!Connected, Tailscale!Waiting
<1>8. CASE Tailscale!Debounced
  <2> DEFINE w == [tailscale EXCEPT !.debounce = FALSE]
  <2>1. tailscale' = Tailscale!Reading(w, "nothing") BY <1>8 DEF Tailscale!Debounced
  <2>2. /\ w \in Workers /\ w.watch = tailscale.watch /\ w.line = tailscale.line
        /\ w.hangup = tailscale.hangup /\ w.watching = tailscale.watching
        /\ w.change = tailscale.change /\ w.retry = tailscale.retry
        /\ w.last = tailscale.last /\ w.slipped = tailscale.slipped
    BY <1>0 DEF Workers
  <2> HIDE DEF w
  <2>3. /\ tailscale' \in Workers /\ tailscale'.last = tailscale.last
        /\ tailscale'.sample.at = "status" /\ tailscale'.sample.after = "nothing"
        /\ tailscale'.watch = tailscale.watch /\ tailscale'.line = tailscale.line
        /\ tailscale'.hangup = tailscale.hangup /\ tailscale'.watching = tailscale.watching
        /\ tailscale'.change = tailscale.change /\ tailscale'.retry = tailscale.retry
    BY <2>1, <2>2, ReadingIs
  <2>4. tailscale'.slipped = tailscale.slipped
    BY <1>0, <2>1 DEF Workers, Tailscale!Reading, w
  <2> QED
    BY <1>0, <1>1, <2>3, <2>4
    DEF Subscribed, Heard, Awaited, Reviving, Tailscale!Connected, Tailscale!Waiting
<1> QED BY <1>4, <1>5, <1>6, <1>7, <1>8

(* The orders the GUI thread posts to the worker.                          *)
LEMMA DaemonOrders ==
    ASSUME DaemonInv,
           \/ Tailscale!Start \/ Tailscale!Stop \/ Tailscale!Sample \/ Tailscale!Rewatch
    PROVE  DaemonInv'
<1>0. /\ daemon \in [listens : BOOLEAN, file : BOOLEAN, dir : BOOLEAN, state : {1, 2}]
      /\ tailscale \in Workers /\ DaemonTypes
      /\ used \in [events : 0 .. MaxEvents, asks : 0 .. MaxAsks]
      /\ Subscribed /\ Heard /\ Awaited
  BY DEF DaemonInv, DaemonTypes
<1>1. UNCHANGED <<daemon, answers, panel, used>>
  BY DEF Tailscale!Start, Tailscale!Stop, Tailscale!Sample, Tailscale!Rewatch, Tailscale!Take
<1>2. SUFFICES /\ tailscale' \in Workers /\ tailscale'.last = tailscale.last
               /\ Subscribed' /\ Heard' /\ Awaited'
  BY <1>0, <1>1, Silently
<1>3. CASE Tailscale!Start
  <2> DEFINE v == [tailscale EXCEPT !.watching = daemon.dir, !.change = FALSE]
             w == Tailscale!Attempt(v)
  <2>1. tailscale' = Tailscale!Reading(w, "nothing") BY <1>3 DEF Tailscale!Start
  <2>2. v \in Workers /\ v.last = tailscale.last BY <1>0 DEF Workers
  <2>3. /\ w \in Workers /\ w.last = tailscale.last
        /\ \/ w.watch = "opened" /\ w.line /\ ~w.hangup /\ ~w.retry /\ daemon.listens
           \/ w.watch = "none" /\ ~w.line /\ ~w.hangup /\ ~daemon.listens
    <3> HIDE DEF v
    <3> QED BY <1>0, <2>2, AttemptIs
  <2> HIDE DEF w
  <2>4. /\ tailscale' \in Workers /\ tailscale'.last = tailscale.last
        /\ tailscale'.sample.at = "status" /\ tailscale'.sample.after = "nothing"
        /\ \/ /\ tailscale'.watch = "opened" /\ tailscale'.line /\ ~tailscale'.hangup
              /\ ~tailscale'.retry /\ daemon.listens
           \/ /\ tailscale'.watch = "none" /\ ~tailscale'.line /\ ~tailscale'.hangup
              /\ ~daemon.listens
    BY <2>1, <2>3, ReadingIs
  <2> QED
    BY <1>0, <1>1, <2>4
    DEF Subscribed, Heard, Awaited, Reviving, Tailscale!Connected, Tailscale!Waiting
<1>4. CASE Tailscale!Stop
  <2> DEFINE v == Tailscale!Lost(tailscale)
  <2>1. /\ tailscale' = [v EXCEPT !.watching = FALSE, !.change = FALSE,
                                  !.retry = FALSE, !.debounce = FALSE]
        /\ Tailscale!Waiting
    BY <1>4 DEF Tailscale!Stop, Tailscale!Take
  <2>2. /\ v \in Workers /\ v.last = tailscale.last /\ v.watch = "none" /\ ~v.line
        /\ ~v.hangup /\ v.sample = tailscale.sample
    BY <1>0 DEF Workers, Tailscale!Lost
  <2> HIDE DEF v
  <2>3. /\ tailscale' \in Workers /\ tailscale'.last = tailscale.last
        /\ tailscale'.watch = "none" /\ ~tailscale'.line /\ ~tailscale'.hangup
        /\ ~tailscale'.watching /\ ~tailscale'.change /\ tailscale'.sample = tailscale.sample
    BY <2>1, <2>2 DEF Workers
  <2> QED
    BY <1>0, <1>1, <2>1, <2>3
    DEF Subscribed, Heard, Awaited, Reviving, Tailscale!Connected, Tailscale!Waiting
<1>5. CASE Tailscale!Sample
  <2>1. tailscale' = Tailscale!Reading(tailscale, "nothing") /\ Tailscale!Waiting
    BY <1>5 DEF Tailscale!Sample, Tailscale!Take
  <2>2. /\ tailscale' \in Workers /\ tailscale'.last = tailscale.last
        /\ tailscale'.sample.at = "status" /\ tailscale'.sample.after = "nothing"
        /\ tailscale'.watch = tailscale.watch /\ tailscale'.line = tailscale.line
        /\ tailscale'.hangup = tailscale.hangup /\ tailscale'.watching = tailscale.watching
        /\ tailscale'.change = tailscale.change /\ tailscale'.retry = tailscale.retry
    BY <1>0, <2>1, ReadingIs
  <2>3. tailscale'.slipped = tailscale.slipped
    BY <1>0, <2>1 DEF Workers, Tailscale!Reading
  <2> QED
    BY <1>0, <1>1, <2>1, <2>2, <2>3
    DEF Subscribed, Heard, Awaited, Reviving, Tailscale!Connected, Tailscale!Waiting
<1>6. CASE Tailscale!Rewatch
  <2> DEFINE w == [tailscale EXCEPT !.sample = Tailscale!NoRead, !.watching = daemon.dir,
                                    !.change = FALSE]
  <2>1. /\ tailscale.sample.at = "rewatch"
        /\ tailscale' = IF tailscale.sample.after = "abort" THEN Tailscale!Attempt(w) ELSE w
    BY <1>6 DEF Tailscale!Rewatch
  <2>2. Tailscale!NoRead \in Samples /\ Tailscale!NoRead.at = "none"
    BY DEF Samples, States, Tailscale!NoRead, Tailscale!Offline
  <2>3. /\ w \in Workers /\ w.last = tailscale.last /\ w.sample.at = "none"
        /\ w.glimpsed = tailscale.glimpsed /\ w.slipped = tailscale.slipped
        /\ w.watch = tailscale.watch /\ w.line = tailscale.line /\ w.hangup = tailscale.hangup
    BY <1>0, <2>2 DEF Workers
  <2> HIDE DEF w
  <2>4. /\ tailscale.watch = "none" /\ (~daemon.listens \/ tailscale.slipped)
        /\ tailscale.last = Tailscale!Offline \/ tailscale.glimpsed
    BY <1>0, <2>1 DEF Subscribed, Awaited, Reviving
  <2>5. CASE tailscale.sample.after = "abort"
    <3>1. /\ tailscale' \in Workers /\ tailscale'.last = tailscale.last
          /\ tailscale'.sample.at = "none" /\ tailscale'.glimpsed = tailscale.glimpsed
          /\ \/ /\ tailscale'.watch = "opened" /\ tailscale'.line /\ ~tailscale'.hangup
                /\ ~tailscale'.retry /\ daemon.listens
             \/ /\ tailscale'.watch = "none" /\ ~tailscale'.line /\ ~tailscale'.hangup
                /\ ~daemon.listens
      BY <1>0, <2>1, <2>3, <2>5, AttemptIs
    <3> QED
      BY <1>0, <1>1, <2>4, <3>1
      DEF Subscribed, Heard, Awaited, Reviving, Tailscale!Connected, Tailscale!Waiting
  <2>6. CASE tailscale.sample.after # "abort"
    <3>1. tailscale' = w BY <2>1, <2>6
    <3> QED
      BY <1>0, <1>1, <2>3, <2>4, <3>1
      DEF Subscribed, Heard, Awaited, Reviving, Tailscale!Connected, Tailscale!Waiting
  <2> QED BY <2>5, <2>6
<1> QED BY <1>3, <1>4, <1>5, <1>6

(* A sample that has read s reports it unless it was the last, and leaves  *)
(* the worker as the end of its handler does.                              *)
LEMMA Published ==
    ASSUME DaemonInv, NEW s \in States, Tailscale!Publish(tailscale, s),
           UNCHANGED <<daemon, panel, used>>,
           tailscale.sample.at \in {"status", "prefs"},
           s.on \/ s = Tailscale!Offline,
           /\ Tailscale!Connected
           /\ ~tailscale.line /\ ~tailscale.hangup /\ ~tailscale.debounce
           => s = Tailscale!Now
    PROVE  DaemonInv'
<1>0. /\ daemon \in [listens : BOOLEAN, file : BOOLEAN, dir : BOOLEAN, state : {1, 2}]
      /\ tailscale \in Workers /\ DaemonTypes
      /\ answers \in Seq(Message)
      /\ Subscribed /\ Heard /\ Awaited
      /\ Reaches(answers, tailscale.last, panel.shown)
  BY DEF DaemonInv, DaemonTypes
<1> DEFINE g == s.on /\ tailscale.watch = "none"
           w == [tailscale EXCEPT !.initialized = TRUE, !.last = s, !.glimpsed = g]
<1>1. tailscale' = Tailscale!Rest(w)
  BY DEF Tailscale!Publish
<1>2. g \in BOOLEAN OBVIOUS
<1>3. /\ w \in Workers /\ w.last = s /\ w.glimpsed = g /\ w.watch = tailscale.watch
      /\ w.line = tailscale.line /\ w.hangup = tailscale.hangup
      /\ w.watching = tailscale.watching /\ w.change = tailscale.change
      /\ w.retry = tailscale.retry /\ w.debounce = tailscale.debounce
      /\ w.sample = tailscale.sample /\ w.slipped = tailscale.slipped
  <2> HIDE DEF g
  <2> QED BY <1>0, <1>2 DEF Workers
<1>4. Reaches(answers', s, panel.shown) /\ answers' \in Seq(Message)
  <2> DEFINE m == [type |-> "state", state |-> s]
             b == [type |-> "busy", busy |-> FALSE]
             told == IF tailscale.initialized /\ s = tailscale.last THEN answers
                     ELSE Append(answers, m)
  <2>1. /\ m \in Message /\ m.type = "state" /\ m.state = s
        /\ b \in Message /\ b.type # "state"
    BY DEF Message
  <2>2. answers' = answers
                   \o (IF tailscale.initialized /\ s = tailscale.last THEN <<>> ELSE <<m>>)
                   \o (IF tailscale.sample.after = "action" THEN <<b>> ELSE <<>>)
    BY DEF Tailscale!Publish, Tailscale!Final
  <2> HIDE DEF m, b
  <2>3. told \in Seq(Message) /\ Reaches(told, s, panel.shown)
    BY <1>0, <2>1, ReachesMore
  <2>4. answers' = told
                   \o (IF tailscale.sample.after = "action" THEN <<b>> ELSE <<>>)
    <3>1. answers \o <<>> = answers /\ answers \o <<m>> = Append(answers, m)
      BY <1>0, <2>1
    <3> QED BY <2>2, <3>1
  <2> HIDE DEF told
  <2>5. told \o <<>> = told /\ told \o <<b>> = Append(told, b) BY <2>1, <2>3
  <2>6. answers' = told \/ answers' = Append(told, b) BY <2>4, <2>5
  <2> QED BY <2>1, <2>3, <2>6, ReachesMore
<1> HIDE DEF g, w
<1>5. tailscale.watch = "none" => s = Tailscale!Offline \/ g BY DEF g
<1>6. Tailscale!NoRead \in Samples /\ Tailscale!NoRead.at = "none"
  BY DEF Samples, States, Tailscale!NoRead, Tailscale!Offline
<1>7. tailscale' \in Workers /\ tailscale'.last = s /\ Subscribed' /\ Heard' /\ Awaited'
  <2>1. CASE tailscale.sample.after \notin {"lost", "abort"}
    <3>1. tailscale' = [w EXCEPT !.sample = Tailscale!NoRead]
      BY <1>1, <1>3, <2>1 DEF Tailscale!Rest
    <3>2. /\ tailscale' \in Workers /\ tailscale'.last = s /\ tailscale'.glimpsed = g
          /\ tailscale'.watch = tailscale.watch
          /\ tailscale'.line = tailscale.line /\ tailscale'.hangup = tailscale.hangup
          /\ tailscale'.watching = tailscale.watching /\ tailscale'.change = tailscale.change
          /\ tailscale'.retry = tailscale.retry /\ tailscale'.debounce = tailscale.debounce
          /\ tailscale'.sample.at = "none" /\ tailscale'.slipped = tailscale.slipped
      BY <1>3, <1>6, <3>1 DEF Workers
    <3> QED
      BY <1>0, <1>5, <2>1, <3>2
      DEF Subscribed, Heard, Awaited, Reviving, Tailscale!Connected, Tailscale!Waiting,
          Tailscale!Now
  <2>2. CASE tailscale.sample.after \in {"lost", "abort"}
    <3>0. tailscale.watch = "none" BY <1>0, <2>2 DEF Subscribed, Reviving
    <3>1. CASE ~daemon.file
      <4>1. tailscale' = [w EXCEPT !.sample.at = "rewatch"]
        BY <1>1, <1>3, <2>2, <3>1 DEF Tailscale!Rest
      <4>2. /\ tailscale' \in Workers /\ tailscale'.last = s /\ tailscale'.glimpsed = g
            /\ tailscale'.watch = "none"
            /\ tailscale'.line = tailscale.line /\ tailscale'.hangup = tailscale.hangup
            /\ tailscale'.sample.at = "rewatch"
            /\ tailscale'.sample.after = tailscale.sample.after
        BY <1>3, <3>0, <4>1 DEF Workers, Samples
      <4> QED
        BY <1>0, <1>5, <2>2, <3>0, <3>1, <4>2
        DEF Subscribed, Heard, Awaited, Reviving, Tailscale!Connected, Tailscale!Waiting
    <3>2. CASE daemon.file
      <4> DEFINE r == [w EXCEPT !.retry = TRUE, !.sample = Tailscale!NoRead]
      <4>1. tailscale' = IF tailscale.sample.after = "abort" THEN Tailscale!Attempt(r) ELSE r
        BY <1>1, <1>3, <2>2, <3>2 DEF Tailscale!Rest
      <4>2. /\ r \in Workers /\ r.last = s /\ r.glimpsed = g /\ r.watch = "none"
            /\ r.line = tailscale.line /\ r.hangup = tailscale.hangup
            /\ r.retry /\ r.sample.at = "none"
        BY <1>3, <1>6, <3>0 DEF Workers
      <4> HIDE DEF r
      <4>3. CASE tailscale.sample.after = "abort"
        <5>1. /\ tailscale' \in Workers /\ tailscale'.last = s
              /\ tailscale'.sample.at = "none" /\ tailscale'.glimpsed = g
              /\ \/ /\ tailscale'.watch = "opened" /\ tailscale'.line /\ ~tailscale'.hangup
                    /\ ~tailscale'.retry /\ daemon.listens
                 \/ /\ tailscale'.watch = "none" /\ ~tailscale'.line /\ ~tailscale'.hangup
                    /\ ~daemon.listens
          BY <1>0, <4>1, <4>2, <4>3, AttemptIs
        <5> QED
          BY <1>0, <1>5, <3>0, <5>1
          DEF Subscribed, Heard, Awaited, Reviving, Tailscale!Connected, Tailscale!Waiting
      <4>4. CASE tailscale.sample.after # "abort"
        <5>1. tailscale' = r BY <4>1, <4>4
        <5> QED
          BY <1>0, <1>5, <3>0, <4>2, <5>1
          DEF Subscribed, Heard, Awaited, Reviving, Tailscale!Connected, Tailscale!Waiting
      <4> QED BY <4>3, <4>4
    <3> QED BY <3>1, <3>2
  <2> QED BY <2>1, <2>2
<1> QED BY <1>0, <1>4, <1>7 DEF DaemonInv, DaemonTypes

(* The two requests of a sample: what the second one ends is reported.     *)
LEMMA DaemonReads ==
    ASSUME DaemonInv, Tailscale!ReadStatus \/ Tailscale!ReadPrefs PROVE DaemonInv'
<1>0. /\ daemon \in [listens : BOOLEAN, file : BOOLEAN, dir : BOOLEAN, state : {1, 2}]
      /\ tailscale \in Workers /\ DaemonTypes
      /\ used \in [events : 0 .. MaxEvents, asks : 0 .. MaxAsks]
      /\ Subscribed /\ Heard /\ Awaited
  BY DEF DaemonInv, DaemonTypes
<1>1. UNCHANGED <<daemon, panel, used>>
  BY DEF Tailscale!ReadStatus, Tailscale!ReadPrefs
<1>2. CASE Tailscale!ReadStatus /\ daemon.listens
  <2> DEFINE r == [on |-> TRUE, status |-> daemon.state, prefs |-> 0]
  <2>1. /\ tailscale' = [tailscale EXCEPT !.sample.at = "prefs", !.sample.read = r]
        /\ tailscale.sample.at = "status" /\ UNCHANGED answers
    BY <1>2 DEF Tailscale!ReadStatus
  <2>2. r \in States /\ r.on /\ r.status = daemon.state BY <1>0 DEF States
  <2> HIDE DEF r
  <2>3. /\ tailscale' \in Workers /\ tailscale'.last = tailscale.last
        /\ tailscale'.watch = tailscale.watch
        /\ tailscale'.line = tailscale.line /\ tailscale'.hangup = tailscale.hangup
        /\ tailscale'.watching = tailscale.watching /\ tailscale'.change = tailscale.change
        /\ tailscale'.retry = tailscale.retry /\ tailscale'.debounce = tailscale.debounce
        /\ tailscale'.slipped = tailscale.slipped
        /\ tailscale'.sample.at = "prefs" /\ tailscale'.sample.read = r
        /\ tailscale'.sample.after = tailscale.sample.after
    BY <1>0, <2>1, <2>2 DEF Workers, Samples
  <2>4. Subscribed' /\ Heard' /\ Awaited'
    BY <1>0, <1>1, <2>1, <2>2, <2>3
    DEF Subscribed, Heard, Awaited, Reviving, Tailscale!Connected, Tailscale!Waiting
  <2> QED BY <1>0, <1>1, <2>1, <2>3, <2>4, Silently
<1>3. CASE Tailscale!ReadStatus /\ ~daemon.listens
  <2>1. Tailscale!Publish(tailscale, Tailscale!Offline) /\ tailscale.sample.at = "status"
    BY <1>3 DEF Tailscale!ReadStatus
  <2>2. Tailscale!Offline \in States BY DEF Tailscale!Offline, States
  <2>3. Tailscale!Connected => tailscale.hangup BY <1>0, <1>3 DEF Subscribed
  <2> QED BY <1>1, <2>1, <2>2, <2>3, Published
<1>4. CASE Tailscale!ReadPrefs
  <2> DEFINE s == [tailscale.sample.read EXCEPT !.prefs = Tailscale!Now.prefs]
  <2>1. Tailscale!Publish(tailscale, s) /\ tailscale.sample.at = "prefs"
    BY <1>4 DEF Tailscale!ReadPrefs
  <2>2. Tailscale!Now \in States
    BY <1>0 DEF Tailscale!Now, Tailscale!Offline, States
  <2>3. /\ tailscale.sample.read \in States /\ tailscale.sample.read.on
        /\ s \in States /\ s.on /\ s.status = tailscale.sample.read.status
        /\ s.prefs = Tailscale!Now.prefs
    BY <1>0, <2>1, <2>2 DEF Subscribed, Workers, Samples, States
  <2>4. ASSUME Tailscale!Connected, ~tailscale.line, ~tailscale.hangup, ~tailscale.debounce
        PROVE  s = Tailscale!Now
    <3>1. s.status = daemon.state BY <1>0, <2>1, <2>3, <2>4 DEF Heard
    <3>2. daemon.listens BY <1>0, <2>4 DEF Subscribed
    <3>3. /\ Tailscale!Now = [on |-> TRUE, status |-> daemon.state, prefs |-> daemon.state]
          /\ Tailscale!Now.prefs = daemon.state
      BY <3>2 DEF Tailscale!Now
    <3> HIDE DEF s
    <3> QED BY <2>3, <3>1, <3>3 DEF States
  <2> HIDE DEF s
  <2> QED BY <1>1, <2>1, <2>3, <2>4, Published
<1> QED BY <1>2, <1>3, <1>4 DEF Tailscale!ReadStatus

(* The command line, which the worker waits for while the daemon goes on.  *)
LEMMA DaemonActions ==
    ASSUME DaemonInv, Tailscale!RunAction \/ Tailscale!RunNetcheck PROVE DaemonInv'
<1>0. /\ daemon \in [listens : BOOLEAN, file : BOOLEAN, dir : BOOLEAN, state : {1, 2}]
      /\ tailscale \in Workers /\ DaemonTypes
      /\ answers \in Seq(Message)
      /\ Subscribed /\ Heard /\ Awaited
      /\ Reaches(answers, tailscale.last, panel.shown)
  BY DEF DaemonInv, DaemonTypes
<1>1. UNCHANGED <<panel, used>> /\ Tailscale!Waiting
  BY DEF Tailscale!RunAction, Tailscale!RunNetcheck, Tailscale!Take
<1>2. PICK m \in Message : m.type # "state" /\ answers' = Append(answers, m)
  <2>1. /\ [type |-> "busy", busy |-> TRUE] \in Message
        /\ [type |-> "netcheck"] \in Message
        /\ [type |-> "busy", busy |-> TRUE].type # "state"
        /\ [type |-> "netcheck"].type # "state"
    BY DEF Message
  <2> QED BY <2>1 DEF Tailscale!RunAction, Tailscale!RunNetcheck
<1>3. answers' \in Seq(Message) /\ Reaches(answers', tailscale.last, panel.shown)
  BY <1>0, <1>2, ReachesMore
<1>4. CASE Tailscale!RunNetcheck
  <2>1. UNCHANGED <<daemon, tailscale>> BY <1>4 DEF Tailscale!RunNetcheck
  <2> QED
    BY <1>0, <1>1, <1>3, <2>1
    DEF DaemonInv, DaemonTypes, Subscribed, Heard, Awaited, Reviving, Tailscale!Connected,
        Tailscale!Waiting, Tailscale!Now
<1>5. CASE Tailscale!RunAction
  <2> DEFINE l == tailscale.line \/ (daemon' # daemon /\ Tailscale!Connected)
             w == [tailscale EXCEPT !.line = l]
  <2>1. /\ tailscale' = Tailscale!Reading(w, "action")
        /\ daemon' = daemon \/ daemon' = [daemon EXCEPT !.state = 3 - @]
    BY <1>5 DEF Tailscale!RunAction, Tailscale!PrefSet, Tailscale!CliRuns
  <2>2. l \in BOOLEAN /\ (l => tailscale.line \/ Tailscale!Connected)
        /\ (tailscale.line => l)
    BY <1>0 DEF Workers
  <2>3. /\ w \in Workers /\ w.watch = tailscale.watch /\ w.line = l
        /\ w.hangup = tailscale.hangup /\ w.watching = tailscale.watching
        /\ w.change = tailscale.change /\ w.retry = tailscale.retry
        /\ w.last = tailscale.last /\ w.slipped = tailscale.slipped
    <3> HIDE DEF l
    <3> QED BY <1>0, <2>2 DEF Workers
  <2>4. tailscale'.slipped = w.slipped
    BY <2>1, <2>3 DEF Workers, Tailscale!Reading
  <2> HIDE DEF l, w
  <2>5. /\ tailscale' \in Workers /\ tailscale'.last = tailscale.last
        /\ tailscale'.sample.at = "status" /\ tailscale'.sample.after = "action"
        /\ tailscale'.watch = tailscale.watch /\ tailscale'.line = l
        /\ tailscale'.hangup = tailscale.hangup /\ tailscale'.watching = tailscale.watching
        /\ tailscale'.change = tailscale.change /\ tailscale'.retry = tailscale.retry
    BY <2>1, <2>3, ReadingIs
  <2>6. /\ daemon' \in [listens : BOOLEAN, file : BOOLEAN, dir : BOOLEAN, state : {1, 2}]
        /\ daemon'.listens = daemon.listens /\ daemon'.file = daemon.file
        /\ daemon'.dir = daemon.dir
    BY <1>0, <2>1
  <2>7. Subscribed' /\ Heard' /\ Awaited'
    BY <1>0, <1>1, <2>2, <2>3, <2>4, <2>5, <2>6
    DEF Subscribed, Heard, Awaited, Reviving, Tailscale!Connected, Tailscale!Waiting
  <2> QED BY <1>0, <1>1, <1>3, <2>5, <2>6, <2>7 DEF DaemonInv, DaemonTypes
<1> QED BY <1>4, <1>5

(* The steps of the GUI thread, which hears the answers in their order.    *)
LEMMA DaemonPanel ==
    ASSUME DaemonInv,
           \/ Tailscale!SetRunning \/ Tailscale!AskWork \/ Tailscale!Netcheck \/ Tailscale!Hear
    PROVE  DaemonInv'
<1>0. /\ daemon \in [listens : BOOLEAN, file : BOOLEAN, dir : BOOLEAN, state : {1, 2}]
      /\ tailscale \in Workers
      /\ answers \in Seq(Message)
      /\ panel \in [running : BOOLEAN, busy : BOOLEAN, netcheck : BOOLEAN, shown : States]
      /\ used \in [events : 0 .. MaxEvents, asks : 0 .. MaxAsks]
      /\ Subscribed /\ Heard /\ Awaited
      /\ Reaches(answers, tailscale.last, panel.shown)
  BY DEF DaemonInv, DaemonTypes
<1>1. UNCHANGED <<daemon, tailscale>>
  BY DEF Tailscale!SetRunning, Tailscale!AskWork, Tailscale!Netcheck, Tailscale!Hear,
         Tailscale!AskFor
<1>2. Subscribed' /\ Heard' /\ Awaited'
  BY <1>0, <1>1
  DEF Subscribed, Heard, Awaited, Reviving, Tailscale!Connected, Tailscale!Waiting,
      Tailscale!Now
<1>3. SUFFICES /\ answers' \in Seq(Message)
               /\ panel' \in [running : BOOLEAN, busy : BOOLEAN, netcheck : BOOLEAN,
                              shown : States]
               /\ used' \in [events : 0 .. MaxEvents, asks : 0 .. MaxAsks]
               /\ Reaches(answers', tailscale.last, panel'.shown)
  BY <1>0, <1>1, <1>2 DEF DaemonInv, DaemonTypes
<1>4. CASE Tailscale!Hear
  <2>1. /\ answers # <<>> /\ answers' = Tail(answers) /\ UNCHANGED used
        /\ panel' = CASE Head(answers).type = "state" ->
                             [panel EXCEPT !.shown = Head(answers).state]
                      [] Head(answers).type = "busy" ->
                             [panel EXCEPT !.busy = Head(answers).busy]
                      [] OTHER -> [panel EXCEPT !.netcheck = FALSE]
    BY <1>4 DEF Tailscale!Hear
  <2>2. /\ Head(answers) \in Message /\ Tail(answers) \in Seq(Message)
        /\ Head(answers).type # "state" =>
               Reaches(Tail(answers), tailscale.last, panel.shown)
        /\ Head(answers).type = "state" =>
               Reaches(Tail(answers), tailscale.last, Head(answers).state)
    BY <1>0, <2>1, ReachesLess
  <2>3. /\ Head(answers).type = "state" => Head(answers).state \in States
        /\ Head(answers).type = "busy" => Head(answers).busy \in BOOLEAN
    BY <2>2 DEF Message
  <2>4. CASE Head(answers).type = "state"
    <3>1. panel' = [panel EXCEPT !.shown = Head(answers).state] BY <2>1, <2>4
    <3> QED BY <1>0, <2>1, <2>2, <2>3, <2>4, <3>1
  <2>5. CASE Head(answers).type # "state"
    <3>1. \/ panel' = [panel EXCEPT !.busy = Head(answers).busy]
             /\ Head(answers).type = "busy"
          \/ panel' = [panel EXCEPT !.netcheck = FALSE]
      BY <2>1, <2>5
    <3> QED BY <1>0, <2>1, <2>2, <2>3, <2>5, <3>1
  <2> QED BY <2>4, <2>5
<1>5. CASE Tailscale!SetRunning \/ Tailscale!AskWork \/ Tailscale!Netcheck
  <2>1. /\ UNCHANGED answers /\ used.asks < MaxAsks
        /\ used' = [used EXCEPT !.asks = @ + 1]
        /\ \/ panel' = [panel EXCEPT !.running = ~@]
           \/ panel' = panel
           \/ panel' = [panel EXCEPT !.netcheck = TRUE]
    BY <1>5 DEF Tailscale!SetRunning, Tailscale!AskWork, Tailscale!Netcheck, Tailscale!AskFor
  <2>2. used' \in [events : 0 .. MaxEvents, asks : 0 .. MaxAsks]
    BY <1>0, <2>1, EventBounds
  <2>3. /\ panel' \in [running : BOOLEAN, busy : BOOLEAN, netcheck : BOOLEAN, shown : States]
        /\ panel'.shown = panel.shown
    BY <1>0, <2>1
  <2> QED BY <1>0, <2>1, <2>2, <2>3
<1> QED BY <1>4, <1>5

(* No step of Tailscale breaks the invariant.                              *)
LEMMA DaemonStep == DaemonInv /\ Tailscale!Next => DaemonInv'
BY DaemonEvents, DaemonWatch, DaemonOrders, DaemonReads, DaemonActions, DaemonPanel
DEF Tailscale!Next, Tailscale!Worker

(* A step of the sum is a step of Tailscale, or leaves it alone.           *)
LEMMA DaemonAlone == [Next]_vars => [Tailscale!Next]_tailscaleVars
BY DEF Next, vars, OnlyEthernet, OnlyTailscale, OnlyUsage, OnlyHolidays, OnlyPricing,
       OnlySearch, OnlyProbe, tailscaleVars

(* Tailscale keeps its invariant through the steps of all components.      *)
LEMMA DaemonInvariant == Spec => []DaemonInv
<1>1. Init => DaemonInv BY DaemonInit DEF Init
<1>2. DaemonInv /\ [Next]_vars => DaemonInv'
  <2> SUFFICES ASSUME DaemonInv, [Next]_vars PROVE DaemonInv'
    OBVIOUS
  <2>1. CASE Tailscale!Next BY <2>1, DaemonStep
  <2>2. CASE UNCHANGED tailscaleVars
    BY <2>2 DEF tailscaleVars, DaemonInv, DaemonTypes, Subscribed, Heard, Awaited, Reviving,
                Tailscale!Connected, Tailscale!Waiting, Tailscale!Now
  <2> QED BY <2>1, <2>2, DaemonAlone
<1> QED BY <1>1, <1>2, PTL DEF Spec

(* DaemonCurrent holds however often the daemon comes, goes and changes:   *)
(* no notification is lost that comes during a sample or a reconnection    *)
(* (TailscaleMonitor.cpp).                                                 *)
THEOREM DaemonStaysCurrent == Spec => []DaemonCurrent
<1>1. DaemonInv => DaemonCurrent
  <2> SUFFICES ASSUME DaemonInv, Tailscale!Settled PROVE DaemonCurrent
    BY DEF DaemonCurrent, Tailscale!DaemonCurrent
  <2>1. panel.shown = tailscale.last
    BY DEF DaemonInv, Reaches, Arrives, Tailscale!Settled
  <2>2. tailscale.watch \in {"none", "opened", "streaming"}
    BY DEF DaemonInv, DaemonTypes, Workers
  <2>3. tailscale.watch # "none" =>
            tailscale.watch = "streaming" /\ tailscale.last = Tailscale!Now
    BY <2>2
    DEF DaemonInv, Subscribed, Heard, Tailscale!Settled, Tailscale!Connected, Tailscale!Waiting
  <2>4. tailscale.watch = "none" =>
            \/ ~tailscale.watching \/ tailscale.slipped
            \/ ~daemon.listens /\ (tailscale.last = Tailscale!Offline \/ tailscale.glimpsed)
    BY DEF DaemonInv, Awaited, Reviving, Tailscale!Settled, Tailscale!Waiting
  <2> QED BY <2>1, <2>3, <2>4 DEF DaemonCurrent, Tailscale!DaemonCurrent
<1> QED BY <1>1, DaemonInvariant, PTL

-----------------------------------------------------------------------------
(* The wired link.                                                         *)

Networks == [link : Links, full : BOOLEAN, connection : Connections \cup {NoConnection}]

Posts == {"start", "stop", "refresh", "check", "ping", "vnstat", "track", "untrack", "reconnect"}

Reports ==
    [type : {"state"}, state : Ethernet!States] \cup [type : {"rate"}, rate : {0, 1}]
        \cup [type : {"pinged", "reconnected", "vnstat"}]

Probes ==
    [at : {"idle", "kernel", "manager", "address", "none"}, force : BOOLEAN,
     carrier : BOOLEAN, full : BOOLEAN, after : {"nothing", "vnstat", "reconnected"}]

Samplers ==
    [fd : BOOLEAN, subscribed : BOOLEAN, debounce : BOOLEAN, ticking : BOOLEAN,
     tracking : BOOLEAN, last : Ethernet!States, initialized : BOOLEAN, job : Probes,
     nmcli : {"none", "reapply", "connect"}, cache : Connections \cup {NoConnection},
     cacheFresh : BOOLEAN]

Panels ==
    [running : BOOLEAN, busy : BOOLEAN, pinging : BOOLEAN, tracking : BOOLEAN,
     shown : Ethernet!States, rate : {0, 1}, overridden : BOOLEAN]

LinkTypes ==
    /\ net \in Networks
    /\ signals \in [netlink : BOOLEAN, dbus : BOOLEAN]
    /\ worker \in Samplers
    /\ posts \in Seq(Posts) /\ reports \in Seq(Reports)
    /\ gui \in Panels
    /\ steps \in [changes : 0 .. MaxChanges, ops : 0 .. MaxOps]

StateOf == [r \in [type : {"state"}, state : Ethernet!States] |-> r.state]
RateOf == [r \in [type : {"rate"}, rate : {0, 1}] |-> r.rate]
Starts == [p \in {"start", "stop"} |-> p = "start"]
Tracks == [p \in {"track", "untrack"} |-> p = "track"]

\* What is shown, but for a flag that Qt's signal has overwritten.
Seen == [gui.shown EXCEPT !.internet = IF gui.overridden THEN worker.last.internet ELSE @]

(* What the user asked for and what the worker found is on its way.        *)
Underway ==
    /\ Arrives(Starts, posts, gui.running, worker.fd)
    /\ Arrives(Tracks, posts, gui.tracking, worker.tracking)
    /\ Arrives(StateOf, reports, worker.last, Seen)
    /\ worker.tracking \/ Arrives(RateOf, reports, 0, gui.rate)
    /\ worker.ticking => worker.tracking

(* While the socket is open and silent, what was read of the link is so.   *)
LinkRead ==
    /\ signals.netlink => worker.fd
    /\ worker.fd /\ ~signals.netlink /\ ~worker.debounce =>
        /\ Ethernet!Free => worker.last.link = net.link
        /\ worker.job.at = "none" => net.link = "absent"
        /\ worker.job.at \in {"manager", "address"} =>
               net.link # "absent" /\ (worker.job.carrier => Ethernet!Carrier)

LinkInv == LinkTypes /\ Underway /\ LinkRead

(* The bounds are numbers, and the link may be up.                         *)
LEMMA LinkBounds ==
    /\ MaxChanges \in Nat /\ MaxOps \in Nat
    /\ "up" \in Links /\ Links \subseteq {"absent", "unplugged", "connecting", "up"}
BY BoundsAssumption, LinksAssumption

(* What carries a state, a rate, the wish to run and the wish to track.    *)
LEMMA Carried ==
    /\ \A r \in Reports : /\ r \in DOMAIN StateOf <=> r.type = "state"
                          /\ r.type = "state" => r.state \in Ethernet!States /\ StateOf[r] = r.state
                          /\ r \in DOMAIN RateOf <=> r.type = "rate"
                          /\ r.type = "rate" => r.rate \in {0, 1} /\ RateOf[r] = r.rate
    /\ DOMAIN Starts = {"start", "stop"} /\ Starts["start"] = TRUE /\ Starts["stop"] = FALSE
    /\ DOMAIN Tracks = {"track", "untrack"} /\ Tracks["track"] = TRUE /\ Tracks["untrack"] = FALSE
<1>1. ASSUME NEW r \in Reports
      PROVE  /\ r \in DOMAIN StateOf <=> r.type = "state"
             /\ r.type = "state" => r.state \in Ethernet!States /\ StateOf[r] = r.state
  <2>1. r \in DOMAIN StateOf <=> r.type = "state" BY DEF Reports, StateOf
  <2>2. ASSUME r.type = "state" PROVE r.state \in Ethernet!States /\ StateOf[r] = r.state
    BY <2>1, <2>2 DEF StateOf
  <2> QED BY <2>1, <2>2
<1>2. ASSUME NEW r \in Reports
      PROVE  /\ r \in DOMAIN RateOf <=> r.type = "rate"
             /\ r.type = "rate" => r.rate \in {0, 1} /\ RateOf[r] = r.rate
  <2>1. r \in DOMAIN RateOf <=> r.type = "rate" BY DEF Reports, RateOf
  <2>2. ASSUME r.type = "rate" PROVE r.rate \in {0, 1} /\ RateOf[r] = r.rate
    BY <2>1, <2>2 DEF RateOf
  <2> QED BY <2>1, <2>2
<1>3. DOMAIN Starts = {"start", "stop"} /\ Starts["start"] = TRUE /\ Starts["stop"] = FALSE
  BY DEF Starts
<1>4. DOMAIN Tracks = {"track", "untrack"} /\ Tracks["track"] = TRUE /\ Tracks["untrack"] = FALSE
  BY DEF Tracks
<1> QED BY <1>1, <1>2, <1>3, <1>4

(* The link starts with no worker running, and nothing shown.              *)
LEMMA LinkInit == Ethernet!Init => LinkInv
<1> SUFFICES ASSUME Ethernet!Init PROVE LinkInv
  OBVIOUS
<1>1. /\ net \in Networks /\ net.link = "up"
      /\ signals \in [netlink : BOOLEAN, dbus : BOOLEAN] /\ ~signals.netlink
  BY LinkBounds DEF Ethernet!Init, Networks
<1>2. Ethernet!Blank \in Ethernet!States BY DEF Ethernet!Blank, Ethernet!States
<1>3. Ethernet!Idle \in Probes BY DEF Ethernet!Idle, Probes
<1>4. /\ worker \in Samplers /\ ~worker.fd /\ ~worker.tracking /\ ~worker.ticking
      /\ worker.last = Ethernet!Blank
  BY <1>2, <1>3 DEF Ethernet!Init, Samplers
<1>5. /\ gui \in Panels /\ gui.running /\ ~gui.tracking /\ gui.shown = Ethernet!Blank
      /\ gui.rate = 0 /\ ~gui.overridden
  BY <1>2 DEF Ethernet!Init, Panels
<1>6. posts = <<"start">> /\ reports = <<>> BY DEF Ethernet!Init
<1>7. steps \in [changes : 0 .. MaxChanges, ops : 0 .. MaxOps]
  BY LinkBounds DEF Ethernet!Init
<1>8. LinkTypes BY <1>1, <1>4, <1>5, <1>6, <1>7 DEF LinkTypes, Posts
<1>9. Arrives(Starts, posts, gui.running, worker.fd)
  <2>1. DOMAIN posts = {1} /\ posts[1] = "start" BY <1>6
  <2>2. gui.running = TRUE BY DEF Ethernet!Init
  <2> QED BY <2>1, <2>2, Carried DEF Arrives
<1>10. Arrives(Tracks, posts, gui.tracking, worker.tracking)
  <2>1. DOMAIN posts = {1} /\ posts[1] = "start" BY <1>6
  <2>2. gui.tracking = worker.tracking BY DEF Ethernet!Init
  <2> QED BY <2>1, <2>2, Carried DEF Arrives
<1>11. Seen = worker.last
  BY <1>2, <1>4, <1>5 DEF Seen, Ethernet!States
<1>12. Arrives(StateOf, reports, worker.last, Seen) /\ Arrives(RateOf, reports, 0, gui.rate)
  BY <1>5, <1>6, <1>11 DEF Arrives
<1>13. Underway BY <1>4, <1>9, <1>10, <1>12 DEF Underway
<1>14. LinkRead BY <1>1, <1>4 DEF LinkRead
<1> QED BY <1>8, <1>13, <1>14 DEF LinkInv

(* A step of the worker that reports nothing and serves no request.        *)
LEMMA Unheard ==
    ASSUME LinkInv, UNCHANGED <<posts, reports, gui>>,
           net' \in Networks, signals' \in [netlink : BOOLEAN, dbus : BOOLEAN],
           steps' \in [changes : 0 .. MaxChanges, ops : 0 .. MaxOps],
           worker' \in Samplers, worker'.fd = worker.fd, worker'.last = worker.last,
           worker'.tracking = worker.tracking, worker'.ticking = worker.ticking,
           LinkRead'
    PROVE  LinkInv'
<1>1. LinkTypes' BY DEF LinkInv, LinkTypes
<1>2. Seen' = Seen BY DEF Seen
<1>3. Underway' BY <1>2 DEF LinkInv, Underway
<1> QED BY <1>1, <1>3 DEF LinkInv

(* What happens outside the program leaves a signal, if the socket is      *)
(* open.                                                                   *)
LEMMA LinkOutside ==
    ASSUME LinkInv, Ethernet!ChangeLink \/ Ethernet!ChangeManager \/ Ethernet!CacheAges
    PROVE  LinkInv'
<1>0. /\ net \in Networks /\ signals \in [netlink : BOOLEAN, dbus : BOOLEAN]
      /\ worker \in Samplers /\ LinkRead
      /\ steps \in [changes : 0 .. MaxChanges, ops : 0 .. MaxOps]
  BY DEF LinkInv, LinkTypes
<1>1. CASE Ethernet!ChangeLink
  <2>1. PICK l \in Links : net' = [net EXCEPT !.link = l]
    BY <1>1 DEF Ethernet!ChangeLink
  <2>2. /\ signals' = [signals EXCEPT !.netlink = worker.fd]
        /\ steps.changes < MaxChanges /\ steps' = [steps EXCEPT !.changes = @ + 1]
        /\ UNCHANGED <<worker, posts, reports, gui>>
    BY <1>1 DEF Ethernet!ChangeLink
  <2>3. /\ net' \in Networks /\ signals' \in [netlink : BOOLEAN, dbus : BOOLEAN]
        /\ signals'.netlink = worker.fd
    BY <1>0, <2>1, <2>2 DEF Networks, Samplers
  <2>4. steps' \in [changes : 0 .. MaxChanges, ops : 0 .. MaxOps]
    BY <1>0, <2>2, LinkBounds
  <2>5. LinkRead' BY <2>2, <2>3 DEF LinkRead
  <2> QED BY <1>0, <2>2, <2>3, <2>4, <2>5, Unheard
<1>2. CASE Ethernet!ChangeManager
  <2>1. PICK f \in BOOLEAN, c \in Connections \cup {NoConnection} :
           net' = [net EXCEPT !.full = f, !.connection = c]
    BY <1>2 DEF Ethernet!ChangeManager
  <2>2. /\ signals' = [signals EXCEPT !.dbus = worker.subscribed]
        /\ steps.changes < MaxChanges /\ steps' = [steps EXCEPT !.changes = @ + 1]
        /\ UNCHANGED <<worker, posts, reports, gui>>
    BY <1>2 DEF Ethernet!ChangeManager
  <2>3. /\ net' \in Networks /\ signals' \in [netlink : BOOLEAN, dbus : BOOLEAN]
        /\ signals'.netlink = signals.netlink /\ net'.link = net.link
    BY <1>0, <2>1, <2>2 DEF Networks, Samplers
  <2>4. steps' \in [changes : 0 .. MaxChanges, ops : 0 .. MaxOps]
    BY <1>0, <2>2, LinkBounds
  <2>5. LinkRead'
    BY <1>0, <2>2, <2>3 DEF LinkRead, Ethernet!Free, Ethernet!Carrier
  <2> QED BY <1>0, <2>2, <2>3, <2>4, <2>5, Unheard
<1>3. CASE Ethernet!CacheAges
  <2>1. /\ worker' = [worker EXCEPT !.cacheFresh = FALSE]
        /\ UNCHANGED <<net, signals, posts, reports, gui, steps>>
    BY <1>3 DEF Ethernet!CacheAges
  <2>2. /\ worker' \in Samplers /\ worker'.fd = worker.fd /\ worker'.last = worker.last
        /\ worker'.tracking = worker.tracking /\ worker'.ticking = worker.ticking
        /\ worker'.job = worker.job /\ worker'.debounce = worker.debounce
    BY <1>0, <2>1 DEF Samplers
  <2>3. LinkRead' BY <1>0, <2>1, <2>2 DEF LinkRead, Ethernet!Free, Ethernet!Carrier
  <2> QED BY <1>0, <2>1, <2>2, <2>3, Unheard
<1> QED BY <1>1, <1>2, <1>3

(* Qt's own signal flips a field of what is shown.                         *)
LEMMA LinkOverridden ==
    ASSUME LinkInv, Ethernet!OnReachabilityChanged PROVE LinkInv'
<1>0. /\ gui \in Panels /\ worker \in Samplers /\ Underway /\ LinkRead
      /\ steps \in [changes : 0 .. MaxChanges, ops : 0 .. MaxOps]
  BY DEF LinkInv, LinkTypes
<1>1. /\ steps.changes < MaxChanges /\ steps' = [steps EXCEPT !.changes = @ + 1]
      /\ gui' = [gui EXCEPT !.shown.internet = ~@, !.overridden = TRUE]
      /\ UNCHANGED <<net, signals, worker, posts, reports>>
  BY DEF Ethernet!OnReachabilityChanged
<1>2. steps' \in [changes : 0 .. MaxChanges, ops : 0 .. MaxOps]
  BY <1>0, <1>1, LinkBounds
<1> DEFINE s == [gui.shown EXCEPT !.internet = ~@]
<1>3. /\ s \in Ethernet!States /\ s.link = gui.shown.link
      /\ s.connection = gui.shown.connection
  BY <1>0 DEF Panels, Ethernet!States
<1>4. gui' = [gui EXCEPT !.shown = s, !.overridden = TRUE] BY <1>0, <1>1 DEF Panels
<1> HIDE DEF s
<1>5. /\ gui' \in Panels /\ gui'.shown = s /\ gui'.overridden = TRUE
      /\ gui'.running = gui.running /\ gui'.tracking = gui.tracking /\ gui'.rate = gui.rate
  BY <1>0, <1>3, <1>4 DEF Panels
<1>6. Seen = worker.last => Seen' = worker.last
  <2>1. /\ gui.shown \in Ethernet!States /\ worker.last \in Ethernet!States
        /\ gui.overridden \in BOOLEAN
    BY <1>0 DEF Panels, Samplers
  <2>2. Seen' = [s EXCEPT !.internet = worker.last.internet]
    BY <1>1, <1>3, <1>5 DEF Seen, Ethernet!States
  <2>3. Seen = worker.last => gui.shown.link = worker.last.link
                              /\ gui.shown.connection = worker.last.connection
    BY <2>1 DEF Seen, Ethernet!States
  <2> QED BY <1>3, <2>1, <2>2, <2>3 DEF Ethernet!States
<1>7. Arrives(StateOf, reports, worker.last, Seen') BY <1>0, <1>6 DEF Underway, Arrives
<1>8. Underway' BY <1>0, <1>1, <1>5, <1>7 DEF Underway
<1>9. LinkRead' BY <1>0, <1>1 DEF LinkRead, Ethernet!Free, Ethernet!Carrier
<1>10. LinkTypes' BY <1>1, <1>2, <1>5 DEF LinkInv, LinkTypes
<1> QED BY <1>8, <1>9, <1>10 DEF LinkInv

(* A probe begins.                                                         *)
LEMMA BeginIs ==
    ASSUME NEW w \in Samplers, NEW force \in BOOLEAN,
           NEW after \in {"nothing", "vnstat", "reconnected"},
           NEW r, r = Ethernet!Begin(w, force, after)
    PROVE  /\ r \in Samplers /\ r.job.at = "kernel"
           /\ r.fd = w.fd /\ r.debounce = w.debounce /\ r.last = w.last
           /\ r.tracking = w.tracking /\ r.ticking = w.ticking
<1> DEFINE j == [Ethernet!Idle EXCEPT !.at = "kernel", !.force = force, !.after = after]
<1>1. j \in Probes /\ j.at = "kernel" BY DEF Probes, Ethernet!Idle
<1>2. r = [w EXCEPT !.job = j] BY DEF Ethernet!Begin
<1> HIDE DEF j
<1> QED BY <1>1, <1>2 DEF Samplers

(* The worker's steps that report nothing: signals, the timer, half a      *)
(* probe.                                                                  *)
LEMMA LinkLoop ==
    ASSUME LinkInv,
           \/ Ethernet!ProbeKernel \/ Ethernet!ProbeManager \/ Ethernet!OnNetlinkActivated
           \/ Ethernet!OnNmSignal \/ Ethernet!Debounced \/ Ethernet!NmcliEnds
    PROVE  LinkInv'
<1>0. /\ net \in Networks /\ signals \in [netlink : BOOLEAN, dbus : BOOLEAN]
      /\ worker \in Samplers /\ LinkRead
      /\ steps \in [changes : 0 .. MaxChanges, ops : 0 .. MaxOps]
  BY DEF LinkInv, LinkTypes
<1>1. UNCHANGED <<net, posts, reports, gui, steps>>
  BY DEF Ethernet!ProbeKernel, Ethernet!ProbeManager, Ethernet!OnNetlinkActivated,
         Ethernet!OnNmSignal, Ethernet!Debounced, Ethernet!NmcliEnds
<1>2. SUFFICES /\ signals' \in [netlink : BOOLEAN, dbus : BOOLEAN]
               /\ worker' \in Samplers /\ worker'.fd = worker.fd
               /\ worker'.last = worker.last /\ worker'.tracking = worker.tracking
               /\ worker'.ticking = worker.ticking
               /\ LinkRead'
  BY <1>0, <1>1, Unheard
<1>3. CASE Ethernet!ProbeKernel
  <2> DEFINE a == IF net.link = "absent" THEN "none" ELSE "manager"
             c == Ethernet!Carrier
  <2>1. /\ worker' = [worker EXCEPT !.job.at = a, !.job.carrier = c]
        /\ UNCHANGED signals
    BY <1>3 DEF Ethernet!ProbeKernel
  <2>2. c \in BOOLEAN /\ a \in {"none", "manager"} BY DEF Ethernet!Carrier
  <2>3. /\ (a = "none" <=> net.link = "absent") /\ (c <=> Ethernet!Carrier) OBVIOUS
  <2> HIDE DEF a, c
  <2>4. /\ worker' \in Samplers /\ worker'.fd = worker.fd
        /\ worker'.last = worker.last /\ worker'.tracking = worker.tracking
        /\ worker'.ticking = worker.ticking /\ worker'.debounce = worker.debounce
        /\ worker'.job.at = a /\ worker'.job.carrier = c
    BY <1>0, <2>1, <2>2 DEF Samplers, Probes
  <2>5. LinkRead'
    BY <1>0, <1>1, <2>1, <2>2, <2>3, <2>4 DEF LinkRead, Ethernet!Free, Ethernet!Carrier
  <2> QED BY <1>0, <2>1, <2>4, <2>5
<1>4. CASE Ethernet!ProbeManager
  <2>1. PICK k \in Connections \cup {NoConnection} :
           worker' = [worker EXCEPT !.job.at = "address", !.job.full = net.full,
                                    !.cache = k, !.cacheFresh = TRUE]
    <3>1. worker.cache \in Connections \cup {NoConnection}
          /\ net.connection \in Connections \cup {NoConnection}
      BY <1>0 DEF Samplers, Networks
    <3> QED BY <1>4, <3>1 DEF Ethernet!ProbeManager
  <2>2. worker.job.at = "manager" /\ UNCHANGED signals BY <1>4 DEF Ethernet!ProbeManager
  <2>3. /\ worker' \in Samplers /\ worker'.fd = worker.fd
        /\ worker'.last = worker.last /\ worker'.tracking = worker.tracking
        /\ worker'.ticking = worker.ticking /\ worker'.debounce = worker.debounce
        /\ worker'.job.at = "address" /\ worker'.job.carrier = worker.job.carrier
    BY <1>0, <2>1 DEF Samplers, Probes, Networks
  <2>4. LinkRead' BY <1>0, <1>1, <2>2, <2>3 DEF LinkRead, Ethernet!Free, Ethernet!Carrier
  <2> QED BY <1>0, <2>2, <2>3, <2>4
<1>5. CASE Ethernet!OnNetlinkActivated \/ Ethernet!OnNmSignal
  <2>1. /\ worker' = [worker EXCEPT !.debounce = TRUE]
        /\ \/ signals' = [signals EXCEPT !.netlink = FALSE]
           \/ signals' = [signals EXCEPT !.dbus = FALSE]
    BY <1>5 DEF Ethernet!OnNetlinkActivated, Ethernet!OnNmSignal, Ethernet!Armed
  <2>2. /\ worker' \in Samplers /\ worker'.fd = worker.fd
        /\ worker'.last = worker.last /\ worker'.tracking = worker.tracking
        /\ worker'.ticking = worker.ticking /\ worker'.debounce
    BY <1>0, <2>1 DEF Samplers
  <2>3. /\ signals' \in [netlink : BOOLEAN, dbus : BOOLEAN]
        /\ signals'.netlink => signals.netlink
    BY <1>0, <2>1
  <2>4. LinkRead' BY <1>0, <2>2, <2>3 DEF LinkRead
  <2> QED BY <2>2, <2>3, <2>4
<1>6. CASE Ethernet!Debounced
  <2> DEFINE w == [worker EXCEPT !.debounce = FALSE]
  <2>1. worker' = Ethernet!Begin(w, FALSE, "nothing") /\ UNCHANGED signals
    BY <1>6 DEF Ethernet!Debounced
  <2>2. /\ w \in Samplers /\ w.fd = worker.fd /\ w.last = worker.last
        /\ w.tracking = worker.tracking /\ w.ticking = worker.ticking
    BY <1>0 DEF Samplers
  <2> HIDE DEF w
  <2>3. /\ worker' \in Samplers /\ worker'.fd = worker.fd
        /\ worker'.last = worker.last /\ worker'.tracking = worker.tracking
        /\ worker'.ticking = worker.ticking /\ worker'.job.at = "kernel"
    BY <2>1, <2>2, BeginIs
  <2>4. LinkRead' BY <1>0, <2>1, <2>3 DEF LinkRead, Ethernet!Free
  <2> QED BY <1>0, <2>1, <2>3, <2>4
<1>7. CASE Ethernet!NmcliEnds
  <2>0. Ethernet!Free /\ UNCHANGED signals BY <1>7 DEF Ethernet!NmcliEnds
  <2>1. CASE worker' = [worker EXCEPT !.nmcli = "connect"]
    <3>1. /\ worker' \in Samplers /\ worker'.fd = worker.fd
          /\ worker'.last = worker.last /\ worker'.tracking = worker.tracking
          /\ worker'.ticking = worker.ticking /\ worker'.job = worker.job
          /\ worker'.debounce = worker.debounce
      BY <1>0, <2>1 DEF Samplers
    <3>2. LinkRead' BY <1>0, <1>1, <2>0, <3>1 DEF LinkRead, Ethernet!Free, Ethernet!Carrier
    <3> QED BY <1>0, <2>0, <3>1, <3>2
  <2>2. CASE worker' # [worker EXCEPT !.nmcli = "connect"]
    <3> DEFINE w == [worker EXCEPT !.nmcli = "none"]
    <3>1. worker' = Ethernet!Begin(w, FALSE, "reconnected")
      BY <1>7, <2>2 DEF Ethernet!NmcliEnds
    <3>2. /\ w \in Samplers /\ w.fd = worker.fd /\ w.last = worker.last
          /\ w.tracking = worker.tracking /\ w.ticking = worker.ticking
      BY <1>0 DEF Samplers
    <3> HIDE DEF w
    <3>3. /\ worker' \in Samplers /\ worker'.fd = worker.fd
          /\ worker'.last = worker.last /\ worker'.tracking = worker.tracking
          /\ worker'.ticking = worker.ticking /\ worker'.job.at = "kernel"
      BY <3>1, <3>2, BeginIs
    <3>4. LinkRead' BY <1>0, <2>0, <3>3 DEF LinkRead, Ethernet!Free
    <3> QED BY <1>0, <2>0, <3>3, <3>4
  <2> QED BY <2>1, <2>2
<1> QED BY <1>3, <1>4, <1>5, <1>6, <1>7

(* A rate is reported while the throughput is tracked.                     *)
LEMMA LinkThroughput ==
    ASSUME LinkInv, Ethernet!SampleThroughput PROVE LinkInv'
<1> DEFINE m == [type |-> "rate", rate |-> 1]
<1>1. /\ worker.ticking /\ reports' = Append(reports, m)
      /\ UNCHANGED <<net, signals, worker, posts, gui, steps>>
  BY DEF Ethernet!SampleThroughput
<1>2. m \in Reports /\ m.type = "rate" BY DEF Reports
<1> HIDE DEF m
<1>3. m \notin DOMAIN StateOf BY <1>2, Carried
<1>4. reports' \in Seq(Reports) /\ Arrives(StateOf, reports', worker.last, Seen)
  BY <1>1, <1>2, <1>3, ArrivesMore DEF LinkInv, LinkTypes, Underway
<1>5. Seen' = Seen BY <1>1 DEF Seen
<1>6. Underway' BY <1>1, <1>4, <1>5 DEF LinkInv, Underway
<1>7. LinkTypes' BY <1>1, <1>4 DEF LinkInv, LinkTypes
<1>8. LinkRead' BY <1>1 DEF LinkInv, LinkRead, Ethernet!Free, Ethernet!Carrier
<1> QED BY <1>6, <1>7, <1>8 DEF LinkInv

(* The end of a probe: what was read is what is there, and is reported if  *)
(* new.                                                                    *)
LEMMA LinkProbed ==
    ASSUME LinkInv, Ethernet!ProbeEnds PROVE LinkInv'
<1>0. /\ net \in Networks /\ signals \in [netlink : BOOLEAN, dbus : BOOLEAN]
      /\ worker \in Samplers /\ LinkRead /\ Underway /\ reports \in Seq(Reports)
  BY DEF LinkInv, LinkTypes
<1>1. PICK yes \in BOOLEAN, slow \in {worker.tracking /\ worker.initialized, FALSE} :
         /\ worker' = [worker EXCEPT !.job = Ethernet!Idle, !.initialized = TRUE,
                                     !.last = Ethernet!Probed(yes)]
         /\ reports' = reports
               \o (IF slow THEN <<[type |-> "rate", rate |-> 1]>> ELSE <<>>)
               \o (IF worker.initialized /\ Ethernet!Probed(yes) = worker.last THEN <<>>
                   ELSE <<[type |-> "state", state |-> Ethernet!Probed(yes)]>>)
               \o Ethernet!After(worker.job)
  BY DEF Ethernet!ProbeEnds, Ethernet!SocketAnswers
<1>2. /\ worker.job.at \in {"address", "none"}
      /\ UNCHANGED <<net, signals, posts, gui, steps>>
  BY DEF Ethernet!ProbeEnds
<1> DEFINE s == Ethernet!Probed(yes)
<1>3. s \in Ethernet!States
  <2>1. /\ net.link \in {"absent", "unplugged", "connecting", "up"}
        /\ worker.cache \in Connections \cup {NoConnection}
        /\ net.full \in BOOLEAN /\ worker.job.full \in BOOLEAN
    BY <1>0, LinkBounds DEF Networks, Samplers, Probes
  <2>2. Ethernet!LinkNow \in {"absent", "unplugged", "connecting", "up"}
    BY DEF Ethernet!LinkNow
  <2> DEFINE i == Ethernet!LinkNow = "up" /\ (worker.job.full \/ yes)
             c == IF Ethernet!LinkNow = "absent" THEN NoConnection ELSE worker.cache
  <2>3. i \in BOOLEAN /\ c \in Connections \cup {NoConnection} BY <2>1
  <2>4. s = [link |-> Ethernet!LinkNow, internet |-> i, connection |-> c]
    BY DEF Ethernet!Probed
  <2> HIDE DEF i, c, s
  <2> QED BY <2>2, <2>3, <2>4 DEF Ethernet!States
<1>4. s.link = Ethernet!LinkNow BY DEF Ethernet!Probed
<1>5. ASSUME worker.fd, ~signals.netlink, ~worker.debounce PROVE s.link = net.link
  <2>0. net.link \in {"absent", "unplugged", "connecting", "up"}
    BY <1>0, LinkBounds DEF Networks
  <2>1. CASE worker.job.at = "none"
    <3>1. net.link = "absent" BY <1>0, <1>5, <2>1 DEF LinkRead
    <3>2. Ethernet!LinkNow = "absent" BY <2>1 DEF Ethernet!LinkNow
    <3> QED BY <1>4, <3>1, <3>2
  <2>2. CASE worker.job.at = "address"
    <3>1. net.link # "absent" /\ (worker.job.carrier => Ethernet!Carrier)
      BY <1>0, <1>5, <2>2 DEF LinkRead
    <3>2. CASE net.link = "up" BY <1>4, <2>2, <3>2 DEF Ethernet!LinkNow
    <3>3. CASE net.link = "connecting"
      BY <1>4, <2>2, <3>3 DEF Ethernet!LinkNow, Ethernet!Carrier
    <3>4. CASE net.link = "unplugged"
      <4>1. ~Ethernet!Carrier /\ ~worker.job.carrier BY <3>1, <3>4 DEF Ethernet!Carrier
      <4> QED BY <1>4, <2>2, <3>4, <4>1 DEF Ethernet!LinkNow
    <3> QED BY <2>0, <3>1, <3>2, <3>3, <3>4
  <2> QED BY <1>2, <2>1, <2>2
<1> HIDE DEF s
<1>6. /\ worker' \in Samplers /\ worker'.fd = worker.fd /\ worker'.last = s
      /\ worker'.tracking = worker.tracking /\ worker'.ticking = worker.ticking
      /\ worker'.debounce = worker.debounce /\ worker'.job.at = "idle"
  <2>1. Ethernet!Idle \in Probes /\ Ethernet!Idle.at = "idle" BY DEF Ethernet!Idle, Probes
  <2>2. worker' = [worker EXCEPT !.job = Ethernet!Idle, !.initialized = TRUE, !.last = s]
    BY <1>1 DEF s
  <2> QED BY <1>0, <1>3, <2>1, <2>2 DEF Samplers
<1>7. LinkRead' BY <1>0, <1>2, <1>5, <1>6 DEF LinkRead, Ethernet!Free
<1> DEFINE rate == [type |-> "rate", rate |-> 1]
           told == [type |-> "state", state |-> s]
           same == worker.initialized /\ s = worker.last
           q1 == IF slow THEN Append(reports, rate) ELSE reports
           q2 == IF same THEN q1 ELSE Append(q1, told)
<1>8. /\ rate \in Reports /\ rate.type = "rate"
      /\ told \in Reports /\ told.type = "state" /\ told.state = s
  BY <1>3 DEF Reports
<1>9. PICK e \in Reports : /\ e.type # "state" /\ e.type # "rate"
                           /\ \/ Ethernet!After(worker.job) = <<>>
                              \/ Ethernet!After(worker.job) = <<e>>
  <2>1. /\ [type |-> "reconnected"] \in Reports /\ [type |-> "vnstat"] \in Reports
        /\ [type |-> "reconnected"].type = "reconnected" /\ [type |-> "vnstat"].type = "vnstat"
    BY DEF Reports
  <2>2. \/ Ethernet!After(worker.job) = <<>>
        \/ Ethernet!After(worker.job) = <<[type |-> "reconnected"]>>
        \/ Ethernet!After(worker.job) = <<[type |-> "vnstat"]>>
    BY DEF Ethernet!After
  <2> QED BY <2>1, <2>2
<1> HIDE DEF rate, told
<1>10. /\ q1 \in Seq(Reports) /\ Arrives(StateOf, q1, worker.last, Seen)
       /\ worker.tracking \/ Arrives(RateOf, q1, 0, gui.rate)
  <2>1. slow => worker.tracking BY <1>1
  <2>2. rate \notin DOMAIN StateOf BY <1>8, Carried
  <2>3. CASE slow BY <1>0, <1>8, <2>1, <2>2, <2>3, ArrivesMore DEF Underway
  <2>4. CASE ~slow BY <1>0, <2>4 DEF Underway
  <2> QED BY <2>3, <2>4
<1>11. Seen' = Seen \/ ~same
  BY <1>2, <1>6 DEF Seen
<1>12. /\ q2 \in Seq(Reports) /\ Arrives(StateOf, q2, s, Seen')
       /\ worker.tracking \/ Arrives(RateOf, q2, 0, gui.rate)
  <2> HIDE DEF q1
  <2>1. CASE same BY <1>10, <1>11, <2>1
  <2>2. CASE ~same
    <3>1. told \in DOMAIN StateOf /\ StateOf[told] = s /\ told \notin DOMAIN RateOf
      BY <1>8, Carried
    <3>2. /\ Append(q1, told) \in Seq(Reports)
          /\ Arrives(StateOf, Append(q1, told), StateOf[told], Seen')
      BY <1>8, <1>10, <3>1, ArrivesMore
    <3>3. worker.tracking \/ Arrives(RateOf, Append(q1, told), 0, gui.rate)
      BY <1>8, <1>10, <3>1, ArrivesMore
    <3> QED BY <2>2, <3>1, <3>2, <3>3
  <2> QED BY <2>1, <2>2
<1>13. reports' = q2 \/ reports' = Append(q2, e)
  <2>1. reports' = reports \o (IF slow THEN <<rate>> ELSE <<>>)
                   \o (IF same THEN <<>> ELSE <<told>>) \o Ethernet!After(worker.job)
    BY <1>1 DEF s, rate, told
  <2>2. reports \o (IF slow THEN <<rate>> ELSE <<>>) = q1
    <3>1. reports \o <<>> = reports /\ reports \o <<rate>> = Append(reports, rate)
      BY <1>0, <1>8
    <3> QED BY <3>1
  <2> HIDE DEF q1
  <2>3. q1 \o (IF same THEN <<>> ELSE <<told>>) = q2
    <3>1. q1 \o <<>> = q1 /\ q1 \o <<told>> = Append(q1, told)
      BY <1>8, <1>10
    <3> QED BY <3>1
  <2> HIDE DEF q2
  <2>4. q2 \o <<>> = q2 /\ q2 \o <<e>> = Append(q2, e) BY <1>12
  <2>5. reports' = q2 \o Ethernet!After(worker.job) BY <2>1, <2>2, <2>3
  <2> QED BY <1>9, <2>4, <2>5
<1> HIDE DEF q1, q2
<1>14. e \notin DOMAIN StateOf /\ e \notin DOMAIN RateOf BY <1>9, Carried
<1>15. /\ reports' \in Seq(Reports) /\ Arrives(StateOf, reports', s, Seen')
       /\ worker.tracking \/ Arrives(RateOf, reports', 0, gui.rate)
  <2>1. CASE reports' = q2 BY <1>12, <2>1
  <2>2. CASE reports' = Append(q2, e)
    <3>1. Append(q2, e) \in Seq(Reports) /\ Arrives(StateOf, Append(q2, e), s, Seen')
      BY <1>12, <1>14, ArrivesMore
    <3>2. worker.tracking \/ Arrives(RateOf, Append(q2, e), 0, gui.rate)
      BY <1>12, <1>14, ArrivesMore
    <3> QED BY <2>2, <3>1, <3>2
  <2> QED BY <1>13, <2>1, <2>2
<1>16. Underway' BY <1>0, <1>2, <1>6, <1>15 DEF Underway
<1>17. LinkTypes' BY <1>2, <1>6, <1>15 DEF LinkInv, LinkTypes
<1> QED BY <1>7, <1>16, <1>17 DEF LinkInv

(* A request is taken from the queue.                                      *)
LEMMA Taken ==
    ASSUME LinkInv, NEW r \in Posts, Ethernet!Serve(r)
    PROVE  /\ Ethernet!Free /\ posts' \in Seq(Posts) /\ UNCHANGED <<net, gui, steps>>
           /\ IF r \in {"start", "stop"} THEN Arrives(Starts, posts', gui.running, r = "start")
              ELSE Arrives(Starts, posts', gui.running, worker.fd)
           /\ IF r \in {"track", "untrack"} THEN Arrives(Tracks, posts', gui.tracking, r = "track")
              ELSE Arrives(Tracks, posts', gui.tracking, worker.tracking)
<1>1. /\ Ethernet!Free /\ UNCHANGED <<net, gui, steps>>
      /\ posts # <<>> /\ Head(posts) = r /\ posts' = Tail(posts)
  BY DEF Ethernet!Serve
<1>2. /\ posts \in Seq(Posts)
      /\ Arrives(Starts, posts, gui.running, worker.fd)
      /\ Arrives(Tracks, posts, gui.tracking, worker.tracking)
  BY DEF LinkInv, LinkTypes, Underway
<1>3. /\ posts' \in Seq(Posts)
      /\ r \notin DOMAIN Starts => Arrives(Starts, posts', gui.running, worker.fd)
      /\ r \in DOMAIN Starts => Arrives(Starts, posts', gui.running, Starts[r])
  BY <1>1, <1>2, ArrivesLess
<1>4. /\ r \notin DOMAIN Tracks => Arrives(Tracks, posts', gui.tracking, worker.tracking)
      /\ r \in DOMAIN Tracks => Arrives(Tracks, posts', gui.tracking, Tracks[r])
  BY <1>1, <1>2, ArrivesLess
<1>5. r \in {"start", "stop"} => Starts[r] = (r = "start") BY Carried DEF Starts
<1>6. r \in {"track", "untrack"} => Tracks[r] = (r = "track") BY Carried DEF Tracks
<1>7. CASE r \in {"start", "stop"}
  <2>1. r \notin {"track", "untrack"} BY <1>7
  <2> QED BY <1>1, <1>3, <1>4, <1>5, <1>7, <2>1, Carried
<1>8. CASE r \in {"track", "untrack"}
  <2>1. r \notin {"start", "stop"} BY <1>8
  <2> QED BY <1>1, <1>3, <1>4, <1>6, <1>8, <2>1, Carried
<1>9. CASE r \notin {"start", "stop"} /\ r \notin {"track", "untrack"}
  BY <1>1, <1>3, <1>4, <1>9, Carried
<1> QED BY <1>7, <1>8, <1>9

(* The worker's answer to a request, with a report that carries no state.  *)
LEMMA Answered ==
    ASSUME LinkInv, UNCHANGED <<net, gui, steps>>,
           posts' \in Seq(Posts), reports' \in Seq(Reports),
           signals' \in [netlink : BOOLEAN, dbus : BOOLEAN],
           worker' \in Samplers, worker'.last = worker.last,
           worker'.ticking => worker'.tracking,
           Arrives(Starts, posts', gui.running, worker'.fd),
           Arrives(Tracks, posts', gui.tracking, worker'.tracking),
           \/ reports' = reports
           \/ \E m \in Reports : m.type # "state" /\ reports' = Append(reports, m),
           worker'.tracking \/ Arrives(RateOf, reports', 0, gui.rate),
           LinkRead'
    PROVE  LinkInv'
<1>1. LinkTypes' BY DEF LinkInv, LinkTypes
<1>2. Seen' = Seen BY DEF Seen
<1>3. Arrives(StateOf, reports', worker.last, Seen)
  <2>1. reports \in Seq(Reports) /\ Arrives(StateOf, reports, worker.last, Seen)
    BY DEF LinkInv, LinkTypes, Underway
  <2>2. CASE reports' = reports BY <2>1, <2>2
  <2>3. ASSUME NEW m \in Reports, m.type # "state", reports' = Append(reports, m)
        PROVE  Arrives(StateOf, reports', worker.last, Seen)
    <3>1. m \notin DOMAIN StateOf BY <2>3, Carried
    <3>2. Arrives(StateOf, Append(reports, m), worker.last, Seen)
      BY <2>1, <3>1, ArrivesMore
    <3> QED BY <2>3, <3>2
  <2> QED BY <2>2, <2>3
<1>4. Underway' BY <1>2, <1>3 DEF Underway
<1> QED BY <1>1, <1>4 DEF LinkInv

(* The calls the GUI thread posts to the worker, in their order.           *)
LEMMA LinkServes ==
    ASSUME LinkInv,
           \/ Ethernet!Start \/ Ethernet!Stop \/ Ethernet!Sample \/ Ethernet!Ping
           \/ Ethernet!Vnstat \/ Ethernet!SetThroughputTracking \/ Ethernet!Reconnect
    PROVE  LinkInv'
<1>0. /\ net \in Networks /\ signals \in [netlink : BOOLEAN, dbus : BOOLEAN]
      /\ worker \in Samplers /\ reports \in Seq(Reports) /\ LinkRead
      /\ worker.tracking \/ Arrives(RateOf, reports, 0, gui.rate)
      /\ worker.ticking => worker.tracking
  BY DEF LinkInv, LinkTypes, Underway
<1>1. ASSUME NEW r \in {"refresh", "check", "reconnect"}, Ethernet!Serve(r),
             NEW a \in {"nothing", "reconnected"},
             \/ worker' = Ethernet!Begin(worker, FALSE, a)
             \/ worker' = Ethernet!Begin(worker, TRUE, a),
             UNCHANGED <<signals, reports>>
      PROVE  LinkInv'
  <2>1. /\ worker' \in Samplers /\ worker'.job.at = "kernel" /\ worker'.fd = worker.fd
        /\ worker'.last = worker.last /\ worker'.tracking = worker.tracking
        /\ worker'.ticking = worker.ticking
    <3>1. a \in {"nothing", "vnstat", "reconnected"} OBVIOUS
    <3>2. worker \in Samplers BY <1>0
    <3>3. PICK force \in BOOLEAN : worker' = Ethernet!Begin(worker, force, a) BY <1>1
    <3> QED BY <3>1, <3>2, <3>3, BeginIs
  <2>2. LinkRead' BY <1>0, <1>1, <2>1 DEF LinkRead, Ethernet!Free
  <2>3. r \in Posts /\ r \notin {"start", "stop", "track", "untrack"} BY DEF Posts
  <2>4. /\ posts' \in Seq(Posts) /\ UNCHANGED <<net, gui, steps>>
        /\ Arrives(Starts, posts', gui.running, worker.fd)
        /\ Arrives(Tracks, posts', gui.tracking, worker.tracking)
    BY <1>1, <2>3, Taken
  <2> QED BY <1>0, <1>1, <2>1, <2>2, <2>4, Answered
<1>2. ASSUME NEW r \in {"ping", "vnstat", "reconnect"}, Ethernet!Serve(r), UNCHANGED signals,
             worker' \in {worker, [worker EXCEPT !.nmcli = "reapply"]},
             \/ reports' = reports
             \/ \E t \in {"pinged", "vnstat"} : reports' = Append(reports, [type |-> t])
      PROVE  LinkInv'
  <2>1. /\ worker' \in Samplers /\ worker'.job = worker.job /\ worker'.fd = worker.fd
        /\ worker'.last = worker.last /\ worker'.tracking = worker.tracking
        /\ worker'.ticking = worker.ticking /\ worker'.debounce = worker.debounce
    BY <1>0, <1>2 DEF Samplers
  <2>2. r \in Posts /\ r \notin {"start", "stop", "track", "untrack"} BY DEF Posts
  <2>3. /\ posts' \in Seq(Posts) /\ UNCHANGED <<net, gui, steps>>
        /\ Arrives(Starts, posts', gui.running, worker.fd)
        /\ Arrives(Tracks, posts', gui.tracking, worker.tracking)
    BY <1>2, <2>2, Taken
  <2>4. LinkRead' BY <1>0, <1>2, <2>1, <2>3 DEF LinkRead, Ethernet!Free, Ethernet!Carrier
  <2>5. CASE reports' = reports BY <1>0, <1>2, <2>1, <2>3, <2>4, <2>5, Answered
  <2>6. ASSUME NEW t \in {"pinged", "vnstat"}, reports' = Append(reports, [type |-> t])
        PROVE  LinkInv'
    <3>1. [type |-> t] \in Reports /\ [type |-> t].type \notin {"state", "rate"} BY DEF Reports
    <3>2. [type |-> t] \notin DOMAIN RateOf BY <3>1, Carried
    <3>3. /\ reports' \in Seq(Reports)
          /\ worker.tracking \/ Arrives(RateOf, reports', 0, gui.rate)
      BY <1>0, <2>6, <3>1, <3>2, ArrivesMore
    <3>4. [type |-> t].type # "state" BY <3>1
    <3> QED BY <1>0, <1>2, <2>1, <2>3, <2>4, <2>6, <3>1, <3>3, <3>4, Answered
  <2> QED BY <1>2, <2>5, <2>6
<1>3. CASE Ethernet!Start
  <2>0. Ethernet!Serve("start") /\ UNCHANGED <<signals, reports>>
    BY <1>3 DEF Ethernet!Start
  <2> DEFINE w == [worker EXCEPT !.fd = TRUE, !.subscribed = TRUE]
  <2>1. worker' = Ethernet!Begin(w, TRUE, "vnstat")
    BY <1>3 DEF Ethernet!Start, Ethernet!WithSources
  <2>2. /\ w \in Samplers /\ w.fd = TRUE /\ w.last = worker.last
        /\ w.tracking = worker.tracking /\ w.ticking = worker.ticking
    BY <1>0 DEF Samplers
  <2> HIDE DEF w
  <2>3. /\ worker' \in Samplers /\ worker'.job.at = "kernel" /\ worker'.fd = TRUE
        /\ worker'.last = worker.last /\ worker'.tracking = worker.tracking
        /\ worker'.ticking = worker.ticking
    BY <2>1, <2>2, BeginIs
  <2>4. LinkRead' BY <1>0, <2>3 DEF LinkRead, Ethernet!Free
  <2>5. /\ posts' \in Seq(Posts) /\ UNCHANGED <<net, gui, steps>>
        /\ Arrives(Starts, posts', gui.running, "start" = "start")
        /\ Arrives(Tracks, posts', gui.tracking, worker.tracking)
    <3>1. "start" \in Posts /\ "start" \notin {"track", "untrack"} BY DEF Posts
    <3> QED BY <2>0, <3>1, Taken
  <2>6. ("start" = "start") = TRUE OBVIOUS
  <2>7. Arrives(Starts, posts', gui.running, worker'.fd) BY <2>3, <2>5, <2>6
  <2> QED BY <1>0, <2>0, <2>3, <2>4, <2>5, <2>7, Answered
<1>4. CASE Ethernet!Stop
  <2>0. Ethernet!Serve("stop") /\ UNCHANGED reports BY <1>4 DEF Ethernet!Stop
  <2>1. /\ worker' = [worker EXCEPT !.fd = FALSE, !.debounce = FALSE, !.ticking = FALSE]
        /\ signals' = [signals EXCEPT !.netlink = FALSE]
    BY <1>4 DEF Ethernet!Stop
  <2>2. /\ worker' \in Samplers /\ worker'.fd = FALSE /\ worker'.last = worker.last
        /\ worker'.tracking = worker.tracking /\ ~worker'.ticking
    BY <1>0, <2>1 DEF Samplers
  <2>3. signals' \in [netlink : BOOLEAN, dbus : BOOLEAN] /\ ~signals'.netlink
    BY <1>0, <2>1
  <2>4. LinkRead' BY <2>2, <2>3 DEF LinkRead
  <2>5. /\ posts' \in Seq(Posts) /\ UNCHANGED <<net, gui, steps>>
        /\ Arrives(Starts, posts', gui.running, "stop" = "start")
        /\ Arrives(Tracks, posts', gui.tracking, worker.tracking)
    <3>1. "stop" \in Posts /\ "stop" \notin {"track", "untrack"} BY DEF Posts
    <3> QED BY <2>0, <3>1, Taken
  <2>6. ("stop" = "start") = FALSE OBVIOUS
  <2>7. Arrives(Starts, posts', gui.running, worker'.fd) BY <2>2, <2>5, <2>6
  <2> QED BY <1>0, <2>0, <2>2, <2>3, <2>4, <2>5, <2>7, Answered
<1>5. CASE Ethernet!Sample BY <1>1, <1>5 DEF Ethernet!Sample
<1>6. CASE Ethernet!Ping \/ Ethernet!Vnstat
  BY <1>2, <1>6 DEF Ethernet!Ping, Ethernet!Vnstat
<1>7. CASE Ethernet!Reconnect
  BY <1>1, <1>2, <1>7 DEF Ethernet!Reconnect
<1>8. CASE Ethernet!SetThroughputTracking
  <2> DEFINE m == [type |-> "rate", rate |-> 0]
  <2>1. PICK on \in BOOLEAN :
           /\ Ethernet!Serve(IF on THEN "track" ELSE "untrack")
           /\ worker' = IF worker.tracking = on THEN worker
                        ELSE [worker EXCEPT !.tracking = on, !.ticking = on]
           /\ reports' = IF worker.tracking /\ ~on THEN Append(reports, m) ELSE reports
           /\ UNCHANGED signals
    BY <1>8 DEF Ethernet!SetThroughputTracking
  <2>2. /\ m \in Reports /\ m.type = "rate" /\ m.rate = 0 /\ m.type # "state"
    BY DEF Reports
  <2> HIDE DEF m
  <2>3. /\ worker' \in Samplers /\ worker'.job = worker.job /\ worker'.fd = worker.fd
        /\ worker'.last = worker.last /\ worker'.debounce = worker.debounce
        /\ worker'.tracking = on /\ (worker'.ticking => on)
    <3>1. CASE worker.tracking = on BY <1>0, <2>1, <3>1
    <3>2. CASE worker.tracking # on BY <1>0, <2>1, <3>2 DEF Samplers
    <3> QED BY <3>1, <3>2
  <2>4. /\ Ethernet!Free /\ posts' \in Seq(Posts) /\ UNCHANGED <<net, gui, steps>>
        /\ Arrives(Starts, posts', gui.running, worker.fd)
        /\ Arrives(Tracks, posts', gui.tracking, on)
    <3> DEFINE r == IF on THEN "track" ELSE "untrack"
    <3>1. /\ r \in Posts /\ r \in {"track", "untrack"} /\ r \notin {"start", "stop"}
          /\ (r = "track") = on
      BY DEF Posts
    <3>2. Ethernet!Serve(r) BY <2>1
    <3> HIDE DEF r
    <3>3. /\ Ethernet!Free /\ posts' \in Seq(Posts) /\ UNCHANGED <<net, gui, steps>>
          /\ Arrives(Starts, posts', gui.running, worker.fd)
          /\ Arrives(Tracks, posts', gui.tracking, r = "track")
      BY <3>1, <3>2, Taken
    <3> QED BY <3>1, <3>3
  <2>5. LinkRead' BY <1>0, <2>1, <2>3, <2>4 DEF LinkRead, Ethernet!Free, Ethernet!Carrier
  <2>6. CASE worker.tracking /\ ~on
    <3>1. m \in DOMAIN RateOf /\ RateOf[m] = 0 BY <2>2, Carried
    <3>2. Append(reports, m) \in Seq(Reports) BY <1>0, <2>2
    <3>3. Arrives(RateOf, Append(reports, m), 0, gui.rate)
      <4>1. CASE Arrives(RateOf, reports, 0, gui.rate)
        <5>1. Arrives(RateOf, Append(reports, m), RateOf[m], gui.rate)
          BY <1>0, <2>2, <3>1, <4>1, ArrivesMore
        <5> QED BY <3>1, <5>1
      <4>2. CASE ~Arrives(RateOf, reports, 0, gui.rate)
        <5>1. Arrives(RateOf, Append(reports, m), RateOf[m], gui.rate)
          BY <1>0, <2>2, <3>1, LastCounts
        <5> QED BY <3>1, <5>1
      <4> QED BY <4>1, <4>2
    <3> QED BY <1>0, <2>1, <2>2, <2>3, <2>4, <2>5, <2>6, <3>2, <3>3, Answered
  <2>7. CASE ~(worker.tracking /\ ~on)
    <3>1. on \/ Arrives(RateOf, reports, 0, gui.rate) BY <1>0, <2>7
    <3> QED BY <1>0, <2>1, <2>3, <2>4, <2>5, <2>7, <3>1, Answered
  <2> QED BY <2>6, <2>7
<1> QED BY <1>3, <1>4, <1>5, <1>6, <1>7, <1>8

(* The GUI thread posts what the user asks for.                            *)
LEMMA LinkAsks ==
    ASSUME LinkInv,
           \/ Ethernet!SetRunning \/ Ethernet!TrackThroughput \/ Ethernet!RunPing
           \/ Ethernet!RefreshVnstat \/ Ethernet!AskSample
    PROVE  LinkInv'
<1>0. /\ posts \in Seq(Posts) /\ gui \in Panels /\ Underway
      /\ steps \in [changes : 0 .. MaxChanges, ops : 0 .. MaxOps]
  BY DEF LinkInv, LinkTypes
<1>1. PICK r \in Posts :
         /\ Ethernet!Ask(r)
         /\ \/ /\ r = IF gui.running THEN "stop" ELSE "start"
               /\ gui' = [gui EXCEPT !.running = ~@]
            \/ /\ r = IF gui.tracking THEN "untrack" ELSE "track"
               /\ gui' = [gui EXCEPT !.tracking = ~@]
            \/ /\ r \notin {"start", "stop", "track", "untrack"}
               /\ \/ gui' = [gui EXCEPT !.pinging = TRUE]
                  \/ gui' = gui
                  \/ gui' = [gui EXCEPT !.busy = TRUE]
  <2>1. CASE Ethernet!SetRunning
    <3>1. (IF gui.running THEN "stop" ELSE "start") \in Posts BY DEF Posts
    <3> QED BY <2>1, <3>1 DEF Ethernet!SetRunning
  <2>2. CASE Ethernet!TrackThroughput
    <3>1. (IF gui.tracking THEN "untrack" ELSE "track") \in Posts BY DEF Posts
    <3> QED BY <2>2, <3>1 DEF Ethernet!TrackThroughput
  <2>3. CASE Ethernet!RunPing \/ Ethernet!RefreshVnstat \/ Ethernet!AskSample
    <3>1. \A r \in {"ping", "vnstat", "refresh", "check", "reconnect"} :
             r \in Posts /\ r \notin {"start", "stop", "track", "untrack"}
      BY DEF Posts
    <3> QED BY <2>3, <3>1 DEF Ethernet!RunPing, Ethernet!RefreshVnstat, Ethernet!AskSample
  <2> QED BY <2>1, <2>2, <2>3
<1>2. /\ posts' = Append(posts, r) /\ steps.ops < MaxOps
      /\ steps' = [steps EXCEPT !.ops = @ + 1]
      /\ UNCHANGED <<net, signals, worker, reports>>
  BY <1>1 DEF Ethernet!Ask
<1>3. /\ gui' \in Panels /\ gui'.shown = gui.shown /\ gui'.overridden = gui.overridden
      /\ gui'.rate = gui.rate
  BY <1>0, <1>1 DEF Panels
<1>4. steps' \in [changes : 0 .. MaxChanges, ops : 0 .. MaxOps]
  BY <1>0, <1>2, LinkBounds
<1>5. posts' \in Seq(Posts) BY <1>0, <1>2
<1>6. Arrives(Starts, posts', gui'.running, worker.fd)
  <2>1. Arrives(Starts, posts, gui.running, worker.fd) BY <1>0 DEF Underway
  <2>2. CASE r \in {"start", "stop"}
    <3>1. Starts[r] = (r = "start") /\ r \in DOMAIN Starts BY <2>2, Carried DEF Starts
    <3>2. gui'.running = (r = "start")
      <4>1. r = IF gui.running THEN "stop" ELSE "start" BY <1>1, <2>2
      <4>2. gui' = [gui EXCEPT !.running = ~@] BY <1>1, <2>2
      <4>3. gui'.running = ~gui.running /\ gui.running \in BOOLEAN BY <1>0, <4>2 DEF Panels
      <4> QED BY <4>1, <4>3
    <3>3. Arrives(Starts, Append(posts, r), Starts[r], worker.fd)
      BY <1>0, <2>1, <3>1, ArrivesMore
    <3> QED BY <1>2, <3>1, <3>2, <3>3
  <2>3. CASE r \notin {"start", "stop"}
    <3>1. gui'.running = gui.running BY <1>0, <1>1, <2>3 DEF Panels
    <3>2. Arrives(Starts, Append(posts, r), gui.running, worker.fd)
      BY <1>0, <2>1, <2>3, Carried, ArrivesMore
    <3> QED BY <1>2, <3>1, <3>2
  <2> QED BY <2>2, <2>3
<1>7. Arrives(Tracks, posts', gui'.tracking, worker.tracking)
  <2>1. Arrives(Tracks, posts, gui.tracking, worker.tracking) BY <1>0 DEF Underway
  <2>2. CASE r \in {"track", "untrack"}
    <3>1. Tracks[r] = (r = "track") /\ r \in DOMAIN Tracks BY <2>2, Carried DEF Tracks
    <3>2. gui'.tracking = (r = "track")
      <4>1. r = IF gui.tracking THEN "untrack" ELSE "track" BY <1>1, <2>2
      <4>2. gui' = [gui EXCEPT !.tracking = ~@] BY <1>1, <2>2
      <4>3. gui'.tracking = ~gui.tracking /\ gui.tracking \in BOOLEAN BY <1>0, <4>2 DEF Panels
      <4> QED BY <4>1, <4>3
    <3>3. Arrives(Tracks, Append(posts, r), Tracks[r], worker.tracking)
      BY <1>0, <2>1, <3>1, ArrivesMore
    <3> QED BY <1>2, <3>1, <3>2, <3>3
  <2>3. CASE r \notin {"track", "untrack"}
    <3>1. gui'.tracking = gui.tracking BY <1>0, <1>1, <2>3 DEF Panels
    <3>2. Arrives(Tracks, Append(posts, r), gui.tracking, worker.tracking)
      BY <1>0, <2>1, <2>3, Carried, ArrivesMore
    <3> QED BY <1>2, <3>1, <3>2
  <2> QED BY <2>2, <2>3
<1>8. Seen' = Seen BY <1>2, <1>3 DEF Seen
<1>9. Underway' BY <1>0, <1>2, <1>3, <1>6, <1>7, <1>8 DEF Underway
<1>10. LinkTypes' BY <1>2, <1>3, <1>4, <1>5 DEF LinkInv, LinkTypes
<1>11. LinkRead' BY <1>2 DEF LinkInv, LinkRead, Ethernet!Free, Ethernet!Carrier
<1> QED BY <1>9, <1>10, <1>11 DEF LinkInv

(* The GUI thread takes the oldest report and shows what it carries.       *)
LEMMA LinkReceives ==
    ASSUME LinkInv, Ethernet!GuiReceives PROVE LinkInv'
<1>0. /\ reports \in Seq(Reports) /\ gui \in Panels /\ Underway /\ worker \in Samplers
  BY DEF LinkInv, LinkTypes
<1> DEFINE h == Head(reports)
<1>1. /\ reports # <<>> /\ reports' = Tail(reports)
      /\ UNCHANGED <<net, signals, worker, posts, steps>>
      /\ CASE h.type = "state" ->
                gui' = [gui EXCEPT !.shown = h.state, !.busy = FALSE, !.overridden = FALSE]
           [] h.type = "rate" -> gui' = [gui EXCEPT !.rate = h.rate]
           [] h.type \notin {"state", "rate"} ->
                \/ gui' = [gui EXCEPT !.pinging = FALSE]
                \/ gui' = [gui EXCEPT !.busy = FALSE]
                \/ gui' = gui
  BY DEF Ethernet!GuiReceives, Ethernet!OnStateChanged, Ethernet!OnThroughputUpdated,
         Ethernet!OnPingFinished, Ethernet!OnReconnectFinished, Ethernet!OnVnstatUpdated,
         Ethernet!Receive
<1>2. /\ h \in Reports /\ reports' \in Seq(Reports)
      /\ h \notin DOMAIN StateOf => Arrives(StateOf, reports', worker.last, Seen)
      /\ h \in DOMAIN StateOf => Arrives(StateOf, reports', worker.last, StateOf[h])
  BY <1>0, <1>1, ArrivesLess DEF Underway
<1>3. \/ worker.tracking
      \/ /\ h \notin DOMAIN RateOf => Arrives(RateOf, reports', 0, gui.rate)
         /\ h \in DOMAIN RateOf => Arrives(RateOf, reports', 0, RateOf[h])
  BY <1>0, <1>1, ArrivesLess DEF Underway
<1> HIDE DEF h
<1>4. /\ gui' \in Panels /\ gui'.running = gui.running /\ gui'.tracking = gui.tracking
      /\ Arrives(StateOf, reports', worker.last, Seen')
      /\ worker.tracking \/ Arrives(RateOf, reports', 0, gui'.rate)
  <2>1. CASE h.type = "state"
    <3>1. gui' = [gui EXCEPT !.shown = h.state, !.busy = FALSE, !.overridden = FALSE]
      BY <1>1, <2>1
    <3>2. /\ h \in DOMAIN StateOf /\ StateOf[h] = h.state /\ h.state \in Ethernet!States
          /\ h \notin DOMAIN RateOf
      BY <1>2, <2>1, Carried
    <3>3. /\ gui' \in Panels /\ gui'.running = gui.running /\ gui'.tracking = gui.tracking
          /\ gui'.rate = gui.rate /\ gui'.shown = h.state /\ gui'.overridden = FALSE
      BY <1>0, <3>1, <3>2 DEF Panels
    <3>4. Seen' = h.state BY <1>1, <3>2, <3>3 DEF Seen, Ethernet!States
    <3> QED BY <1>2, <1>3, <3>2, <3>3, <3>4
  <2>2. CASE h.type = "rate"
    <3>1. gui' = [gui EXCEPT !.rate = h.rate] BY <1>1, <2>2
    <3>2. /\ h \in DOMAIN RateOf /\ RateOf[h] = h.rate /\ h.rate \in {0, 1}
          /\ h \notin DOMAIN StateOf
      BY <1>2, <2>2, Carried
    <3>3. /\ gui' \in Panels /\ gui'.running = gui.running /\ gui'.tracking = gui.tracking
          /\ gui'.rate = h.rate /\ gui'.shown = gui.shown /\ gui'.overridden = gui.overridden
      BY <1>0, <3>1, <3>2 DEF Panels
    <3>4. Seen' = Seen BY <1>1, <3>3 DEF Seen
    <3> QED BY <1>2, <1>3, <3>2, <3>3, <3>4
  <2>3. CASE h.type \notin {"state", "rate"}
    <3>1. \/ gui' = [gui EXCEPT !.pinging = FALSE]
          \/ gui' = [gui EXCEPT !.busy = FALSE]
          \/ gui' = gui
      BY <1>1, <2>3
    <3>2. h \notin DOMAIN RateOf /\ h \notin DOMAIN StateOf BY <1>2, <2>3, Carried
    <3>3. /\ gui' \in Panels /\ gui'.running = gui.running /\ gui'.tracking = gui.tracking
          /\ gui'.rate = gui.rate /\ gui'.shown = gui.shown
          /\ gui'.overridden = gui.overridden
      BY <1>0, <3>1 DEF Panels
    <3>4. Seen' = Seen BY <1>1, <3>3 DEF Seen
    <3> QED BY <1>2, <1>3, <3>2, <3>3, <3>4
  <2> QED BY <2>1, <2>2, <2>3
<1>5. Underway' BY <1>0, <1>1, <1>4 DEF Underway
<1>6. LinkTypes' BY <1>1, <1>2, <1>4 DEF LinkInv, LinkTypes
<1>7. LinkRead' BY <1>1 DEF LinkInv, LinkRead, Ethernet!Free, Ethernet!Carrier
<1> QED BY <1>5, <1>6, <1>7 DEF LinkInv

(* No step of the wired link breaks the invariant.                         *)
LEMMA LinkStep == LinkInv /\ Ethernet!Next => LinkInv'
BY LinkOutside, LinkOverridden, LinkLoop, LinkThroughput, LinkProbed, LinkServes, LinkAsks,
   LinkReceives
DEF Ethernet!Next, Ethernet!Worker

(* A step of the sum is a step of the link, or leaves it alone.            *)
LEMMA LinkAlone == [Next]_vars => [Ethernet!Next]_ethernetVars
BY DEF Next, vars, OnlyEthernet, OnlyTailscale, OnlyUsage, OnlyHolidays, OnlyPricing,
       OnlySearch, OnlyProbe, ethernetVars

(* The link keeps its invariant through the steps of all components.       *)
LEMMA LinkInvariant == Spec => []LinkInv
<1>1. Init => LinkInv BY LinkInit DEF Init
<1>2. LinkInv /\ [Next]_vars => LinkInv'
  <2> SUFFICES ASSUME LinkInv, [Next]_vars PROVE LinkInv'
    OBVIOUS
  <2>1. CASE Ethernet!Next BY <2>1, LinkStep
  <2>2. CASE UNCHANGED ethernetVars
    BY <2>2 DEF ethernetVars, LinkInv, LinkTypes, Underway, Seen, LinkRead, Ethernet!Free,
                Ethernet!Carrier
  <2> QED BY <2>1, <2>2, LinkAlone
<1> QED BY <1>1, <1>2, PTL DEF Spec

(* LinkCurrent holds for any links, connections and changes: what is shown *)
(* is the link there is, whatever changes during a probe or between a stop *)
(* and a start (EthernetMonitor.cpp).                                      *)
THEOREM LinkStaysCurrent == Spec => []LinkCurrent
<1>1. LinkInv => LinkCurrent
  <2> SUFFICES ASSUME LinkInv, Ethernet!Settled
               PROVE  /\ gui.running => gui.shown.link = net.link
                      /\ gui.overridden \/ gui.shown = worker.last
                      /\ gui.tracking \/ gui.rate = 0
    BY DEF LinkCurrent, Ethernet!LinkCurrent
  <2>1. /\ posts = <<>> /\ reports = <<>> /\ Ethernet!Free
        /\ ~worker.debounce /\ ~signals.netlink
    BY DEF Ethernet!Settled
  <2>2. /\ gui \in Panels /\ worker \in Samplers /\ Underway /\ LinkRead
    BY DEF LinkInv, LinkTypes
  <2>3. /\ worker.fd = gui.running /\ worker.tracking = gui.tracking /\ Seen = worker.last
        /\ worker.tracking \/ gui.rate = 0
    BY <2>1, <2>2 DEF Underway, Arrives
  <2>4. gui.shown.link = worker.last.link
    BY <2>2, <2>3 DEF Seen, Panels, Samplers, Ethernet!States
  <2>5. gui.overridden \/ gui.shown = worker.last
    BY <2>2, <2>3 DEF Seen, Panels, Ethernet!States
  <2> QED BY <2>1, <2>2, <2>3, <2>4, <2>5 DEF LinkRead
<1> QED BY <1>1, LinkInvariant, PTL

-----------------------------------------------------------------------------
(* The text in the launcher's field.                                       *)

ProbeTypes ==
    /\ text \in Paths \cup Words \cup {Probe!Empty}
    /\ lookup \in [id : Nat, busy : BOOLEAN]
    /\ lookups \subseteq [id : 1 .. lookup.id, path : Paths]
    /\ calls \in [made : Nat, overtaken : BOOLEAN]
    /\ reveal \in [pending : BOOLEAN, shown : BOOLEAN, cli : BOOLEAN, fd : BOOLEAN,
                   asked : BOOLEAN]

(* The lookup whose answer will be taken is the only one of its number,    *)
(* and for the text, unless a word has been typed since.                   *)
LastLookup ==
    /\ \A l, m \in lookups : l.id = m.id => l = m
    /\ \A l \in lookups : l.id = lookup.id => l.path = text \/ calls.overtaken
    /\ calls.overtaken => text \in Words

Looked ==
    /\ text \in Paths => answer = text \/ \E l \in lookups : l.id = lookup.id
    /\ ~lookup.busy => answer \in {text, Probe!Empty} \/ calls.overtaken
    /\ reveal.asked => reveal.pending \/ reveal.shown \/ reveal.cli

ProbeInv == ProbeTypes /\ LastLookup /\ Looked

(* Nothing has been typed, and nothing is looked up.                       *)
LEMMA ProbeInit == Probe!Init => ProbeInv
<1> SUFFICES ASSUME Probe!Init PROVE ProbeInv
  OBVIOUS
<1>1. /\ text = Probe!Empty /\ lookup = [id |-> 0, busy |-> FALSE] /\ lookups = {}
      /\ answer = Probe!Empty /\ calls = [made |-> 0, overtaken |-> FALSE]
      /\ reveal = [pending |-> FALSE, shown |-> FALSE, cli |-> FALSE, fd |-> FALSE,
                   asked |-> FALSE]
  BY DEF Probe!Init
<1>2. ProbeTypes BY <1>1 DEF ProbeTypes
<1>3. LastLookup BY <1>1 DEF LastLookup
<1>4. Looked BY <1>1 DEF Looked
<1> QED BY <1>2, <1>3, <1>4 DEF ProbeInv

(* A path that is typed is looked up, the text that is there already too.  *)
LEMMA ProbePath == ProbeInv /\ Probe!ClassifyPath => ProbeInv'
<1> SUFFICES ASSUME ProbeInv, Probe!ClassifyPath PROVE ProbeInv'
  OBVIOUS
<1>0. ProbeTypes /\ LastLookup /\ Looked BY DEF ProbeInv
<1>1. PICK p \in Paths :
         /\ text' = p
         /\ lookup' = [id |-> lookup.id + 1, busy |-> TRUE]
         /\ lookups' = lookups \cup {[id |-> lookup.id + 1, path |-> p]}
  BY DEF Probe!ClassifyPath, Probe!Lookup
<1>2. /\ calls' = [made |-> calls.made + 1, overtaken |-> FALSE]
      /\ UNCHANGED <<answer, reveal>>
  BY DEF Probe!ClassifyPath, Probe!Call
<1> DEFINE n == [id |-> lookup.id + 1, path |-> p]
<1>3. /\ lookup.id \in Nat /\ lookup'.id = lookup.id + 1 /\ lookup'.busy = TRUE
      /\ n.id = lookup.id + 1 /\ n.path = p /\ n \in [id : 1 .. lookup'.id, path : Paths]
      /\ \A l \in lookups : l.id \in 1 .. lookup.id /\ l.path \in Paths
  BY <1>0, <1>1 DEF ProbeTypes
<1>4. \A l \in lookups : l \in [id : 1 .. lookup'.id, path : Paths] /\ l.id # n.id
  <2>1. 1 .. lookup.id \subseteq 1 .. lookup'.id /\ n.id \notin 1 .. lookup.id BY <1>3
  <2> QED BY <1>0, <1>3, <2>1 DEF ProbeTypes
<1>5. lookups' = lookups \cup {n} BY <1>1
<1> HIDE DEF n
<1>6. ProbeTypes' BY <1>0, <1>1, <1>2, <1>3, <1>4, <1>5 DEF ProbeTypes
<1>7. LastLookup' BY <1>0, <1>1, <1>2, <1>3, <1>4, <1>5 DEF LastLookup
<1>8. Looked' BY <1>0, <1>1, <1>2, <1>3, <1>5 DEF Looked
<1> QED BY <1>6, <1>7, <1>8 DEF ProbeInv

(* What answers late, or for another number, is not shown for the text.    *)
LEMMA ProbeStep == ProbeInv /\ Probe!Next => ProbeInv'
<1> SUFFICES ASSUME ProbeInv, Probe!Next PROVE ProbeInv'
  OBVIOUS
<1>0. ProbeTypes /\ LastLookup /\ Looked BY DEF ProbeInv
<1>1. CASE Probe!ClassifyPath BY <1>1, ProbePath
<1>2. CASE Probe!ClassifyWord
  <2> DEFINE over == calls.overtaken \/ \E l \in lookups : l.id = lookup.id
  <2>0. over \in BOOLEAN /\ (over <=> calls.overtaken \/ \E l \in lookups : l.id = lookup.id)
    BY <1>0 DEF ProbeTypes
  <2>1. /\ calls' = [made |-> calls.made + 1, overtaken |-> over]
        /\ text' \in Words /\ answer' = Probe!Empty
        /\ lookup' = [lookup EXCEPT !.busy = FALSE] /\ UNCHANGED <<lookups, reveal>>
    BY <1>2 DEF Probe!ClassifyWord, Probe!Call
  <2> HIDE DEF over
  <2>2. lookup' \in [id : Nat, busy : BOOLEAN] /\ lookup'.id = lookup.id
    BY <1>0, <2>1 DEF ProbeTypes
  <2>3. /\ calls' \in [made : Nat, overtaken : BOOLEAN]
        /\ calls'.overtaken <=> calls.overtaken \/ \E l \in lookups : l.id = lookup.id
    BY <1>0, <2>0, <2>1 DEF ProbeTypes
  <2>4. text' \notin Paths BY <2>1, PathsAssumption
  <2>5. ProbeTypes' BY <1>0, <2>1, <2>2, <2>3 DEF ProbeTypes
  <2>6. LastLookup' BY <1>0, <2>1, <2>2, <2>3 DEF LastLookup
  <2>7. Looked' BY <1>0, <2>1, <2>2, <2>4 DEF Looked
  <2> QED BY <2>5, <2>6, <2>7 DEF ProbeInv
<1>3. CASE Probe!Classified
  <2>1. PICK l \in lookups :
           /\ lookups' = lookups \ {l}
           /\ IF l.id = lookup.id
              THEN answer' = l.path /\ lookup' = [lookup EXCEPT !.busy = FALSE]
              ELSE UNCHANGED <<answer, lookup>>
           /\ UNCHANGED <<text, reveal, calls>>
    BY <1>3 DEF Probe!Classified
  <2>2. lookup' \in [id : Nat, busy : BOOLEAN] /\ lookup'.id = lookup.id
    BY <1>0, <2>1 DEF ProbeTypes
  <2>3. ProbeTypes' BY <1>0, <2>1, <2>2 DEF ProbeTypes
  <2>4. LastLookup' BY <1>0, <2>1, <2>2 DEF LastLookup
  <2>5. Looked'
    <3>1. CASE l.id = lookup.id
      <4>1. answer' = text \/ calls.overtaken BY <1>0, <2>1, <3>1 DEF LastLookup
      <4>2. text \in Paths => ~calls.overtaken BY <1>0, PathsAssumption DEF LastLookup
      <4> QED BY <1>0, <2>1, <4>1, <4>2 DEF Looked
    <3>2. CASE l.id # lookup.id BY <1>0, <2>1, <3>2 DEF Looked
    <3> QED BY <3>1, <3>2
  <2> QED BY <2>3, <2>4, <2>5 DEF ProbeInv
<1>4. ASSUME UNCHANGED <<text, lookup, lookups, answer>>,
             calls' \in [made : Nat, overtaken : {calls.overtaken}],
             reveal' \in [pending : BOOLEAN, shown : BOOLEAN, cli : BOOLEAN, fd : BOOLEAN,
                          asked : BOOLEAN],
             reveal'.asked => reveal'.pending \/ reveal'.shown \/ reveal'.cli
      PROVE  ProbeInv'
  BY <1>0, <1>4 DEF ProbeInv, ProbeTypes, LastLookup, Looked
<1>5. calls.made + 1 \in Nat /\ calls.made \in Nat /\ calls \in [made : Nat, overtaken : {calls.overtaken}]
  BY <1>0 DEF ProbeTypes
<1>6. CASE Probe!Reveal
  <2>1. calls' \in [made : Nat, overtaken : {calls.overtaken}]
    BY <1>5, <1>6 DEF Probe!Reveal, Probe!Call
  <2> QED BY <1>0, <1>4, <1>6, <2>1 DEF Probe!Reveal, ProbeTypes
<1>7. CASE Probe!OpenWith
  <2>1. calls' \in [made : Nat, overtaken : {calls.overtaken}]
    BY <1>5, <1>7 DEF Probe!OpenWith, Probe!Call
  <2>2. PICK exists \in BOOLEAN, portal \in BOOLEAN :
           reveal' = [reveal EXCEPT !.fd = exists /\ portal]
    BY <1>7 DEF Probe!OpenWith
  <2> DEFINE open == exists /\ portal
  <2>3. open \in BOOLEAN /\ reveal' = [reveal EXCEPT !.fd = open] BY <2>2
  <2> HIDE DEF open
  <2> QED BY <1>0, <1>4, <1>7, <2>1, <2>3 DEF Probe!OpenWith, ProbeTypes, Looked
<1>8. CASE Probe!RevealAnswered
  BY <1>0, <1>4, <1>5, <1>8 DEF Probe!RevealAnswered, ProbeTypes, Looked
<1>9. CASE Probe!PortalAnswered
  BY <1>0, <1>4, <1>5, <1>9 DEF Probe!PortalAnswered, ProbeTypes, Looked
<1> QED BY <1>1, <1>2, <1>3, <1>6, <1>7, <1>8, <1>9 DEF Probe!Next, Probe!Answers

(* A step of the sum is a step of the probe, or leaves it alone.           *)
LEMMA ProbeAlone == [Next]_vars => [Probe!Next]_pathVars
BY DEF Next, vars, OnlyEthernet, OnlyTailscale, OnlyUsage, OnlyHolidays, OnlyPricing,
       OnlySearch, OnlyProbe, pathVars

(* The probe keeps its invariant through the steps of all components.      *)
LEMMA ProbeInvariant == Spec => []ProbeInv
<1>1. Init => ProbeInv BY ProbeInit DEF Init
<1>2. ProbeInv /\ [Next]_vars => ProbeInv'
  <2> SUFFICES ASSUME ProbeInv, [Next]_vars PROVE ProbeInv'
    OBVIOUS
  <2>1. CASE Probe!Next BY <2>1, ProbeStep
  <2>2. CASE UNCHANGED pathVars
    BY <2>2 DEF pathVars, ProbeInv, ProbeTypes, LastLookup, Looked
  <2> QED BY <2>1, <2>2, ProbeAlone
<1> QED BY <1>1, <1>2, PTL DEF Spec

-----------------------------------------------------------------------------
(* The list of files.                                                      *)

SearchRun == [id |-> request, term |-> pending.term]

(* At most one list is made for a request: its timer, its processes or its *)
(* rows are under way.                                                     *)
OneList ==
    /\ request \in Nat
    /\ query = pending.term /\ query \in Terms \cup {""}
    /\ pipeline \in {Search!NoRun, SearchRun}
    /\ pending = [term |-> query, debounce |-> FALSE] \/ pending = [term |-> query, debounce |-> TRUE]
    /\ pending.debounce => pipeline = Search!NoRun
    /\ pending.debounce \/ pipeline # Search!NoRun =>
           query \in Terms /\ request > 0 /\ ~Search!Building

(* What the pool is given is what was found.                               *)
Builds ==
    \A b \in builds :
        /\ b.id \in 1 .. request /\ b.term \in Terms
        /\ b.list \in Search!Found(b.term) \cup {{}}
        /\ b.id = request => past.overtaken \/ b.term = query
        /\ b.id = request => past.failed \/ b.list \in Search!Found(b.term)

(* A list that may be narrowed has all the files that contain the term.    *)
Narrowable ==
    completed.count > 0 /\ completed.count < MaxResults =>
        /\ completed.term \in Terms
        /\ past.emptied \/ Containing[completed.term] \subseteq shown

Listed ==
    ~pending.debounce /\ pipeline = Search!NoRun /\ ~Search!Building /\ ~past.overtaken =>
        IF query = "" THEN shown = {}
        ELSE shown \in Search!Answers(query) \/ past.emptied \/ past.failed

SearchInv ==
    /\ past \in [keys : Nat, overtaken : BOOLEAN, emptied : BOOLEAN, failed : BOOLEAN]
    /\ OneList /\ Builds /\ Narrowable /\ Listed

(* The two modules count alike.                                            *)
LEMMA SearchCounts == \A S : Search!Cardinality(S) = Cardinality(S)
BY DEF Search!Cardinality, Cardinality

(* A longer term is contained in fewer files, and fzf finds those.         *)
LEMMA TermsFit ==
    /\ "" \notin Terms
    /\ \A t \in Terms : Containing[t] \subseteq Hits[t]
    /\ \A t, s \in Terms : <<t, s>> \in Extensions => Containing[t] \subseteq Containing[s]
<1>1. "" \notin Terms BY DEF Terms
<1>2. ASSUME NEW t \in Terms PROVE Containing[t] \subseteq Hits[t]
  <2>1. CASE t = "a" BY <2>1 DEF Terms, Containing, Hits
  <2>2. CASE t = "ab" BY <2>2 DEF Terms, Containing, Hits
  <2>3. CASE t = "x" BY <2>3 DEF Terms, Containing, Hits
  <2>4. CASE t = "xy" BY <2>4 DEF Terms, Containing, Hits
  <2> QED BY <2>1, <2>2, <2>3, <2>4 DEF Terms
<1>3. ASSUME NEW t \in Terms, NEW s \in Terms, <<t, s>> \in Extensions
      PROVE  Containing[t] \subseteq Containing[s]
  <2>1. <<t, s>> = <<"ab", "a">> \/ <<t, s>> = <<"xy", "x">> BY <1>3 DEF Extensions
  <2>2. (t = "ab" /\ s = "a") \/ (t = "xy" /\ s = "x") BY <2>1
  <2>3. /\ Containing["a"] = {1, 2} /\ Containing["ab"] = {1}
        /\ Containing["x"] = {3, 6} /\ Containing["xy"] = {6}
    BY DEF Terms, Containing
  <2>4. CASE t = "ab" /\ s = "a" BY <2>3, <2>4
  <2>5. CASE t = "xy" /\ s = "x"
    <3>1. Containing["xy"] \subseteq Containing["x"] BY <2>3
    <3> QED BY <2>5, <3>1
  <2> QED BY <2>2, <2>4, <2>5
<1> QED BY <1>1, <1>2, <1>3

(* A list that is neither empty nor full is all that was found.            *)
LEMMA FoundAll ==
    ASSUME NEW t \in Terms, NEW list \in Search!Found(t) \cup {{}},
           Cardinality(list) > 0, Cardinality(list) < MaxResults
    PROVE  Containing[t] \subseteq list
<1>1. list # {} BY FS_EmptySet
<1>2. CASE list \in Search!Enough(t)
  <2>1. Cardinality(list) = MaxResults 
    BY <1>2, SearchCounts DEF Search!Enough, Search!kSubset
  <2> QED BY <2>1, BoundsAssumption
<1>3. CASE list \in Search!Complete(t) BY <1>3, TermsFit DEF Search!Complete
<1> QED BY <1>1, <1>2, <1>3 DEF Search!Found

(* Nothing is asked for, and nothing shown.                                *)
LEMMA SearchInit == Search!Init => SearchInv
<1> SUFFICES ASSUME Search!Init PROVE SearchInv
  OBVIOUS
<1>1. /\ query = "" /\ pending = [term |-> "", debounce |-> FALSE] /\ request = 0
      /\ pipeline = Search!NoRun /\ builds = {} /\ shown = {}
      /\ completed = [term |-> "", count |-> 0]
      /\ past = [keys |-> 0, overtaken |-> FALSE, emptied |-> FALSE, failed |-> FALSE]
  BY DEF Search!Init
<1>2. past \in [keys : Nat, overtaken : BOOLEAN, emptied : BOOLEAN, failed : BOOLEAN] BY <1>1
<1>3. OneList BY <1>1 DEF OneList
<1>4. Builds BY <1>1 DEF Builds
<1>5. Narrowable
  <2>0. completed.count = 0 BY <1>1
  <2>1. ~(completed.count > 0) BY <2>0
  <2> QED BY <2>1 DEF Narrowable
<1>6. Listed BY <1>1 DEF Listed
<1> QED BY <1>2, <1>3, <1>4, <1>5, <1>6 DEF SearchInv

(* setQuery and cancel(), which leave by five ways.                        *)
LEMMA SearchKeys ==
    ASSUME SearchInv,
           \/ Search!ClearQuery \/ Search!SameTerm \/ Search!Narrow \/ Search!NewRequest
           \/ Search!Cancel
    PROVE  SearchInv'
<1>0. /\ past \in [keys : Nat, overtaken : BOOLEAN, emptied : BOOLEAN, failed : BOOLEAN]
      /\ OneList /\ Builds /\ Narrowable /\ Listed
  BY DEF SearchInv
<1>1. ASSUME NEW o \in BOOLEAN, NEW e \in BOOLEAN, Search!Key(o, e)
      PROVE  /\ past' \in [keys : Nat, overtaken : BOOLEAN, emptied : BOOLEAN, failed : BOOLEAN]
             /\ past'.overtaken = o /\ past'.emptied = e /\ past'.failed = past.failed
  <2>1. past \in [keys : Nat, overtaken : BOOLEAN, emptied : BOOLEAN, failed : BOOLEAN] BY <1>0
  <2>2. past' = [past EXCEPT !.keys = @ + 1, !.overtaken = o, !.emptied = e]
    BY <1>1 DEF Search!Key
  <2>3. past.keys + 1 \in Nat BY <2>1
  <2> QED BY <2>1, <2>2, <2>3
<1> DEFINE over == past.overtaken \/ Search!Building
<1>2. over \in BOOLEAN /\ past.emptied \in BOOLEAN BY <1>0
<1>3. over = (past.overtaken \/ Search!Building) OBVIOUS
<1> HIDE DEF over
<1>4. CASE Search!ClearQuery
  <2>1. /\ query' = "" /\ shown' = {} /\ pending' = [term |-> "", debounce |-> FALSE]
        /\ pipeline' = Search!NoRun /\ Search!Key(over, TRUE)
        /\ UNCHANGED <<request, builds, completed>>
    BY <1>3, <1>4 DEF Search!ClearQuery
  <2>2. /\ past' \in [keys : Nat, overtaken : BOOLEAN, emptied : BOOLEAN, failed : BOOLEAN]
        /\ past'.overtaken = over /\ past'.emptied = TRUE /\ past'.failed = past.failed
    BY <1>1, <1>2, <2>1
  <2>3. OneList' BY <1>0, <2>1 DEF OneList
  <2>4. Builds' BY <1>0, <1>3, <2>1, <2>2 DEF Builds, Search!Building, Search!Found, Search!Enough, Search!Complete
  <2>5. Narrowable' BY <1>0, <2>1, <2>2 DEF Narrowable
  <2>6. Listed' BY <2>1 DEF Listed
  <2> QED BY <2>2, <2>3, <2>4, <2>5, <2>6 DEF SearchInv
<1>5. CASE Search!SameTerm
  <2>1. /\ query' = query
        /\ past' = [past EXCEPT !.keys = @ + 1]
        /\ UNCHANGED <<pending, request, pipeline, builds, shown, completed>>
    BY <1>0, <1>5 DEF Search!SameTerm, Search!Repeats, OneList
  <2>2. /\ past' \in [keys : Nat, overtaken : BOOLEAN, emptied : BOOLEAN, failed : BOOLEAN]
        /\ past'.overtaken = past.overtaken /\ past'.emptied = past.emptied
        /\ past'.failed = past.failed
    BY <1>0, <2>1
  <2>3. OneList' BY <1>0, <2>1 DEF OneList, SearchRun, Search!Building
  <2>4. Builds' BY <1>0, <2>1, <2>2 DEF Builds, Search!Found, Search!Enough, Search!Complete
  <2>5. Narrowable' BY <1>0, <2>1, <2>2 DEF Narrowable
  <2>6. Listed' BY <1>0, <2>1, <2>2 DEF Listed, Search!Building, Search!Answers, Search!Found, Search!Enough, Search!Complete
  <2> QED BY <2>2, <2>3, <2>4, <2>5, <2>6 DEF SearchInv
<1>6. CASE Search!Narrow
  <2>1. PICK t \in Terms :
           /\ Search!Narrows(t) /\ query' = t
           /\ pending' = [term |-> t, debounce |-> FALSE]
           /\ shown' = shown \cap Containing[t]
           /\ completed' = [term |-> t, count |-> Search!Cardinality(shown')]
    BY <1>6 DEF Search!Narrow
  <2>2. /\ pipeline' = Search!NoRun /\ Search!Key(over, past.emptied)
        /\ UNCHANGED <<request, builds>>
    BY <1>3, <1>6 DEF Search!Narrow
  <2>3. /\ past' \in [keys : Nat, overtaken : BOOLEAN, emptied : BOOLEAN, failed : BOOLEAN]
        /\ past'.overtaken = over /\ past'.emptied = past.emptied /\ past'.failed = past.failed
    BY <1>1, <1>2, <2>2
  <2>4. past.emptied \/ Containing[t] \subseteq shown'
    <3>1. /\ completed.term \in Terms
          /\ past.emptied \/ Containing[completed.term] \subseteq shown
          /\ t = completed.term \/ <<t, completed.term>> \in Extensions
      BY <1>0, <2>1 DEF Search!Narrows, Narrowable
    <3>2. Containing[t] \subseteq Containing[completed.term] BY <3>1, TermsFit
    <3> QED BY <2>1, <3>1, <3>2
  <2>5. OneList' BY <1>0, <2>1, <2>2 DEF OneList
  <2>6. Builds' BY <1>0, <1>3, <2>2, <2>3 DEF Builds, Search!Building, Search!Found, Search!Enough, Search!Complete
  <2>7. Narrowable' BY <2>1, <2>3, <2>4 DEF Narrowable
  <2>8. Listed'
    <3>1. shown' \in SUBSET Hits[t] BY <2>1, TermsFit
    <3>2. past'.emptied \/ shown' \in Search!Answers(t)
      BY <2>3, <2>4, <3>1 DEF Search!Answers
    <3>3. query' = t /\ t # "" BY <2>1, TermsFit
    <3> QED BY <3>2, <3>3 DEF Listed, Search!Answers, Search!Found, Search!Enough, Search!Complete
  <2> QED BY <2>3, <2>5, <2>6, <2>7, <2>8 DEF SearchInv
<1>7. CASE Search!NewRequest
  <2>1. PICK t \in Terms :
           /\ query' = t /\ request' = request + 1
           /\ \/ pending' = [term |-> t, debounce |-> TRUE] /\ pipeline' = Search!NoRun
              \/ /\ pending' = [term |-> t, debounce |-> FALSE]
                 /\ pipeline' = [id |-> request', term |-> t]
    BY <1>7 DEF Search!NewRequest, Search!Started
  <2>2. /\ Search!Key(FALSE, past.emptied) /\ UNCHANGED <<builds, shown, completed>>
    BY <1>7 DEF Search!NewRequest
  <2>3. /\ past' \in [keys : Nat, overtaken : BOOLEAN, emptied : BOOLEAN, failed : BOOLEAN]
        /\ past'.overtaken = FALSE /\ past'.emptied = past.emptied
        /\ past'.failed = past.failed
    BY <1>1, <1>2, <2>2
  <2>0. request \in Nat /\ request' = request + 1 BY <1>0, <2>1 DEF OneList
  <2>4. \A b \in builds : b.id \in 1 .. request' /\ b.id # request'
    <3>2. \A b \in builds : b.id \in 1 .. request BY <1>0 DEF Builds
    <3> QED BY <2>0, <3>2
  <2>5. request' \in Nat /\ pending'.term = t /\ (pending'.debounce \/ pipeline' # Search!NoRun)
    <3>1. t # "" BY TermsFit
    <3>2. request' \in Nat BY <2>0
    <3>3. pending'.term = t BY <2>1
    <3>4. CASE pending' = [term |-> t, debounce |-> TRUE] BY <3>2, <3>3, <3>4
    <3>5. CASE pipeline' = [id |-> request', term |-> t]
      <4>1. pipeline'.term = t /\ Search!NoRun.term = "" BY <3>5 DEF Search!NoRun
      <4> QED BY <3>1, <3>2, <3>3, <4>1
    <3> QED BY <2>1, <3>4, <3>5
  <2>6. OneList'
    <3>1. ~Search!Building' BY <2>2, <2>4 DEF Search!Building
    <3>2. request' > 0 BY <2>0
    <3>3. /\ query' = t /\ pending'.term = t
          /\ pending' \in {[term |-> t, debounce |-> FALSE], [term |-> t, debounce |-> TRUE]}
      BY <2>1, <2>5
    <3>4. pipeline' \in {Search!NoRun, SearchRun'} BY <2>1, <2>5 DEF SearchRun
    <3>5. pending'.debounce => pipeline' = Search!NoRun BY <2>1
    <3> QED BY <2>5, <3>1, <3>2, <3>3, <3>4, <3>5 DEF OneList
  <2>7. Builds' BY <1>0, <2>2, <2>4 DEF Builds, Search!Found, Search!Enough, Search!Complete
  <2>8. Narrowable' BY <1>0, <2>2, <2>3 DEF Narrowable
  <2>9. Listed' BY <2>5 DEF Listed
  <2> QED BY <2>3, <2>6, <2>7, <2>8, <2>9 DEF SearchInv
<1>8. CASE Search!Cancel
  <2>1. /\ pending' = [pending EXCEPT !.debounce = FALSE] /\ pipeline' = Search!NoRun
        /\ Search!Key(TRUE, past.emptied) /\ UNCHANGED <<query, request, builds, shown, completed>>
    BY <1>8 DEF Search!Cancel
  <2>2. /\ past' \in [keys : Nat, overtaken : BOOLEAN, emptied : BOOLEAN, failed : BOOLEAN]
        /\ past'.overtaken = TRUE /\ past'.emptied = past.emptied
        /\ past'.failed = past.failed
    BY <1>1, <1>2, <2>1
  <2>3. OneList' BY <1>0, <2>1 DEF OneList
  <2>4. Builds' BY <1>0, <2>1, <2>2 DEF Builds, Search!Found, Search!Enough, Search!Complete
  <2>5. Narrowable' BY <1>0, <2>1, <2>2 DEF Narrowable
  <2>6. Listed' BY <2>2 DEF Listed
  <2> QED BY <2>2, <2>3, <2>4, <2>5, <2>6 DEF SearchInv
<1> QED BY <1>4, <1>5, <1>6, <1>7, <1>8

(* The timer, the processes and the pool.                                  *)
LEMMA SearchRuns ==
    ASSUME SearchInv,
           \/ Search!OnDebounceTimeout \/ Search!PipelineFinishes \/ Search!PipelineFails
           \/ Search!Deliver
    PROVE  SearchInv'
<1>0. /\ past \in [keys : Nat, overtaken : BOOLEAN, emptied : BOOLEAN, failed : BOOLEAN]
      /\ OneList /\ Builds /\ Narrowable /\ Listed
  BY DEF SearchInv
<1>1. CASE Search!OnDebounceTimeout
  <2>1. /\ pending.debounce /\ pending' = [pending EXCEPT !.debounce = FALSE]
        /\ pipeline' = [id |-> request, term |-> pending.term]
        /\ UNCHANGED <<query, request, builds, shown, completed, past>>
    BY <1>1 DEF Search!OnDebounceTimeout, Search!Started
  <2>2. /\ pending' = [term |-> query, debounce |-> FALSE] /\ query \in Terms
        /\ ~Search!Building /\ query = pending.term
    BY <1>0, <2>1 DEF OneList
  <2>3. OneList' BY <1>0, <2>1, <2>2 DEF OneList, SearchRun, Search!Building
  <2>4. Builds' BY <1>0, <2>1 DEF Builds, Search!Found, Search!Enough, Search!Complete
  <2>5. Narrowable' BY <1>0, <2>1 DEF Narrowable
  <2>6. pipeline' # Search!NoRun BY <2>1, <2>2, TermsFit DEF Search!NoRun
  <2> QED BY <1>0, <2>1, <2>3, <2>4, <2>5, <2>6 DEF SearchInv, Listed
<1>2. CASE Search!PipelineFinishes
  <2>1. PICK list \in Search!Found(pipeline.term) \cup {{}} :
           /\ builds' = builds \cup {[id |-> pipeline.id, term |-> pending.term, list |-> list]}
           /\ past' = [past EXCEPT !.failed = list \notin Search!Found(pipeline.term)]
    BY <1>2 DEF Search!PipelineFinishes, Search!TimedOut
  <2>2. /\ pipeline # Search!NoRun /\ pipeline' = Search!NoRun
        /\ UNCHANGED <<query, pending, request, shown, completed>>
    BY <1>2 DEF Search!PipelineFinishes
  <2> DEFINE n == [id |-> request, term |-> query, list |-> list]
             bad == list \notin Search!Found(query)
  <2>3. /\ pipeline.id = request /\ pipeline.term = query /\ pending.term = query
        /\ query \in Terms /\ ~Search!Building /\ ~pending.debounce /\ request \in Nat
        /\ request > 0
    <3>1. /\ pipeline = SearchRun /\ query = pending.term /\ request \in Nat
          /\ query \in Terms /\ ~Search!Building /\ ~pending.debounce /\ request > 0
      BY <1>0, <2>2 DEF OneList
    <3> QED BY <3>1 DEF SearchRun
  <2>4. /\ builds' = builds \cup {n} /\ n.id = request /\ n.term = query /\ n.list = list
        /\ bad \in BOOLEAN /\ past' = [past EXCEPT !.failed = bad]
        /\ list \in Search!Found(query) \cup {{}} /\ (~bad => list \in Search!Found(query))
    BY <2>1, <2>3
  <2>5. n.id \in 1 .. request BY <2>3, <2>4
  <2> HIDE DEF n, bad
  <2>6. /\ past' \in [keys : Nat, overtaken : BOOLEAN, emptied : BOOLEAN, failed : BOOLEAN]
        /\ past'.failed = bad /\ past'.emptied = past.emptied
    BY <1>0, <2>4
  <2>7. OneList' BY <1>0, <2>2, <2>3 DEF OneList
  <2>8. Builds'
    <3>1. \A b \in builds : b.id # request BY <2>3 DEF Search!Building
    <3> QED BY <1>0, <2>2, <2>3, <2>4, <2>5, <2>6, <3>1 DEF Builds, Search!Found, Search!Enough, Search!Complete
  <2>9. Narrowable' BY <1>0, <2>2, <2>6 DEF Narrowable
  <2>10. Search!Building' BY <2>2, <2>4 DEF Search!Building
  <2> QED BY <2>6, <2>7, <2>8, <2>9, <2>10 DEF SearchInv, Listed
<1>3. CASE Search!PipelineFails
  <2>1. /\ pipeline # Search!NoRun /\ pipeline' = Search!NoRun /\ shown' = {}
        /\ past' = [past EXCEPT !.failed = TRUE, !.emptied = TRUE]
        /\ UNCHANGED <<query, pending, request, builds, completed>>
    BY <1>3 DEF Search!PipelineFails
  <2>2. /\ past' \in [keys : Nat, overtaken : BOOLEAN, emptied : BOOLEAN, failed : BOOLEAN]
        /\ past'.failed = TRUE /\ past'.emptied = TRUE /\ past'.overtaken = past.overtaken
    BY <1>0, <2>1
  <2>3. OneList' BY <1>0, <2>1 DEF OneList, Search!Building
  <2>4. Builds' BY <1>0, <2>1, <2>2 DEF Builds, Search!Found, Search!Enough, Search!Complete
  <2>5. Narrowable' BY <1>0, <2>1, <2>2 DEF Narrowable
  <2>6. Listed' BY <2>1, <2>2 DEF Listed
  <2> QED BY <2>2, <2>3, <2>4, <2>5, <2>6 DEF SearchInv
<1>4. CASE Search!Deliver
  <2>1. PICK b \in builds :
           /\ builds' = builds \ {b}
           /\ IF b.id # request THEN UNCHANGED <<shown, completed, past>>
              ELSE /\ shown' = b.list
                   /\ completed' = [term |-> b.term, count |-> Search!Cardinality(b.list)]
                   /\ past' = [past EXCEPT !.emptied = FALSE]
           /\ UNCHANGED <<query, pending, request, pipeline>>
    BY <1>4 DEF Search!Deliver
  <2>2. OneList' BY <1>0, <2>1 DEF OneList, SearchRun, Search!Building
  <2>3. /\ past' \in [keys : Nat, overtaken : BOOLEAN, emptied : BOOLEAN, failed : BOOLEAN]
        /\ past'.failed = past.failed /\ past'.overtaken = past.overtaken
    BY <1>0, <2>1
  <2>4. Builds' BY <1>0, <2>1, <2>3 DEF Builds, Search!Found, Search!Enough, Search!Complete
  <2>5. /\ b.term \in Terms /\ b.list \in Search!Found(b.term) \cup {{}}
        /\ b.id = request => past.overtaken \/ b.term = query
        /\ b.id = request => past.failed \/ b.list \in Search!Found(b.term)
    BY <1>0 DEF Builds
  <2>6. CASE b.id # request
    <3>1. Search!Building' <=> Search!Building BY <2>1, <2>6 DEF Search!Building
    <3> QED BY <1>0, <2>1, <2>2, <2>3, <2>4, <2>6, <3>1
        DEF SearchInv, Narrowable, Listed, Search!Answers, Search!Found, Search!Enough, Search!Complete
  <2>7. CASE b.id = request
    <3>1. Narrowable'
      <4>1. completed'.term = b.term /\ completed'.count = Search!Cardinality(b.list) /\ shown' = b.list
        BY <2>1, <2>7
      <4> QED BY <2>5, <4>1, FoundAll, SearchCounts DEF Narrowable
    <3>2. Listed'
      <4>1. (query \in Terms /\ query # "") \/ past.overtaken BY <2>5, <2>7, TermsFit
      <4>2. past.overtaken \/ past.failed \/ shown' \in Search!Answers(query)
        BY <2>1, <2>5, <2>7 DEF Search!Answers
      <4> QED BY <2>1, <2>3, <4>1, <4>2
          DEF Listed, Search!Answers, Search!Found, Search!Enough, Search!Complete
    <3> QED BY <2>2, <2>3, <2>4, <3>1, <3>2 DEF SearchInv
  <2> QED BY <2>6, <2>7
<1> QED BY <1>1, <1>2, <1>3, <1>4

(* A step of the sum is a step of the search, or leaves it alone.          *)
LEMMA SearchAlone == [Next]_vars => [Search!Next]_searchVars
BY DEF Next, vars, OnlyEthernet, OnlyTailscale, OnlyUsage, OnlyHolidays, OnlyPricing,
       OnlySearch, OnlyProbe, searchVars

(* The search keeps its invariant through the steps of all components.     *)
LEMMA SearchInvariant == Spec => []SearchInv
<1>1. Init => SearchInv BY SearchInit DEF Init
<1>2. SearchInv /\ [Next]_vars => SearchInv'
  <2> SUFFICES ASSUME SearchInv, [Next]_vars PROVE SearchInv'
    OBVIOUS
  <2>1. CASE Search!Next BY <2>1, SearchKeys, SearchRuns DEF Search!Next
  <2>2. CASE UNCHANGED searchVars
    BY <2>2 DEF searchVars, SearchInv, OneList, SearchRun, Builds, Narrowable, Listed,
                Search!Building, Search!Answers, Search!Found, Search!Enough, Search!Complete
  <2> QED BY <2>1, <2>2, SearchAlone
<1> QED BY <1>1, <1>2, PTL DEF Spec

(* AnswersFit holds for any limits, paths and words: once all is at rest   *)
(* the list and the result are those of what was typed, but for the races  *)
(* it names (FileSearch.cpp, PathProbe.cpp).                               *)
THEOREM AnswersAlwaysFit == Spec => []AnswersFit
<1>1. SearchInv => Search!ListAnswersQuery
  BY DEF SearchInv, OneList, Listed, Search!ListAnswersQuery, Search!Idle, Search!Building
<1>2. ProbeInv => Probe!AnswerFitsText
  BY DEF ProbeInv, ProbeTypes, LastLookup, Looked, Probe!AnswerFitsText
<1> QED BY <1>1, <1>2, SearchInvariant, ProbeInvariant, PTL DEF AnswersFit

-----------------------------------------------------------------------------
(* The prices.                                                             *)

Configs == {"plain", "open", "bad", "web"}
Versions == 1 .. 2

Lists == {Pricing!NoPrices} \cup {Pricing!Index(v, c) : v \in Versions, c \in Configs}

Errands == [type : {"load"}, config : Configs]
               \cup [type : {"fetch"}, config : Configs, tag : 0 .. 2]

Outcomes == [type : {"config"}, config : Configs, ok : BOOLEAN, prices : Lists]
                \cup [type : {"fetched"}, ok : BOOLEAN, notModified : BOOLEAN, prices : Lists,
                      config : Configs, version : Versions]

PriceTypes ==
    /\ version \in Versions
    /\ files \in [tag : 0 .. 2, index : [config : Configs, prices : Lists]]
    /\ fetcher \in [at : {"none", "sent", "tag", "index"}, config : Configs, tag : 0 .. 2,
                    version : Versions]
    /\ errands \in Seq(Errands) /\ outcomes \in Seq(Outcomes)
    /\ prices \in [source : Configs \cup {"none"}, settings : Configs \cup {"none"},
                   index : Lists, busy : BOOLEAN, ready : BOOLEAN, checked : BOOLEAN,
                   raced : BOOLEAN]
    /\ uses \in [requests : Nat, faults : Nat, lost : BOOLEAN]

(* The index on disk is that of the tag on disk, if the site still has it. *)
TagTells ==
    /\ files.tag <= version
    /\ fetcher.at \in {"tag", "index"} =>
           /\ files.tag <= fetcher.version /\ fetcher.version <= version
           /\ Pricing!Index(fetcher.version, fetcher.config) # Pricing!NoPrices
    /\ ~uses.lost /\ fetcher.at # "index" /\ files.tag # 0 =>
           /\ files.index.prices # Pricing!NoPrices
           /\ files.tag = version =>
                  files.index.prices = Pricing!Index(version, files.index.config)

\* An answer with a new list, and one that confirms the list at hand.
IsNews(o) == o.type = "fetched" /\ o.ok /\ ~o.notModified
Confirms(o) == o.type = "fetched" /\ o.ok /\ o.notModified
NoNews(msgs) == \A i \in DOMAIN msgs : ~IsNews(msgs[i])
NoFetched(msgs) == \A i \in DOMAIN msgs : msgs[i].type # "fetched"
NoFetch(msgs) == \A i \in DOMAIN msgs : msgs[i].type # "fetch"

(* A new list is that of its version and markers.                          *)
NewsHold ==
    \A i \in DOMAIN outcomes :
        /\ outcomes[i].type = "fetched" => outcomes[i].version <= version
        /\ IsNews(outcomes[i]) =>
               /\ outcomes[i].prices # Pricing!NoPrices
               /\ outcomes[i].prices = Pricing!Index(outcomes[i].version, outcomes[i].config)

(* What is told of the index on disk, by the last new list and behind it,  *)
(* is what it is.                                                          *)
Agrees(msgs, list) ==
    \A i \in DOMAIN msgs :
        /\ msgs[i].type = "config" \/ IsNews(msgs[i])
        /\ \A j \in DOMAIN msgs : j > i => ~IsNews(msgs[j])
        => msgs[i].prices = list

\* No list has come from the disk yet, and none was asked for.
Cold ==
    /\ prices.index = Pricing!NoPrices /\ prices.settings = "none" /\ fetcher.at = "none"
    /\ NoFetch(errands) /\ NoFetched(outcomes)

Mirrored ==
    /\ Agrees(outcomes, files.index.prices)
    /\ NoNews(outcomes) => prices.index = files.index.prices \/ Cold

OnlyOne(msgs, type) ==
    \A i, j \in DOMAIN msgs : msgs[i].type = type /\ msgs[j].type = type => i = j

\* A request with this tag may be told that the index on disk is the list.
Tagged(config, tag) ==
    tag = 0 \/ uses.lost \/ (tag = files.tag /\ Markers[files.index.config] = Markers[config])

(* A fetch that was asked for while none was under way is the only one.    *)
OneFetch ==
    ~prices.raced =>
        /\ OnlyOne(errands, "fetch") /\ OnlyOne(outcomes, "fetched")
        /\ NoFetch(errands) \/ (fetcher.at = "none" /\ NoFetched(outcomes))
        /\ fetcher.at = "none" \/ NoFetched(outcomes)
        /\ \A i \in DOMAIN errands :
               errands[i].type = "fetch" => Tagged(errands[i].config, errands[i].tag)
        /\ fetcher.at = "sent" => Tagged(fetcher.config, fetcher.tag)
        /\ \A i \in DOMAIN outcomes :
               Confirms(outcomes[i]) /\ outcomes[i].version = version =>
                   uses.lost \/ files.index.prices = Pricing!Index(version, outcomes[i].config)

Confirmed ==
    prices.checked /\ prices.settings # "none" =>
        prices.index = Pricing!Index(version, prices.settings)

PricingInv ==
    /\ PriceTypes /\ TagTells /\ NewsHold /\ OneFetch /\ Confirmed
    /\ uses.lost \/ Mirrored

(* The configurations and the versions of the catalogue.                   *)
LEMMA PriceSets ==
    /\ Pricing!Configs = Configs /\ Pricing!Versions = Versions
    /\ "none" \notin Configs /\ Pricing!NoIndex.config \in Configs
    /\ Pricing!NoIndex.prices = Pricing!NoPrices
    /\ \A v \in Versions, c \in Configs : Pricing!Index(v, c) \in Lists
    /\ Pricing!NoPrices \in Lists
<1>1. Pricing!Configs = Configs BY DEF Pricing!Configs, Configs, Markers
<1>2. Pricing!Versions = Versions
  <2>1. Len(Catalogues) = 2 BY DEF Catalogues
  <2> QED BY <2>1 DEF Pricing!Versions, Versions
<1>3. "none" \notin Configs /\ "plain" \in Configs BY DEF Configs
<1>4. (CHOOSE c \in Pricing!Configs : TRUE) \in Configs BY <1>1, <1>3
<1> QED BY <1>1, <1>2, <1>3, <1>4 DEF Pricing!NoIndex, Lists

(* Markers alone decide the list of a version.                             *)
LEMMA SameIndex ==
    ASSUME NEW v, NEW c, NEW d, Markers[c] = Markers[d]
    PROVE  Pricing!Index(v, c) = Pricing!Index(v, d)
BY DEF Pricing!Index

(* A message put in a queue is behind the others.                          *)
LEMMA QueueMore ==
    ASSUME NEW M, NEW msgs \in Seq(M), NEW m \in M
    PROVE  /\ Append(msgs, m) \in Seq(M)
           /\ \A i \in DOMAIN msgs : /\ i \in DOMAIN Append(msgs, m)
                                     /\ Append(msgs, m)[i] = msgs[i] /\ msgs[i] \in M
                                     /\ Len(msgs) + 1 > i /\ ~(i > Len(msgs) + 1)
           /\ \A i \in DOMAIN Append(msgs, m) : i \in DOMAIN msgs \/ i = Len(msgs) + 1
           /\ Len(msgs) + 1 \in DOMAIN Append(msgs, m)
           /\ Append(msgs, m)[Len(msgs) + 1] = m
           /\ ~(Len(msgs) + 1 > Len(msgs) + 1)
OBVIOUS

(* The message taken from a queue is before the others.                    *)
LEMMA QueueLess ==
    ASSUME NEW M, NEW msgs \in Seq(M), msgs # <<>>
    PROVE  /\ Head(msgs) \in M /\ Tail(msgs) \in Seq(M)
           /\ \A i \in DOMAIN Tail(msgs) :
                 /\ i + 1 \in DOMAIN msgs /\ Tail(msgs)[i] = msgs[i + 1]
                 /\ i \in Nat /\ i + 1 > 1
           /\ \A i \in DOMAIN msgs :
                 \/ i = 1 /\ msgs[i] = Head(msgs)
                 \/ i > 1 /\ i - 1 \in DOMAIN Tail(msgs) /\ Tail(msgs)[i - 1] = msgs[i]
           /\ \A i \in DOMAIN msgs : i \in Nat
           /\ 1 \in DOMAIN msgs
<1> DEFINE r == Tail(msgs)
           h == Head(msgs)
<1>1. /\ r \in Seq(M) /\ Len(msgs) \in Nat /\ Len(r) = Len(msgs) - 1
      /\ DOMAIN r = 1 .. Len(r) /\ DOMAIN msgs = 1 .. Len(msgs) /\ 1 \in DOMAIN msgs
      /\ \A i \in 1 .. Len(r) : r[i] = msgs[i + 1]
      /\ h = msgs[1] /\ h \in M
  OBVIOUS
<1> HIDE DEF r, h
<1>2. ASSUME NEW i \in DOMAIN msgs, i # 1 PROVE i > 1 /\ i - 1 \in DOMAIN r /\ r[i - 1] = msgs[i]
  <2>1. i - 1 \in 1 .. Len(r) /\ (i - 1) + 1 = i /\ i > 1 BY <1>1, <1>2
  <2> QED BY <1>1, <2>1
<1> QED BY <1>1, <1>2 DEF r, h

(* What is told agrees with the disk, after one more answer.               *)
LEMMA AgreesMore ==
    ASSUME NEW msgs \in Seq(Outcomes), NEW o \in Outcomes
    PROVE  /\ Append(msgs, o) \in Seq(Outcomes)
           /\ \A list : Agrees(msgs, list) /\ ~IsNews(o)
                           /\ (o.type = "config" => o.prices = list) =>
                                 Agrees(Append(msgs, o), list)
           /\ IsNews(o) => Agrees(Append(msgs, o), o.prices) /\ ~NoNews(Append(msgs, o))
           /\ NoNews(Append(msgs, o)) => NoNews(msgs)
           /\ NoFetched(msgs) /\ o.type # "fetched" => NoFetched(Append(msgs, o))
<1> DEFINE r == Append(msgs, o)
           n == Len(msgs) + 1
<1>1. /\ r \in Seq(Outcomes)
      /\ \A i \in DOMAIN msgs : i \in DOMAIN r /\ r[i] = msgs[i] /\ n > i /\ ~(i > n)
      /\ \A i \in DOMAIN r : i \in DOMAIN msgs \/ i = n
      /\ n \in DOMAIN r /\ r[n] = o /\ ~(n > n)
  BY QueueMore
<1> HIDE DEF r, n
<1>2. ASSUME NEW list, Agrees(msgs, list), ~IsNews(o), o.type = "config" => o.prices = list
      PROVE  Agrees(r, list)
  <2>1. ASSUME NEW i \in DOMAIN r, r[i].type = "config" \/ IsNews(r[i]),
               \A j \in DOMAIN r : j > i => ~IsNews(r[j])
        PROVE  r[i].prices = list
    <3>1. CASE i = n BY <1>1, <1>2, <2>1, <3>1
    <3>2. CASE i \in DOMAIN msgs
      <4>1. r[i] = msgs[i] /\ \A j \in DOMAIN msgs : j > i => ~IsNews(msgs[j])
        BY <1>1, <2>1, <3>2
      <4> QED BY <1>2, <2>1, <3>2, <4>1 DEF Agrees
    <3> QED BY <1>1, <3>1, <3>2
  <2> QED BY <2>1 DEF Agrees
<1>3. ASSUME IsNews(o) PROVE Agrees(r, o.prices) /\ ~NoNews(r)
  <2>1. ASSUME NEW i \in DOMAIN r, \A j \in DOMAIN r : j > i => ~IsNews(r[j])
        PROVE  r[i].prices = o.prices
    <3>1. ~(n > i) BY <1>1, <1>3, <2>1
    <3> QED BY <1>1, <3>1
  <2> QED BY <1>1, <1>3, <2>1 DEF Agrees, NoNews
<1>4. NoNews(r) => NoNews(msgs) BY <1>1 DEF NoNews
<1>5. NoFetched(msgs) /\ o.type # "fetched" => NoFetched(r) BY <1>1 DEF NoFetched
<1> QED BY <1>1, <1>2, <1>3, <1>4, <1>5 DEF r

(* And after the oldest answer has been taken.                             *)
LEMMA AgreesLess ==
    ASSUME NEW msgs \in Seq(Outcomes), msgs # <<>>, NEW list, Agrees(msgs, list)
    PROVE  /\ Head(msgs) \in Outcomes /\ Tail(msgs) \in Seq(Outcomes)
           /\ Agrees(Tail(msgs), list)
           /\ NoNews(Tail(msgs)) /\ (Head(msgs).type = "config" \/ IsNews(Head(msgs))) =>
                 Head(msgs).prices = list
           /\ NoNews(Tail(msgs)) /\ ~IsNews(Head(msgs)) => NoNews(msgs)
           /\ NoFetched(msgs) => NoFetched(Tail(msgs)) /\ Head(msgs).type # "fetched"
           /\ NoFetched(Tail(msgs)) /\ Head(msgs).type # "fetched" => NoFetched(msgs)
<1> DEFINE r == Tail(msgs)
           h == Head(msgs)
<1>1. /\ h \in Outcomes /\ r \in Seq(Outcomes)
      /\ \A i \in DOMAIN r : i + 1 \in DOMAIN msgs /\ r[i] = msgs[i + 1] /\ i \in Nat /\ i + 1 > 1
      /\ \A i \in DOMAIN msgs :
            \/ i = 1 /\ msgs[i] = h
            \/ i > 1 /\ i - 1 \in DOMAIN r /\ r[i - 1] = msgs[i]
      /\ \A i \in DOMAIN msgs : i \in Nat
      /\ 1 \in DOMAIN msgs
  BY QueueLess
<1> HIDE DEF r, h
<1>2. Agrees(r, list)
  <2>1. ASSUME NEW i \in DOMAIN r, r[i].type = "config" \/ IsNews(r[i]),
               \A j \in DOMAIN r : j > i => ~IsNews(r[j])
        PROVE  r[i].prices = list
    <3>1. i + 1 \in DOMAIN msgs /\ r[i] = msgs[i + 1] /\ i \in Nat BY <1>1
    <3>2. ASSUME NEW j \in DOMAIN msgs, j > i + 1 PROVE ~IsNews(msgs[j])
      <4>1. j \in Nat /\ j # 1 BY <1>1, <3>1, <3>2
      <4>2. j - 1 \in DOMAIN r /\ r[j - 1] = msgs[j] /\ j - 1 > i BY <1>1, <3>1, <3>2, <4>1
      <4> QED BY <2>1, <4>2
    <3> QED BY <2>1, <3>1, <3>2 DEF Agrees
  <2> QED BY <2>1 DEF Agrees
<1>3. ASSUME NoNews(r), h.type = "config" \/ IsNews(h) PROVE h.prices = list
  <2>1. msgs[1] = h BY <1>1
  <2>2. ASSUME NEW j \in DOMAIN msgs, j > 1 PROVE ~IsNews(msgs[j])
    <3>1. j - 1 \in DOMAIN r /\ r[j - 1] = msgs[j] BY <1>1, <2>2
    <3> QED BY <1>3, <3>1 DEF NoNews
  <2> QED BY <1>1, <1>3, <2>1, <2>2 DEF Agrees
<1>4. NoNews(r) /\ ~IsNews(h) => NoNews(msgs) BY <1>1 DEF NoNews
<1>5. NoFetched(r) /\ h.type # "fetched" => NoFetched(msgs) BY <1>1 DEF NoFetched
<1>6. NoFetched(msgs) => NoFetched(r) /\ h.type # "fetched" BY <1>1 DEF NoFetched
<1> QED BY <1>1, <1>2, <1>3, <1>4, <1>5, <1>6 DEF r, h

(* One message of a type, and no more after another one, or fewer.         *)
LEMMA OneMore ==
    ASSUME NEW M, NEW msgs \in Seq(M), NEW m \in M, NEW type, OnlyOne(msgs, type),
           m.type = type => \A i \in DOMAIN msgs : msgs[i].type # type
    PROVE  OnlyOne(Append(msgs, m), type)
<1> DEFINE r == Append(msgs, m)
           n == Len(msgs) + 1
<1>1. /\ \A i \in DOMAIN msgs : i \in DOMAIN r /\ r[i] = msgs[i]
      /\ \A i \in DOMAIN r : i \in DOMAIN msgs \/ i = n
      /\ r[n] = m
  BY QueueMore
<1> HIDE DEF r, n
<1>2. ASSUME NEW i \in DOMAIN r, NEW j \in DOMAIN r, r[i].type = type, r[j].type = type
      PROVE  i = j
  BY <1>1, <1>2 DEF OnlyOne
<1> QED BY <1>2 DEF OnlyOne, r

(* Neither is there one more after the oldest message has been taken.      *)
LEMMA OneLess ==
    ASSUME NEW M, NEW msgs \in Seq(M), msgs # <<>>, NEW type, OnlyOne(msgs, type)
    PROVE  /\ OnlyOne(Tail(msgs), type)
           /\ Head(msgs).type = type => \A i \in DOMAIN Tail(msgs) : Tail(msgs)[i].type # type
<1> DEFINE r == Tail(msgs)
           h == Head(msgs)
<1>1. /\ \A i \in DOMAIN r : i + 1 \in DOMAIN msgs /\ r[i] = msgs[i + 1] /\ i \in Nat /\ i + 1 > 1
      /\ \A i \in DOMAIN msgs : i = 1 => msgs[i] = h
      /\ 1 \in DOMAIN msgs
  BY QueueLess
<1> HIDE DEF r, h
<1>2. ASSUME NEW i \in DOMAIN r, NEW j \in DOMAIN r, r[i].type = type, r[j].type = type
      PROVE  i = j
  <2>1. i + 1 = j + 1 BY <1>1, <1>2 DEF OnlyOne
  <2> QED BY <1>1, <2>1
<1>3. ASSUME h.type = type, NEW i \in DOMAIN r PROVE r[i].type # type
  <2>1. i + 1 # 1 BY <1>1
  <2> QED BY <1>1, <1>3, <2>1 DEF OnlyOne
<1> QED BY <1>2, <1>3 DEF OnlyOne, r, h

(* The call the worker takes from its queue.                               *)
LEMMA ErrandLess ==
    ASSUME NEW msgs \in Seq(Errands), msgs # <<>>
    PROVE  /\ Head(msgs) \in Errands /\ Tail(msgs) \in Seq(Errands)
           /\ NoFetch(msgs) => NoFetch(Tail(msgs)) /\ Head(msgs).type # "fetch"
           /\ OnlyOne(msgs, "fetch") =>
                 /\ OnlyOne(Tail(msgs), "fetch")
                 /\ Head(msgs).type = "fetch" => NoFetch(Tail(msgs))
           /\ \A i \in DOMAIN Tail(msgs) : \E j \in DOMAIN msgs : Tail(msgs)[i] = msgs[j]
           /\ \E j \in DOMAIN msgs : Head(msgs) = msgs[j]
<1>1. /\ Head(msgs) \in Errands /\ Tail(msgs) \in Seq(Errands)
      /\ \A i \in DOMAIN Tail(msgs) : i + 1 \in DOMAIN msgs /\ Tail(msgs)[i] = msgs[i + 1]
      /\ 1 \in DOMAIN msgs /\ msgs[1] = Head(msgs)
  BY QueueLess
<1>2. OnlyOne(msgs, "fetch") =>
         /\ OnlyOne(Tail(msgs), "fetch")
         /\ Head(msgs).type = "fetch" => NoFetch(Tail(msgs))
  BY OneLess DEF NoFetch
<1> QED BY <1>1, <1>2 DEF NoFetch

(* An answer is told, or heard: what is left of the new lists is right.    *)
LEMMA NewsMore ==
    ASSUME NewsHold, outcomes \in Seq(Outcomes), NEW o \in Outcomes,
           outcomes' = Append(outcomes, o), version' = version,
           o.type = "fetched" => o.version <= version,
           IsNews(o) => /\ o.prices # Pricing!NoPrices
                        /\ o.prices = Pricing!Index(o.version, o.config)
    PROVE  NewsHold'
<1>1. \A i \in DOMAIN outcomes' : \/ i \in DOMAIN outcomes /\ outcomes'[i] = outcomes[i]
                                  \/ outcomes'[i] = o
  <2> HIDE DEF NewsHold
  <2> QED BY QueueMore
<1> QED BY <1>1 DEF NewsHold, IsNews

(* Nor is a new list wrong once the oldest answer has been heard.          *)
LEMMA NewsLess ==
    ASSUME NewsHold, outcomes \in Seq(Outcomes), outcomes # <<>>,
           outcomes' = Tail(outcomes), version' = version
    PROVE  NewsHold'
<1>1. \A i \in DOMAIN outcomes' : \E j \in DOMAIN outcomes : outcomes'[i] = outcomes[j]
  BY QueueLess
<1> QED BY <1>1 DEF NewsHold, IsNews

(* At first nothing is known and nothing on disk.                          *)
LEMMA PricingInit == Pricing!Init => PricingInv
<1> SUFFICES ASSUME Pricing!Init PROVE PricingInv
  OBVIOUS
<1>1. /\ version = 1 /\ files = [tag |-> 0, index |-> Pricing!NoIndex]
      /\ fetcher = [at |-> "none", config |-> Pricing!NoIndex.config, tag |-> 0, version |-> 1]
      /\ errands = <<>> /\ outcomes = <<>>
      /\ prices = [source |-> "none", settings |-> "none", index |-> Pricing!NoPrices,
                   busy |-> FALSE, ready |-> FALSE, checked |-> FALSE, raced |-> FALSE]
      /\ uses = [requests |-> 0, faults |-> 0, lost |-> FALSE]
  BY DEF Pricing!Init, Pricing!NoReply, Pricing!Unloaded, Pricing!NoTag
<1>2. Pricing!NoIndex = [config |-> Pricing!NoIndex.config, prices |-> Pricing!NoPrices]
  BY DEF Pricing!NoIndex
<1>3. PriceTypes
  <2>1. Pricing!NoIndex \in [config : Configs, prices : Lists] BY <1>2, PriceSets
  <2>2. errands \in Seq(Errands) /\ outcomes \in Seq(Outcomes) BY <1>1
  <2>3. version \in Versions BY <1>1 DEF Versions
  <2>4. fetcher \in [at : {"none", "sent", "tag", "index"}, config : Configs, tag : 0 .. 2,
                     version : Versions]
    BY <1>1, <2>3, PriceSets
  <2> QED BY <1>1, <2>1, <2>2, <2>3, <2>4, PriceSets DEF PriceTypes
<1>4. TagTells BY <1>1 DEF TagTells
<1>5. NoFetch(errands) /\ NoFetched(outcomes) BY <1>1 DEF NoFetch, NoFetched
<1>6. Mirrored BY <1>1, <1>2, <1>5 DEF Mirrored, Agrees, Cold
<1>7. OneFetch BY <1>1, <1>5 DEF OneFetch, OnlyOne
<1>8. NewsHold /\ Confirmed BY <1>1 DEF NewsHold, Confirmed
<1> QED BY <1>3, <1>4, <1>6, <1>7, <1>8 DEF PricingInv

(* The worker takes a call from its queue.                                 *)
LEMMA PricingCalls ==
    ASSUME PricingInv, Pricing!LoadConfig \/ Pricing!Fetch PROVE PricingInv'
<1>0. /\ PriceTypes /\ TagTells /\ NewsHold /\ OneFetch /\ Confirmed
      /\ uses.lost \/ Mirrored
      /\ errands \in Seq(Errands) /\ outcomes \in Seq(Outcomes)
  BY DEF PricingInv, PriceTypes
<1> DEFINE e == Head(errands)
<1>1. /\ errands # <<>> /\ errands' = Tail(errands) /\ fetcher.at \in {"none", "sent"}
      /\ UNCHANGED <<version, files, prices, uses>>
  BY DEF Pricing!LoadConfig, Pricing!Fetch, Pricing!Do, Pricing!Free
<1>2. /\ e \in Errands /\ errands' \in Seq(Errands)
      /\ NoFetch(errands) => NoFetch(errands') /\ e.type # "fetch"
      /\ OnlyOne(errands, "fetch") =>
            OnlyOne(errands', "fetch") /\ (e.type = "fetch" => NoFetch(errands'))
      /\ \A i \in DOMAIN errands' : \E j \in DOMAIN errands : errands'[i] = errands[j]
      /\ \E j \in DOMAIN errands : e = errands[j]
  BY <1>0, <1>1, ErrandLess
<1>3. Confirmed' BY <1>0, <1>1 DEF Confirmed
<1>4. \A c, t : Tagged(c, t)' <=> Tagged(c, t) BY <1>1 DEF Tagged
<1>5. CASE Pricing!LoadConfig
  <2> DEFINE okay == e.config \notin Broken
             o == [type |-> "config", config |-> e.config, ok |-> okay,
                   prices |-> files.index.prices]
  <2>1. e.type = "load" /\ outcomes' = Append(outcomes, o) /\ fetcher' = fetcher
    BY <1>5 DEF Pricing!LoadConfig, Pricing!Do, Pricing!Tell
  <2>2. okay \in BOOLEAN OBVIOUS
  <2> HIDE DEF okay
  <2>3. e.config \in Configs BY <1>2, <2>1 DEF Errands
  <2>4. files.index.prices \in Lists BY <1>0 DEF PriceTypes
  <2>5. o \in Outcomes /\ o.type = "config" /\ o.prices = files.index.prices /\ ~IsNews(o)
        /\ ~Confirms(o)
    BY <2>2, <2>3, <2>4 DEF Outcomes, IsNews, Confirms
  <2> HIDE DEF o, e
  <2>6. PriceTypes' BY <1>0, <1>1, <1>2, <2>1, <2>5, AgreesMore DEF PriceTypes
  <2>7. TagTells' BY <1>0, <1>1, <2>1 DEF TagTells
  <2>8. NewsHold' BY <1>0, <1>1, <2>1, <2>5, NewsMore
  <2>9. NoFetched(outcomes) => NoFetched(outcomes') BY <1>0, <2>1, <2>5, AgreesMore
  <2>10. Mirrored => Mirrored'
    <3>1. Cold => Cold' BY <1>1, <1>2, <2>1, <2>9 DEF Cold
    <3>2. Agrees(outcomes, files.index.prices) => Agrees(outcomes', files.index.prices)
      BY <1>0, <2>1, <2>5, AgreesMore
    <3>3. NoNews(outcomes') => NoNews(outcomes) BY <1>0, <2>1, <2>5, AgreesMore
    <3> QED BY <1>1, <3>1, <3>2, <3>3 DEF Mirrored
  <2>11. OneFetch'
    <3>1. SUFFICES ASSUME ~prices.raced PROVE OneFetch'
      BY <1>1 DEF OneFetch
    <3>2. OnlyOne(outcomes', "fetched")
      BY <1>0, <2>1, <2>5, <3>1, OneMore DEF OneFetch
    <3>3. \A i \in DOMAIN outcomes' : \/ i \in DOMAIN outcomes /\ outcomes'[i] = outcomes[i]
                                      \/ outcomes'[i] = o
      BY <1>0, <2>1, <2>5, QueueMore
    <3> QED BY <1>0, <1>1, <1>2, <1>4, <2>1, <2>5, <2>9, <3>1, <3>2, <3>3
        DEF OneFetch, Confirms
  <2> QED BY <1>0, <1>1, <1>3, <2>6, <2>7, <2>8, <2>10, <2>11 DEF PricingInv
<1>6. CASE Pricing!Fetch
  <2>1. /\ e.type = "fetch" /\ outcomes' = outcomes
        /\ fetcher' = IF fetcher.at = "sent" THEN fetcher
                      ELSE [at |-> "sent", config |-> e.config, tag |-> e.tag, version |-> 1]
    BY <1>6 DEF Pricing!Fetch, Pricing!Do
  <2>2. e.config \in Configs /\ e.tag \in 0 .. 2 BY <1>2, <2>1 DEF Errands
  <2> HIDE DEF e
  <2>3. fetcher'.at = "sent" BY <2>1
  <2>4. PriceTypes'
    <3>1. fetcher' \in [at : {"none", "sent", "tag", "index"}, config : Configs, tag : 0 .. 2,
                        version : Versions]
      <4>1. 1 \in Versions BY DEF Versions
      <4>2. CASE fetcher.at = "sent" BY <1>0, <2>1, <4>2 DEF PriceTypes
      <4>3. CASE fetcher.at # "sent" BY <2>1, <2>2, <4>1, <4>3
      <4> QED BY <4>2, <4>3
    <3> QED BY <1>0, <1>1, <1>2, <2>1, <3>1 DEF PriceTypes
  <2>5. TagTells' BY <1>0, <1>1, <2>3 DEF TagTells
  <2>6. NewsHold' BY <1>0, <1>1, <2>1 DEF NewsHold
  <2>7. ~NoFetch(errands) BY <1>2, <2>1
  <2>8. Mirrored => Mirrored' BY <1>1, <2>1, <2>7 DEF Mirrored, Cold
  <2>9. OneFetch'
    <3>1. SUFFICES ASSUME ~prices.raced PROVE OneFetch'
      BY <1>1 DEF OneFetch
    <3>2. /\ fetcher.at = "none" /\ NoFetched(outcomes) /\ NoFetch(errands')
          /\ OnlyOne(errands', "fetch") /\ OnlyOne(outcomes, "fetched")
          /\ Tagged(e.config, e.tag)
      BY <1>0, <1>2, <2>1, <2>7, <3>1 DEF OneFetch
    <3>3. Tagged(fetcher'.config, fetcher'.tag)
      <4>1. fetcher'.config = e.config /\ fetcher'.tag = e.tag BY <2>1, <3>2
      <4> QED BY <3>2, <4>1
    <3> QED BY <1>4, <2>1, <2>3, <3>2, <3>3 DEF OneFetch, NoFetched, NoFetch, Confirms
  <2> QED BY <1>0, <1>1, <1>3, <2>4, <2>5, <2>6, <2>8, <2>9 DEF PricingInv
<1> QED BY <1>5, <1>6

(* The reply: an error, a confirmation, or a list that is to be written.   *)
LEMMA PricingReplies ==
    ASSUME PricingInv,
           Pricing!ReplyFails \/ Pricing!ReplyNotModified \/ Pricing!ReplyArrives
    PROVE  PricingInv'
<1>0. /\ PriceTypes /\ TagTells /\ NewsHold /\ OneFetch /\ Confirmed
      /\ uses.lost \/ Mirrored
      /\ errands \in Seq(Errands) /\ outcomes \in Seq(Outcomes)
      /\ version \in 1 .. 2 /\ fetcher.config \in Configs /\ files.tag \in 0 .. 2
      /\ version \in Versions
  BY DEF PricingInv, PriceTypes, Versions
<1>1. fetcher.at = "sent" /\ UNCHANGED <<version, files, errands, prices, uses>>
  BY DEF Pricing!ReplyFails, Pricing!ReplyNotModified, Pricing!ReplyArrives
<1>2. Confirmed' BY <1>0, <1>1 DEF Confirmed
<1>3. ~Cold BY <1>1 DEF Cold
<1>4. ~prices.raced => NoFetch(errands) /\ NoFetched(outcomes) /\ Tagged(fetcher.config, fetcher.tag)
  BY <1>0, <1>1 DEF OneFetch
<1>5. ASSUME fetcher' = Pricing!NoReply, NEW fine \in BOOLEAN,
             outcomes' = Append(outcomes, Pricing!Fetched(fine, fine, version, Pricing!NoPrices)),
             fine /\ ~prices.raced =>
                 uses.lost \/ files.index.prices = Pricing!Index(version, fetcher.config)
      PROVE  PricingInv'
  <2> DEFINE o == Pricing!Fetched(fine, fine, version, Pricing!NoPrices)
  <2>1. /\ o \in Outcomes /\ o.type = "fetched" /\ o.version = version
        /\ o.config = fetcher.config /\ ~IsNews(o) /\ (Confirms(o) <=> fine)
    <3>1. o = [type |-> "fetched", ok |-> fine, notModified |-> fine,
               prices |-> Pricing!NoPrices, config |-> fetcher.config, version |-> version]
      BY DEF Pricing!Fetched
    <3>2. Pricing!NoPrices \in Lists BY PriceSets
    <3> HIDE DEF o
    <3> QED BY <1>0, <3>1, <3>2 DEF Outcomes, IsNews, Confirms
  <2>2. outcomes' = Append(outcomes, o) BY <1>5
  <2> HIDE DEF o
  <2>3. fetcher' = [at |-> "none", config |-> Pricing!NoIndex.config, tag |-> 0, version |-> 1]
    BY <1>5 DEF Pricing!NoReply, Pricing!NoTag
  <2>4. PriceTypes'
    <3>1. fetcher' \in [at : {"none", "sent", "tag", "index"}, config : Configs, tag : 0 .. 2,
                        version : Versions]
      BY <2>3, PriceSets DEF Versions
    <3>2. outcomes' \in Seq(Outcomes) BY <1>0, <2>1, <2>2, AgreesMore
    <3> QED BY <1>0, <1>1, <3>1, <3>2 DEF PriceTypes
  <2>5. TagTells' BY <1>0, <1>1, <2>3 DEF TagTells
  <2>6. NewsHold'
    <3>1. o.version <= version BY <1>0, <2>1
    <3> QED BY <1>0, <1>1, <2>1, <2>2, <3>1, NewsMore
  <2>7. Mirrored => Mirrored'
    <3>1. Agrees(outcomes, files.index.prices) => Agrees(outcomes', files.index.prices)
      BY <1>0, <2>1, <2>2, AgreesMore
    <3>2. NoNews(outcomes') => NoNews(outcomes) BY <1>0, <2>1, <2>2, AgreesMore
    <3> QED BY <1>1, <1>3, <3>1, <3>2 DEF Mirrored
  <2>8. OneFetch'
    <3>1. SUFFICES ASSUME ~prices.raced PROVE OneFetch'
      BY <1>1 DEF OneFetch
    <3>2. /\ NoFetch(errands) /\ NoFetched(outcomes) /\ OnlyOne(errands, "fetch")
          /\ OnlyOne(outcomes, "fetched")
      BY <1>0, <1>4, <3>1 DEF OneFetch
    <3>3. OnlyOne(outcomes', "fetched") BY <1>0, <2>1, <2>2, <3>2, OneMore DEF NoFetched
    <3>4. \A i \in DOMAIN outcomes' : \/ i \in DOMAIN outcomes /\ outcomes'[i] = outcomes[i]
                                      \/ outcomes'[i] = o
      BY <1>0, <2>1, <2>2, QueueMore
    <3>5. ASSUME NEW i \in DOMAIN outcomes', Confirms(outcomes'[i])
          PROVE  uses.lost \/ files.index.prices = Pricing!Index(version, outcomes'[i].config)
      <4>1. outcomes'[i] = o BY <3>2, <3>4, <3>5 DEF NoFetched, Confirms
      <4> QED BY <1>5, <2>1, <3>1, <3>5, <4>1
    <3> QED BY <1>1, <2>3, <3>1, <3>2, <3>3, <3>5 DEF OneFetch, NoFetch
  <2> QED BY <1>0, <1>1, <1>2, <2>4, <2>5, <2>6, <2>7, <2>8 DEF PricingInv
<1>6. CASE Pricing!ReplyFails
  BY <1>5, <1>6 DEF Pricing!ReplyFails, Pricing!Tell
<1>7. CASE Pricing!ReplyNotModified
  <2>1. /\ fetcher.tag = version /\ fetcher' = Pricing!NoReply
        /\ outcomes' = Append(outcomes, Pricing!Fetched(TRUE, TRUE, version, Pricing!NoPrices))
    BY <1>7 DEF Pricing!ReplyNotModified, Pricing!Tell
  <2>2. ASSUME ~prices.raced, ~uses.lost
        PROVE  files.index.prices = Pricing!Index(version, fetcher.config)
    <3>1. files.tag = version /\ Markers[files.index.config] = Markers[fetcher.config]
      BY <1>0, <1>4, <2>1, <2>2 DEF Tagged
    <3>2. files.index.prices = Pricing!Index(version, files.index.config)
      BY <1>0, <1>1, <2>2, <3>1 DEF TagTells
    <3> QED BY <3>1, <3>2, SameIndex
  <2> QED BY <1>5, <2>1, <2>2
<1>8. CASE Pricing!ReplyArrives
  <2>1. CASE Pricing!Index(version, fetcher.config) = Pricing!NoPrices
    BY <1>5, <1>8, <2>1 DEF Pricing!ReplyArrives, Pricing!Tell
  <2>2. CASE Pricing!Index(version, fetcher.config) # Pricing!NoPrices
    <3>1. fetcher' = [fetcher EXCEPT !.at = "tag", !.version = version] /\ outcomes' = outcomes
      BY <1>8, <2>2 DEF Pricing!ReplyArrives
    <3>2. PriceTypes' BY <1>0, <1>1, <3>1 DEF PriceTypes
    <3>3. fetcher'.at = "tag" /\ fetcher'.version = version /\ fetcher'.config = fetcher.config
      BY <1>0, <3>1 DEF PriceTypes
    <3>4. TagTells' BY <1>0, <1>1, <2>2, <3>3 DEF TagTells
    <3>5. NewsHold' BY <1>0, <1>1, <3>1 DEF NewsHold
    <3>6. Mirrored => Mirrored' BY <1>1, <1>3, <3>1 DEF Mirrored
    <3>7. OneFetch'
      BY <1>0, <1>1, <1>4, <3>1, <3>3 DEF OneFetch, NoFetch, NoFetched, Confirms
    <3> QED BY <1>0, <1>1, <1>2, <3>2, <3>4, <3>5, <3>6, <3>7 DEF PricingInv
  <2> QED BY <2>1, <2>2
<1> QED BY <1>6, <1>7, <1>8

(* The tag and then the index are written down, or not.                    *)
LEMMA PricingWrites ==
    ASSUME PricingInv, Pricing!WriteTag \/ Pricing!WriteIndex PROVE PricingInv'
<1>0. /\ PriceTypes /\ TagTells /\ NewsHold /\ OneFetch /\ Confirmed
      /\ uses.lost \/ Mirrored
      /\ errands \in Seq(Errands) /\ outcomes \in Seq(Outcomes)
      /\ version \in 1 .. 2 /\ files \in [tag : 0 .. 2, index : [config : Configs, prices : Lists]]
      /\ fetcher \in [at : {"none", "sent", "tag", "index"}, config : Configs, tag : 0 .. 2,
                      version : Versions]
      /\ uses \in [requests : Nat, faults : Nat, lost : BOOLEAN]
  BY DEF PricingInv, PriceTypes, Versions
<1>1. fetcher.at \in {"tag", "index"} /\ UNCHANGED <<version, errands, prices>>
  BY DEF Pricing!WriteTag, Pricing!WriteIndex
<1>2. Confirmed' BY <1>0, <1>1 DEF Confirmed
<1>3. ~Cold BY <1>1 DEF Cold
<1>4. ~prices.raced => NoFetch(errands) /\ NoFetched(outcomes)
  BY <1>0, <1>1 DEF OneFetch
<1>5. /\ files.tag <= fetcher.version /\ fetcher.version <= version
      /\ Pricing!Index(fetcher.version, fetcher.config) # Pricing!NoPrices
      /\ fetcher.version \in 1 .. 2 /\ fetcher.config \in Configs
  BY <1>0, <1>1 DEF TagTells, Versions
<1>6. CASE Pricing!WriteTag
  <2>1. /\ fetcher.at = "tag" /\ fetcher' = [fetcher EXCEPT !.at = "index"] /\ outcomes' = outcomes
        /\ \/ files' = [files EXCEPT !.tag = fetcher.version] /\ uses' = uses
           \/ uses' = [uses EXCEPT !.faults = @ + 1, !.lost = @ \/ FALSE] /\ files' = files
    BY <1>6 DEF Pricing!WriteTag, Pricing!Fault
  <2>2. /\ uses' \in [requests : Nat, faults : Nat, lost : BOOLEAN] /\ uses'.lost = uses.lost
    <3>1. (uses.lost \/ FALSE) = uses.lost /\ uses.faults + 1 \in Nat BY <1>0
    <3> QED BY <1>0, <2>1, <3>1
  <2>3. /\ files' \in [tag : 0 .. 2, index : [config : Configs, prices : Lists]]
        /\ files'.index = files.index /\ files'.tag <= fetcher.version
    BY <1>0, <1>5, <2>1
  <2>4. /\ fetcher' \in [at : {"none", "sent", "tag", "index"}, config : Configs, tag : 0 .. 2,
                         version : Versions]
        /\ fetcher'.at = "index" /\ fetcher'.version = fetcher.version
        /\ fetcher'.config = fetcher.config
    BY <1>0, <2>1
  <2>5. PriceTypes' BY <1>0, <1>1, <2>1, <2>2, <2>3, <2>4 DEF PriceTypes
  <2>6. TagTells'
    <3>1. files'.tag <= version
      <4>1. files'.tag \in 0 .. 2 BY <2>3
      <4> QED BY <1>0, <1>5, <2>3, <4>1
    <3> QED BY <1>1, <1>5, <2>3, <2>4, <3>1 DEF TagTells
  <2>7. NewsHold' BY <1>0, <1>1, <2>1 DEF NewsHold
  <2>8. Mirrored => Mirrored' BY <1>1, <1>3, <2>1, <2>3 DEF Mirrored
  <2>9. OneFetch'
    BY <1>0, <1>1, <1>4, <2>1, <2>4 DEF OneFetch, NoFetch, NoFetched, Confirms
  <2> QED BY <1>0, <1>2, <2>2, <2>5, <2>6, <2>7, <2>8, <2>9 DEF PricingInv
<1>7. CASE Pricing!WriteIndex
  <2> DEFINE list == Pricing!Index(fetcher.version, fetcher.config)
             o == Pricing!Fetched(TRUE, FALSE, fetcher.version, list)
             written == [config |-> fetcher.config, prices |-> list]
  <2>1. /\ fetcher.at = "index" /\ fetcher' = Pricing!NoReply /\ outcomes' = Append(outcomes, o)
        /\ \/ /\ files' = [files EXCEPT !.index = written]
              /\ uses' = [uses EXCEPT !.lost = FALSE]
           \/ uses' = [uses EXCEPT !.faults = @ + 1, !.lost = @ \/ TRUE] /\ files' = files
    BY <1>7 DEF Pricing!WriteIndex, Pricing!Fault, Pricing!Tell
  <2>2. list \in Lists /\ list # Pricing!NoPrices /\ Pricing!Index(fetcher.version, fetcher.config) = list
    BY <1>0, <1>5, PriceSets
  <2>3. /\ o \in Outcomes /\ o.type = "fetched" /\ o.version = fetcher.version
        /\ o.config = fetcher.config /\ o.prices = list /\ IsNews(o) /\ ~Confirms(o)
    <3>1. o = [type |-> "fetched", ok |-> TRUE, notModified |-> FALSE, prices |-> list,
               config |-> fetcher.config, version |-> fetcher.version]
      BY DEF Pricing!Fetched
    <3> HIDE DEF o, list
    <3> QED BY <1>0, <2>2, <3>1 DEF Outcomes, IsNews, Confirms
  <2>4. written \in [config : Configs, prices : Lists] /\ written.prices = list
        /\ written.config = fetcher.config
    BY <1>0, <2>2
  <2> HIDE DEF o, list, written
  <2>5. fetcher' = [at |-> "none", config |-> Pricing!NoIndex.config, tag |-> 0, version |-> 1]
    BY <2>1 DEF Pricing!NoReply, Pricing!NoTag
  <2>6. /\ uses' \in [requests : Nat, faults : Nat, lost : BOOLEAN]
        /\ uses'.lost \/ (files' = [files EXCEPT !.index = written])
    <3>1. (uses.lost \/ TRUE) = TRUE /\ uses.faults + 1 \in Nat BY <1>0
    <3> QED BY <1>0, <2>1, <3>1
  <2>7. /\ files' \in [tag : 0 .. 2, index : [config : Configs, prices : Lists]]
        /\ files'.tag = files.tag /\ (uses'.lost \/ files'.index = written)
    BY <1>0, <2>1, <2>4, <2>6
  <2>8. PriceTypes'
    <3>1. fetcher' \in [at : {"none", "sent", "tag", "index"}, config : Configs, tag : 0 .. 2,
                        version : Versions]
      BY <2>5, PriceSets DEF Versions
    <3>2. outcomes' \in Seq(Outcomes) BY <1>0, <2>1, <2>3, AgreesMore
    <3> QED BY <1>0, <1>1, <2>6, <2>7, <3>1, <3>2 DEF PriceTypes
  <2>9. TagTells'
    <3>1. ASSUME ~uses'.lost, files.tag = version
          PROVE  list = Pricing!Index(version, fetcher.config)
      <4>1. fetcher.version = version BY <1>0, <1>5, <3>1
      <4> QED BY <2>2, <4>1
    <3>2. files.tag <= version BY <1>0 DEF TagTells
    <3> QED BY <1>1, <2>2, <2>4, <2>5, <2>7, <3>1, <3>2 DEF TagTells
  <2>10. NewsHold' BY <1>0, <1>1, <1>5, <2>1, <2>2, <2>3, NewsMore
  <2>11. uses'.lost \/ Mirrored'
    <3>1. Agrees(outcomes', list) /\ ~NoNews(outcomes') BY <1>0, <2>1, <2>3, AgreesMore
    <3> QED BY <2>4, <2>7, <3>1 DEF Mirrored
  <2>12. OneFetch'
    <3>1. SUFFICES ASSUME ~prices.raced PROVE OneFetch'
      BY <1>1 DEF OneFetch
    <3>2. OnlyOne(errands, "fetch") /\ OnlyOne(outcomes, "fetched") BY <1>0, <3>1 DEF OneFetch
    <3>3. OnlyOne(outcomes', "fetched") BY <1>0, <1>4, <2>1, <2>3, <3>1, <3>2, OneMore DEF NoFetched
    <3>4. \A i \in DOMAIN outcomes' : \/ i \in DOMAIN outcomes /\ outcomes'[i] = outcomes[i]
                                      \/ outcomes'[i] = o
      BY <1>0, <2>1, <2>3, QueueMore
    <3>5. \A i \in DOMAIN outcomes' : ~Confirms(outcomes'[i])
      BY <1>4, <2>3, <3>1, <3>4 DEF NoFetched, Confirms
    <3> QED BY <1>1, <1>4, <2>5, <3>1, <3>2, <3>3, <3>5 DEF OneFetch, NoFetch
  <2> QED BY <1>2, <2>8, <2>9, <2>10, <2>11, <2>12 DEF PricingInv
<1> QED BY <1>6, <1>7

(* A request: it is raced, or else the only one, with a tag that tells.    *)
LEMMA PricingAsks ==
    ASSUME PriceTypes, TagTells, NewsHold, OneFetch, uses.lost \/ Mirrored,
           NEW p, p \in [source : Configs \cup {"none"}, settings : Configs \cup {"none"},
                         index : Lists, busy : BOOLEAN, ready : BOOLEAN, checked : BOOLEAN,
                         raced : BOOLEAN],
           p.settings # "none", Pricing!RequestFetch(p),
           p.checked => p.index = Pricing!Index(version, p.settings),
           UNCHANGED <<version, files, fetcher>>,
           uses' \in [requests : Nat, faults : Nat, lost : {uses.lost}],
           NEW quiet, quiet \in BOOLEAN, quiet = (NoFetched(outcomes)),
           outcomes' \in Seq(Outcomes), NewsHold', quiet => NoFetched(outcomes'),
           uses.lost \/ /\ Agrees(outcomes', files.index.prices)
                        /\ NoNews(outcomes') => p.index = files.index.prices
    PROVE  PricingInv'
<1>0. /\ errands \in Seq(Errands) /\ version \in 1 .. 2 /\ files.tag \in 0 .. 2
      /\ files \in [tag : 0 .. 2, index : [config : Configs, prices : Lists]]
      /\ uses \in [requests : Nat, faults : Nat, lost : BOOLEAN]
  BY DEF PriceTypes, Versions
<1> DEFINE tag == Pricing!ReadEtag(p.settings)
           e == [type |-> "fetch", config |-> p.settings, tag |-> tag]
           raced == Pricing!UnderWay
<1>1. errands' = Append(errands, e) /\ prices' = [p EXCEPT !.busy = TRUE, !.raced = raced]
  BY DEF Pricing!RequestFetch
<1>2. /\ tag \in {0, files.tag}
      /\ tag # 0 => \/ files.index = Pricing!NoIndex
                    \/ Markers[files.index.config] = Markers[p.settings]
  BY DEF Pricing!ReadEtag, Pricing!NoTag
<1>3. raced \in BOOLEAN
      /\ (~raced => fetcher.at = "none" /\ NoFetch(errands) /\ NoFetched(outcomes))
  BY DEF Pricing!UnderWay, NoFetch, NoFetched
<1>4. tag \in 0 .. 2 BY <1>0, <1>2
<1> HIDE DEF tag, raced
<1>5. e \in Errands /\ e.type = "fetch" /\ e.config = p.settings /\ e.tag = tag
  <2>1. p.settings \in Configs OBVIOUS
  <2> QED BY <1>4, <2>1 DEF Errands
<1> HIDE DEF e
<1>6. /\ prices' \in [source : Configs \cup {"none"}, settings : Configs \cup {"none"},
                      index : Lists, busy : BOOLEAN, ready : BOOLEAN, checked : BOOLEAN,
                      raced : BOOLEAN]
      /\ prices'.raced = raced /\ prices'.settings = p.settings /\ prices'.index = p.index
      /\ prices'.checked = p.checked
  BY <1>1, <1>3
<1>7. uses' \in [requests : Nat, faults : Nat, lost : BOOLEAN] /\ uses'.lost = uses.lost BY <1>0
<1>8. PriceTypes'
  <2>1. errands' \in Seq(Errands) BY <1>0, <1>1, <1>5, QueueMore
  <2> QED BY <1>6, <1>7, <2>1 DEF PriceTypes
<1>9. TagTells' BY <1>7 DEF TagTells
<1>10. Confirmed' BY <1>6 DEF Confirmed
<1>11. uses'.lost \/ Mirrored' BY <1>6, <1>7 DEF Mirrored
<1>12. OneFetch'
  <2>1. SUFFICES ASSUME ~raced PROVE OneFetch'
    BY <1>6 DEF OneFetch
  <2>2. fetcher.at = "none" /\ NoFetch(errands) /\ NoFetched(outcomes') BY <1>3, <2>1
  <2>3. Tagged(e.config, e.tag)
    <3>1. ASSUME ~uses.lost, tag # 0 PROVE files.index # Pricing!NoIndex
      <4>1. files.index.prices # Pricing!NoPrices BY <1>2, <2>2, <3>1 DEF TagTells
      <4> QED BY <4>1, PriceSets
    <3> QED BY <1>2, <1>5, <3>1 DEF Tagged
  <2>4. \A i \in DOMAIN errands' : \/ i \in DOMAIN errands /\ errands'[i] = errands[i]
                                   \/ errands'[i] = e
    BY <1>0, <1>1, <1>5, QueueMore
  <2>5. OnlyOne(errands', "fetch")
    <3>1. OnlyOne(errands, "fetch") BY <2>2 DEF OnlyOne, NoFetch
    <3> QED BY <1>0, <1>1, <1>5, <2>2, <3>1, OneMore DEF NoFetch
  <2>6. \A c, t : Tagged(c, t)' <=> Tagged(c, t) BY <1>7 DEF Tagged
  <2>7. \A i \in DOMAIN errands' : errands'[i].type = "fetch" => Tagged(errands'[i].config, errands'[i].tag)
    BY <2>2, <2>3, <2>4 DEF NoFetch
  <2>8. OnlyOne(outcomes', "fetched") BY <2>2 DEF OnlyOne, NoFetched
  <2> QED BY <2>2, <2>5, <2>6, <2>7, <2>8 DEF OneFetch, NoFetched, Confirms
<1> QED BY <1>8, <1>9, <1>10, <1>11, <1>12 DEF PricingInv

(* The record of the prices, for the proofs about the GUI's thread.        *)
PriceRecords ==
    [source : Configs \cup {"none"}, settings : Configs \cup {"none"}, index : Lists,
     busy : BOOLEAN, ready : BOOLEAN, checked : BOOLEAN, raced : BOOLEAN]

(* A configuration is loaded: the list is that on disk, unless a new list  *)
(* is still to come or none was ever loaded.                               *)
LEMMA ConfigHeard ==
    ASSUME PricingInv, Pricing!Hear("config")
    PROVE  /\ Pricing!WithConfig(Head(outcomes)) \in PriceRecords
           /\ ~Pricing!WithConfig(Head(outcomes)).checked
           /\ Pricing!WithConfig(Head(outcomes)).raced = prices.raced
           /\ outcomes' \in Seq(Outcomes)
           /\ NoFetched(outcomes) => NoFetched(outcomes')
           /\ uses.lost \/
                 /\ Agrees(outcomes', files.index.prices)
                 /\ NoNews(outcomes') =>
                       \/ Pricing!WithConfig(Head(outcomes)).index = files.index.prices
                       \/ /\ Cold /\ Pricing!WithConfig(Head(outcomes)).settings = "none"
                          /\ Pricing!WithConfig(Head(outcomes)).index = prices.index
<1> DEFINE h == Head(outcomes)
           p == Pricing!WithConfig(h)
           filled == prices.ready \/ h.prices # Pricing!NoPrices
<1>0. /\ prices \in PriceRecords /\ outcomes \in Seq(Outcomes)
      /\ uses.lost \/ Mirrored
  BY DEF PricingInv, PriceTypes, PriceRecords
<1>1. outcomes # <<>> /\ h.type = "config" /\ outcomes' = Tail(outcomes)
  BY DEF Pricing!Hear
<1>2. /\ h \in Outcomes /\ outcomes' \in Seq(Outcomes)
      /\ NoFetched(outcomes) => NoFetched(outcomes')
      /\ \A list : Agrees(outcomes, list) =>
            /\ Agrees(outcomes', list)
            /\ NoNews(outcomes') => h.prices = list /\ NoNews(outcomes)
  <2>1. ~IsNews(h) BY <1>1 DEF IsNews
  <2>2. /\ h \in Outcomes /\ outcomes' \in Seq(Outcomes)
        /\ NoFetched(outcomes) => NoFetched(outcomes')
    BY <1>0, <1>1, QueueLess DEF NoFetched
  <2>3. ASSUME NEW list, Agrees(outcomes, list)
        PROVE  /\ Agrees(outcomes', list)
               /\ NoNews(outcomes') => h.prices = list /\ NoNews(outcomes)
    BY <1>0, <1>1, <2>1, <2>3, AgreesLess
  <2> QED BY <2>2, <2>3
<1>3. filled \in BOOLEAN OBVIOUS
<1>4. p = IF ~h.ok THEN [prices EXCEPT !.busy = FALSE, !.checked = FALSE, !.settings = "none"]
          ELSE [prices EXCEPT !.busy = FALSE, !.checked = FALSE, !.settings = h.config,
                              !.ready = filled,
                              !.index = IF h.prices # Pricing!NoPrices THEN h.prices
                                        ELSE prices.index]
  <2>1. CASE ~h.ok
    BY <1>0, <2>1 DEF Pricing!WithConfig, PriceRecords
  <2>2. CASE h.ok
    <3> DEFINE q == [prices EXCEPT !.busy = FALSE, !.checked = FALSE]
    <3>1. p = [q EXCEPT !.settings = h.config, !.ready = @ \/ h.prices # Pricing!NoPrices,
                       !.index = IF h.prices # Pricing!NoPrices THEN h.prices ELSE @]
      BY <2>2 DEF Pricing!WithConfig
    <3>2. /\ q.source = prices.source /\ q.index = prices.index /\ q.raced = prices.raced
          /\ q.ready = prices.ready /\ q.busy = FALSE /\ q.checked = FALSE
          /\ q \in PriceRecords
      BY <1>0 DEF PriceRecords
    <3>3. (q.ready \/ h.prices # Pricing!NoPrices) = filled BY <3>2
    <3> HIDE DEF q, p, filled
    <3> QED BY <1>0, <2>2, <3>1, <3>2, <3>3 DEF PriceRecords
  <2> QED BY <2>1, <2>2
<1> HIDE DEF p, filled
<1>5. h.prices \in Lists /\ h.config \in Configs BY <1>1, <1>2 DEF Outcomes
<1>6. p \in PriceRecords /\ ~p.checked /\ p.raced = prices.raced
  BY <1>0, <1>3, <1>4, <1>5 DEF PriceRecords
<1>7. /\ ~h.ok => p.settings = "none" /\ p.index = prices.index
      /\ h.ok => p.index = IF h.prices # Pricing!NoPrices THEN h.prices ELSE prices.index
  BY <1>0, <1>4 DEF PriceRecords
<1>8. ASSUME ~uses.lost, NoNews(outcomes')
      PROVE  \/ p.index = files.index.prices
             \/ Cold /\ p.settings = "none" /\ p.index = prices.index
  <2>1. h.prices = files.index.prices /\ (prices.index = files.index.prices \/ Cold)
    BY <1>0, <1>2, <1>8 DEF Mirrored
  <2>2. Cold => prices.index = Pricing!NoPrices BY DEF Cold
  <2> QED BY <1>7, <2>1, <2>2
<1>9. ~uses.lost => Agrees(outcomes', files.index.prices) BY <1>0, <1>2 DEF Mirrored
<1> QED BY <1>2, <1>6, <1>8, <1>9 DEF p

(* A request of the user's, the timer's, or for an index that has aged.    *)
LEMMA PricingRequests ==
    ASSUME PricingInv, Pricing!Refresh \/ Pricing!OnStaleConfigLoaded PROVE PricingInv'
<1>0. /\ PriceTypes /\ TagTells /\ NewsHold /\ OneFetch /\ Confirmed
      /\ uses.lost \/ Mirrored
      /\ prices \in PriceRecords /\ outcomes \in Seq(Outcomes)
      /\ uses \in [requests : Nat, faults : Nat, lost : BOOLEAN]
  BY DEF PricingInv, PriceTypes, PriceRecords
<1> DEFINE quiet == NoFetched(outcomes)
<1>1. quiet \in BOOLEAN BY DEF NoFetched
<1>2. CASE Pricing!Refresh
  <2>1. /\ uses' = [uses EXCEPT !.requests = @ + 1] /\ prices.settings # "none"
        /\ Pricing!RequestFetch(prices) /\ UNCHANGED <<version, files, fetcher, outcomes>>
    BY <1>2 DEF Pricing!Refresh, Pricing!Asked
  <2>2. uses' \in [requests : Nat, faults : Nat, lost : {uses.lost}]
    <3>1. uses.requests + 1 \in Nat BY <1>0
    <3> QED BY <1>0, <2>1, <3>1
  <2>3. NewsHold' BY <1>0, <2>1 DEF NewsHold
  <2>4. uses.lost \/ /\ Agrees(outcomes', files.index.prices)
                     /\ NoNews(outcomes') => prices.index = files.index.prices
    BY <1>0, <2>1 DEF Mirrored, Cold
  <2>5. prices.checked => prices.index = Pricing!Index(version, prices.settings)
    BY <1>0, <2>1 DEF Confirmed
  <2>6. outcomes' \in Seq(Outcomes) /\ (quiet => NoFetched(outcomes')) BY <1>0, <2>1
  <2>7. PICK q \in BOOLEAN : q = (NoFetched(outcomes)) BY <1>1
  <2> HIDE DEF quiet
  <2> QED BY <1>0, <2>1, <2>2, <2>3, <2>4, <2>5, <2>6, <2>7, PricingAsks DEF PriceRecords, quiet
<1>3. CASE Pricing!OnStaleConfigLoaded
  <2> DEFINE p == Pricing!WithConfig(Head(outcomes))
  <2>1. /\ Pricing!Hear("config") /\ p.settings # "none" /\ Pricing!RequestFetch(p)
        /\ UNCHANGED <<version, files, fetcher, uses>>
    BY <1>3 DEF Pricing!OnStaleConfigLoaded
  <2>2. /\ p \in PriceRecords /\ ~p.checked /\ outcomes' \in Seq(Outcomes)
        /\ NoFetched(outcomes) => NoFetched(outcomes')
        /\ uses.lost \/ /\ Agrees(outcomes', files.index.prices)
                        /\ NoNews(outcomes') => p.index = files.index.prices
    BY <2>1, ConfigHeard
  <2> HIDE DEF p
  <2>3. uses' \in [requests : Nat, faults : Nat, lost : {uses.lost}] BY <1>0, <2>1
  <2>4. NewsHold' BY <1>0, <2>1, NewsLess DEF Pricing!Hear
  <2>5. PICK q \in BOOLEAN : q = (NoFetched(outcomes)) BY <1>1
  <2> HIDE DEF quiet
  <2> QED BY <1>0, <2>1, <2>2, <2>3, <2>4, <2>5, PricingAsks DEF PriceRecords, quiet
<1> QED BY <1>2, <1>3

(* The user chooses a configuration: a local file is loaded.               *)
LEMMA PricingSource ==
    ASSUME PricingInv, Pricing!SetConfigSource PROVE PricingInv'
<1>0. /\ PriceTypes /\ TagTells /\ NewsHold /\ OneFetch /\ Confirmed
      /\ uses.lost \/ Mirrored
      /\ prices \in PriceRecords /\ errands \in Seq(Errands)
      /\ uses \in [requests : Nat, faults : Nat, lost : BOOLEAN]
  BY DEF PricingInv, PriceTypes, PriceRecords
<1>1. /\ uses' = [uses EXCEPT !.requests = @ + 1]
      /\ UNCHANGED <<version, files, fetcher, outcomes>>
  BY DEF Pricing!SetConfigSource, Pricing!Asked
<1>2. uses' \in [requests : Nat, faults : Nat, lost : BOOLEAN] /\ uses'.lost = uses.lost
  <2>1. uses.requests + 1 \in Nat BY <1>0
  <2> QED BY <1>0, <1>1, <2>1
<1>3. PICK c \in Configs :
         \/ prices' = [prices EXCEPT !.source = c, !.settings = "none"] /\ errands' = errands
         \/ /\ prices' = [prices EXCEPT !.source = c, !.busy = TRUE]
            /\ errands' = Append(errands, [type |-> "load", config |-> c])
  BY PriceSets DEF Pricing!SetConfigSource
<1>4. /\ prices' \in PriceRecords /\ prices'.index = prices.index
      /\ prices'.checked = prices.checked /\ prices'.raced = prices.raced
      /\ prices'.settings \in {"none", prices.settings}
  BY <1>0, <1>3 DEF PriceRecords
<1>5. /\ errands' \in Seq(Errands) /\ (NoFetch(errands) => NoFetch(errands'))
      /\ OnlyOne(errands, "fetch") => OnlyOne(errands', "fetch")
      /\ \A i \in DOMAIN errands' : \/ i \in DOMAIN errands /\ errands'[i] = errands[i]
                                    \/ errands'[i].type = "load"
  <2>1. CASE errands' = errands BY <1>0, <2>1
  <2>2. CASE errands' = Append(errands, [type |-> "load", config |-> c])
    <3> DEFINE e == [type |-> "load", config |-> c]
    <3>1. e \in Errands /\ e.type = "load" BY DEF Errands
    <3> HIDE DEF e
    <3>2. /\ errands' \in Seq(Errands)
          /\ \A i \in DOMAIN errands' : \/ i \in DOMAIN errands /\ errands'[i] = errands[i]
                                        \/ errands'[i].type = "load"
      BY <1>0, <2>2, <3>1, QueueMore DEF e
    <3>3. OnlyOne(errands, "fetch") => OnlyOne(errands', "fetch")
      BY <1>0, <2>2, <3>1, OneMore DEF e
    <3> QED BY <3>2, <3>3 DEF NoFetch
  <2> QED BY <1>3, <2>1, <2>2
<1>6. PriceTypes' BY <1>0, <1>1, <1>2, <1>4, <1>5 DEF PriceTypes, PriceRecords
<1>7. TagTells' /\ NewsHold' BY <1>0, <1>1, <1>2 DEF TagTells, NewsHold
<1>8. Confirmed' BY <1>0, <1>1, <1>4 DEF Confirmed
<1>9. Mirrored => Mirrored' BY <1>1, <1>4, <1>5 DEF Mirrored, Cold
<1>10. \A d, t : Tagged(d, t)' <=> Tagged(d, t) BY <1>1, <1>2 DEF Tagged
<1>11. OneFetch' BY <1>0, <1>1, <1>2, <1>4, <1>5, <1>10 DEF OneFetch
<1> QED BY <1>0, <1>2, <1>6, <1>7, <1>8, <1>9, <1>11 DEF PricingInv

(* A configuration is loaded and the list is recent.                       *)
LEMMA PricingLoaded ==
    ASSUME PricingInv, Pricing!OnConfigLoaded PROVE PricingInv'
<1>0. /\ PriceTypes /\ TagTells /\ NewsHold /\ OneFetch /\ Confirmed
      /\ outcomes \in Seq(Outcomes)
  BY DEF PricingInv, PriceTypes
<1> DEFINE p == Pricing!WithConfig(Head(outcomes))
<1>1. /\ Pricing!Hear("config") /\ prices' = p
      /\ UNCHANGED <<version, files, fetcher, errands, uses>>
  BY DEF Pricing!OnConfigLoaded
<1>2. /\ p \in PriceRecords /\ ~p.checked /\ p.raced = prices.raced /\ outcomes' \in Seq(Outcomes)
      /\ NoFetched(outcomes) => NoFetched(outcomes')
      /\ uses.lost \/ /\ Agrees(outcomes', files.index.prices)
                      /\ NoNews(outcomes') =>
                            \/ p.index = files.index.prices
                            \/ Cold /\ p.settings = "none" /\ p.index = prices.index
  BY <1>1, ConfigHeard
<1> HIDE DEF p
<1>3. PriceTypes' BY <1>0, <1>1, <1>2 DEF PriceTypes, PriceRecords
<1>4. TagTells' BY <1>0, <1>1 DEF TagTells
<1>5. NewsHold' BY <1>0, <1>1, NewsLess DEF Pricing!Hear
<1>6. Confirmed' BY <1>1, <1>2 DEF Confirmed
<1>7. uses'.lost \/ Mirrored' BY <1>1, <1>2 DEF Mirrored, Cold
<1>8. \A d, t : Tagged(d, t)' <=> Tagged(d, t) BY <1>1 DEF Tagged
<1>9. OneFetch'
  <2>1. /\ \A i \in DOMAIN outcomes' : \E j \in DOMAIN outcomes : outcomes'[i] = outcomes[j]
        /\ OnlyOne(outcomes, "fetched") => OnlyOne(outcomes', "fetched")
    BY <1>0, <1>1, QueueLess, OneLess DEF Pricing!Hear
  <2> QED BY <1>0, <1>1, <1>2, <1>8, <2>1 DEF OneFetch
<1> QED BY <1>3, <1>4, <1>5, <1>6, <1>7, <1>9 DEF PricingInv

(* A fetch has ended: a new list is taken, and a list at hand is confirmed *)
(* by the only answer there is, which is about the list on disk.           *)
LEMMA PricingFetched ==
    ASSUME PricingInv, Pricing!OnFetched PROVE PricingInv'
<1>0. /\ PriceTypes /\ TagTells /\ NewsHold /\ OneFetch /\ Confirmed
      /\ uses.lost \/ Mirrored
      /\ prices \in PriceRecords /\ outcomes \in Seq(Outcomes)
  BY DEF PricingInv, PriceTypes, PriceRecords
<1> DEFINE h == Head(outcomes)
           index == IF h.notModified THEN prices.index ELSE h.prices
           filled == index # Pricing!NoPrices
           sure == /\ h.config = prices.settings /\ h.version = version
                   /\ h.notModified => ~prices.raced /\ ~uses.lost
<1>1. /\ outcomes # <<>> /\ h.type = "fetched" /\ outcomes' = Tail(outcomes)
      /\ prices' = IF ~h.ok THEN [prices EXCEPT !.busy = FALSE]
                   ELSE [prices EXCEPT !.busy = FALSE, !.index = index, !.ready = filled,
                                       !.checked = sure]
      /\ UNCHANGED <<version, files, fetcher, errands, uses>>
  BY DEF Pricing!OnFetched, Pricing!Hear
<1>2. filled \in BOOLEAN /\ sure \in BOOLEAN OBVIOUS
<1>3. /\ h \in Outcomes /\ outcomes' \in Seq(Outcomes)
      /\ \A i \in DOMAIN outcomes' : \E j \in DOMAIN outcomes : outcomes'[i] = outcomes[j]
      /\ \E j \in DOMAIN outcomes : h = outcomes[j]
      /\ OnlyOne(outcomes, "fetched") => OnlyOne(outcomes', "fetched") /\ NoFetched(outcomes')
  BY <1>0, <1>1, QueueLess, OneLess DEF NoFetched
<1>4. \A list : Agrees(outcomes, list) =>
         /\ Agrees(outcomes', list)
         /\ NoNews(outcomes') => IF IsNews(h) THEN h.prices = list ELSE NoNews(outcomes)
  <2>1. ASSUME NEW list, Agrees(outcomes, list)
        PROVE  /\ Agrees(outcomes', list)
               /\ NoNews(outcomes') => IF IsNews(h) THEN h.prices = list ELSE NoNews(outcomes)
    <3> HIDE DEF h
    <3> QED BY <1>0, <1>1, <2>1, AgreesLess DEF h
  <2> QED BY <2>1
<1>5. ~Cold BY <1>1, <1>3 DEF Cold, NoFetched
<1>6. IsNews(h) => h.prices = Pricing!Index(h.version, h.config) BY <1>0, <1>3 DEF NewsHold
<1>7. h.prices \in Lists BY <1>1, <1>3 DEF Outcomes
<1>8. /\ IsNews(h) <=> h.ok /\ ~h.notModified
      /\ Confirms(h) <=> h.ok /\ h.notModified
  BY <1>1 DEF IsNews, Confirms
<1>9. index \in Lists BY <1>0, <1>7 DEF PriceRecords
<1>10. ASSUME h.ok, sure PROVE index = Pricing!Index(version, prices.settings)
  <2>1. CASE IsNews(h) BY <1>6, <1>8, <1>10, <2>1
  <2>2. CASE ~IsNews(h)
    <3>1. Confirms(h) /\ ~prices.raced /\ ~uses.lost /\ index = prices.index BY <1>8, <1>10, <2>2
    <3>2. files.index.prices = Pricing!Index(version, h.config)
      BY <1>0, <1>3, <1>10, <3>1 DEF OneFetch
    <3>3. NoNews(outcomes') BY <1>0, <1>3, <3>1 DEF OneFetch, NoFetched, NoNews, IsNews
    <3>4. prices.index = files.index.prices BY <1>0, <1>4, <1>5, <2>2, <3>1, <3>3 DEF Mirrored
    <3> QED BY <1>10, <3>1, <3>2, <3>4
  <2> QED BY <2>1, <2>2
<1> HIDE DEF filled, sure
<1>11. /\ prices' \in PriceRecords /\ prices'.raced = prices.raced
       /\ prices'.settings = prices.settings
       /\ ~h.ok => prices'.index = prices.index /\ prices'.checked = prices.checked
       /\ h.ok => prices'.index = index /\ prices'.checked = sure
  <2> HIDE DEF index, h
  <2> QED BY <1>0, <1>1, <1>2, <1>9 DEF PriceRecords
<1>12. PriceTypes' BY <1>0, <1>1, <1>3, <1>11 DEF PriceTypes, PriceRecords
<1>13. TagTells' BY <1>0, <1>1 DEF TagTells
<1>14. NewsHold' BY <1>0, <1>1, NewsLess
<1>15. Confirmed' BY <1>0, <1>1, <1>10, <1>11 DEF Confirmed
<1>16. Mirrored => Mirrored'
  <2>1. SUFFICES ASSUME Mirrored PROVE Mirrored'
    OBVIOUS
  <2>2. Agrees(outcomes', files.index.prices) BY <1>4, <2>1 DEF Mirrored
  <2>3. ASSUME NoNews(outcomes') PROVE prices'.index = files.index.prices
    <3>1. CASE IsNews(h)
      BY <1>4, <1>8, <1>11, <2>1, <2>3, <3>1 DEF Mirrored
    <3>2. CASE ~IsNews(h)
      <4>1. prices.index = files.index.prices BY <1>4, <1>5, <2>1, <2>3, <3>2 DEF Mirrored
      <4> QED BY <1>8, <1>11, <3>2, <4>1
    <3> QED BY <3>1, <3>2
  <2> QED BY <1>1, <2>2, <2>3 DEF Mirrored
<1>17. \A d, t : Tagged(d, t)' <=> Tagged(d, t) BY <1>1 DEF Tagged
<1>18. OneFetch' BY <1>0, <1>1, <1>3, <1>11, <1>17 DEF OneFetch, NoFetched
<1> QED BY <1>0, <1>1, <1>12, <1>13, <1>14, <1>15, <1>16, <1>18 DEF PricingInv

(* The catalogue changes: no tag and no answer is of the new version yet.  *)
LEMMA PricingChanges ==
    ASSUME PricingInv, Pricing!CatalogueChanges PROVE PricingInv'
<1>0. /\ PriceTypes /\ TagTells /\ NewsHold /\ OneFetch
      /\ uses.lost \/ Mirrored
      /\ prices \in PriceRecords /\ outcomes \in Seq(Outcomes) /\ version \in 1 .. 2
      /\ files.tag \in 0 .. 2 /\ fetcher.version \in 1 .. 2
  BY DEF PricingInv, PriceTypes, PriceRecords, Versions
<1>1. /\ version + 1 \in Versions /\ version' = version + 1
      /\ prices' = [prices EXCEPT !.checked = FALSE]
      /\ UNCHANGED <<files, fetcher, errands, outcomes, uses>>
  BY PriceSets DEF Pricing!CatalogueChanges
<1>2. version < version' /\ version' \in 1 .. 2 BY <1>0, <1>1 DEF Versions
<1>3. /\ prices' \in PriceRecords /\ prices'.raced = prices.raced /\ ~prices'.checked
      /\ prices'.settings = prices.settings /\ prices'.index = prices.index
  BY <1>0, <1>1 DEF PriceRecords
<1>4. PriceTypes' BY <1>0, <1>1, <1>3 DEF PriceTypes, PriceRecords
<1>5. TagTells'
  <2>1. files.tag <= version /\ files.tag <= version' /\ files.tag # version'
    BY <1>0, <1>2 DEF TagTells
  <2>2. fetcher.version <= version => fetcher.version <= version' BY <1>0, <1>2
  <2> QED BY <1>0, <1>1, <2>1, <2>2 DEF TagTells
<1>6. ASSUME NEW i \in DOMAIN outcomes, outcomes[i].type = "fetched"
      PROVE  outcomes[i].version <= version' /\ outcomes[i].version # version'
  <2>1. outcomes[i] \in Outcomes BY <1>0
  <2>2. outcomes[i].version \in 1 .. 2 BY <1>6, <2>1 DEF Outcomes, Versions
  <2>3. outcomes[i].version <= version BY <1>0, <1>6 DEF NewsHold
  <2> QED BY <1>0, <1>2, <2>2, <2>3
<1>7. NewsHold' BY <1>0, <1>1, <1>6 DEF NewsHold
<1>8. Confirmed' BY <1>3 DEF Confirmed
<1>9. Mirrored => Mirrored' BY <1>1, <1>3 DEF Mirrored, Cold
<1>10. \A d, t : Tagged(d, t)' <=> Tagged(d, t) BY <1>1 DEF Tagged
<1>11. OneFetch' BY <1>0, <1>1, <1>3, <1>6, <1>10 DEF OneFetch, Confirms
<1> QED BY <1>0, <1>1, <1>4, <1>5, <1>7, <1>8, <1>9, <1>11 DEF PricingInv

(* The process ends, between the tag and the index too, and starts again.  *)
LEMMA PricingRestart ==
    ASSUME PricingInv, Pricing!Restart PROVE PricingInv'
<1> DEFINE lost == uses.lost \/ fetcher.at = "index"
<1>0. /\ PriceTypes /\ TagTells /\ files.tag <= version
      /\ uses \in [requests : Nat, faults : Nat, lost : BOOLEAN]
  BY DEF PricingInv, PriceTypes, TagTells
<1>1. /\ uses' = [uses EXCEPT !.faults = @ + 1, !.lost = lost]
      /\ fetcher' = Pricing!NoReply /\ errands' = <<>> /\ outcomes' = <<>>
      /\ prices' = Pricing!Unloaded /\ UNCHANGED <<version, files>>
  <2>1. uses' = [uses EXCEPT !.faults = @ + 1, !.lost = @ \/ (fetcher.at = "index")]
    BY DEF Pricing!Restart, Pricing!Fault
  <2> QED BY <1>0, <2>1 DEF Pricing!Restart
<1>2. lost \in BOOLEAN /\ (~lost => ~uses.lost /\ fetcher.at # "index") OBVIOUS
<1> HIDE DEF lost
<1>3. uses' \in [requests : Nat, faults : Nat, lost : BOOLEAN] /\ uses'.lost = lost
  <2>1. uses.faults + 1 \in Nat BY <1>0
  <2> QED BY <1>0, <1>1, <1>2, <2>1
<1>4. /\ fetcher' = [at |-> "none", config |-> Pricing!NoIndex.config, tag |-> 0, version |-> 1]
      /\ prices' = [source |-> "none", settings |-> "none", index |-> Pricing!NoPrices,
                    busy |-> FALSE, ready |-> FALSE, checked |-> FALSE, raced |-> FALSE]
  BY <1>1 DEF Pricing!NoReply, Pricing!NoTag, Pricing!Unloaded
<1>5. PriceTypes'
  <2>1. fetcher' \in [at : {"none", "sent", "tag", "index"}, config : Configs, tag : 0 .. 2,
                      version : Versions]
    BY <1>4, PriceSets DEF Versions
  <2>2. prices' \in PriceRecords BY <1>4, PriceSets DEF PriceRecords
  <2> QED BY <1>0, <1>1, <1>3, <2>1, <2>2 DEF PriceTypes, PriceRecords
<1>6. TagTells'
  <2>1. fetcher'.at = "none" BY <1>4
  <2> QED BY <1>0, <1>1, <1>2, <1>3, <2>1 DEF TagTells
<1>7. NoFetch(errands)' /\ NoFetched(outcomes)' BY <1>1 DEF NoFetch, NoFetched
<1>8. Mirrored' BY <1>1, <1>4, <1>7 DEF Mirrored, Agrees, Cold
<1>9. OneFetch' BY <1>1, <1>4, <1>7 DEF OneFetch, OnlyOne
<1>10. NewsHold' /\ Confirmed' BY <1>1, <1>4 DEF NewsHold, Confirmed
<1> QED BY <1>5, <1>6, <1>8, <1>9, <1>10 DEF PricingInv

(* A step of the sum is a step of the price list, or leaves it alone.      *)
LEMMA PricingAlone == [Next]_vars => [Pricing!Next]_pricingVars
BY DEF Next, vars, OnlyEthernet, OnlyTailscale, OnlyUsage, OnlyHolidays, OnlyPricing,
       OnlySearch, OnlyProbe, pricingVars

(* The prices keep their invariant through the steps of all components.    *)
LEMMA PricingInvariant == Spec => []PricingInv
<1>1. Init => PricingInv BY PricingInit DEF Init
<1>2. PricingInv /\ [Next]_vars => PricingInv'
  <2> SUFFICES ASSUME PricingInv, [Next]_vars PROVE PricingInv'
    OBVIOUS
  <2>1. CASE Pricing!Next
    BY <2>1, PricingCalls, PricingReplies, PricingWrites, PricingRequests, PricingSource,
       PricingLoaded, PricingFetched, PricingChanges, PricingRestart
    DEF Pricing!Next, Pricing!Worker, Pricing!GuiHears
  <2>2. CASE UNCHANGED pricingVars
    BY <2>2 DEF pricingVars, PricingInv, PriceTypes, TagTells, NewsHold, OneFetch, Confirmed,
                Mirrored, Cold, Tagged
  <2> QED BY <2>1, <2>2, PricingAlone
<1> QED BY <1>1, <1>2, PTL DEF Spec

(* A version of the catalogue is finite.                                   *)
LEMMA FewOwners == \A v \in Versions : IsFiniteSet(Catalogues[v])
<1>1. ASSUME NEW a, NEW b, NEW c, NEW d
      PROVE  IsFiniteSet({a, b, c}) /\ IsFiniteSet({a, b, c, d})
  <2>1. IsFiniteSet({a} \cup {b}) BY FS_Singleton, FS_Union
  <2>2. IsFiniteSet(({a} \cup {b}) \cup {c}) BY <2>1, FS_Singleton, FS_Union
  <2>3. IsFiniteSet((({a} \cup {b}) \cup {c}) \cup {d}) BY <2>2, FS_Singleton, FS_Union
  <2>4. {a, b, c} = ({a} \cup {b}) \cup {c} OBVIOUS
  <2>5. {a, b, c, d} = (({a} \cup {b}) \cup {c}) \cup {d} OBVIOUS
  <2> QED BY <2>2, <2>3, <2>4, <2>5
<1>2. IsFiniteSet(Catalogues[1]) BY <1>1 DEF Catalogues
<1>3. IsFiniteSet(Catalogues[2]) BY <1>1 DEF Catalogues
<1> QED BY <1>2, <1>3 DEF Versions

(* No price in a list is a gateway's: a model's official owner is chosen   *)
(* among the owners that are none, of which there is one at most here.     *)
LEMMA NoGateway ==
    ASSUME NEW v \in Versions, NEW c \in Configs, NEW m \in DOMAIN Pricing!Index(v, c)
    PROVE  Pricing!Index(v, c)[m].npm \notin Markers[c]
<1> DEFINE owners == Catalogues[v]
           own == Pricing!Official(owners, Markers[c], m)
           best(o) == \A p \in own :
                         ~Pricing!Better(owners, p, o)
                         /\ (Pricing!Better(owners, o, p) \/ o.provider <= p.provider)
<1>1. /\ own # {} /\ Pricing!Index(v, c)[m] = CHOOSE o \in own : best(o)
  BY DEF Pricing!Index, Pricing!BuildPriceIndex
<1>2. ASSUME NEW x \in own, own = {x} PROVE best(x)
  <2>1. x.provider \in Nat
    BY <1>2 DEF Pricing!Official, Catalogues, Owner, Versions
  <2>2. Pricing!Owned(owners, x.provider) \in Nat /\ Pricing!InFamily(owners, x) \in Nat
    <3>1. \A S : Pricing!Cardinality(S) = Cardinality(S)
      BY DEF Pricing!Cardinality, Cardinality
    <3>2. IsFiniteSet(owners) BY FewOwners
    <3>3. /\ Cardinality({o \in owners : o.provider = x.provider}) \in Nat
          /\ Cardinality({o \in owners : o.provider = x.provider /\ o.family = x.family}) \in Nat
      BY <3>2, FS_Subset, FS_CardinalityType
    <3> QED BY <3>1, <3>3 DEF Pricing!Owned, Pricing!InFamily
  <2>3. ~Pricing!Better(owners, x, x) BY <2>2 DEF Pricing!Better
  <2> QED BY <1>2, <2>1, <2>3
<1>3. CASE c = "plain"
  <2>1. \E x \in own : own = {x}
    BY <1>1, <1>3 DEF Pricing!Official, Catalogues, Owner, Versions, Markers
  <2>2. (CHOOSE o \in own : best(o)) \in own BY <1>2, <2>1
  <2> QED BY <1>1, <2>2 DEF Pricing!Official
<1>4. CASE c # "plain"
  <2>1. Markers[c] = {} BY <1>4 DEF Configs, Markers
  <2> QED BY <2>1
<1> QED BY <1>3, <1>4

(* PricesCurrent holds for any number of requests, failed writes and       *)
(* restarts: what a check has confirmed is the catalogue's list under the  *)
(* markers in force (ModelPricing.cpp).                                    *)
THEOREM PricesStayCurrent == Spec => []PricesCurrent
<1>1. PricingInv => Pricing!PricesCurrent
  <2> SUFFICES ASSUME PricingInv, prices.checked, prices.settings # "none"
               PROVE  /\ prices.index = Pricing!Index(version, prices.settings)
                      /\ \A m \in DOMAIN prices.index :
                            prices.index[m].npm \notin Markers[prices.settings]
    BY DEF Pricing!PricesCurrent
  <2>1. prices.index = Pricing!Index(version, prices.settings) BY DEF PricingInv, Confirmed
  <2>2. version \in Versions /\ prices.settings \in Configs BY DEF PricingInv, PriceTypes
  <2> QED BY <2>1, <2>2, NoGateway
<1> QED BY <1>1, PricingInvariant, PTL DEF PricesCurrent

-----------------------------------------------------------------------------
(* UsageMonitor.                                                           *)

(* The sums of the module are those of Collections.                        *)
LEMMA UsageTotal == \A w, S : Usage!Total(w, S) = Total(w, S)
BY Zenon DEF Usage!Total, Total

(* And so are its sizes.                                                   *)
LEMMA UsageCounts == \A S : Usage!Cardinality(S) = Cardinality(S)
BY Zenon DEF Usage!Cardinality, Cardinality

(* The largest of a finite set of numbers.                                 *)
LEMMA UsageMax ==
    ASSUME NEW S \in SUBSET Nat, IsFiniteSet(S), S # {}
    PROVE  Usage!Max(S) \in S /\ \A k \in S : k <= Usage!Max(S)
<1>1. \E m \in S : \A k \in S : m >= k BY LargestNat
<1>2. Usage!Max(S) \in S /\ \A k \in S : Usage!Max(S) >= k BY <1>1 DEF Usage!Max
<1>3. Usage!Max(S) \in Nat /\ \A k \in S : k \in Nat BY <1>2
<1> QED BY <1>2, <1>3

(* The rows of a file.                                                     *)
LEMMA RowsAre ==
    ASSUME NEW f \in Files
    PROVE  /\ IsFiniteSet(DOMAIN Rows[f])
           /\ \A i \in DOMAIN Rows[f] : Rows[f][i].tokens \in Nat /\ Rows[f][i].today \in BOOLEAN
<1>1. Rows[f] \in Seq([key : STRING, tokens : Nat, today : BOOLEAN]) BY RowsAssumption
<1>2. DOMAIN Rows[f] = 1 .. Len(Rows[f]) /\ Len(Rows[f]) \in Nat BY <1>1
<1>3. IsFiniteSet(1 .. Len(Rows[f])) BY <1>2, FS_Interval
<1>4. \A i \in DOMAIN Rows[f] : Rows[f][i] \in [key : STRING, tokens : Nat, today : BOOLEAN]
  <2>1. \A E : \A s \in Seq(E) : \A i \in DOMAIN s : s[i] \in E OBVIOUS
  <2> QED BY <1>1, <2>1, Zenon
<1> QED BY <1>2, <1>3, <1>4

(* What the queries of an OpenCode database add up: today's is part of     *)
(* all.                                                                    *)
LEMMA TokensAre ==
    ASSUME NEW f \in Files
    PROVE  /\ Usage!Today[f] \in Nat /\ Usage!Always[f] \in Nat
           /\ Usage!Today[f] <= Usage!Always[f]
<1> DEFINE D == DOMAIN Rows[f]
           w == [i \in D |-> Rows[f][i].tokens]
           A == {i \in D : Rows[f][i].today \in {TRUE}}
           B == {i \in D : Rows[f][i].today \in BOOLEAN}
<1>1. IsFiniteSet(D) /\ (\A i \in D : w[i] \in Nat) /\ A \in SUBSET D /\ B = D BY RowsAre
<1>2. Usage!Today[f] = Total(w, A) /\ Usage!Always[f] = Total(w, B)
  BY UsageTotal DEF Usage!Today, Usage!Always, Usage!Tokens
<1> HIDE DEF w, A, B, D
<1>3. Total(w, A) \in Nat /\ Total(w, B) \in Nat
  <2>1. \A T \in SUBSET D : Total(w, T) \in Nat BY <1>1, TotalSteps
  <2> QED BY <1>1, <2>1
<1>4. Total(w, A) <= Total(w, D)
  <2>1. \A i \in D : w[i] \in Nat /\ w[i] \in Nat /\ w[i] <= w[i] BY <1>1
  <2> QED BY <1>1, <2>1, TotalGrows
<1> QED BY <1>1, <1>2, <1>3, <1>4

(* The turns of a file: each has the largest count of its rows.            *)
LEMMA TurnsAre ==
    ASSUME NEW f \in Files
    PROVE  /\ IsFiniteSet(Usage!Keys(f))
           /\ \A k \in Usage!Keys(f) : Usage!FileTurns[f][k].tokens \in Nat
           /\ \A i \in DOMAIN Rows[f] :
                /\ Rows[f][i].key \in Usage!Keys(f)
                /\ Rows[f][i].tokens <= Usage!FileTurns[f][Rows[f][i].key].tokens
<1>1. IsFiniteSet(Usage!Keys(f))
  <2> DEFINE g == [i \in DOMAIN Rows[f] |-> Rows[f][i].key]
  <2>1. IsFiniteSet({g[i] : i \in DOMAIN Rows[f]})
    <3> HIDE DEF g
    <3> QED BY RowsAre, FiniteImage
  <2>2. {g[i] : i \in DOMAIN Rows[f]} = Usage!Keys(f) BY DEF Usage!Keys
  <2> QED BY <2>1, <2>2
<1>2. ASSUME NEW k \in Usage!Keys(f)
      PROVE  /\ Usage!FileTurns[f][k].tokens \in Nat
             /\ \A i \in Usage!RowsOf(f, k) : Rows[f][i].tokens <= Usage!FileTurns[f][k].tokens
  <2> DEFINE I == Usage!RowsOf(f, k)
             g == [i \in I |-> Rows[f][i].tokens]
             T == {Rows[f][i].tokens : i \in I}
  <2>1. I \in SUBSET DOMAIN Rows[f] /\ I # {} BY DEF Usage!RowsOf, Usage!Keys
  <2>2. IsFiniteSet(I) BY <2>1, RowsAre, FS_Subset
  <2>3. IsFiniteSet(T)
    <3>1. IsFiniteSet({g[i] : i \in I})
      <4> HIDE DEF g, I
      <4> QED BY <2>2, FiniteImage
    <3>2. {g[i] : i \in I} = T OBVIOUS
    <3> QED BY <3>1, <3>2
  <2>4. T \in SUBSET Nat /\ T # {} BY <2>1, RowsAre
  <2>5. Usage!FileTurns[f][k].tokens = Usage!Max(T)
    BY DEF Usage!FileTurns, Usage!FileTurn
  <2>6. \A i \in I : Rows[f][i].tokens \in T OBVIOUS
  <2> HIDE DEF T, I
  <2>7. Usage!Max(T) \in T /\ \A n \in T : n <= Usage!Max(T) BY <2>3, <2>4, UsageMax
  <2> QED BY <2>4, <2>5, <2>6, <2>7 DEF I
<1>3. ASSUME NEW i \in DOMAIN Rows[f]
      PROVE  Rows[f][i].key \in Usage!Keys(f) /\ i \in Usage!RowsOf(f, Rows[f][i].key)
  BY DEF Usage!Keys, Usage!RowsOf
<1> QED BY <1>1, <1>2, <1>3

(* The keys of all files, and the largest count of each.                   *)
LEMMA BestIs ==
    /\ IsFiniteSet(Usage!AllKeys)
    /\ \A f \in Files : Usage!Keys(f) \in SUBSET Usage!AllKeys
    /\ \A k \in Usage!AllKeys : Usage!Best[k] \in Nat
    /\ \A f \in Files : \A k \in Usage!Keys(f) : Usage!FileTurns[f][k].tokens <= Usage!Best[k]
<1>1. IsFiniteSet(Usage!AllKeys)
  <2> DEFINE g == [f \in Files |-> Usage!Keys(f)]
             T == {g[f] : f \in Files}
  <2>1. \A f \in Files : IsFiniteSet(Usage!Keys(f)) BY TurnsAre
  <2>2. IsFiniteSet(T)
    <3>1. IsFiniteSet(Files) BY RowsAssumption
    <3> HIDE DEF g
    <3> QED BY <3>1, FiniteImage
  <2>3. \A X \in T : IsFiniteSet(X) BY <2>1
  <2>4. UNION T = Usage!AllKeys BY DEF Usage!AllKeys
  <2> HIDE DEF T
  <2> QED BY <2>2, <2>3, <2>4, FS_UNION
<1>2. \A f \in Files : Usage!Keys(f) \in SUBSET Usage!AllKeys BY DEF Usage!AllKeys
<1>3. ASSUME NEW k \in Usage!AllKeys
      PROVE  /\ Usage!Best[k] \in Nat
             /\ \A f \in Files : k \in Usage!Keys(f) => Usage!FileTurns[f][k].tokens <= Usage!Best[k]
  <2> DEFINE F == {f \in Files : k \in Usage!Keys(f)}
             g == [f \in F |-> Usage!FileTurns[f][k].tokens]
             T == {Usage!FileTurns[f][k].tokens : f \in F}
  <2>1. F \in SUBSET Files /\ F # {} BY DEF Usage!AllKeys
  <2>2. IsFiniteSet(F) BY <2>1, RowsAssumption, FS_Subset
  <2>3. IsFiniteSet(T)
    <3>1. IsFiniteSet({g[f] : f \in F})
      <4> HIDE DEF g, F
      <4> QED BY <2>2, FiniteImage
    <3>2. {g[f] : f \in F} = T OBVIOUS
    <3> QED BY <3>1, <3>2
  <2>4. T \in SUBSET Nat /\ T # {} BY <2>1, TurnsAre
  <2>5. Usage!Best[k] = Usage!Max(T) BY DEF Usage!Best
  <2>6. \A f \in F : Usage!FileTurns[f][k].tokens \in T OBVIOUS
  <2>7. Usage!Max(T) \in T /\ \A n \in T : n <= Usage!Max(T)
    <3> HIDE DEF T
    <3> QED BY <2>3, <2>4, UsageMax
  <2> HIDE DEF T
  <2> QED BY <2>4, <2>5, <2>6, <2>7
<1> QED BY <1>1, <1>2, <1>3

(* The keys that are new in a file add what the best counts allow.         *)
LEMMA CountedIs ==
    ASSUME NEW f \in Files, NEW ks \in SUBSET Usage!Keys(f)
    PROVE  /\ Usage!Counted(f, ks) \in Nat
           /\ Usage!Counted(f, ks) <= Total(Usage!Best, ks)
           /\ \A few \in SUBSET ks : /\ Usage!Counted(f, few) \in Nat
                                    /\ Usage!Counted(f, few) <= Usage!Counted(f, ks)
<1> DEFINE K == Usage!Keys(f)
           w == [k \in K |-> Usage!FileTurns[f][k].tokens]
<1>1. IsFiniteSet(K) /\ \A k \in K : w[k] \in Nat BY TurnsAre
<1>2. \A X : Usage!Counted(f, X) = Total(w, X) BY UsageTotal DEF Usage!Counted
<1>3. \A k \in K : Usage!Best[k] \in Nat /\ w[k] \in Nat /\ w[k] <= Usage!Best[k]
  <2>1. \A k \in K : k \in Usage!AllKeys BY BestIs
  <2>2. \A k \in K : w[k] = Usage!FileTurns[f][k].tokens OBVIOUS
  <2> HIDE DEF w
  <2> QED BY <1>1, <2>1, <2>2, BestIs
<1> HIDE DEF w
<1>4. \A X \in SUBSET K : Total(w, X) \in Nat
  <2> HIDE DEF K
  <2> QED BY <1>1, TotalSteps
<1>5. IsFiniteSet(ks) BY <1>1, FS_Subset
<1>6. Total(w, ks) <= Total(Usage!Best, ks)
  <2>1. \A k \in ks : Usage!Best[k] \in Nat /\ w[k] \in Nat /\ w[k] <= Usage!Best[k] BY <1>3
  <2>2. ks \in SUBSET ks OBVIOUS
  <2> HIDE DEF K
  <2> QED BY <1>5, <2>1, <2>2, TotalGrows
<1>7. ASSUME NEW few \in SUBSET ks PROVE Total(w, few) <= Total(w, ks)
  <2>1. \A k \in ks : w[k] \in Nat /\ w[k] \in Nat /\ w[k] <= w[k]
    <3>1. \A k \in ks : w[k] \in Nat BY <1>1
    <3> QED BY <3>1
  <2> HIDE DEF K
  <2> QED BY <1>5, <2>1, TotalGrows
<1>8. \A few \in SUBSET ks : Total(w, few) \in Nat BY <1>4
<1> QED BY <1>2, <1>4, <1>6, <1>7, <1>8

(* The best counts of all keys add up to at least one token, and to more   *)
(* than those of some.                                                     *)
LEMMA BestOfAllIs ==
    /\ Usage!BestOfAll \in Nat /\ Usage!BestOfAll >= 1
    /\ \A ks \in SUBSET Usage!AllKeys : Total(Usage!Best, ks) \in Nat
    /\ \A ks \in SUBSET Usage!AllKeys : Total(Usage!Best, ks) <= Usage!BestOfAll
    /\ \A ks, new \in SUBSET Usage!AllKeys :
         ks \cap new = {} =>
           Total(Usage!Best, ks \cup new) = Total(Usage!Best, ks) + Total(Usage!Best, new)
<1> DEFINE K == Usage!AllKeys
           b == Usage!Best
<1>1. IsFiniteSet(K) /\ \A k \in K : b[k] \in Nat BY BestIs
<1>2. Usage!BestOfAll = Total(b, K) BY UsageTotal DEF Usage!BestOfAll
<1>3. PICK f \in Files : \E i \in DOMAIN Rows[f] : Rows[f][i].tokens > 0 BY RowsAssumption
<1>4. PICK i \in DOMAIN Rows[f] : Rows[f][i].tokens > 0 BY <1>3
<1> DEFINE k == Rows[f][i].key
<1>5. k \in K /\ b[k] >= 1
  <2>1. k \in Usage!Keys(f) /\ Rows[f][i].tokens <= Usage!FileTurns[f][k].tokens BY TurnsAre
  <2>2. k \in K /\ b[k] \in Nat /\ Usage!FileTurns[f][k].tokens <= b[k] BY <2>1, BestIs
  <2>3. Rows[f][i].tokens \in Nat /\ Usage!FileTurns[f][k].tokens \in Nat BY <2>1, RowsAre, TurnsAre
  <2> HIDE DEF k, b, K
  <2> QED BY <1>4, <2>1, <2>2, <2>3
<1> HIDE DEF K, b, k
<1>6. \A ks \in SUBSET K : Total(b, ks) \in Nat BY <1>1, TotalSteps
<1>7. ASSUME NEW ks \in SUBSET K PROVE Total(b, ks) <= Total(b, K)
  <2>1. \A x \in K : b[x] \in Nat /\ b[x] \in Nat /\ b[x] <= b[x] BY <1>1
  <2> QED BY <1>1, <2>1, TotalGrows
<1>8. ASSUME NEW ks \in SUBSET K, NEW new \in SUBSET K, ks \cap new = {}
      PROVE  Total(b, ks \cup new) = Total(b, ks) + Total(b, new)
  BY <1>1, <1>8, TotalJoin
<1>9. Total(b, K) \in Nat /\ Total(b, K) >= 1
  <2>1. Additive(b, K) BY <1>1, TotalAdd
  <2>2. Total(b, K) = b[k] + Total(b, K \ {k}) BY <1>5, <2>1 DEF Additive
  <2>3. Total(b, K \ {k}) \in Nat /\ Total(b, K) \in Nat BY <1>6
  <2> QED BY <1>1, <1>5, <2>2, <2>3
<1> QED BY <1>2, <1>6, <1>7, <1>8, <1>9 DEF K, b

-----------------------------------------------------------------------------
\* What a collection has added up so far, of its databases.
Summed(collector) ==
    {s \in [today : Nat, all : Nat, seen : SUBSET Usage!AllKeys, readable : Nat, torn : BOOLEAN] :
       /\ s.torn \/ s.today <= s.all
       /\ collector = "antigravity" => ~s.torn /\ s.all <= Total(Usage!Best, s.seen)}

(* One more OpenCode database.                                             *)
LEMMA OpenCodeAdds ==
    ASSUME NEW s \in Summed("opencode"), NEW f \in Files,
           NEW outcome \in {"read", "torn", "unreadable"}
    PROVE  Usage!AddOpenCode(s, f, outcome) \in Summed("opencode")
<1> DEFINE R == [today : Nat, all : Nat, seen : SUBSET Usage!AllKeys, readable : Nat, torn : BOOLEAN]
           x == Usage!Today[f]
           y == Usage!Always[f]
<1>1. s \in R /\ (s.torn \/ s.today <= s.all) BY DEF Summed
<1>2. x \in Nat /\ y \in Nat /\ x <= y BY TokensAre
<1> HIDE DEF x, y
<1>3. s.today + x \in Nat /\ s.all + y \in Nat /\ s.readable + 1 \in Nat BY <1>1, <1>2
<1>4. CASE outcome = "unreadable" BY <1>4 DEF Usage!AddOpenCode
<1>5. CASE outcome = "torn"
  <2> DEFINE t == [s EXCEPT !.today = @ + x, !.torn = TRUE]
  <2>1. t \in R /\ t.torn BY <1>1, <1>3
  <2>2. Usage!AddOpenCode(s, f, outcome) = t BY <1>5 DEF Usage!AddOpenCode, x
  <2> HIDE DEF t
  <2> QED BY <2>1, <2>2 DEF Summed
<1>6. CASE outcome = "read"
  <2> DEFINE t == [s EXCEPT !.today = @ + x, !.all = @ + y, !.readable = @ + 1]
  <2>1. t \in R /\ t.torn = s.torn /\ t.today = s.today + x /\ t.all = s.all + y BY <1>1, <1>3
  <2>2. t.torn \/ t.today <= t.all BY <1>1, <1>2, <2>1
  <2>3. Usage!AddOpenCode(s, f, outcome) = t BY <1>6 DEF Usage!AddOpenCode, x, y
  <2> HIDE DEF t
  <2> QED BY <2>1, <2>2, <2>3 DEF Summed
<1> QED BY <1>4, <1>5, <1>6

(* One more antigravity database: it adds the turns not seen before, at    *)
(* most at their best.                                                     *)
LEMMA AntigravityAdds ==
    ASSUME NEW s \in Summed("antigravity"), NEW f \in Files, NEW outcome
    PROVE  Usage!AddAntigravity(s, f, outcome) \in Summed("antigravity")
<1> DEFINE R == [today : Nat, all : Nat, seen : SUBSET Usage!AllKeys, readable : Nat, torn : BOOLEAN]
           new == Usage!Keys(f) \ s.seen
           few == {k \in new : Usage!FileTurns[f][k].today}
           x == Usage!Counted(f, few)
           y == Usage!Counted(f, new)
           t == [s EXCEPT !.today = @ + x, !.all = @ + y, !.seen = @ \cup new, !.readable = @ + 1]
<1>1. /\ s \in R /\ ~s.torn /\ s.today <= s.all /\ s.all <= Total(Usage!Best, s.seen)
      /\ s.seen \in SUBSET Usage!AllKeys
  BY DEF Summed
<1>2. Usage!AddAntigravity(s, f, outcome) = IF outcome # "read" THEN s ELSE t
  BY DEF Usage!AddAntigravity
<1>3. new \in SUBSET Usage!Keys(f) /\ few \in SUBSET new /\ s.seen \cap new = {} OBVIOUS
<1>4. new \in SUBSET Usage!AllKeys /\ s.seen \cup new \in SUBSET Usage!AllKeys
  <2>1. Usage!Keys(f) \in SUBSET Usage!AllKeys BY BestIs
  <2> QED BY <1>1, <2>1
<1> HIDE DEF few, new
<1>5. x \in Nat /\ y \in Nat /\ x <= y /\ y <= Total(Usage!Best, new) BY <1>3, CountedIs
<1>6. /\ Total(Usage!Best, s.seen \cup new) = Total(Usage!Best, s.seen) + Total(Usage!Best, new)
      /\ Total(Usage!Best, s.seen) \in Nat /\ Total(Usage!Best, new) \in Nat
  BY <1>1, <1>3, <1>4, BestOfAllIs
<1> HIDE DEF x, y
<1>7. s.today + x \in Nat /\ s.all + y \in Nat /\ s.readable + 1 \in Nat
  BY <1>1, <1>5
<1>8. /\ t \in R /\ t.torn = s.torn /\ t.today = s.today + x /\ t.all = s.all + y
      /\ t.seen = s.seen \cup new
  BY <1>1, <1>4, <1>7
<1>9. t.today <= t.all /\ t.all <= Total(Usage!Best, t.seen)
  <2>1. s.all \in Nat /\ s.today \in Nat BY <1>1
  <2>2. s.all + y <= Total(Usage!Best, s.seen) + Total(Usage!Best, new)
    BY <1>1, <1>5, <1>6, <2>1
  <2> HIDE DEF t
  <2> QED BY <1>1, <1>5, <1>6, <1>8, <2>1, <2>2
<1> HIDE DEF t
<1>10. t \in Summed("antigravity") BY <1>1, <1>8, <1>9 DEF Summed
<1> QED BY <1>2, <1>10

(* A collection over any order of the databases, whichever fail.           *)
LEMMA CollectedIs ==
    ASSUME disk.collector \in {"opencode", "antigravity"},
           NEW order, NEW L \in Nat, order \in [1 .. L -> Files],
           NEW outcome \in [Files -> {"read", "torn", "unreadable"}]
    PROVE  Usage!Collected(order, outcome) \in Summed(disk.collector)
<1> DEFINE D == 0 .. L
           V == Summed(disk.collector)
           add(n, s) == Usage!Added(s, order[n], outcome[order[n]])
           base == [n \in {0} |-> Usage!Fresh]
           next == [n \in D \ {0} |-> n - 1]
           step == [x \in D \X V |-> IF x[1] = 0 THEN x[2] ELSE add(x[1], x[2])]
           rank == [n \in D |-> n]
           F(sum) == [n \in 0 .. Len(order) |-> IF n = 0 THEN Usage!Fresh ELSE add(n, sum[n - 1])]
           U == CHOOSE sum : sum = F(sum)
<1>1. Len(order) = L /\ \A n \in 1 .. L : order[n] \in Files
  OBVIOUS
<1>2. Usage!Fresh \in V
  <2> DEFINE z == Usage!Fresh
             R == [today : Nat, all : Nat, seen : SUBSET Usage!AllKeys, readable : Nat, torn : BOOLEAN]
  <2>1. Total(Usage!Best, {}) \in Nat BY BestOfAllIs
  <2>2. z \in R /\ z.today = 0 /\ z.all = 0 /\ z.torn = FALSE /\ z.seen = {} BY DEF Usage!Fresh
  <2> HIDE DEF z
  <2>3. z.today <= z.all /\ z.all <= Total(Usage!Best, z.seen) BY <2>1, <2>2
  <2>4. z \in V BY <2>2, <2>3 DEF Summed
  <2> QED BY <2>4 DEF z
<1>3. ASSUME NEW n \in 1 .. L, NEW s \in V PROVE add(n, s) \in V
  <2>1. order[n] \in Files /\ outcome[order[n]] \in {"read", "torn", "unreadable"} BY <1>1
  <2>2. CASE disk.collector = "opencode"
    BY <2>1, <2>2, OpenCodeAdds DEF Usage!Added
  <2>3. CASE disk.collector = "antigravity"
    BY <2>1, <2>3, AntigravityAdds DEF Usage!Added
  <2> QED BY <2>2, <2>3
<1> HIDE DEF V, add
<1>4. /\ {0} \in SUBSET D /\ base \in [{0} -> V] /\ base[0] = Usage!Fresh /\ next \in [D \ {0} -> D]
      /\ rank \in [D -> 0 .. L] /\ \A n \in D \ {0} : rank[next[n]] < rank[n]
      /\ \A n \in D \ {0} : next[n] = n - 1 /\ n - 1 \in D /\ n \in 1 .. L
      /\ 0 \in D
  BY <1>2
<1>5. step \in [D \X V -> V] /\ \A n \in D, s \in V : n # 0 => step[<<n, s>>] = add(n, s)
  <2>1. ASSUME NEW x \in D \X V PROVE (IF x[1] = 0 THEN x[2] ELSE add(x[1], x[2])) \in V
    <3>1. x[1] \in D /\ x[2] \in V OBVIOUS
    <3>2. x[1] # 0 => x[1] \in 1 .. L BY <3>1
    <3> QED BY <1>3, <3>1, <3>2
  <2> HIDE DEF D
  <2> QED BY <2>1
<1> HIDE DEF base, next, step, rank
<1>6. Recursive(D, V, {0}, base, next, step)
  <2> HIDE DEF D
  <2> QED BY <1>4, <1>5 DEF Recursive
<1>7. PICK g : Solution(g, D, V, {0}, base, next, step) BY <1>6, Recursion
<1>8. /\ g \in [D -> V]
      /\ \A d \in D : g[d] = IF d \in {0} THEN base[d] ELSE step[<<d, g[next[d]]>>]
      /\ \A f : (/\ f = [d \in D |-> f[d]]
                 /\ \A d \in {0} : f[d] = base[d]
                 /\ \A d \in D \ {0} : f[next[d]] \in V => f[d] = step[<<d, f[next[d]]>>])
                => f = g
  BY <1>7 DEF Solution
<1>9. \A n \in D : g[n] = IF n = 0 THEN Usage!Fresh ELSE add(n, g[n - 1])
  <2> HIDE DEF D
  <2>1. ASSUME NEW n \in D, n # 0 PROVE g[n] = add(n, g[n - 1])
    <3>1. next[n] = n - 1 /\ n - 1 \in D BY <1>4, <2>1
    <3>2. g[n] = step[<<n, g[n - 1]>>] /\ g[n - 1] \in V BY <1>8, <2>1, <3>1
    <3> QED BY <1>5, <2>1, <3>2
  <2> QED BY <1>4, <1>8, <2>1
<1>10. U = g
  <2>1. D = 0 .. Len(order) BY <1>1
  <2> HIDE DEF D
  <2>2. g = F(g)
    <3>1. g = [n \in D |-> g[n]] BY <1>8
    <3> QED BY <1>9, <2>1, <3>1
  <2>3. ASSUME NEW f, f = F(f) PROVE f = g
    <3>1. \A n \in 0 .. Len(order) : f[n] = IF n = 0 THEN Usage!Fresh ELSE add(n, f[n - 1])
      BY <2>3, Zenon
    <3>2. f = [n \in 0 .. Len(order) |-> f[n]] BY <2>3, <3>1, Zenon
    <3>3. f = [n \in D |-> f[n]] BY <2>1, <3>2
    <3>4. \A n \in {0} : f[n] = base[n] BY <1>4, <2>1, <3>1
    <3>5. ASSUME NEW n \in D \ {0}, f[next[n]] \in V PROVE f[n] = step[<<n, f[next[n]]>>]
      <4>1. next[n] = n - 1 BY <1>4
      <4>2. f[n] = add(n, f[n - 1]) BY <2>1, <3>1
      <4> QED BY <1>5, <3>5, <4>1, <4>2
    <3> QED BY <1>8, <3>3, <3>4, <3>5
  <2> HIDE DEF F
  <2> QED BY <2>2, <2>3
<1>11. Usage!Collected(order, outcome) = U[L]
  <2>1. Usage!Collected(order, outcome) = U[Len(order)] BY Zenon DEF Usage!Collected, add
  <2> QED BY <1>1, <2>1
<1>12. g[L] \in V BY <1>8
<1> HIDE DEF U
<1> QED BY <1>10, <1>11, <1>12 DEF V

-----------------------------------------------------------------------------
\* What may be shown: a cache that was never written, or the sums over a number of days.
Windows(collector) ==
    {w \in [days : 0..400, today : Nat, all : Nat, torn : BOOLEAN] :
       /\ w.torn \/ w.today <= w.all
       /\ w.torn => collector = "opencode"
       /\ collector = "antigravity" => w.all <= Usage!BestOfAll}
Days == 1..400
Dated(collector) == {w \in Windows(collector) : w.days \in Days}

\* The reports under way: the cache's and those of a collection.
CacheReports(collector) == [type : {"cached"}, windows : Dated(collector)]
Results(collector) ==
    [type : {"refreshed"}, ok : BOOLEAN, found : BOOLEAN, windows : Windows(collector)]
UsageReports(collector) == CacheReports(collector) \cup Results(collector)
Refreshes == Results("opencode") \cup Results("antigravity")

Shown(collector) ==
    [lastDays : Days, windows : Windows(collector), refreshed : BOOLEAN,
     configured : BOOLEAN, busy : BOOLEAN, error : BOOLEAN]

\* One refresh at most is queued or on its way back, and the busy flag says it; so
\* what is shown when there is none was asked for the days in force, or failed.
UsageInv ==
    /\ disk \in [collector : {"opencode", "antigravity"}, failed : 0..MaxFailures,
                 cache : Windows(disk.collector)]
    /\ disk.cache = Usage!Nothing \/ disk.cache.days \in Days
    /\ thread \in Seq(0..400)
    /\ results \in Seq(UsageReports(disk.collector))
    /\ usage \in Shown(disk.collector)
    /\ Count(thread, Days) + Count(results, Refreshes) = IF usage.busy THEN 1 ELSE 0
    /\ ~usage.busy /\ usage.refreshed => usage.error \/ usage.windows.days = usage.lastDays

(* None are counted where there are none.                                  *)
LEMMA NoneCounted ==
    ASSUME NEW q, NEW M
    PROVE  /\ Count(<<>>, M) = 0
           /\ Len(q) \in Nat => (Count(q, M) = 0 <=> ~\E i \in 1 .. Len(q) : q[i] \in M)
<1> DEFINE I == {i \in 1 .. Len(q) : q[i] \in M}
<1>1. {i \in 1 .. Len(<<>>) : <<>>[i] \in M} = {} OBVIOUS
<1>2. Count(<<>>, M) = 0 BY <1>1, FS_EmptySet DEF Count
<1>3. ASSUME Len(q) \in Nat PROVE Count(q, M) = 0 <=> I = {}
  <2>1. IsFiniteSet(I)
    <3>1. IsFiniteSet(1 .. Len(q)) BY <1>3, FS_Interval
    <3> QED BY <3>1, FS_Subset
  <2> HIDE DEF I
  <2>2. Cardinality(I) = 0 <=> I = {} BY <2>1, FS_EmptySet
  <2> QED BY <2>2 DEF Count, I
<1> QED BY <1>2, <1>3

(* What is shown of a cache that was never written.                        *)
LEMMA NothingShown ==
    \A c \in {"opencode", "antigravity"} : Usage!Nothing \in Windows(c)
<1> DEFINE z == Usage!Nothing
<1>1. z \in [days : 0..400, today : Nat, all : Nat, torn : BOOLEAN]
      /\ z.today = 0 /\ z.all = 0 /\ z.torn = FALSE
  BY DEF Usage!Nothing
<1>2. 0 <= Usage!BestOfAll /\ 0 <= 0 BY BestOfAllIs
<1> HIDE DEF z
<1>3. \A c \in {"opencode", "antigravity"} : z \in Windows(c) BY <1>1, <1>2 DEF Windows
<1> QED BY <1>3 DEF z

(* A new object, and a worker that has only been started.                  *)
LEMMA FreshUsage ==
    ASSUME disk.collector \in {"opencode", "antigravity"}
    PROVE  /\ Usage!NewObject \in Shown(disk.collector)
           /\ ~Usage!NewObject.busy /\ ~Usage!NewObject.refreshed
           /\ <<Usage!Load>> \in Seq(0..400) /\ Count(<<Usage!Load>>, Days) = 0
           /\ \A T : <<>> \in Seq(T)
           /\ Count(<<>>, Refreshes) = 0
<1>1. DefaultDays \in Days BY RowsAssumption DEF Days
<1>2. Usage!Nothing \in Windows(disk.collector) BY NothingShown
<1>3. Usage!NewObject \in Shown(disk.collector)
  BY <1>1, <1>2 DEF Usage!NewObject, Shown
<1>4. ~Usage!NewObject.busy /\ ~Usage!NewObject.refreshed BY DEF Usage!NewObject
<1>5. <<Usage!Load>> \in Seq(0..400) /\ Count(<<Usage!Load>>, Days) = 0
  <2> DEFINE q == <<Usage!Load>>
  <2>1. q \in Seq(0..400) /\ Len(q) = 1 /\ q[1] = 0 BY DEF Usage!Load
  <2>2. ~\E i \in 1 .. Len(q) : q[i] \in Days BY <2>1 DEF Days
  <2> HIDE DEF q
  <2>3. Count(q, Days) = 0 BY <2>1, <2>2, NoneCounted
  <2> QED BY <2>1, <2>3 DEF q
<1>6. \A T : <<>> \in Seq(T) OBVIOUS
<1> QED BY <1>3, <1>4, <1>5, <1>6, NoneCounted

(* Before the first step nothing is shown.                                 *)
LEMMA UsageInit == Usage!Init => UsageInv
<1> SUFFICES ASSUME Usage!Init PROVE UsageInv
  OBVIOUS
<1>1. /\ disk = [collector |-> disk.collector, failed |-> 0, cache |-> disk.cache]
      /\ disk.collector \in {"opencode", "antigravity"}
      /\ disk.cache \in {Usage!Nothing,
                         [days |-> DefaultDays, today |-> 1, all |-> 1, torn |-> FALSE]}
      /\ thread = <<Usage!Load>> /\ results = <<>> /\ usage = Usage!NewObject
  BY DEF Usage!Init
<1>2. 0 \in 0..MaxFailures BY BoundsAssumption
<1>3. /\ disk.cache \in Windows(disk.collector)
      /\ disk.cache = Usage!Nothing \/ disk.cache.days \in Days
  <2>1. CASE disk.cache = Usage!Nothing BY <1>1, <2>1, NothingShown
  <2>2. CASE disk.cache # Usage!Nothing
    <3> DEFINE w == [days |-> DefaultDays, today |-> 1, all |-> 1, torn |-> FALSE]
    <3>1. /\ w \in [days : 0..400, today : Nat, all : Nat, torn : BOOLEAN]
          /\ w.days \in Days /\ w.today = 1 /\ w.all = 1 /\ w.torn = FALSE
      BY RowsAssumption DEF Days
    <3>2. disk.cache = w BY <1>1, <2>2
    <3> HIDE DEF w
    <3>3. w.today <= w.all /\ w.all <= Usage!BestOfAll BY <3>1, BestOfAllIs
    <3>4. w \in Windows(disk.collector) BY <3>1, <3>3 DEF Windows
    <3> QED BY <3>1, <3>2, <3>4
  <2> QED BY <2>1, <2>2
<1>4. disk \in [collector : {"opencode", "antigravity"}, failed : 0..MaxFailures,
                cache : Windows(disk.collector)]
  BY <1>1, <1>2, <1>3
<1>5. Count(thread, Days) + Count(results, Refreshes) = IF usage.busy THEN 1 ELSE 0
  BY <1>1, FreshUsage
<1> QED BY <1>1, <1>3, <1>4, <1>5, FreshUsage DEF UsageInv

(* A job is taken from the worker's queue, and what it reports, if         *)
(* anything, is queued for the GUI.                                        *)
LEMMA UsageWorks ==
    ASSUME UsageInv, thread # <<>>, thread' = Tail(thread), usage' = usage,
           disk' \in [collector : {disk.collector}, failed : 0..MaxFailures,
                      cache : Windows(disk.collector)],
           disk'.cache = Usage!Nothing \/ disk'.cache.days \in Days,
           \/ Head(thread) = 0 /\ results' = results
           \/ Head(thread) = 0 /\ \E m \in CacheReports(disk.collector) : results' = Append(results, m)
           \/ Head(thread) # 0 /\ \E m \in Results(disk.collector) : results' = Append(results, m)
    PROVE  UsageInv'
<1> DEFINE c == disk.collector
<1>1. /\ c \in {"opencode", "antigravity"} /\ thread \in Seq(0..400)
      /\ results \in Seq(UsageReports(c)) /\ usage \in Shown(c)
      /\ Count(thread, Days) + Count(results, Refreshes) = IF usage.busy THEN 1 ELSE 0
      /\ ~usage.busy /\ usage.refreshed => usage.error \/ usage.windows.days = usage.lastDays
  BY DEF UsageInv
<1>2. disk'.collector = c
  OBVIOUS
<1>3. disk' \in [collector : {"opencode", "antigravity"}, failed : 0..MaxFailures,
                 cache : Windows(disk'.collector)]
  BY <1>1, <1>2
<1>4. /\ thread' \in Seq(0..400) /\ Head(thread) \in 0..400
      /\ Count(thread', Days) \in Nat
      /\ Count(thread, Days) = IF Head(thread) \in Days THEN Count(thread', Days) + 1
                               ELSE Count(thread', Days)
  <2>1. Head(thread) \in 0..400 /\ Tail(thread) \in Seq(0..400) BY <1>1, MessageTaken
  <2>2. /\ Count(Tail(thread), Days) \in Nat
        /\ Count(thread, Days) = IF Head(thread) \in Days THEN Count(Tail(thread), Days) + 1
                                 ELSE Count(Tail(thread), Days)
    BY <1>1, CountedTaken
  <2> QED BY <2>1, <2>2
<1>5. Head(thread) \in Days <=> Head(thread) # 0
  <2>1. \A n \in 0..400 : n \in Days <=> n # 0 BY DEF Days
  <2> QED BY <1>4, <2>1
<1>6. /\ \A m \in CacheReports(c) : m \in UsageReports(c) /\ m \notin Refreshes
      /\ \A m \in Results(c) : m \in UsageReports(c) /\ m \in Refreshes
  <2>1. \A m \in CacheReports(c) : m.type = "cached" BY DEF CacheReports
  <2>2. \A m \in Refreshes : m.type = "refreshed" BY DEF Refreshes, Results
  <2>3. \A m \in Results(c) : m \in Refreshes
    <3> HIDE DEF c
    <3> QED BY <1>1 DEF Refreshes
  <2> QED BY <2>1, <2>2, <2>3 DEF UsageReports
<1> HIDE DEF c
<1>7. /\ Count(results, Refreshes) \in Nat
      /\ \A m \in UsageReports(c) :
           Count(Append(results, m), Refreshes) =
             IF m \in Refreshes THEN Count(results, Refreshes) + 1 ELSE Count(results, Refreshes)
  BY <1>1, CountIsNumber, CountedAdded
<1>8. /\ results' \in Seq(UsageReports(c))
      /\ Count(thread', Days) + Count(results', Refreshes) = IF usage.busy THEN 1 ELSE 0
  <2>1. CASE Head(thread) = 0 /\ results' = results BY <1>1, <1>4, <1>5, <2>1
  <2>2. ASSUME NEW m \in CacheReports(c), Head(thread) = 0, results' = Append(results, m)
        PROVE  /\ results' \in Seq(UsageReports(c))
               /\ Count(thread', Days) + Count(results', Refreshes) = IF usage.busy THEN 1 ELSE 0
    <3>1. m \in UsageReports(c) /\ m \notin Refreshes BY <1>6
    <3>2. results' \in Seq(UsageReports(c)) BY <1>1, <2>2, <3>1
    <3>3. Count(results', Refreshes) = Count(results, Refreshes) BY <1>7, <2>2, <3>1
    <3> QED BY <1>1, <1>4, <1>5, <2>2, <3>2, <3>3
  <2>3. ASSUME NEW m \in Results(c), Head(thread) # 0, results' = Append(results, m)
        PROVE  /\ results' \in Seq(UsageReports(c))
               /\ Count(thread', Days) + Count(results', Refreshes) = IF usage.busy THEN 1 ELSE 0
    <3>1. m \in UsageReports(c) /\ m \in Refreshes BY <1>6
    <3>2. results' \in Seq(UsageReports(c)) BY <1>1, <2>3, <3>1
    <3>3. Count(results', Refreshes) = Count(results, Refreshes) + 1 BY <1>7, <2>3, <3>1
    <3> QED BY <1>1, <1>4, <1>5, <1>7, <2>3, <3>2, <3>3
  <2> QED BY <2>1, <2>2, <2>3 DEF c
<1> QED BY <1>1, <1>2, <1>3, <1>4, <1>8 DEF UsageInv, c

(* The worker loads its cache, collects, or finds nothing.                 *)
LEMMA UsageWorker ==
    ASSUME UsageInv, Usage!Worker
    PROVE  UsageInv'
<1> DEFINE c == disk.collector
<1>1. /\ c \in {"opencode", "antigravity"}
      /\ disk \in [collector : {c}, failed : 0..MaxFailures, cache : Windows(c)]
      /\ disk.cache = Usage!Nothing \/ disk.cache.days \in Days
      /\ disk.failed \in Nat /\ MaxFailures \in Nat
      /\ thread \in Seq(0..400)
  BY BoundsAssumption DEF UsageInv
<1> HIDE DEF c
<1>2. CASE Usage!LoadCache
  <2>1. thread # <<>> /\ Head(thread) = 0 /\ thread' = Tail(thread) /\ usage' = usage /\ disk' = disk
    BY <1>2 DEF Usage!LoadCache, Usage!Load
  <2>2. \/ results' = results
        \/ \E m \in CacheReports(c) : results' = Append(results, m)
    <3>1. CASE disk.cache = Usage!Nothing BY <1>2, <3>1 DEF Usage!LoadCache
    <3>2. CASE disk.cache # Usage!Nothing
      <4> DEFINE m == [type |-> "cached", windows |-> disk.cache]
      <4>1. results' = Append(results, m) BY <1>2, <3>2 DEF Usage!LoadCache
      <4>2. m \in CacheReports(c) BY <1>1, <3>2 DEF CacheReports, Dated
      <4> QED BY <4>1, <4>2
    <3> QED BY <3>1, <3>2
  <2> QED BY <1>1, <2>1, <2>2, UsageWorks DEF c
<1>3. CASE Usage!CollectUsage
  <2>1. thread # <<>> /\ Head(thread) # 0 /\ thread' = Tail(thread) /\ usage' = usage
    BY <1>3 DEF Usage!CollectUsage, Usage!Load
  <2>2. PICK order \in Usage!SetToSeqs(Files), outcome \in [Files -> {"read", "torn", "unreadable"}] :
          /\ disk.failed + Usage!Failing(outcome) <= MaxFailures
          /\ LET sum == Usage!Collected(order, outcome)
                 windows == [days |-> Head(thread), today |-> sum.today, all |-> sum.all,
                             torn |-> sum.torn]
                 ok == sum.readable > 0
             IN /\ results' = Append(results, [type |-> "refreshed", ok |-> ok, found |-> TRUE,
                                               windows |-> windows])
                /\ disk' = [disk EXCEPT !.failed = @ + Usage!Failing(outcome),
                                        !.cache = IF ok THEN windows ELSE @]
    BY <1>3, Zenon DEF Usage!CollectUsage
  <2> DEFINE sum == Usage!Collected(order, outcome)
             w == [days |-> Head(thread), today |-> sum.today, all |-> sum.all, torn |-> sum.torn]
             ok == sum.readable > 0
             m == [type |-> "refreshed", ok |-> ok, found |-> TRUE, windows |-> w]
             fails == Usage!Failing(outcome)
  <2>3. Cardinality(Files) \in Nat /\ order \in [1 .. Cardinality(Files) -> Files]
    <3>1. Cardinality(Files) \in Nat BY RowsAssumption, FS_CardinalityType
    <3>2. order \in [1 .. Usage!Cardinality(Files) -> Files] BY DEF Usage!SetToSeqs
    <3> QED BY <3>1, <3>2, UsageCounts
  <2>4. sum \in Summed(c) BY <1>1, <2>3, CollectedIs DEF c
  <2>5. fails \in Nat
    <3> DEFINE F == {f \in Files : outcome[f] # "read"}
    <3>1. IsFiniteSet(F) BY RowsAssumption, FS_Subset
    <3>2. fails = Cardinality(F) BY UsageCounts DEF Usage!Failing
    <3> HIDE DEF F
    <3> QED BY <3>1, <3>2, FS_CardinalityType
  <2>6. /\ disk.failed + fails <= MaxFailures
        /\ results' = Append(results, m)
        /\ disk' = [disk EXCEPT !.failed = @ + fails, !.cache = IF ok THEN w ELSE @]
    BY <2>2, Zenon
  <2> HIDE DEF fails, sum
  <2>7. /\ sum.today \in Nat /\ sum.all \in Nat /\ sum.torn \in BOOLEAN
        /\ sum.torn \/ sum.today <= sum.all
        /\ c = "antigravity" => ~sum.torn /\ sum.all <= Usage!BestOfAll
    <3>1. /\ sum.today \in Nat /\ sum.all \in Nat /\ sum.torn \in BOOLEAN
          /\ sum.seen \in SUBSET Usage!AllKeys
          /\ sum.torn \/ sum.today <= sum.all
          /\ c = "antigravity" => ~sum.torn /\ sum.all <= Total(Usage!Best, sum.seen)
      BY <2>4 DEF Summed
    <3>2. /\ Total(Usage!Best, sum.seen) \in Nat /\ Usage!BestOfAll \in Nat
          /\ Total(Usage!Best, sum.seen) <= Usage!BestOfAll
      BY <3>1, BestOfAllIs
    <3> QED BY <3>1, <3>2
  <2>8. Head(thread) \in 0..400 /\ Head(thread) \in Days BY <1>1, <2>1 DEF Days
  <2>9. w \in Windows(c) /\ w.days \in Days
    <3>1. /\ w \in [days : 0..400, today : Nat, all : Nat, torn : BOOLEAN]
          /\ w.days = Head(thread) /\ w.today = sum.today /\ w.all = sum.all /\ w.torn = sum.torn
      BY <2>7, <2>8
    <3> HIDE DEF w
    <3> QED BY <1>1, <2>7, <2>8, <3>1 DEF Windows
  <2>10. ok \in BOOLEAN OBVIOUS
  <2> HIDE DEF w, ok
  <2>11. m \in Results(c) BY <2>9, <2>10 DEF Results
  <2> HIDE DEF m
  <2>12. /\ disk' \in [collector : {c}, failed : 0..MaxFailures, cache : Windows(c)]
         /\ disk'.cache = Usage!Nothing \/ disk'.cache.days \in Days
    <3>1. disk.failed + fails \in 0..MaxFailures BY <1>1, <2>5, <2>6
    <3>2. CASE ok
      <4>1. disk' = [disk EXCEPT !.failed = disk.failed + fails, !.cache = w] BY <2>6, <3>2
      <4> QED BY <1>1, <2>9, <3>1, <4>1
    <3>3. CASE ~ok
      <4>1. disk' = [disk EXCEPT !.failed = disk.failed + fails, !.cache = disk.cache] BY <2>6, <3>3
      <4> QED BY <1>1, <3>1, <4>1
    <3> QED BY <3>2, <3>3
  <2> QED BY <2>1, <2>6, <2>11, <2>12, UsageWorks DEF c
<1>4. CASE Usage!FindNothing
  <2> DEFINE m == [type |-> "refreshed", ok |-> FALSE, found |-> FALSE, windows |-> Usage!Nothing]
  <2>1. /\ thread # <<>> /\ Head(thread) # 0 /\ thread' = Tail(thread) /\ usage' = usage
        /\ disk.failed < MaxFailures /\ disk' = [disk EXCEPT !.failed = @ + 1]
        /\ results' = Append(results, m)
    BY <1>4 DEF Usage!FindNothing, Usage!Load
  <2>2. m \in Results(c) BY <1>1, NothingShown DEF Results
  <2> HIDE DEF m
  <2>3. disk.failed + 1 \in 0..MaxFailures BY <1>1, <2>1
  <2>4. /\ disk' \in [collector : {c}, failed : 0..MaxFailures, cache : Windows(c)]
        /\ disk'.cache = disk.cache
    BY <1>1, <2>1, <2>3
  <2> QED BY <1>1, <2>1, <2>2, <2>4, UsageWorks DEF c
<1> QED BY <1>2, <1>3, <1>4 DEF Usage!Worker

(* A request for a number of days is one more of them.                     *)
LEMMA DaysAsked ==
    ASSUME NEW q \in Seq(0..400), NEW n \in 0..400, n \in Days
    PROVE  /\ Count(q, Days) \in Nat /\ Append(q, n) \in Seq(0..400)
           /\ Count(Append(q, n), Days) = Count(q, Days) + 1
<1>1. Append(q, n) \in Seq(0..400) BY MessageAdded
<1>2. Count(q, Days) \in Nat BY CountIsNumber
<1>3. Count(Append(q, n), Days) = Count(q, Days) + 1
  <2> DEFINE S == 0..400
  <2>1. q \in Seq(S) /\ n \in S OBVIOUS
  <2> HIDE DEF S
  <2> QED BY <2>1, CountedAdded
<1> QED BY <1>1, <1>2, <1>3

(* A refresh is asked for: it is queued, unless one is under way.          *)
LEMMA UsageAsks ==
    ASSUME UsageInv, UNCHANGED <<disk, results>>,
           NEW u \in Shown(disk.collector), u.busy = usage.busy,
           usage' = Usage!Refreshing(u), thread' = Usage!Requested(u)
    PROVE  UsageInv'
<1> DEFINE c == disk.collector
<1>1. /\ thread \in Seq(0..400)
      /\ Count(thread, Days) + Count(results, Refreshes) = IF usage.busy THEN 1 ELSE 0
      /\ usage \in Shown(c) /\ results \in Seq(UsageReports(c))
  BY DEF UsageInv
<1>2. usage.busy \in BOOLEAN /\ u.lastDays \in Days BY <1>1 DEF Shown
<1>3. usage' \in Shown(c) /\ usage'.busy
  BY DEF Usage!Refreshing, Shown
<1>4. /\ thread' \in Seq(0..400)
      /\ Count(thread', Days) + Count(results, Refreshes) = 1
  <2>1. CASE usage.busy BY <1>1, <2>1 DEF Usage!Requested
  <2>2. CASE ~usage.busy
    <3>1. thread' = Append(thread, u.lastDays) BY <2>2 DEF Usage!Requested
    <3>2. u.lastDays \in 0..400 BY <1>2 DEF Days
    <3>3. /\ Count(thread, Days) \in Nat /\ Append(thread, u.lastDays) \in Seq(0..400)
          /\ Count(Append(thread, u.lastDays), Days) = Count(thread, Days) + 1
      BY <1>1, <1>2, <3>2, DaysAsked
    <3>4. Count(results, Refreshes) \in Nat BY <1>1, CountIsNumber
    <3> QED BY <1>1, <2>2, <3>1, <3>3, <3>4
  <2> QED BY <1>2, <2>1, <2>2
<1>5. /\ UNCHANGED <<disk, results>>
  OBVIOUS
<1> QED BY <1>1, <1>3, <1>4, <1>5 DEF UsageInv, c

(* The user refreshes, or chooses another number of days.                  *)
LEMMA UsageChosen ==
    ASSUME UsageInv, Usage!Refresh \/ Usage!SetLastDays
    PROVE  UsageInv'
<1>1. usage \in Shown(disk.collector) BY DEF UsageInv
<1>2. CASE Usage!Refresh BY <1>1, <1>2, UsageAsks DEF Usage!Refresh
<1>3. CASE Usage!SetLastDays
  <2>1. UNCHANGED <<disk, results>> BY <1>3 DEF Usage!SetLastDays
  <2>2. PICK days \in DayChoices :
           LET u == [usage EXCEPT !.lastDays = Usage!Clamped(days)]
           IN usage' = Usage!Refreshing(u) /\ thread' = Usage!Requested(u)
    BY <1>3 DEF Usage!SetLastDays
  <2> DEFINE n == Usage!Clamped(days)
             u == [usage EXCEPT !.lastDays = n]
  <2>3. n \in Days
    <3>1. days \in Int BY RowsAssumption
    <3> QED BY <3>1 DEF Usage!Clamped, Days
  <2>4. usage' = Usage!Refreshing(u) /\ thread' = Usage!Requested(u) BY <2>2
  <2> HIDE DEF n
  <2>5. u \in Shown(disk.collector) /\ u.busy = usage.busy BY <1>1, <2>3 DEF Shown
  <2> HIDE DEF u
  <2> QED BY <2>1, <2>4, <2>5, UsageAsks
<1> QED BY <1>2, <1>3

(* A report is taken by the GUI.                                           *)
LEMMA UsageHears ==
    ASSUME UsageInv, Usage!GuiReceives
    PROVE  UsageInv'
<1> DEFINE c == disk.collector
           r == Head(results)
<1>1. /\ c \in {"opencode", "antigravity"} /\ results \in Seq(UsageReports(c))
      /\ usage \in Shown(c) /\ thread \in Seq(0..400)
      /\ Count(thread, Days) + Count(results, Refreshes) = IF usage.busy THEN 1 ELSE 0
      /\ ~usage.busy /\ usage.refreshed => usage.error \/ usage.windows.days = usage.lastDays
  BY DEF UsageInv
<1>2. results # <<>> /\ results' = Tail(results) /\ UNCHANGED <<disk, choices>>
  BY DEF Usage!GuiReceives, Usage!ApplyCachedResult, Usage!OnRefreshed, Usage!Reported
<1>3. r \in UsageReports(c) /\ results' \in Seq(UsageReports(c)) BY <1>1, <1>2, MessageTaken
<1>4. /\ Count(results', Refreshes) \in Nat /\ Count(thread, Days) \in Nat
      /\ Count(results, Refreshes) = IF r \in Refreshes THEN Count(results', Refreshes) + 1
                                     ELSE Count(results', Refreshes)
  <2>1. /\ Count(Tail(results), Refreshes) \in Nat
        /\ Count(results, Refreshes) = IF r \in Refreshes THEN Count(Tail(results), Refreshes) + 1
                                       ELSE Count(Tail(results), Refreshes)
    BY <1>1, <1>2, CountedTaken
  <2>2. Count(thread, Days) \in Nat BY <1>1, CountIsNumber
  <2> QED BY <1>2, <2>1, <2>2
<1>5. /\ r.type = "cached" => r \in CacheReports(c) /\ r \notin Refreshes
      /\ r.type = "refreshed" => r \in Results(c) /\ r \in Refreshes
  <2>1. \A m \in Refreshes : m.type = "refreshed" BY DEF Refreshes, Results
  <2>2. \A m \in Results(c) : m.type = "refreshed" /\ m \in Refreshes
    <3> HIDE DEF c
    <3> QED BY <1>1 DEF Refreshes, Results
  <2>3. \A m \in CacheReports(c) : m.type = "cached" BY DEF CacheReports
  <2> HIDE DEF r
  <2> QED BY <1>3, <2>1, <2>2, <2>3 DEF UsageReports
<1>6. usage.busy \in BOOLEAN BY <1>1 DEF Shown
<1> HIDE DEF c, r
<1>7. CASE Usage!ApplyCachedResult
  <2>1. r.type = "cached" /\ thread' = thread /\ disk' = disk
    BY <1>7 DEF Usage!ApplyCachedResult, Usage!Reported, r
  <2>2. r.windows \in Windows(c) /\ r.windows.days \in Days
    BY <1>5, <2>1 DEF CacheReports, Dated
  <2>3. /\ usage' \in Shown(c) /\ usage'.busy = usage.busy
        /\ ~usage'.busy /\ usage'.refreshed => usage'.error \/ usage'.windows.days = usage'.lastDays
    <3>1. CASE usage.configured /\ usage.refreshed
      <4>1. usage' = usage BY <1>7, <3>1 DEF Usage!ApplyCachedResult
      <4> QED BY <1>1, <4>1
    <3>2. CASE ~(usage.configured /\ usage.refreshed)
      <4>1. usage' = [usage EXCEPT !.windows = r.windows, !.configured = TRUE,
                                   !.lastDays = r.windows.days, !.refreshed = TRUE]
        BY <1>7, <3>2 DEF Usage!ApplyCachedResult, r
      <4>2. /\ usage'.windows = r.windows /\ usage'.lastDays = r.windows.days
            /\ usage'.busy = usage.busy
        BY <1>1, <4>1 DEF Shown
      <4>3. usage' \in Shown(c) BY <1>1, <2>2, <4>1 DEF Shown
      <4> QED BY <4>2, <4>3
    <3> QED BY <3>1, <3>2
  <2>4. Count(thread', Days) + Count(results', Refreshes) = IF usage'.busy THEN 1 ELSE 0
    BY <1>1, <1>4, <1>5, <2>1, <2>3
  <2>5. disk \in [collector : {"opencode", "antigravity"}, failed : 0..MaxFailures,
                  cache : Windows(c)]
        /\ (disk.cache = Usage!Nothing \/ disk.cache.days \in Days)
    BY DEF UsageInv, c
  <2> QED BY <1>1, <1>3, <2>1, <2>3, <2>4, <2>5 DEF UsageInv, c
<1>8. CASE Usage!OnRefreshed
  <2> DEFINE failed == ~r.ok
             idle == [usage EXCEPT !.busy = FALSE, !.configured = r.found, !.error = failed]
             u == [idle EXCEPT !.windows = r.windows, !.refreshed = TRUE]
  <2>1. /\ r.type = "refreshed" /\ disk' = disk
        /\ IF ~r.ok THEN usage' = idle /\ UNCHANGED thread
           ELSE IF r.windows.days = u.lastDays THEN usage' = u /\ UNCHANGED thread
           ELSE usage' = Usage!Refreshing(u) /\ thread' = Usage!Requested(u)
    BY <1>8 DEF Usage!OnRefreshed, Usage!Reported, r
  <2>2. /\ r.windows \in Windows(c) /\ r.found \in BOOLEAN /\ r.ok \in BOOLEAN
        /\ failed \in BOOLEAN
    BY <1>5, <2>1 DEF Results
  <2>3. failed <=> ~r.ok OBVIOUS
  <2> HIDE DEF failed
  <2>4. usage.busy /\ Count(thread, Days) = 0 /\ Count(results', Refreshes) = 0
    BY <1>1, <1>4, <1>5, <2>1
  <2>5. idle \in Shown(c) /\ ~idle.busy /\ idle.error = failed /\ idle.lastDays = usage.lastDays
    BY <1>1, <2>2 DEF Shown
  <2> HIDE DEF idle
  <2>6. /\ u \in Shown(c) /\ ~u.busy /\ u.windows = r.windows /\ u.lastDays = idle.lastDays
        /\ u.lastDays \in Days
    BY <2>2, <2>5 DEF Shown
  <2> HIDE DEF u
  <2>7. /\ thread' \in Seq(0..400) /\ usage' \in Shown(c)
        /\ Count(thread', Days) + Count(results', Refreshes) = IF usage'.busy THEN 1 ELSE 0
        /\ ~usage'.busy /\ usage'.refreshed => usage'.error \/ usage'.windows.days = usage'.lastDays
    <3>1. CASE ~r.ok
      <4>1. usage' = idle /\ thread' = thread BY <2>1, <3>1
      <4> QED BY <1>1, <2>3, <2>4, <2>5, <3>1, <4>1
    <3>2. CASE r.ok /\ r.windows.days = u.lastDays
      <4>1. usage' = u /\ thread' = thread BY <2>1, <3>2
      <4> QED BY <1>1, <2>4, <2>6, <3>2, <4>1
    <3>3. CASE r.ok /\ r.windows.days # u.lastDays
      <4>1. usage' = Usage!Refreshing(u) /\ thread' = Usage!Requested(u) BY <2>1, <3>3
      <4>2. usage' \in Shown(c) /\ usage'.busy BY <2>6, <4>1 DEF Usage!Refreshing, Shown
      <4>3. thread' = Append(thread, u.lastDays) BY <2>6, <4>1 DEF Usage!Requested
      <4>4. u.lastDays \in 0..400 BY <2>6 DEF Days
      <4>5. /\ Append(thread, u.lastDays) \in Seq(0..400)
            /\ Count(Append(thread, u.lastDays), Days) = Count(thread, Days) + 1
        BY <1>1, <2>6, <4>4, DaysAsked
      <4> QED BY <2>4, <4>2, <4>3, <4>5
    <3> QED BY <2>2, <3>1, <3>2, <3>3
  <2>8. disk \in [collector : {"opencode", "antigravity"}, failed : 0..MaxFailures,
                  cache : Windows(c)]
        /\ (disk.cache = Usage!Nothing \/ disk.cache.days \in Days)
    BY DEF UsageInv, c
  <2> QED BY <1>3, <2>1, <2>7, <2>8 DEF UsageInv, c
<1> QED BY <1>7, <1>8 DEF Usage!GuiReceives

(* Each step keeps the invariant.                                          *)
LEMMA UsageStep == UsageInv /\ Usage!Next => UsageInv'
<1> SUFFICES ASSUME UsageInv, Usage!Next PROVE UsageInv'
  OBVIOUS
<1>1. CASE Usage!Restart
  <2>1. /\ disk' = disk /\ thread' = <<Usage!Load>> /\ results' = <<>>
        /\ usage' = Usage!NewObject
    BY <1>1 DEF Usage!Restart
  <2>2. disk \in [collector : {"opencode", "antigravity"}, failed : 0..MaxFailures,
                  cache : Windows(disk.collector)]
        /\ (disk.cache = Usage!Nothing \/ disk.cache.days \in Days)
    BY DEF UsageInv
  <2>3. Count(thread', Days) + Count(results', Refreshes) = IF usage'.busy THEN 1 ELSE 0
    BY <2>1, <2>2, FreshUsage
  <2> QED BY <2>1, <2>2, <2>3, FreshUsage DEF UsageInv
<1> QED BY <1>1, UsageWorker, UsageChosen, UsageHears DEF Usage!Next

(* A step of the sum is a step of the usage monitor, or leaves it alone.   *)
LEMMA UsageAlone == [Next]_vars => [Usage!Next]_usageVars
BY DEF Next, vars, OnlyEthernet, OnlyTailscale, OnlyUsage, OnlyHolidays, OnlyPricing,
       OnlySearch, OnlyProbe, usageVars

(* The usage monitor keeps its invariant through the steps of all          *)
(* components.                                                             *)
LEMMA UsageInvariant == Spec => []UsageInv
<1>1. Init => UsageInv BY UsageInit DEF Init
<1>2. UsageInv /\ [Next]_vars => UsageInv'
  <2> SUFFICES ASSUME UsageInv, [Next]_vars PROVE UsageInv'
    OBVIOUS
  <2>1. CASE Usage!Next BY <2>1, UsageStep
  <2>2. CASE UNCHANGED usageVars BY <2>2 DEF usageVars, UsageInv
  <2> QED BY <2>1, <2>2, UsageAlone
<1> QED BY <1>1, <1>2, PTL DEF Spec

(* UsageCurrent holds for every set of databases and whatever they hold:   *)
(* when nothing is under way the numbers shown are those of the days in    *)
(* force or the last collection failed, today's are part of all, and of    *)
(* the turns several antigravity files hold none is counted twice.         *)
THEOREM UsageStaysCurrent == Spec => []UsageCurrent
<1>1. UsageInv => UsageCurrent
  <2> SUFFICES ASSUME UsageInv PROVE Usage!UsageCurrent
    BY DEF UsageCurrent
  <2>1. /\ usage.windows \in Windows(disk.collector)
        /\ ~usage.busy /\ usage.refreshed => usage.error \/ usage.windows.days = usage.lastDays
    BY DEF UsageInv, Shown
  <2> QED BY <2>1 DEF Usage!UsageCurrent, Windows
<1> QED BY <1>1, UsageInvariant, PTL

(* The types of the usage monitor, with the one refresh that busy tells.   *)
LEMMA UsageTyped == UsageInv => Usage!TypeOK
<1> SUFFICES ASSUME UsageInv PROVE Usage!TypeOK
  OBVIOUS
<1>1. /\ disk.collector \in {"opencode", "antigravity"} /\ disk.failed \in 0..MaxFailures
      /\ thread \in Seq(0..400) /\ results \in Seq(UsageReports(disk.collector))
      /\ usage.lastDays \in Days /\ usage.windows \in Windows(disk.collector)
      /\ usage.busy \in BOOLEAN
      /\ Count(thread, Days) + Count(results, Refreshes) = IF usage.busy THEN 1 ELSE 0
  BY DEF UsageInv, Shown
<1>2. Count(thread, Days) \in Nat /\ Count(results, Refreshes) \in Nat BY <1>1, CountIsNumber
<1>3. Count(thread, Days) # 0 <=> \E i \in DOMAIN thread : thread[i] # Usage!Load
  <2>1. DOMAIN thread = 1 .. Len(thread) /\ Len(thread) \in Nat
        /\ \A i \in DOMAIN thread : thread[i] \in 0..400
    <3>1. \A E : \A q \in Seq(E) : /\ DOMAIN q = 1 .. Len(q) /\ Len(q) \in Nat
                                   /\ \A i \in DOMAIN q : q[i] \in E
      OBVIOUS
    <3> QED BY <1>1, <3>1, Zenon
  <2>2. \A n \in 0..400 : n \in Days <=> n # Usage!Load BY DEF Days, Usage!Load
  <2>3. Count(thread, Days) = 0 <=> ~\E i \in 1 .. Len(thread) : thread[i] \in Days
    BY <2>1, NoneCounted
  <2> QED BY <2>1, <2>2, <2>3
<1>4. Count(results, Refreshes) # 0 <=> \E i \in DOMAIN results : results[i].type = "refreshed"
  <2>1. DOMAIN results = 1 .. Len(results) /\ Len(results) \in Nat
        /\ \A i \in DOMAIN results : results[i] \in UsageReports(disk.collector)
    BY <1>1
  <2>2. \A m \in UsageReports(disk.collector) : m \in Refreshes <=> m.type = "refreshed"
    <3> DEFINE c == disk.collector
    <3>1. \A m \in Refreshes : m.type = "refreshed" BY DEF Refreshes, Results
    <3>2. \A m \in Results(c) : m \in Refreshes
      <4>1. c \in {"opencode", "antigravity"} BY <1>1
      <4> HIDE DEF c
      <4> QED BY <4>1 DEF Refreshes
    <3>3. \A m \in CacheReports(c) : m.type = "cached" BY DEF CacheReports
    <3> HIDE DEF c
    <3>4. \A m \in UsageReports(c) : m \in Refreshes <=> m.type = "refreshed"
      BY <3>1, <3>2, <3>3 DEF UsageReports
    <3> QED BY <3>4 DEF c
  <2>3. Count(results, Refreshes) = 0 <=> ~\E i \in 1 .. Len(results) : results[i] \in Refreshes
    BY <2>1, NoneCounted
  <2> QED BY <2>1, <2>2, <2>3
<1>5. usage.busy <=> Count(thread, Days) # 0 \/ Count(results, Refreshes) # 0
  BY <1>1, <1>2
<1>6. usage.windows.torn => disk.collector = "opencode" BY <1>1 DEF Windows
<1>7. usage.lastDays \in 1..400 BY <1>1 DEF Days
<1> QED BY <1>1, <1>3, <1>4, <1>5, <1>6, <1>7 DEF Usage!TypeOK

-----------------------------------------------------------------------------
(* Types and bounds of all components.                                     *)

\* Every call of the probe is counted, and only paths are answered.
ProbeBounds ==
    /\ calls.made <= MaxLookups /\ lookup.id <= calls.made
    /\ answer \in Paths \cup {Probe!Empty}

(* The bounds on the probe hold with its invariant.                        *)
LEMMA ProbeBound == Spec => [](ProbeInv /\ ProbeBounds)
<1>1. Init => ProbeBounds
  <2> SUFFICES ASSUME Init PROVE ProbeBounds
    OBVIOUS
  <2>1. MaxLookups \in Nat BY BoundsAssumption
  <2>2. Probe!Init BY DEF Init
  <2> QED BY <2>1, <2>2 DEF Probe!Init, ProbeBounds
<1>2. ProbeInv /\ ProbeBounds /\ [Next]_vars => ProbeBounds'
  <2> SUFFICES ASSUME ProbeInv, ProbeBounds, [Next]_vars PROVE ProbeBounds'
    OBVIOUS
  <2>1. /\ MaxLookups \in Nat /\ calls.made \in Nat /\ lookup.id \in Nat
        /\ calls.made <= MaxLookups /\ lookup.id <= calls.made
        /\ answer \in Paths \cup {Probe!Empty} /\ lookup \in [id : Nat, busy : BOOLEAN]
        /\ lookups \subseteq [id : 1 .. lookup.id, path : Paths]
    BY BoundsAssumption DEF ProbeInv, ProbeTypes, ProbeBounds
  <2>2. ASSUME NEW o, Probe!Call(o) PROVE calls'.made = calls.made + 1 /\ calls'.made <= MaxLookups
    BY <2>1, <2>2 DEF Probe!Call
  <2>3. CASE UNCHANGED pathVars BY <2>1, <2>3 DEF pathVars, ProbeBounds
  <2>4. CASE Probe!ClassifyPath
    <3>1. lookup'.id = lookup.id + 1 /\ answer' = answer BY <2>4 DEF Probe!ClassifyPath
    <3>2. calls'.made = calls.made + 1 /\ calls'.made <= MaxLookups
      BY <2>2, <2>4 DEF Probe!ClassifyPath
    <3> QED BY <2>1, <3>1, <3>2 DEF ProbeBounds
  <2>5. CASE Probe!ClassifyWord
    <3>1. lookup'.id = lookup.id /\ answer' = Probe!Empty BY <2>1, <2>5 DEF Probe!ClassifyWord
    <3>2. calls'.made = calls.made + 1 /\ calls'.made <= MaxLookups
      BY <2>2, <2>5 DEF Probe!ClassifyWord
    <3> QED BY <2>1, <3>1, <3>2 DEF ProbeBounds
  <2>6. CASE Probe!Reveal \/ Probe!OpenWith
    <3>1. lookup' = lookup /\ answer' = answer BY <2>6 DEF Probe!Reveal, Probe!OpenWith
    <3>2. calls'.made = calls.made + 1 /\ calls'.made <= MaxLookups
      BY <2>2, <2>6 DEF Probe!Reveal, Probe!OpenWith
    <3> QED BY <2>1, <3>1, <3>2 DEF ProbeBounds
  <2>7. CASE Probe!Classified
    <3>1. PICK l \in lookups :
             /\ IF l.id = lookup.id
                THEN answer' = l.path /\ lookup' = [lookup EXCEPT !.busy = FALSE]
                ELSE UNCHANGED <<answer, lookup>>
             /\ calls' = calls
      BY <2>7 DEF Probe!Classified
    <3>2. l.path \in Paths BY <2>1
    <3>3. lookup'.id = lookup.id /\ answer' \in Paths \cup {Probe!Empty} BY <2>1, <3>1, <3>2
    <3> QED BY <2>1, <3>1, <3>3 DEF ProbeBounds
  <2>8. CASE Probe!RevealAnswered \/ Probe!PortalAnswered
    BY <2>1, <2>8 DEF Probe!RevealAnswered, Probe!PortalAnswered, ProbeBounds
  <2>9. Probe!Next \/ UNCHANGED pathVars BY ProbeAlone
  <2> QED BY <2>3, <2>4, <2>5, <2>6, <2>7, <2>8, <2>9 DEF Probe!Next, Probe!Answers
<1> QED BY <1>1, <1>2, ProbeInvariant, PTL DEF Spec

\* Few lines are shown and made, and the keys typed are counted.
Few(list) == IsFiniteSet(list) /\ Cardinality(list) <= MaxResults
SearchBounds ==
    /\ past.keys <= MaxKeys
    /\ Few(shown) /\ \A b \in builds : Few(b.list)

(* What is found is few.                                                   *)
LEMMA FoundFew ==
    /\ MaxResults \in Nat /\ Few({})
    /\ \A t \in Terms : \A list \in Search!Found(t) : Few(list)
    /\ \A list, C : Few(list) => Few(list \cap C)
<1>1. MaxResults \in Nat BY BoundsAssumption
<1>2. Few({}) BY <1>1, FS_EmptySet DEF Few
<1>3. ASSUME NEW t \in Terms, NEW list \in Search!Found(t) PROVE Few(list)
  <2>1. IsFiniteSet(Hits[t])
    <3>1. Hits[t] \in {{1, 2}, {3, 4, 5, 6}, {3, 6}} BY DEF Terms, Hits
    <3>2. Hits[t] \in SUBSET (1 .. 6) BY <3>1
    <3>3. IsFiniteSet(1 .. 6)
      <4>1. \A n \in Nat : IsFiniteSet(1 .. n) BY FS_Interval
      <4> QED BY <4>1
    <3> QED BY <3>2, <3>3, FS_Subset
  <2>2. CASE list \in Search!Complete(t)
    <3>1. list = Hits[t] /\ Cardinality(Hits[t]) <= MaxResults
      BY <2>2, SearchCounts DEF Search!Complete
    <3> QED BY <2>1, <3>1 DEF Few
  <2>3. CASE list \in Search!Enough(t)
    <3>1. list \in Search!kSubset(MaxResults, Hits[t]) BY <2>3 DEF Search!Enough
    <3>2. list \in SUBSET Hits[t] /\ Search!Cardinality(list) = MaxResults
      BY <3>1 DEF Search!kSubset
    <3>3. IsFiniteSet(list) BY <2>1, <3>2, FS_Subset
    <3> QED BY <1>1, <3>2, <3>3, SearchCounts DEF Few
  <2> QED BY <2>2, <2>3 DEF Search!Found
<1>4. ASSUME NEW list, NEW C, Few(list) PROVE Few(list \cap C)
  <2>1. IsFiniteSet(list) /\ Cardinality(list) <= MaxResults BY <1>4 DEF Few
  <2>2. list \cap C \in SUBSET list OBVIOUS
  <2>3. IsFiniteSet(list \cap C) /\ Cardinality(list \cap C) <= Cardinality(list)
    BY <2>1, <2>2, FS_Subset
  <2>4. Cardinality(list) \in Nat /\ Cardinality(list \cap C) \in Nat
    BY <2>1, <2>3, FS_CardinalityType
  <2> QED BY <1>1, <2>1, <2>3, <2>4 DEF Few
<1> QED BY <1>1, <1>2, <1>3, <1>4

(* The bounds on the search hold with its invariant.                       *)
LEMMA SearchBound == Spec => [](SearchInv /\ SearchBounds)
<1>1. Init => SearchBounds
  <2> SUFFICES ASSUME Init PROVE SearchBounds
    OBVIOUS
  <2>1. MaxKeys \in Nat BY BoundsAssumption
  <2>2. Search!Init BY DEF Init
  <2>3. past.keys = 0 /\ shown = {} /\ builds = {} BY <2>2 DEF Search!Init
  <2>4. Few({}) BY FoundFew
  <2>5. Few(shown) /\ \A b \in builds : Few(b.list) BY <2>3, <2>4
  <2> QED BY <2>1, <2>3, <2>5 DEF SearchBounds
<1>2. SearchInv /\ SearchBounds /\ [Next]_vars => SearchBounds'
  <2> SUFFICES ASSUME SearchInv, SearchBounds, [Next]_vars PROVE SearchBounds'
    OBVIOUS
  <2>1. /\ MaxKeys \in Nat /\ past.keys \in Nat /\ past.keys <= MaxKeys
        /\ past \in [keys : Nat, overtaken : BOOLEAN, emptied : BOOLEAN, failed : BOOLEAN]
        /\ Few(shown) /\ \A b \in builds : Few(b.list)
        /\ Few({}) /\ \A list, C : Few(list) => Few(list \cap C)
    BY BoundsAssumption, FoundFew DEF SearchInv, SearchBounds
  <2>2. ASSUME Search!Typed, past'.keys = past.keys + 1 PROVE past'.keys <= MaxKeys
    BY <2>1, <2>2 DEF Search!Typed
  <2>3. CASE UNCHANGED searchVars BY <2>1, <2>3 DEF searchVars, SearchBounds
  <2>4. CASE Search!ClearQuery
    <3>1. past'.keys = past.keys + 1 BY <2>1, <2>4 DEF Search!ClearQuery, Search!Key
    <3> QED BY <2>1, <2>2, <2>4, <3>1 DEF Search!ClearQuery, SearchBounds
  <2>5. CASE Search!SameTerm
    <3>1. past'.keys = past.keys + 1 BY <2>1, <2>5 DEF Search!SameTerm
    <3> QED BY <2>1, <2>2, <2>5, <3>1 DEF Search!SameTerm, SearchBounds
  <2>6. CASE Search!Narrow
    <3>1. past'.keys = past.keys + 1 BY <2>1, <2>6 DEF Search!Narrow, Search!Key
    <3>2. PICK t \in Terms : shown' = shown \cap Containing[t] BY <2>6 DEF Search!Narrow
    <3>3. Few(shown') BY <2>1, <3>2
    <3> QED BY <2>1, <2>2, <2>6, <3>1, <3>3 DEF Search!Narrow, SearchBounds
  <2>7. CASE Search!NewRequest
    <3>1. past'.keys = past.keys + 1 BY <2>1, <2>7 DEF Search!NewRequest, Search!Key
    <3> QED BY <2>1, <2>2, <2>7, <3>1 DEF Search!NewRequest, SearchBounds
  <2>8. CASE Search!Cancel
    <3>1. past'.keys = past.keys + 1 BY <2>1, <2>8 DEF Search!Cancel, Search!Key
    <3> QED BY <2>1, <2>2, <2>8, <3>1 DEF Search!Cancel, SearchBounds
  <2>9. CASE Search!OnDebounceTimeout
    BY <2>1, <2>9 DEF Search!OnDebounceTimeout, SearchBounds
  <2>10. CASE Search!PipelineFinishes
    <3>1. pipeline.term \in Terms
      <4>1. pipeline # Search!NoRun BY <2>10 DEF Search!PipelineFinishes
      <4>2. OneList BY DEF SearchInv
      <4>3. pipeline = SearchRun /\ query = pending.term /\ query \in Terms
        BY <4>1, <4>2 DEF OneList
      <4> QED BY <4>3 DEF SearchRun
    <3>2. PICK list \in Search!Found(pipeline.term) \cup Search!TimedOut :
            /\ builds' = builds \cup {[id |-> pipeline.id, term |-> pending.term, list |-> list]}
            /\ past' = [past EXCEPT !.failed = list \notin Search!Found(pipeline.term)]
      BY <2>10 DEF Search!PipelineFinishes
    <3>3. Few(list) BY <2>1, <3>1, FoundFew DEF Search!TimedOut
    <3>4. past'.keys = past.keys BY <2>1, <3>2
    <3>5. \A b \in builds' : Few(b.list) BY <2>1, <3>2, <3>3
    <3> QED BY <2>1, <2>10, <3>4, <3>5 DEF Search!PipelineFinishes, SearchBounds
  <2>11. CASE Search!PipelineFails
    <3>1. past'.keys = past.keys BY <2>1, <2>11 DEF Search!PipelineFails
    <3> QED BY <2>1, <2>11, <3>1 DEF Search!PipelineFails, SearchBounds
  <2>12. CASE Search!Deliver
    <3>1. PICK b \in builds :
            /\ builds' = builds \ {b}
            /\ IF b.id # request THEN UNCHANGED <<shown, completed, searching, past>>
               ELSE shown' = b.list /\ past' = [past EXCEPT !.emptied = FALSE]
      BY <2>12 DEF Search!Deliver
    <3>2. Few(shown') /\ past'.keys = past.keys BY <2>1, <3>1
    <3> QED BY <2>1, <3>1, <3>2 DEF SearchBounds
  <2>13. Search!Next \/ UNCHANGED searchVars BY SearchAlone
  <2> QED BY <2>3, <2>4, <2>5, <2>6, <2>7, <2>8, <2>9, <2>10, <2>11, <2>12, <2>13
          DEF Search!Next
<1> QED BY <1>1, <1>2, SearchInvariant, PTL DEF Spec

(* The types of each component follow from its invariant.                  *)
LEMMA LinkTyped == LinkInv => Ethernet!TypeOK
BY DEF LinkInv, LinkTypes, LinkRead, Networks, Samplers, Panels, Ethernet!TypeOK

(* Those of Tailscale.                                                     *)
LEMMA DaemonTyped == DaemonInv => Tailscale!TypeOK
BY DEF DaemonInv, DaemonTypes, Subscribed, Workers, Samples, Tailscale!TypeOK, Tailscale!Waiting

(* Those of the calendar.                                                  *)
LEMMA HolidayTyped == HolidayInv => Holidays!TypeOK
BY DEF HolidayInv, HolidayTypes, Holidays!TypeOK

(* Those of the prices.                                                    *)
LEMMA PricingTyped == PricingInv => Pricing!TypeOK
<1> SUFFICES ASSUME PricingInv PROVE Pricing!TypeOK
  OBVIOUS
<1>1. PriceTypes BY DEF PricingInv
<1>2. files.tag \in 0..2 /\ files.index \in [config : Configs, prices : Lists]
  BY <1>1 DEF PriceTypes
<1>3. files.tag \in Versions \cup {Pricing!NoTag} BY <1>2 DEF Versions, Pricing!NoTag
<1>4. /\ version \in Versions /\ fetcher.at \in {"none", "sent", "tag", "index"}
      /\ prices.source \in Configs \cup {"none"} /\ prices.settings \in Configs \cup {"none"}
      /\ {prices.busy, prices.ready, prices.checked} \subseteq BOOLEAN
  BY <1>1 DEF PriceTypes
<1>5. Pricing!Configs = Configs /\ Pricing!Versions = Versions BY PriceSets
<1> QED BY <1>2, <1>3, <1>4, <1>5 DEF Pricing!TypeOK

(* Those of the list of files.                                             *)
LEMMA SearchTyped == SearchInv /\ SearchBounds => Search!TypeOK
<1> SUFFICES ASSUME SearchInv, SearchBounds PROVE Search!TypeOK
  OBVIOUS
<1>1. /\ past.keys \in 0..MaxKeys
      /\ Search!Cardinality(shown) <= MaxResults
  BY SearchCounts, BoundsAssumption DEF SearchInv, SearchBounds, Few
<1> QED BY <1>1 DEF SearchInv, OneList, Builds, SearchRun, Search!TypeOK

(* Those of the probe: no two lookups have one number.                     *)
LEMMA ProbeTyped == ProbeInv /\ ProbeBounds => Probe!TypeOK
<1> SUFFICES ASSUME ProbeInv, ProbeBounds PROVE Probe!TypeOK
  OBVIOUS
<1>1. /\ MaxLookups \in Nat /\ lookup.id \in Nat /\ calls.made \in Nat
      /\ lookups \subseteq [id : 1 .. lookup.id, path : Paths]
      /\ \A l, m \in lookups : l.id = m.id => l = m
  BY BoundsAssumption DEF ProbeInv, ProbeTypes, LastLookup
<1>2. lookup.id \in 0..MaxLookups /\ calls.made \in 0..MaxLookups BY <1>1 DEF ProbeBounds
<1>3. Probe!Cardinality({l.id : l \in lookups}) = Probe!Cardinality(lookups)
  <2> DEFINE I == {l.id : l \in lookups}
             f == [l \in lookups |-> l.id]
  <2>1. f \in Bijection(lookups, I) BY <1>1 DEF Bijection, Injection, Surjection, IsInjective
  <2>2. I \in SUBSET (1 .. lookup.id) BY <1>1
  <2>3. IsFiniteSet(1 .. lookup.id) BY <1>1, FS_Interval
  <2> HIDE DEF f, I
  <2>4. IsFiniteSet(I) BY <2>2, <2>3, FS_Subset
  <2>5. ExistsBijection(I, lookups)
    <3>1. ExistsBijection(lookups, I) BY <2>1 DEF ExistsBijection
    <3> QED BY <3>1, Fun_ExistsBijSymmetric
  <2>6. Cardinality(lookups) = Cardinality(I) BY <2>4, <2>5, FS_Bijection
  <2>7. \A S : Probe!Cardinality(S) = Cardinality(S) BY Zenon DEF Probe!Cardinality, Cardinality
  <2> QED BY <2>6, <2>7 DEF I
<1> QED BY <1>1, <1>2, <1>3 DEF ProbeInv, ProbeTypes, ProbeBounds, Probe!TypeOK

(* TypesOK holds for every value of the bounds.                            *)
THEOREM MonitorsTypeCorrect == Spec => []TypesOK
<1>1. /\ LinkInv /\ DaemonInv /\ UsageInv /\ HolidayInv /\ PricingInv
      /\ SearchInv /\ SearchBounds /\ ProbeInv /\ ProbeBounds
      => TypesOK
  BY LinkTyped, DaemonTyped, UsageTyped, HolidayTyped, PricingTyped, SearchTyped, ProbeTyped
     DEF TypesOK
<1> QED BY <1>1, LinkInvariant, DaemonInvariant, UsageInvariant, HolidayInvariant,
           PricingInvariant, SearchBound, ProbeBound, PTL

=============================================================================
