----------------------------- MODULE RfListProofs -----------------------------
(***************************************************************************)
(* What holds of the Rosfinmonitoring list for any number of checks,       *)
(* pages, people and days: see RfList.                                     *)
(***************************************************************************)
EXTENDS RfList, TLAPS

Locked == {"carry", "days", "match"}

\* The snapshot a check has chosen is stored whole, is its own while it holds the lock, and
\* is not older than what is matched.
ChosenInv ==
  \A k \in Checks :
    /\ check[k].stage = "save" => check[k].chosen \in DOMAIN snaps
    /\ check[k].stage \in Locked =>
         /\ lock = k
         /\ check[k].chosen \in DOMAIN snaps /\ snaps[check[k].chosen].saved
         /\ matched # 0 => NotNewer(matched, check[k].chosen)

IInv == MatchedIsWhole /\ published # << >> /\ ChosenInv

\* What no step but Append changes of the snapshots there are.
Kept(old, new) ==
  /\ DOMAIN old \subseteq DOMAIN new
  /\ \A i \in DOMAIN old : /\ new[i].page = old[i].page /\ new[i].date = old[i].date
                           /\ old[i].saved => new[i].saved

\* NotNewer of the snapshots after a step.
NotNewerIn(s, i, j) == s[i].date < s[j].date \/ (s[i].date = s[j].date /\ i <= j)

-----------------------------------------------------------------------------
(* Types.                                                                  *)

LEMMA IdleType == Idle \in CheckState
BY DEF Idle, CheckState, Stages, Pages

LEMMA SnapshotDay ==
  ASSUME NEW s \in Snapshot, NEW d, DOMAIN d = DOMAIN s.day,
         d \in [DOMAIN s.day -> Sources]
  PROVE  [s EXCEPT !.day = d] \in Snapshot
<1>1. PICK c \in Pages : s.day \in [Listed[c] -> Sources]
  BY DEF Snapshot
<1>2. d \in [Listed[c] -> Sources]
  BY <1>1
<1>3. d \in UNION {[Listed[b] -> Sources] : b \in Pages}
  BY <1>2
<1>. QED  BY <1>3 DEF Snapshot

LEMMA SnapshotDayType ==
  ASSUME NEW s \in Snapshot
  PROVE  s.day \in [DOMAIN s.day -> Sources]
<1>1. PICK c \in Pages : s.day \in [Listed[c] -> Sources]
  BY DEF Snapshot
<1>. QED  BY <1>1

LEMMA WrittenType ==
  ASSUME NEW D, NEW d \in [D -> Sources], NEW from, NEW source \in Sources
  PROVE  Written(d, from, source) \in [D -> Sources]
BY DEF Written

\* A step that changes one snapshot's day leaves the others and the rest of it alone.
LEMMA DayChanged ==
  ASSUME TypeOK, NEW i \in DOMAIN snaps, NEW d, d \in [DOMAIN snaps[i].day -> Sources],
         snaps' = [snaps EXCEPT ![i].day = d]
  PROVE  /\ snaps' \in Seq(Snapshot) /\ DOMAIN snaps' = DOMAIN snaps /\ Kept(snaps, snaps')
         /\ snaps'[i].day = d /\ \A j \in DOMAIN snaps : j # i => snaps'[j] = snaps[j]
<1>1. snaps \in Seq(Snapshot) /\ snaps[i] \in Snapshot
  BY DEF TypeOK
<1>2. [snaps[i] EXCEPT !.day = d] \in Snapshot
  BY <1>1, SnapshotDay
<1>3. snaps' = [snaps EXCEPT ![i] = [snaps[i] EXCEPT !.day = d]]
  OBVIOUS
<1>4. snaps' \in Seq(Snapshot)
  BY <1>1, <1>2, <1>3
<1>5. snaps'[i].day = d /\ \A j \in DOMAIN snaps : j # i => snaps'[j] = snaps[j]
  BY <1>1, <1>3 DEF Snapshot
<1>. QED  BY <1>1, <1>3, <1>4, <1>5 DEF Kept, Snapshot
-----------------------------------------------------------------------------
(* The steps of the state.                                                 *)

\* Fields of one process change, and its new state has the type.
LEMMA CheckType ==
  ASSUME TypeOK, NEW k \in Checks, NEW c \in CheckState, check' = [check EXCEPT ![k] = c]
  PROVE  check' \in [Checks -> CheckState]
BY DEF TypeOK

\* What is known of one process's choice when snapshots are only added or completed, what
\* is matched stays, and neither the process nor the lock changes.
LEMMA ChosenKept ==
  ASSUME TypeOK, TypeOK', ChosenInv, Kept(snaps, snaps'), matched' = matched,
         matched # 0 => matched \in DOMAIN snaps,
         NEW k \in Checks, check'[k] = check[k],
         check[k].stage \in Locked => lock' = lock
  PROVE  /\ check'[k].stage = "save" => check'[k].chosen \in DOMAIN snaps'
         /\ check'[k].stage \in Locked =>
              /\ lock' = k
              /\ check'[k].chosen \in DOMAIN snaps' /\ snaps'[check'[k].chosen].saved
              /\ matched' # 0 => NotNewer(matched, check[k].chosen)'
<1>1. check[k].stage = "save" => check[k].chosen \in DOMAIN snaps
  BY DEF ChosenInv
<1>2. ASSUME check[k].stage \in Locked
      PROVE  /\ lock = k /\ check[k].chosen \in DOMAIN snaps /\ snaps[check[k].chosen].saved
             /\ matched # 0 => NotNewer(matched, check[k].chosen)
  BY <1>2 DEF ChosenInv
<1>3. ASSUME check[k].stage \in Locked, matched # 0
      PROVE  NotNewer(matched, check[k].chosen)'
  BY <1>2, <1>3 DEF Kept, NotNewer
<1>. QED  BY <1>1, <1>2, <1>3 DEF Kept

THEOREM InitIInv == Init => IInv
<1>. SUFFICES ASSUME Init PROVE IInv
  OBVIOUS
<1>1. published \in Seq(Contents) /\ published # << >>
  BY DEF Init
<1>2. TypeOK
  BY <1>1, IdleType DEF Init, TypeOK
<1>3. MatchedIsWhole
  BY <1>2 DEF Init, MatchedIsWhole
<1>4. ChosenInv
  BY DEF Init, ChosenInv, Idle, Locked
<1>. QED  BY <1>1, <1>3, <1>4 DEF IInv

LEMMA PublishIInv == ASSUME IInv, NEW c \in Contents, Publish(c) PROVE IInv'
<1>. USE DEF IInv
<1>1. published' \in Seq(Contents) /\ published' # << >>
  BY DEF Publish, MatchedIsWhole, TypeOK
<1>2. TypeOK'
  BY <1>1 DEF Publish, MatchedIsWhole, TypeOK
<1>3. MatchedIsWhole'
  BY <1>2 DEF Publish, MatchedIsWhole
<1>4. ChosenInv'
  BY DEF Publish, ChosenInv, NotNewer
<1>. QED  BY <1>1, <1>3, <1>4

\* A step of one process that changes nothing but its own state and perhaps a counter, and
\* leads it to no stage with a choice.
LEMMA LocalStep ==
  ASSUME IInv, NEW k \in Checks, NEW c \in CheckState, check' = [check EXCEPT ![k] = c],
         c.stage \notin Locked \union {"save"},
         UNCHANGED <<published, snaps, matched, lock>>
  PROVE  IInv'
<1>. USE DEF IInv
<1>1. TypeOK'
  BY CheckType DEF MatchedIsWhole, TypeOK
<1>2. MatchedIsWhole'
  BY <1>1 DEF MatchedIsWhole
<1>3. ChosenInv'
  BY DEF ChosenInv, NotNewer, MatchedIsWhole, TypeOK
<1>. QED  BY <1>2, <1>3

LEMMA FloorsType == ASSUME TypeOK PROVE Floors \subseteq Nat
<1>1. ASSUME NEW i \in Latest PROVE (Count[snaps[i].page] * 9) \div 10 \in Nat
  <2>1. snaps[i] \in Snapshot
    BY <1>1 DEF Latest, TypeOK
  <2>2. Count[snaps[i].page] \in Nat
    BY <2>1, CountAssumption DEF Snapshot
  <2>3. ASSUME NEW n \in Nat PROVE (n * 9) \div 10 \in Nat
    OBVIOUS
  <2>. QED  BY <2>2, <2>3
<1>. QED  BY <1>1 DEF Floors
LEMMA PublishedType == ASSUME IInv, NEW t \in DOMAIN published
                       PROVE  published[t] \in Pages /\ t \in Nat
BY DEF IInv, MatchedIsWhole, TypeOK, Pages

LEMMA TodayType == ASSUME IInv PROVE Today \in DOMAIN published
BY DEF IInv, MatchedIsWhole, TypeOK, Today

LEMMA RefreshIInv ==
  ASSUME IInv, NEW k \in Checks, SiteServes(k) \/ SiteFails(k) \/ ReadLatest(k) \/ Parse(k)
  PROVE  IInv'
<1>. DEFINE On == [Idle EXCEPT !.stage = "lock"]
            Got(c, day, captured) == [Idle EXCEPT !.stage = "confirm", !.page = c,
                                                  !.seen = day, !.captured = captured]
<1>a. On \in CheckState /\ On.stage \notin Locked \union {"save"}
  BY IdleType DEF CheckState, Stages, Locked, Idle
<1>b. ASSUME NEW c \in Pages, NEW day \in Nat, NEW captured \in BOOLEAN
      PROVE  Got(c, day, captured) \in CheckState /\ Got(c, day, captured).stage = "confirm"
  BY DEF CheckState, Stages, Idle
<1>c. check[k] \in CheckState
  BY DEF IInv, MatchedIsWhole, TypeOK
<1>. HIDE DEF On, Got
<1>1. CASE GoesOn(k) /\ UNCHANGED <<published, snaps, matched, lock>>
  BY <1>1, <1>a, LocalStep DEF GoesOn, On
<1>2. ASSUME NEW c \in Pages, NEW day \in Nat, NEW captured \in BOOLEAN,
             Fetched(k, c, day, captured), UNCHANGED <<published, snaps, matched, lock>>
      PROVE  IInv'
  BY <1>2, <1>b, LocalStep DEF Fetched, Got, Locked
<1>3. CASE SiteServes(k)
  BY <1>3, <1>2, PublishedType, TodayType DEF SiteServes
<1>4. CASE SiteFails(k)
  <2>1. CASE Fetched(k, Cut, Today, FALSE)
    <3>1. Cut \in Pages
      BY DEF Pages
    <3>. QED  BY <1>4, <2>1, <3>1, <1>2, PublishedType, TodayType DEF SiteFails
  <2>2. CASE \E t \in DOMAIN published : Fetched(k, published[t], t, TRUE)
    BY <1>4, <2>2, <1>2, PublishedType DEF SiteFails
  <2>3. CASE GoesOn(k)
    BY <1>4, <2>3, <1>1 DEF SiteFails
  <2>. QED  BY <1>4, <2>1, <2>2, <2>3 DEF SiteFails
<1>5. CASE ReadLatest(k)
  <2>1. CASE \E f \in Floors : check' = [check EXCEPT ![k].stage = "parse", ![k].floor = f]
    <3>1. PICK f \in Floors : check' = [check EXCEPT ![k].stage = "parse", ![k].floor = f]
      BY <2>1
    <3>. DEFINE c == [check[k] EXCEPT !.stage = "parse", !.floor = f]
    <3>2. f \in Nat
      BY FloorsType DEF IInv, MatchedIsWhole
    <3>3. c \in CheckState /\ c.stage = "parse"
      BY <1>c, <3>2 DEF CheckState, Stages
    <3>4. check' = [check EXCEPT ![k] = c]
      BY <3>1
    <3>. HIDE DEF c
    <3>. QED  BY <1>5, <3>3, <3>4, LocalStep DEF ReadLatest, Locked
  <2>. QED  BY <1>5, <2>1, <1>1 DEF ReadLatest
<1>6. CASE Parse(k)
  <2>1. CASE check' = [check EXCEPT ![k] = Idle]
    BY <1>6, <2>1, IdleType, LocalStep DEF Parse, Idle, Locked
  <2>2. CASE check' = [check EXCEPT ![k].stage = "create", ![k].floor = 1]
    <3>. DEFINE c == [check[k] EXCEPT !.stage = "create", !.floor = 1]
    <3>1. c \in CheckState /\ c.stage = "create"
      BY <1>c DEF CheckState, Stages
    <3>2. check' = [check EXCEPT ![k] = c]
      BY <2>2
    <3>. HIDE DEF c
    <3>. QED  BY <1>6, <3>1, <3>2, LocalStep DEF Parse, Locked
  <2>. QED  BY <1>6, <2>1, <2>2, <1>1 DEF Parse
<1>. QED  BY <1>3, <1>4, <1>5, <1>6

LEMMA ImportIInv ==
  ASSUME IInv, NEW k \in Checks, NEW c \in Pages, NEW day \in DOMAIN published,
         ImportFile(k, c, day)
  PROVE  IInv'
<1>1. PICK f \in Floors :
        check' = [check EXCEPT ![k] = [Idle EXCEPT !.stage = "parse file", !.page = c,
                                                   !.seen = day, !.floor = f]]
  BY DEF ImportFile
<1>. DEFINE new == [Idle EXCEPT !.stage = "parse file", !.page = c, !.seen = day, !.floor = f]
<1>2. f \in Nat /\ day \in Nat
  BY FloorsType, PublishedType DEF IInv, MatchedIsWhole
<1>3. new \in CheckState /\ new.stage = "parse file"
  BY <1>2 DEF CheckState, Stages, Idle
<1>4. check' = [check EXCEPT ![k] = new]
  BY <1>1
<1>. HIDE DEF new
<1>. QED  BY <1>3, <1>4, LocalStep DEF ImportFile, Locked
-----------------------------------------------------------------------------
(* The steps of the snapshots and of the lock.                             *)

\* A step of one process that only adds to the snapshots: what its own new stage demands
\* is all there is to show.
LEMMA ProcessStep ==
  ASSUME IInv, NEW k \in Checks, NEW c \in CheckState, check' = [check EXCEPT ![k] = c],
         UNCHANGED <<published, matched>>,
         snaps' \in Seq(Snapshot), Kept(snaps, snaps'),
         \A i, j \in DOMAIN snaps' : snaps'[i].page = snaps'[j].page => i = j,
         lock' \in Checks \union {Nobody},
         \A j \in Checks \ {k} : check[j].stage \in Locked => lock' = lock,
         c.stage = "save" => c.chosen \in DOMAIN snaps',
         c.stage \in Locked =>
           /\ lock' = k
           /\ c.chosen \in DOMAIN snaps' /\ snaps'[c.chosen].saved
           /\ matched # 0 => NotNewerIn(snaps', matched, c.chosen)
  PROVE  IInv'
<1>1. TypeOK /\ ChosenInv /\ (matched # 0 => matched \in DOMAIN snaps /\ snaps[matched].saved)
  BY DEF IInv, MatchedIsWhole
<1>2. check' \in [Checks -> CheckState]
  BY <1>1, CheckType
<1>3. TypeOK'
  BY <1>1, <1>2 DEF TypeOK
<1>4. MatchedIsWhole'
  BY <1>1, <1>3 DEF MatchedIsWhole, Kept
<1>5. ASSUME NEW j \in Checks
      PROVE  /\ check'[j].stage = "save" => check'[j].chosen \in DOMAIN snaps'
             /\ check'[j].stage \in Locked =>
                  /\ lock' = j
                  /\ check'[j].chosen \in DOMAIN snaps' /\ snaps'[check'[j].chosen].saved
                  /\ matched' # 0 => NotNewer(matched, check[j].chosen)'
  <2>1. CASE j = k
    <3>1. check'[k] = c
      BY <1>1 DEF TypeOK
    <3>2. matched # 0 /\ c.stage \in Locked => NotNewer(matched, check[k].chosen)'
      BY <3>1 DEF NotNewer, NotNewerIn
    <3>. QED  BY <2>1, <3>1, <3>2
  <2>2. CASE j # k
    <3>1. check'[j] = check[j]
      BY <1>1, <2>2 DEF TypeOK
    <3>2. check[j].stage \in Locked => lock' = lock
      BY <2>2
    <3>. QED  BY <1>1, <1>3, <3>1, <3>2, ChosenKept
  <2>. QED  BY <2>1, <2>2
<1>6. ChosenInv'
  BY <1>5 DEF ChosenInv
<1>7. (published # << >>)'
  BY DEF IInv
<1>. QED  BY <1>4, <1>6, <1>7 DEF IInv

\* Nobody else is inside when the lock is taken or given back.
LEMMA Alone ==
  ASSUME IInv, NEW k \in Checks, lock = Nobody \/ lock = k
  PROVE  \A j \in Checks \ {k} : check[j].stage \notin Locked
BY NobodyAssumption DEF IInv, ChosenInv, Nobody

LEMMA GoesOnType == [Idle EXCEPT !.stage = "lock"] \in CheckState
BY DEF Idle, CheckState, Stages, Pages

LEMMA ConfirmIInv == ASSUME IInv, NEW k \in Checks, Confirm(k) PROVE IInv'
<1>1. TypeOK /\ \A i, j \in DOMAIN snaps : snaps[i].page = snaps[j].page => i = j
  BY DEF IInv, MatchedIsWhole
<1>2. CASE Goes(k, "latest") /\ UNCHANGED snaps
  <2>. DEFINE c == [check[k] EXCEPT !.stage = "latest"]
  <2>1. c \in CheckState /\ c.stage = "latest"
    BY <1>1 DEF TypeOK, CheckState, Stages
  <2>2. check' = [check EXCEPT ![k] = c]
    BY <1>2 DEF Goes
  <2>. HIDE DEF c
  <2>. QED  BY <1>2, <2>1, <2>2, LocalStep DEF Confirm, Locked
<1>3. ASSUME NEW i \in Holding(check[k].page), GoesOn(k),
             snaps' = [snaps EXCEPT ![i].fetched = Larger(@, check[k].seen)]
      PROVE  IInv'
  <2>. DEFINE s == [snaps[i] EXCEPT !.fetched = Larger(snaps[i].fetched, check[k].seen)]
  <2>1. snaps \in Seq(Snapshot) /\ i \in DOMAIN snaps /\ snaps[i] \in Snapshot
        /\ check[k].seen \in Nat
    BY <1>1, <1>3 DEF TypeOK, Holding, CheckState
  <2>2. s \in Snapshot /\ s.page = snaps[i].page /\ s.date = snaps[i].date
        /\ s.saved = snaps[i].saved
    BY <2>1 DEF Snapshot, Larger
  <2>3. snaps' = [snaps EXCEPT ![i] = s]
    BY <1>3
  <2>. HIDE DEF s
  <2>4. snaps' \in Seq(Snapshot) /\ DOMAIN snaps' = DOMAIN snaps
    BY <2>1, <2>2, <2>3
  <2>5. Kept(snaps, snaps')
    BY <2>1, <2>2, <2>3, <2>4 DEF Kept
  <2>6. \A m, n \in DOMAIN snaps' : snaps'[m].page = snaps'[n].page => m = n
    BY <1>1, <2>1, <2>2, <2>3, <2>4
  <2>7. check' = [check EXCEPT ![k] = [Idle EXCEPT !.stage = "lock"]]
    BY <1>3 DEF GoesOn
  <2>8. [Idle EXCEPT !.stage = "lock"].stage = "lock"
    BY DEF Idle
  <2>. QED
    BY <1>1, <2>4, <2>5, <2>6, <2>7, <2>8, GoesOnType, ProcessStep DEF Confirm, Locked, TypeOK
<1>. QED  BY <1>2, <1>3 DEF Confirm
\* The end of a check, or its failure: it holds nothing any more.
LEMMA IdleStep ==
  ASSUME IInv, NEW k \in Checks, check' = [check EXCEPT ![k] = Idle],
         UNCHANGED <<published, snaps, matched>>,
         lock' = lock \/ (lock' = Nobody /\ lock \in {Nobody, k})
  PROVE  IInv'
<1>1. TypeOK /\ \A i, j \in DOMAIN snaps : snaps[i].page = snaps[j].page => i = j
  BY DEF IInv, MatchedIsWhole
<1>2. Kept(snaps, snaps') /\ snaps' \in Seq(Snapshot)
  BY <1>1 DEF Kept, TypeOK
<1>3. \A j \in Checks \ {k} : check[j].stage \in Locked => lock' = lock
  BY Alone
<1>4. Idle.stage = "idle"
  BY DEF Idle
<1>5. lock' \in Checks \union {Nobody}
  BY <1>1 DEF TypeOK
<1>. QED  BY <1>1, <1>2, <1>3, <1>4, <1>5, IdleType, ProcessStep DEF Locked

LEMMA CreateIInv == ASSUME IInv, NEW k \in Checks, Create(k) PROVE IInv'
<1>1. TypeOK /\ \A i, j \in DOMAIN snaps : snaps[i].page = snaps[j].page => i = j
  BY DEF IInv, MatchedIsWhole
<1>2. CASE check' = [check EXCEPT ![k] = Idle] /\ UNCHANGED snaps
  BY <1>2, IdleStep DEF Create
<1>3. CASE ~(check' = [check EXCEPT ![k] = Idle] /\ UNCHANGED snaps)
  <2>. DEFINE s == [page |-> check[k].page, date |-> check[k].seen, fetched |-> check[k].seen,
                    saved |-> FALSE, day |-> [p \in Listed[check[k].page] |-> "none"]]
              c == [check[k] EXCEPT !.stage = "save", !.chosen = Len(snaps) + 1]
  <2>1. /\ Holding(check[k].page) = {} /\ snaps' = Append(snaps, s)
        /\ check' = [check EXCEPT ![k].stage = "save", ![k].chosen = Len(snaps) + 1]
        /\ UNCHANGED <<published, matched, lock>>
    BY <1>3 DEF Create
  <2>2. check[k] \in CheckState /\ snaps \in Seq(Snapshot) /\ lock \in Checks \union {Nobody}
    BY <1>1 DEF TypeOK
  <2>3. s \in Snapshot
    <3>1. [p \in Listed[check[k].page] |-> "none"] \in [Listed[check[k].page] -> Sources]
      BY DEF Sources
    <3>2. check[k].page \in Pages /\ check[k].seen \in Nat
      BY <2>2 DEF CheckState
    <3>3. [p \in Listed[check[k].page] |-> "none"] \in UNION {[Listed[b] -> Sources] : b \in Pages}
      BY <3>1, <3>2
    <3>. QED  BY <3>2, <3>3 DEF Snapshot
  <2>4. c \in CheckState /\ c.stage = "save" /\ c.chosen = Len(snaps) + 1
    <3>1. Len(snaps) + 1 \in Nat
      BY <2>2
    <3>. QED  BY <2>2, <3>1 DEF CheckState, Stages
  <2>5. check' = [check EXCEPT ![k] = c]
    BY <2>1
  <2>6. s.page = check[k].page
    OBVIOUS
  <2>. HIDE DEF s, c
  <2>7. /\ snaps' \in Seq(Snapshot) /\ Len(snaps') = Len(snaps) + 1
        /\ snaps'[Len(snaps) + 1] = s /\ \A i \in DOMAIN snaps : snaps'[i] = snaps[i]
    BY <2>1, <2>2, <2>3
  <2>8. Kept(snaps, snaps')
    BY <2>2, <2>7 DEF Kept
  <2>9. \A m, n \in DOMAIN snaps' : snaps'[m].page = snaps'[n].page => m = n
    <3>1. \A i \in DOMAIN snaps : snaps[i].page # s.page
      BY <2>1, <2>6 DEF Holding
    <3>2. DOMAIN snaps' = DOMAIN snaps \union {Len(snaps) + 1}
      BY <2>2, <2>7
    <3>. QED  BY <1>1, <2>7, <3>1, <3>2
  <2>10. c.chosen \in DOMAIN snaps'
    BY <2>2, <2>4, <2>7
  <2>. QED
    BY <2>1, <2>2, <2>4, <2>5, <2>7, <2>8, <2>9, <2>10, ProcessStep DEF Locked
<1>. QED  BY <1>2, <1>3

LEMMA SaveIInv == ASSUME IInv, NEW k \in Checks, Save(k) PROVE IInv'
<1>1. TypeOK /\ \A i, j \in DOMAIN snaps : snaps[i].page = snaps[j].page => i = j
  BY DEF IInv, MatchedIsWhole
<1>. DEFINE i == check[k].chosen
            s == [snaps[i] EXCEPT !.saved = TRUE]
<1>2. i \in DOMAIN snaps /\ snaps \in Seq(Snapshot) /\ snaps[i] \in Snapshot
      /\ lock \in Checks \union {Nobody}
  BY <1>1 DEF Save, At, IInv, ChosenInv, TypeOK
<1>3. s \in Snapshot /\ s.page = snaps[i].page /\ s.date = snaps[i].date /\ s.saved
  BY <1>2 DEF Snapshot
<1>4. snaps' = [snaps EXCEPT ![i] = s]
  BY DEF Save
<1>. HIDE DEF s
<1>5. snaps' \in Seq(Snapshot) /\ DOMAIN snaps' = DOMAIN snaps
  BY <1>2, <1>3, <1>4
<1>6. Kept(snaps, snaps')
  BY <1>2, <1>3, <1>4, <1>5 DEF Kept
<1>7. \A m, n \in DOMAIN snaps' : snaps'[m].page = snaps'[n].page => m = n
  BY <1>1, <1>2, <1>3, <1>4, <1>5
<1>8. check' = [check EXCEPT ![k] = [Idle EXCEPT !.stage = "lock"]]
  BY DEF Save, GoesOn
<1>9. [Idle EXCEPT !.stage = "lock"].stage = "lock"
  BY DEF Idle
<1>. QED
  BY <1>2, <1>5, <1>6, <1>7, <1>8, <1>9, GoesOnType, ProcessStep DEF Save, Locked
LEMMA LockIInv == ASSUME IInv, NEW k \in Checks, Lock(k) PROVE IInv'
<1>1. TypeOK /\ \A i, j \in DOMAIN snaps : snaps[i].page = snaps[j].page => i = j
  BY DEF IInv, MatchedIsWhole
<1>2. CASE Ends(k)
  BY <1>2, IdleStep DEF Lock, Ends
<1>3. CASE Chooses(k, "carry") /\ lock' = k
  <2>1. PICK i \in Latest : check' = [check EXCEPT ![k] = [Idle EXCEPT !.stage = "carry",
                                                                        !.chosen = i]]
    BY <1>3 DEF Chooses
  <2>. DEFINE c == [Idle EXCEPT !.stage = "carry", !.chosen = i]
  <2>2. i \in DOMAIN snaps /\ snaps[i].saved /\ i \in Nat
    BY <1>1, <2>1 DEF Latest, TypeOK
  <2>3. matched # 0 => NotNewer(matched, i)
    BY <2>1 DEF Latest, IInv, MatchedIsWhole
  <2>4. c \in CheckState /\ c.stage = "carry" /\ c.chosen = i
    BY <2>2 DEF CheckState, Stages, Idle, Pages
  <2>5. check' = [check EXCEPT ![k] = c]
    BY <2>1
  <2>. HIDE DEF c
  <2>6. Kept(snaps, snaps') /\ snaps' \in Seq(Snapshot) /\ UNCHANGED <<published, matched, snaps>>
    BY <1>1 DEF Kept, TypeOK, Lock
  <2>7. \A j \in Checks \ {k} : check[j].stage \in Locked => lock' = lock
    BY Alone DEF Lock
  <2>8. matched # 0 => NotNewerIn(snaps', matched, c.chosen)
    BY <2>3, <2>4, <2>6 DEF NotNewer, NotNewerIn
  <2>. QED
    BY <1>1, <1>3, <2>2, <2>4, <2>5, <2>6, <2>7, <2>8, ProcessStep
<1>. QED  BY <1>2, <1>3 DEF Lock

\* The process inside goes on to its next stage and gives the chosen snapshot some days.
LEMMA DaysStep ==
  ASSUME IInv, NEW k \in Checks, check[k].stage \in Locked, NEW stage \in Locked,
         NEW d, d \in [DOMAIN snaps[check[k].chosen].day -> Sources],
         snaps' = [snaps EXCEPT ![check[k].chosen].day = d],
         Goes(k, stage), UNCHANGED <<published, matched, lock>>
  PROVE  IInv'
<1>1. TypeOK /\ \A i, j \in DOMAIN snaps : snaps[i].page = snaps[j].page => i = j
  BY DEF IInv, MatchedIsWhole
<1>. DEFINE i == check[k].chosen
            c == [check[k] EXCEPT !.stage = stage]
<1>2. lock = k /\ i \in DOMAIN snaps /\ snaps[i].saved /\ (matched # 0 => NotNewer(matched, i))
  BY DEF IInv, ChosenInv
<1>3. snaps' \in Seq(Snapshot) /\ DOMAIN snaps' = DOMAIN snaps /\ Kept(snaps, snaps')
  BY <1>1, <1>2, DayChanged
<1>4. \A m, n \in DOMAIN snaps' : snaps'[m].page = snaps'[n].page => m = n
  BY <1>1, <1>3 DEF Kept
<1>5. c \in CheckState /\ c.stage = stage /\ c.chosen = i
  BY <1>1 DEF TypeOK, CheckState, Stages, Locked
<1>6. check' = [check EXCEPT ![k] = c]
  BY DEF Goes
<1>. HIDE DEF c
<1>7. ASSUME matched # 0 PROVE NotNewerIn(snaps', matched, c.chosen)
  <2>1. matched \in DOMAIN snaps
    BY <1>7 DEF IInv, MatchedIsWhole
  <2>. QED  BY <1>2, <1>3, <1>5, <1>7, <2>1 DEF NotNewer, NotNewerIn, Kept
<1>8. lock' \in Checks \union {Nobody} /\ c.chosen \in DOMAIN snaps' /\ snaps'[c.chosen].saved
  BY <1>2, <1>3, <1>5 DEF Kept
<1>9. stage # "save"
  BY DEF Locked
<1>. QED
  BY <1>2, <1>3, <1>4, <1>5, <1>6, <1>7, <1>8, <1>9, ProcessStep

\* The days before and after of a snapshot a process inside has chosen.
LEMMA CarriedType ==
  ASSUME TypeOK, NEW i \in DOMAIN snaps
  PROVE  Carried(i) \in [DOMAIN snaps[i].day -> Sources]
<1>1. \A j \in DOMAIN snaps : snaps[j].day \in [DOMAIN snaps[j].day -> Sources]
  BY SnapshotDayType DEF TypeOK
<1>2. i > 1 => i - 1 \in DOMAIN snaps
  BY DEF TypeOK
<1>3. "none" \in Sources
  BY DEF Sources
<1>. QED  BY <1>1, <1>2, <1>3 DEF Carried

LEMMA FilledType ==
  ASSUME TypeOK, NEW i \in DOMAIN snaps, NEW copy, NEW table
  PROVE  Written(Written(snaps[i].day, copy, "copy"), table, "operator")
           \in [DOMAIN snaps[i].day -> Sources]
<1>1. snaps[i].day \in [DOMAIN snaps[i].day -> Sources]
  BY SnapshotDayType DEF TypeOK
<1>2. "copy" \in Sources /\ "operator" \in Sources
  BY DEF Sources
<1>3. Written(snaps[i].day, copy, "copy") \in [DOMAIN snaps[i].day -> Sources]
  BY <1>1, <1>2, WrittenType
<1>. QED  BY <1>2, <1>3, WrittenType

LEMMA InsideIInv ==
  ASSUME IInv, NEW k \in Checks, Carry(k) \/ FillDays(k) \/ Match(k)
  PROVE  IInv'
<1>1. TypeOK /\ check[k].stage \in Locked
  BY DEF IInv, MatchedIsWhole, Carry, FillDays, Match, At, Locked
<1>2. lock = k /\ check[k].chosen \in DOMAIN snaps /\ snaps[check[k].chosen].saved
  BY <1>1 DEF IInv, ChosenInv
<1>3. CASE Carry(k)
  BY <1>1, <1>2, <1>3, CarriedType, DaysStep DEF Carry, Locked
<1>4. CASE FillDays(k)
  <2>1. PICK copy \in SUBSET People, table \in SUBSET People :
          snaps' = [snaps EXCEPT ![check[k].chosen].day =
                      Written(Written(snaps[check[k].chosen].day, copy, "copy"), table, "operator")]
    BY <1>4 DEF FillDays
  <2>2. "match" \in Locked
    BY DEF Locked
  <2>. QED  BY <1>1, <1>2, <1>4, <2>1, <2>2, FilledType, DaysStep DEF FillDays
<1>5. CASE Match(k)
  <2>1. /\ matched' = check[k].chosen /\ check' = [check EXCEPT ![k] = Idle] /\ lock' = Nobody
        /\ UNCHANGED <<published, snaps>>
    BY <1>5 DEF Match, Ends
  <2>2. TypeOK'
    BY <1>1, <1>2, <2>1, IdleType DEF TypeOK
  <2>3. MatchedIsWhole'
    BY <1>2, <2>1, <2>2 DEF IInv, MatchedIsWhole
  <2>4. ASSUME NEW j \in Checks
        PROVE  check'[j].stage \notin Locked
               /\ (check'[j].stage = "save" => check'[j].chosen \in DOMAIN snaps')
    <3>1. CASE j = k
      BY <1>1, <2>1, <3>1 DEF TypeOK, Idle, Locked
    <3>2. CASE j # k
      BY <1>1, <1>2, <2>1, <3>2, Alone DEF TypeOK, IInv, ChosenInv
    <3>. QED  BY <3>1, <3>2
  <2>5. ChosenInv'
    BY <2>4 DEF ChosenInv
  <2>. QED  BY <2>1, <2>3, <2>5 DEF IInv
<1>. QED  BY <1>3, <1>4, <1>5

LEMMA StopsIInv == ASSUME IInv, NEW k \in Checks, Stops(k) PROVE IInv'
BY IdleStep DEF Stops

-----------------------------------------------------------------------------
(* The theorems.                                                           *)

THEOREM NextIInv == IInv /\ [Next]_vars => IInv'
<1>. SUFFICES ASSUME IInv, [Next]_vars PROVE IInv'
  OBVIOUS
<1>1. CASE UNCHANGED vars
  BY <1>1 DEF vars, IInv, MatchedIsWhole, TypeOK, ChosenInv, NotNewer
<1>2. CASE \E c \in Contents : Publish(c)
  BY <1>2, PublishIInv
<1>3. ASSUME NEW k \in Checks, Refreshes(k) PROVE IInv'
  BY <1>3, RefreshIInv, ConfirmIInv, CreateIInv, SaveIInv DEF Refreshes
<1>4. ASSUME NEW k \in Checks, Matches(k) PROVE IInv'
  BY <1>4, LockIInv, InsideIInv DEF Matches
<1>5. ASSUME NEW k \in Checks, Stops(k) PROVE IInv'
  BY <1>5, StopsIInv
<1>6. ASSUME NEW k \in Checks, NEW c \in Pages, NEW day \in DOMAIN published,
             ImportFile(k, c, day)
      PROVE  IInv'
  BY <1>6, ImportIInv
<1>. QED  BY <1>1, <1>2, <1>3, <1>4, <1>5, <1>6 DEF Next

THEOREM SpecIInv == Spec => []IInv
BY InitIInv, NextIInv, PTL DEF Spec

\* What the entities are matched against is always a snapshot stored whole, and no page is
\* stored twice (latest_imported_snapshot, uq_rosfinmonitoring_snapshots_content_hash).
THEOREM SpecMatchedIsWhole == Spec => []MatchedIsWhole
<1>1. IInv => MatchedIsWhole
  BY DEF IInv
<1>. QED  BY <1>1, SpecIInv, PTL

\* No check matches the entities against an older list than the one before it did
\* (EntityRfCheck._match).
THEOREM SpecListNeverGoesBack == Spec => ListNeverGoesBack
<1>1. ASSUME IInv, [Next]_vars, matched' # matched, matched # 0
      PROVE  NotNewer(matched, matched')
  <2>1. PICK k \in Checks : Match(k)
    BY <1>1 DEF Next, vars, Refreshes, Matches, Publish, SiteServes, SiteFails, Confirm,
             ReadLatest, Parse, Create, Save, Lock, Carry, FillDays, Stops, ImportFile
  <2>2. check[k].stage \in Locked /\ matched' = check[k].chosen
    BY <2>1 DEF Match, At, Locked
  <2>. QED  BY <1>1, <2>2 DEF IInv, ChosenInv
<1>. QED  BY <1>1, SpecIInv, PTL DEF Spec, ListNeverGoesBack
\* A step that is none of Carry and FillDays keeps every day it finds.
LEMMA DaysKept ==
  ASSUME IInv, [Next]_vars, \A k \in Checks : ~Carry(k) /\ ~FillDays(k),
         NEW i \in DOMAIN snaps
  PROVE  snaps'[i].day = snaps[i].day
<1>1. TypeOK
  BY DEF IInv, MatchedIsWhole
<1>a. snaps \in Seq(Snapshot) /\ snaps[i] \in Snapshot
  BY <1>1 DEF TypeOK
<1>2. ASSUME NEW k \in Checks, Confirm(k) PROVE snaps'[i].day = snaps[i].day
  <2>1. ASSUME NEW j \in Holding(check[k].page),
               snaps' = [snaps EXCEPT ![j].fetched = Larger(@, check[k].seen)]
        PROVE  snaps'[i].day = snaps[i].day
    <3>1. CASE i = j
      <4>1. snaps'[i] = [snaps[i] EXCEPT !.fetched = Larger(snaps[i].fetched, check[k].seen)]
        BY <1>a, <2>1, <3>1
      <4>. QED  BY <1>a, <4>1 DEF Snapshot
    <3>. QED  BY <1>a, <2>1, <3>1
  <2>. QED  BY <1>2, <2>1 DEF Confirm
<1>b. ASSUME NEW k \in Checks, Save(k) PROVE snaps'[i].day = snaps[i].day
  <2>1. CASE i = check[k].chosen
    <3>1. snaps'[i] = [snaps[i] EXCEPT !.saved = TRUE]
      BY <1>a, <1>b, <2>1 DEF Save
    <3>. QED  BY <1>a, <3>1 DEF Snapshot
  <2>. QED  BY <1>a, <1>b, <2>1 DEF Save
<1>3. ASSUME NEW k \in Checks, Create(k) PROVE snaps'[i].day = snaps[i].day
  <2>1. ASSUME NEW s, snaps' = Append(snaps, s) PROVE snaps'[i] = snaps[i]
    BY <1>a, <2>1
  <2>. QED  BY <1>3, <2>1 DEF Create
<1>4. ASSUME \A k \in Checks : ~Confirm(k) /\ ~Save(k) /\ ~Create(k) PROVE UNCHANGED snaps
  BY <1>4 DEF Next, vars, Refreshes, Matches, Publish, SiteServes, SiteFails,
           ReadLatest, Parse, Lock, Match, Stops, ImportFile
<1>. QED  BY <1>2, <1>b, <1>3, <1>4

\* No day of inclusion is lost again, and none of the copy gives way to one of the operator's
\* table (carry_dates_from_previous_snapshot, write_inclusion_dates).
THEOREM SpecEstablishedDayStays == Spec => EstablishedDayStays
<1>. DEFINE Stays(old, new) == \/ new = old
                               \/ old = "none"
                               \/ old = "operator" /\ new = "copy"
<1>1. ASSUME IInv, [Next]_vars, NEW i \in DOMAIN snaps, NEW p \in DOMAIN snaps[i].day
      PROVE  Stays(snaps[i].day[p], snaps'[i].day[p])
  <2>1. CASE \A k \in Checks : ~Carry(k) /\ ~FillDays(k)
    BY <1>1, <2>1, DaysKept
  <2>2. ASSUME NEW k \in Checks, Carry(k) \/ FillDays(k)
        PROVE  Stays(snaps[i].day[p], snaps'[i].day[p])
    <3>1. TypeOK
      BY <1>1 DEF IInv, MatchedIsWhole
    <3>2. CASE i # check[k].chosen
      BY <1>1, <2>2, <3>1, <3>2 DEF Carry, FillDays, TypeOK
    <3>3. CASE i = check[k].chosen /\ Carry(k)
      <4>1. snaps'[i].day = Carried(i)
        BY <1>1, <3>1, <3>3, CarriedType, DayChanged DEF Carry
      <4>. QED  BY <1>1, <4>1 DEF Carried
    <3>4. CASE i = check[k].chosen /\ FillDays(k)
      <4>1. PICK copy \in SUBSET People, table \in SUBSET People :
              snaps' = [snaps EXCEPT ![i].day =
                          Written(Written(snaps[i].day, copy, "copy"), table, "operator")]
        BY <3>4 DEF FillDays
      <4>2. snaps'[i].day = Written(Written(snaps[i].day, copy, "copy"), table, "operator")
        BY <1>1, <3>1, <4>1, FilledType, DayChanged
      <4>. QED  BY <1>1, <4>2 DEF Written
    <3>. QED  BY <2>2, <3>2, <3>3, <3>4
  <2>. QED  BY <2>1, <2>2
<1>2. IInv /\ [Next]_vars
        => [\A i \in DOMAIN snaps : \A p \in DOMAIN snaps[i].day :
              Stays(snaps[i].day[p], snaps'[i].day[p])]_vars
  BY <1>1
<1>. QED  BY <1>2, SpecIInv, PTL DEF Spec, EstablishedDayStays
=============================================================================
