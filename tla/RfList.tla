-------------------------------- MODULE RfList --------------------------------
(***************************************************************************)
(* The Rosfinmonitoring list: checks download it, store a page that is new *)
(* as a snapshot, give its entries their days of inclusion and match the   *)
(* entities against the latest snapshot.  The cycle, a check asked for by  *)
(* hand and an import of a file do this at the same time, and any of them  *)
(* may stop half way.                                                      *)
(*                                                                         *)
(* A page is its content; a snapshot's identifier is its place in `snaps`. *)
(* The matching of names is left out: EntityGroups has what follows it.    *)
(***************************************************************************)
EXTENDS Naturals, Sequences

CONSTANTS
  Checks,      \* processes that check or import
  Contents,    \* whole pages the site publishes
  Cut,         \* a page cut short, or dressed as the list
  Count,       \* content -> how many entries it holds
  Listed,      \* content -> the people followed here that it lists
  MaxTime,     \* bound on the days
  MaxBad,      \* bound on the downloads the site does not answer with its page
  MaxTroubles  \* bound on the files imported by hand and the checks that stop half way

Pages == Contents \union {Cut}
People == UNION {Listed[c] : c \in Pages}

ASSUME CountAssumption == Count \in [Pages -> Nat \ {0}]
ASSUME BoundsAssumption == {MaxTime, MaxBad, MaxTroubles} \subseteq Nat
ASSUME NobodyAssumption == "none" \notin Checks

VARIABLES
  published,   \* published[t]: the page the site shows on day t
  snaps,       \* the snapshots, in the order of their ids
  matched,     \* the snapshot entity_group_rf_matches were made from, or 0
  check,       \* what each process is doing
  lock,        \* holder of CHECK_LOCK_KEY, or none
  bad, troubles  \* how many there were so far

bounds == <<bad, troubles>>
vars == <<published, snaps, matched, check, lock, bad, troubles>>

Nobody == "none"
Today == Len(published)
Idle == [stage |-> "idle", page |-> Cut, seen |-> 0, captured |-> FALSE, floor |-> 1,
         chosen |-> 0]

Init ==
  /\ \E c \in Contents : published = <<c>>
  /\ snaps = << >>
  /\ matched = 0
  /\ check = [k \in Checks |-> Idle]
  /\ lock = Nobody
  /\ bad = 0 /\ troubles = 0

-----------------------------------------------------------------------------
(* The site and the snapshots.                                             *)

Publish(c) ==
  /\ Today < MaxTime
  /\ published' = Append(published, c)
  /\ UNCHANGED <<snaps, matched, check, lock, bounds>>

Holding(c) == {i \in DOMAIN snaps : snaps[i].page = c}
Larger(a, b) == IF a > b THEN a ELSE b
LastSeen(i) == Larger(snaps[i].date, snaps[i].fetched)

\* By snapshot_date, then by id.
NotNewer(i, j) ==
  snaps[i].date < snaps[j].date \/ (snaps[i].date = snaps[j].date /\ i <= j)

\* Changed form of Latest: a snapshot without entries is taken, too.
LatestOfAny == {i \in DOMAIN snaps : \A j \in DOMAIN snaps : NotNewer(j, i)}

\* latest_imported_snapshot: the one snapshot, if any, that has entries and is the newest.
Latest ==
  LET whole == {i \in DOMAIN snaps : snaps[i].saved}
  IN {i \in whole : \A j \in whole : NotNewer(j, i)}

\* Changed form of Floors: any page with an entry is taken for the list.
FloorsOne == {1}

\* whole_list_floor: nine tenths of the list in use, rounded down.
Floors == IF Latest = {} THEN {1} ELSE {(Count[snaps[i].page] * 9) \div 10 : i \in Latest}

At(k, stage) == check[k].stage = stage
Goes(k, stage) == check' = [check EXCEPT ![k].stage = stage]

-----------------------------------------------------------------------------
(* The list is refreshed, outside the lock.                                *)

\* The check goes on with what is stored.
GoesOn(k) == check' = [check EXCEPT ![k] = [Idle EXCEPT !.stage = "lock"]]

Fetched(k, c, day, captured) ==
  check' = [check EXCEPT ![k] = [Idle EXCEPT !.stage = "confirm", !.page = c, !.seen = day,
                                             !.captured = captured]]

SiteServes(k) ==
  /\ At(k, "idle")
  /\ Fetched(k, published[Today], Today, FALSE)
  /\ UNCHANGED <<published, snaps, matched, lock, bounds>>

\* The site answers with a page cut short, or not at all: then the archive's capture of
\* some day is taken, or nothing, and the check goes on with what is stored.
SiteFails(k) ==
  /\ At(k, "idle")
  /\ bad < MaxBad
  /\ bad' = bad + 1
  /\ \/ Fetched(k, Cut, Today, FALSE)
     \/ \E t \in DOMAIN published : Fetched(k, published[t], t, TRUE)
     \/ GoesOn(k)
  /\ UNCHANGED <<published, snaps, matched, lock, troubles>>

\* confirm_snapshot: a page that is stored was seen again, and nothing else changes.
Confirm(k) ==
  /\ At(k, "confirm")
  /\ \/ /\ Holding(check[k].page) = {}
        /\ Goes(k, "latest")
        /\ UNCHANGED snaps
     \/ \E i \in Holding(check[k].page) :
          /\ snaps' = [snaps EXCEPT ![i].fetched = Larger(@, check[k].seen)]
          /\ GoesOn(k)
  /\ UNCHANGED <<published, matched, lock, bounds>>

\* A capture not newer than the last day the list in use was seen is left.
ReadLatest(k) ==
  /\ At(k, "latest")
  /\ \/ /\ check[k].captured /\ \E i \in Latest : LastSeen(i) >= check[k].seen
        /\ GoesOn(k)
     \/ /\ ~(check[k].captured /\ \E i \in Latest : LastSeen(i) >= check[k].seen)
        /\ \E f \in Floors : check' = [check EXCEPT ![k].stage = "parse", ![k].floor = f]
  /\ UNCHANGED <<published, snaps, matched, lock, bounds>>

\* A person imports a page saved on some day, dated that day, an earlier one, or today.
ImportFile(k, c, day) ==
  /\ At(k, "idle")
  /\ troubles < MaxTroubles
  /\ troubles' = troubles + 1
  /\ \E f \in Floors :
       check' = [check EXCEPT ![k] = [Idle EXCEPT !.stage = "parse file", !.page = c,
                                                  !.seen = day, !.floor = f]]
  /\ UNCHANGED <<published, snaps, matched, lock, bad>>

\* ingest refuses what is stored and what is too short: a check goes on with what is
\* stored, an import ends.
Parse(k) ==
  /\ check[k].stage \in {"parse", "parse file"}
  /\ LET refused == Holding(check[k].page) # {} \/ Count[check[k].page] < check[k].floor
     IN \/ refused /\ At(k, "parse") /\ GoesOn(k)
        \/ refused /\ At(k, "parse file") /\ check' = [check EXCEPT ![k] = Idle]
        \/ ~refused /\ check' = [check EXCEPT ![k].stage = "create", ![k].floor = 1]
  /\ UNCHANGED <<published, snaps, matched, lock, bounds>>

\* create_snapshot: the row is committed before its entries.  Another process may have
\* stored the page since: the unique hash ends the check.
Create(k) ==
  /\ At(k, "create")
  /\ \/ /\ Holding(check[k].page) # {}
        /\ check' = [check EXCEPT ![k] = Idle]
        /\ UNCHANGED snaps
     \/ /\ Holding(check[k].page) = {}
        /\ snaps' = Append(snaps, [page |-> check[k].page, date |-> check[k].seen,
                                   fetched |-> check[k].seen, saved |-> FALSE,
                                   day |-> [p \in Listed[check[k].page] |-> "none"]])
        /\ check' = [check EXCEPT ![k].stage = "save", ![k].chosen = Len(snaps) + 1]
  /\ UNCHANGED <<published, matched, lock, bounds>>

\* save_entries: all of them in one transaction.
Save(k) ==
  /\ At(k, "save")
  /\ snaps' = [snaps EXCEPT ![check[k].chosen].saved = TRUE]
  /\ GoesOn(k)
  /\ UNCHANGED <<published, matched, lock, bounds>>

-----------------------------------------------------------------------------
(* The entities are matched, under the lock.                               *)

Ends(k) == check' = [check EXCEPT ![k] = Idle] /\ lock' = Nobody

Chooses(k, stage) ==
  \E i \in Latest : check' = [check EXCEPT ![k] = [Idle EXCEPT !.stage = stage, !.chosen = i]]

\* Changed form of Lock: the snapshot is chosen before the lock is asked for.
LockChosen(k) ==
  /\ \/ At(k, "lock") /\ lock' = lock
        /\ \/ Chooses(k, "waits")
           \/ Latest = {} /\ check' = [check EXCEPT ![k] = Idle]
     \/ At(k, "waits") /\ lock = Nobody /\ lock' = k /\ Goes(k, "carry")
  /\ UNCHANGED <<published, snaps, matched, bounds>>

\* exclusive_check, and the choice of the snapshot under it.
Lock(k) ==
  /\ At(k, "lock")
  /\ lock = Nobody
  /\ \/ Latest = {} /\ Ends(k)
     \/ Chooses(k, "carry") /\ lock' = k
  /\ UNCHANGED <<published, snaps, matched, bounds>>

\* carry_dates_from_previous_snapshot: from the row before, by id, into the empty days,
\* with the source they have.
Carried(i) ==
  [p \in DOMAIN snaps[i].day |->
     IF snaps[i].day[p] = "none" /\ i > 1
     THEN LET before == snaps[i - 1]
          IN IF before.saved /\ p \in DOMAIN before.day THEN before.day[p] ELSE "none"
     ELSE snaps[i].day[p]]

Carry(k) ==
  /\ At(k, "carry")
  /\ snaps' = [snaps EXCEPT ![check[k].chosen].day = Carried(check[k].chosen)]
  /\ Goes(k, "days")
  /\ UNCHANGED <<published, matched, lock, bounds>>

\* Changed form of Written: every source writes over the days of the others.
WrittenOver(day, from, source) ==
  [p \in DOMAIN day |-> IF p \in from THEN source ELSE day[p]]

\* write_inclusion_dates: a day of the operator's table stands in for one of the copy.
Written(day, from, source) ==
  [p \in DOMAIN day |->
     IF p \in from /\ (day[p] = "none" \/ (day[p] = "operator" /\ source = "copy"))
     THEN source ELSE day[p]]

\* The file of the copy and then the operator's table: each gives some of the days, or
\* cannot be read.  Nobody else sees the snapshot's days in between.
FillDays(k) ==
  /\ At(k, "days")
  /\ \E copy, table \in SUBSET People :
       snaps' = [snaps EXCEPT ![check[k].chosen].day =
                   Written(Written(@, copy, "copy"), table, "operator")]
  /\ Goes(k, "match")
  /\ UNCHANGED <<published, matched, lock, bounds>>

Match(k) ==
  /\ At(k, "match")
  /\ matched' = check[k].chosen
  /\ Ends(k)
  /\ UNCHANGED <<published, snaps, bounds>>

\* An exception or the end of the process: the lock goes with its session.
Stops(k) ==
  /\ ~At(k, "idle")
  /\ troubles < MaxTroubles
  /\ troubles' = troubles + 1
  /\ check' = [check EXCEPT ![k] = Idle]
  /\ lock' = IF lock = k THEN Nobody ELSE lock
  /\ UNCHANGED <<published, snaps, matched, bad>>

-----------------------------------------------------------------------------

Refreshes(k) ==
  \/ SiteServes(k) \/ SiteFails(k) \/ Confirm(k) \/ ReadLatest(k)
  \/ Parse(k) \/ Create(k) \/ Save(k)

Matches(k) ==
  \/ Lock(k) \/ Carry(k) \/ FillDays(k) \/ Match(k)

Next ==
  \/ \E c \in Contents : Publish(c)
  \/ \E k \in Checks :
       \/ Refreshes(k) \/ Matches(k) \/ Stops(k)
       \/ \E c \in Pages, day \in DOMAIN published : ImportFile(k, c, day)

Spec == Init /\ [][Next]_vars

\* A check begun goes on, one that waits for the lock gets it in the end (the database
\* serves waiters in turn), and the cycle starts a check again and again.
FairSpec ==
  /\ Spec
  /\ \A k \in Checks : SF_vars(Refreshes(k) \/ Matches(k))

-----------------------------------------------------------------------------
(* Properties.                                                             *)

Stages == {"idle", "confirm", "latest", "parse", "parse file", "create", "save", "lock",
           "carry", "days", "match"}
Sources == {"none", "operator", "copy"}

Snapshot == [page : Pages, date : Nat, fetched : Nat, saved : BOOLEAN,
             day : UNION {[Listed[c] -> Sources] : c \in Pages}]
CheckState == [stage : Stages, page : Pages, seen : Nat, captured : BOOLEAN, floor : Nat,
               chosen : Nat]

TypeOK ==
  /\ published \in Seq(Contents)
  /\ snaps \in Seq(Snapshot)
  /\ matched \in Nat
  /\ check \in [Checks -> CheckState]
  /\ lock \in Checks \union {Nobody}

\* What is matched is a whole snapshot: «a snapshot without entries is an incomplete
\* import and is never selected» (snapshot_lookup.py:37), whoever stores one meanwhile.
MatchedIsWhole ==
  /\ TypeOK
  /\ matched # 0 => matched \in DOMAIN snaps /\ snaps[matched].saved
  /\ \A i, j \in DOMAIN snaps : snaps[i].page = snaps[j].page => i = j

\* «a check that read before another wrote would write what that one already replaced»
\* (rf_check.py:175): the entities are never matched against an older list than before.
ListNeverGoesBack ==
  [][matched' # matched /\ matched # 0 => NotNewer(matched, matched')]_vars

\* A day established is not lost, and one of the copy is not replaced by the table's, while
\* checks fill the days of one snapshot one after another and a page is stored beside them.
EstablishedDayStays ==
  [][\A i \in DOMAIN snaps : \A p \in DOMAIN snaps[i].day :
       \/ snaps'[i].day[p] = snaps[i].day[p]
       \/ snaps[i].day[p] = "none"
       \/ snaps[i].day[p] = "operator" /\ snaps'[i].day[p] = "copy"]_vars

\* The page published for good, which nobody has stored before, is matched in the end and
\* from then on, whatever else the site answers: once a list is in use, nobody else is
\* storing one, and nothing stops half way.
ChangedListIsMatched ==
  (/\ Today = MaxTime /\ Latest # {} /\ Holding(published[Today]) = {}
   /\ \A k \in Checks : At(k, "idle")
   /\ troubles = MaxTroubles)
  ~> [](matched # 0 /\ snaps[matched].page = published[Today])

\* «stored as a new snapshot when it changed, and every entity is compared with the latest
\* imported snapshot» (rf_check.py:3): a list the site serves unchanged is the one used.
UnchangedIsInUse ==
  [][\A k \in Checks :
       /\ At(k, "confirm") /\ ~check[k].captured /\ At(k, "lock")'
       /\ check[k].seen = Today /\ \A j \in Checks \ {k} : At(j, "idle")
       => Latest # {} /\ \A i \in Latest : snaps[i].page = check[k].page]_vars

\* «a new snapshot must not lose the dates the previous one had» (inclusion_store.py:11):
\* when the entities are matched against another snapshot, the days known of it are all there.
KnownDayStaysKnown ==
  [][matched' # matched /\ matched # 0
       => \A p \in DOMAIN snaps[matched].day \cap DOMAIN snaps[matched'].day :
            snaps[matched].day[p] # "none" => snaps[matched'].day[p] # "none"]_vars

\* «A capture older than the last time the list in use was seen would put an older list in
\* today's place» (rf_check.py:306): storing an archive's capture never does.
CaptureIsNotOlder ==
  [][\A k \in Checks :
       At(k, "save") /\ check[k].captured /\ check[k].chosen \in Latest'
         => \A i \in Latest : LastSeen(i) <= check[k].seen]_vars
=============================================================================
