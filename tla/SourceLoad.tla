------------------------------ MODULE SourceLoad ------------------------------
(***************************************************************************)
(* The loads of one source: discovery pages through a listing, newest      *)
(* first, and ingestion reads what the database does not hold.  A regular  *)
(* load that follows a completed one stops paging at a page it knows, and  *)
(* a channel is paged no further than its history window; the site         *)
(* publishes and removes posts meanwhile, posts age, reads fail, loads     *)
(* break.                                                                  *)
(*                                                                         *)
(* A post is its place in the order of publication.  The fencing of a run  *)
(* is in MonitoringRuns; here a load is the only one of its source.        *)
(***************************************************************************)
EXTENDS Naturals, FiniteSets

CONSTANTS
  PageSize,
  Limit,        \* discovery_limit
  FirstLimit,   \* FIRST_LOAD_LIMIT
  StopAfterOlder, \* PERIOD_STOP_AFTER_OLDER
  Sources,      \* what a source may be like (see below)
  NoText,       \* posts with nothing to read
  Undated,      \* posts whose page does not give their date
  MaxPosts,     \* bound on the posts ever published
  MaxShift,     \* bound on the posts published between two pages of a listing
  MaxBacklog    \* bound on the posts published since the last completed load

Posts == 1..MaxPosts
AllKinds == {"regular", "backfill", "refetch"}

(* A source pages its listing by "page" number or "before" the oldest post  *)
(* seen, as a channel does; loads of some kinds are made of it, for some    *)
(* publication `dates`; `archive` posts are there before the first load.    *)
(* The rest are bounds: the posts the site publishes and removes, the posts *)
(* of a channel that outlive its history window, and the loads that break   *)
(* or find a channel's listing shut.                                        *)
ASSUME SourcesAssumption ==
  \A s \in Sources :
    /\ s.paging \in {"page", "before"} /\ s.kinds \subseteq AllKinds /\ s.dates \subseteq Nat
    /\ s.posts \in 0..MaxPosts /\ s.archive \in 0..s.posts
    /\ {s.removals, s.ages, s.breaks} \subseteq Nat
ASSUME LoadSizesAssumption ==
  /\ {PageSize, Limit, FirstLimit, StopAfterOlder} \subseteq Nat \ {0}
  /\ {MaxPosts, MaxShift, MaxBacklog} \subseteq Nat
  /\ NoText \subseteq Nat /\ Undated \subseteq Nat

VARIABLES
  source,      \* the source that is loaded
  published,   \* the newest post
  removed,     \* posts the site took down
  aged,        \* the newest post that is older than the channel's history window
  shift,       \* posts published since the listing's last page was fetched
  stored,      \* posts in source_documents
  failed,      \* posts whose last read failed
  everFailed,  \* history: posts some read of which failed
  last,        \* status of the source's newest run that has discovery metrics
  top,         \* history: the newest post when the last completed load began
  floor,       \* history: the newest post that was out of sight of a completed load
  breaks,      \* loads broken, or shut out of a channel, so far
  load         \* the load under way

siteVars == <<source, published, removed, aged>>
readVars == <<stored, failed, everFailed>>
pastVars == <<last, top, floor>>     \* what is known of the loads before this one
loadVars == <<siteVars, readVars, pastVars, shift, breaks, load>>

NoLoad == [phase |-> "none", kind |-> "regular", from |-> 0, to |-> 0, cutoff |-> 0,
           until |-> FALSE, limit |-> 1, top |-> 0, page |-> 0, before |-> 0, refs |-> {},
           todo |-> {}, older |-> 0]

LoadInit ==
  /\ source \in Sources
  /\ published = source.archive
  /\ removed = {} /\ aged = 0 /\ shift = 0
  /\ stored = {} /\ failed = {} /\ everFailed = {}
  /\ last = "none"
  /\ top = source.archive /\ floor = 0
  /\ breaks = 0
  /\ load = NoLoad

-----------------------------------------------------------------------------
(* The site.                                                               *)

Visible == (1..published) \ removed

\* The posts of a set that are among its n newest.
Newest(S, n) == {p \in S : Cardinality({q \in S : q > p}) < n}

Publish ==
  /\ published < source.posts
  /\ published - top < MaxBacklog
  /\ load.phase = "listing" => shift < MaxShift
  /\ published' = published + 1
  /\ shift' = IF load.phase = "listing" THEN shift + 1 ELSE 0
  /\ UNCHANGED <<source, removed, aged, readVars, pastVars, breaks, load>>

Remove(p) ==
  /\ p \in Visible
  /\ Cardinality(removed) < source.removals
  /\ removed' = removed \union {p}
  /\ UNCHANGED <<source, published, aged, readVars, pastVars, shift, breaks, load>>

\* Time passes: one post more of a channel is older than TELEGRAM_HISTORY_DAYS.
Age ==
  /\ source.paging = "before" /\ aged < published /\ aged < source.ages
  /\ aged' = aged + 1
  /\ UNCHANGED <<source, published, removed, readVars, pastVars, shift, breaks, load>>

-----------------------------------------------------------------------------
(* Discovery.                                                              *)

\* Changed form of StopAtKnown: what is stored is taken for a load that completed.
StopAtStored(kind, from) == kind = "regular" /\ from = 0 /\ stored # {}

\* Changed form of StopAtKnown: a load for a period stops at what is stored, too.
StopAtKnownInPeriod(kind, from) == kind = "regular" /\ last = "completed"

\* stop_at_known: only a regular load after one that got through its ingestion, and not one
\* for a period, which is a load with a date to start `from`.
StopAtKnown(kind, from) == kind = "regular" /\ from = 0 /\ last = "completed"

\* The first load of a source, or one after a load that broke, has a lower ceiling.
DiscoveryLimit(kind, from) ==
  IF kind = "regular" /\ from = 0 /\ ~StopAtKnown(kind, from) /\ FirstLimit < Limit
  THEN FirstLimit ELSE Limit

\* The publication dates asked for, none of them after today; 0 for no date.
Dates == {0} \union (source.dates \intersect 1..published)

\* A channel's discovery takes the end of its history window once, before its first page.
StartLoad(kind, from, to) ==
  /\ load.phase = "none"
  /\ to = 0 \/ from <= to
  /\ load' = [NoLoad EXCEPT !.phase = "listing", !.kind = kind, !.from = from, !.to = to,
                            !.cutoff = aged, !.until = StopAtKnown(kind, from),
                            !.limit = DiscoveryLimit(kind, from), !.top = published]
  /\ shift' = 0
  /\ UNCHANGED <<siteVars, readVars, pastVars, breaks>>

\* What the fetched page lists.  A page past the archive's last is empty or missing.
Page ==
  IF source.paging = "page"
  THEN {p \in Visible : Cardinality({q \in Visible : q > p}) \div PageSize = load.page}
  ELSE Newest({p \in Visible : load.before = 0 \/ p < load.before}, PageSize)

\* The references the page adds, up to the limit; a channel's media-only post is none, nor
\* is one before the cutoff.
Added ==
  Newest({p \in Page \ load.refs : p > load.cutoff}
           \ (IF source.paging = "before" THEN NoText ELSE {}),
         load.limit - Cardinality(load.refs))

\* Every publication the page brought is stored already.
ReachedKnown == load.until /\ Added # {} /\ Added \subseteq stored

\* The page goes back past the history window.
ReachedCutoff == \E p \in Page : p <= load.cutoff

PagingEnds ==
  \/ Page = {}
  \/ source.paging = "page" /\ Added = {}
  \/ ReachedKnown
  \/ ReachedCutoff
  \/ Cardinality(load.refs \union Added) = load.limit

NextPage ==
  /\ load.phase = "listing" /\ ~PagingEnds
  /\ load' = [load EXCEPT !.refs = @ \union Added,
                          !.page = @ + 1,
                          !.before = CHOOSE p \in Page : \A q \in Page : p <= q]
  /\ shift' = 0
  /\ UNCHANGED <<siteVars, readVars, pastVars, breaks>>

\* The last page: the discovery metrics go to the run's row, and ingestion takes the
\* references the database does not hold, unless a backfill fetches them again.
EndDiscovery ==
  /\ load.phase = "listing" /\ PagingEnds
  /\ LET refs == load.refs \union Added IN
       load' = [load EXCEPT !.phase = "reading", !.refs = refs,
                            !.todo = IF load.kind = "refetch" THEN refs ELSE refs \ stored]
  /\ last' = "broken"      \* running: not a completed load until it completes
  /\ shift' = 0
  /\ UNCHANGED <<siteVars, readVars, top, floor, breaks>>

\* A channel whose web preview is shut redirects its first page: nothing is discovered, and
\* the load goes on with that.  All there is was out of its sight.
NoPreview ==
  /\ load.phase = "listing" /\ load.page = 0 /\ source.paging = "before"
  /\ breaks < source.breaks
  /\ breaks' = breaks + 1
  /\ load' = [load EXCEPT !.phase = "reading", !.cutoff = load.top]
  /\ last' = "broken" /\ shift' = 0
  /\ UNCHANGED <<siteVars, readVars, top, floor>>

\* A listing page that cannot be fetched fails the run before any metrics.
DiscoveryFails ==
  /\ load.phase = "listing" /\ breaks < source.breaks
  /\ breaks' = breaks + 1
  /\ load' = NoLoad /\ shift' = 0
  /\ UNCHANGED <<siteVars, readVars, pastVars>>

-----------------------------------------------------------------------------
(* Ingestion: results come in discovery order, newest first.               *)

Result(p) == load.phase = "reading" /\ Newest(load.todo, 1) = {p}

BeforePeriod(p) == p \notin Undated /\ p < load.from

\* A document is skipped that was not published within the dates asked for, or has no date.
Outside(p) ==
  \/ p \in Undated /\ (load.from > 0 \/ load.to > 0)
  \/ p \notin Undated /\ (p < load.from \/ (load.to > 0 /\ p > load.to))

Read(todo, older) ==
  load' = [load EXCEPT !.todo = todo, !.older = older]

ReadFails(p) ==
  /\ Result(p)
  /\ failed' = failed \union {p} /\ everFailed' = everFailed \union {p}
  /\ Read(load.todo \ {p}, load.older)
  /\ UNCHANGED <<siteVars, stored, pastVars, shift, breaks>>

SkipNoText(p) ==
  /\ Result(p) /\ p \in NoText
  /\ failed' = failed \ {p}
  /\ Read(load.todo \ {p}, load.older)
  /\ UNCHANGED <<siteVars, stored, everFailed, pastVars, shift, breaks>>

\* Older than the period: skipped, and enough of them in a row end the reading.
SkipOlder(p) ==
  /\ Result(p) /\ p \notin NoText /\ BeforePeriod(p)
  /\ failed' = failed \ {p}
  /\ Read(IF load.older + 1 >= StopAfterOlder THEN {} ELSE load.todo \ {p}, load.older + 1)
  /\ UNCHANGED <<siteVars, stored, everFailed, pastVars, shift, breaks>>

\* Later than the dates asked for, or without a date.
SkipOutside(p) ==
  /\ Result(p) /\ p \notin NoText /\ Outside(p) /\ ~BeforePeriod(p)
  /\ failed' = failed \ {p}
  /\ Read(load.todo \ {p}, 0)
  /\ UNCHANGED <<siteVars, stored, everFailed, pastVars, shift, breaks>>

Store(p) ==
  /\ Result(p) /\ p \notin NoText /\ ~Outside(p)
  /\ stored' = stored \union {p} /\ failed' = failed \ {p}
  /\ Read(load.todo \ {p}, 0)
  /\ UNCHANGED <<siteVars, everFailed, pastVars, shift, breaks>>

\* The rest of the run, and its row: completed or completed_with_errors.
Finish ==
  /\ load.phase = "reading" /\ load.todo = {}
  /\ last' = "completed" /\ top' = load.top
  /\ floor' = IF load.cutoff > floor THEN load.cutoff ELSE floor
  /\ load' = NoLoad
  /\ UNCHANGED <<siteVars, readVars, shift, breaks>>

\* Changed form of Break: a run that was interrupted is closed as a completed one.
BreakAsCompleted ==
  /\ load.phase = "reading" /\ breaks < source.breaks
  /\ breaks' = breaks + 1
  /\ last' = "completed"
  /\ load' = NoLoad
  /\ UNCHANGED <<siteVars, readVars, top, floor, shift>>

\* A storage error, an interrupt or a crash: the run ends as failed or aborted.
Break ==
  /\ load.phase = "reading" /\ breaks < source.breaks
  /\ breaks' = breaks + 1
  /\ load' = NoLoad
  /\ UNCHANGED <<siteVars, readVars, pastVars, shift>>

Start == \E kind \in source.kinds, from \in Dates, to \in Dates : StartLoad(kind, from, to)
ReadOne ==
  \E p \in Posts : ReadFails(p) \/ SkipNoText(p) \/ SkipOlder(p) \/ SkipOutside(p) \/ Store(p)

LoadNext ==
  \/ Publish \/ Age
  \/ \E p \in Posts : Remove(p)
  \/ Start \/ NextPage \/ EndDiscovery \/ NoPreview \/ DiscoveryFails
  \/ ReadOne \/ Finish \/ Break

LoadSpec == LoadInit /\ [][LoadNext]_loadVars

\* The schedule keeps starting loads, and a load that does not break goes on.
LoadFairSpec ==
  /\ LoadSpec
  /\ WF_loadVars(Start) /\ WF_loadVars(NextPage \/ EndDiscovery)
  /\ WF_loadVars(ReadOne) /\ WF_loadVars(Finish)

-----------------------------------------------------------------------------
LoadTypeOK ==
  /\ published \in 0..MaxPosts /\ removed \subseteq Posts /\ shift \in 0..MaxShift
  /\ aged \in 0..MaxPosts /\ floor \in 0..MaxPosts
  /\ stored \subseteq Posts /\ failed \subseteq everFailed /\ everFailed \subseteq Posts
  /\ last \in {"none", "completed", "broken"} /\ top \in 0..MaxPosts
  /\ source \in Sources /\ breaks \in 0..source.breaks
  /\ load \in [phase : {"none", "listing", "reading"}, kind : AllKinds, from : 0..MaxPosts,
               to : 0..MaxPosts, cutoff : 0..MaxPosts, until : BOOLEAN,
               limit : {Limit, FirstLimit}, top : 0..MaxPosts,
               page : 0..MaxPosts, before : 0..MaxPosts, refs : SUBSET Posts,
               todo : SUBSET Posts, older : 0..StopAfterOlder]
     \/ load = NoLoad

OnlyRegular == source.kinds = {"regular"} /\ source.dates = {}

\* Once a load completed, no post of the feed lies unread between two stored ones: a
\* post there is stored, had nothing to read, was removed, or a read of it failed, or
\* it was out of sight, behind the history window or a shut preview, when a load completed.
\* This is what lets the next regular load stop at a page it knows (past it "lie
\* publications an earlier run already loaded", discovery_pagination.py), and why a
\* load after a broken one pages past what is stored (previous_load_completed).
LoadedWithoutHoles ==
  /\ LoadTypeOK
  /\ last = "completed" /\ OnlyRegular =>
       \A p \in Visible \ (stored \union NoText \union everFailed) :
         p > floor => ~ \E older, newer \in stored : older < p /\ p < newer

\* A load for a period that completes has gone through the whole of it, however deep the
\* period lies below what is stored, but for what a channel did not show it: no ceiling of
\* a first load, no known page and no run of older documents ended it before.
PeriodIsLoaded ==
  [][Finish /\ load.from > 0 =>
       \A p \in load.from..load.top :
         p > load.cutoff /\ (load.to = 0 \/ p <= load.to) =>
           p \in stored \union NoText \union Undated \union everFailed \union removed]_loadVars

\* Again and again everything published since the first load is read: stored, skipped for
\* want of text, removed first, failed, or out of a completed load's sight before it was
\* read; for all the loads that break in between.
PublishedIsRead ==
  OnlyRegular =>
    []<>(\A p \in source.archive + 1..published :
           p > floor => p \in stored \union NoText \union everFailed \union removed)

\* Paging that stops at a page it knows leaves only loaded publications past it: "past
\* it lie publications an earlier run already loaded" (discovery_pagination.py), "the
\* next run must page past what is stored to reach them" (previous_load_completed).
PastKnownIsLoaded ==
  [][EndDiscovery /\ ReachedKnown =>
       \A p \in Visible \ (stored \union NoText \union everFailed \union load.refs) :
         p <= load.top => \A older \in stored : older > p]_loadVars

\* The same of the posts that no completed load was kept from seeing.
PastKnownInSightIsLoaded ==
  [][EndDiscovery /\ ReachedKnown =>
       \A p \in Visible \ (stored \union NoText \union everFailed \union load.refs) :
         p <= load.top /\ p > load.cutoff /\ p > floor =>
           \A older \in stored : older > p]_loadVars

\* A load that completes has read again every post whose last read failed: ingestion
\* selects the references whose external_id is not in source_documents.
FailedIsReadAgain ==
  [][Finish /\ load.kind = "regular" => failed \subseteq load.refs \union removed]_loadVars
=============================================================================
