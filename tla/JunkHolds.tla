------------------------------ MODULE JunkHolds ------------------------------
(***************************************************************************)
(* The junk purge, the articles its screen holds back, the model that      *)
(* reads them and the words an operator says of them                       *)
(* (court-processing, processing/junk).                                    *)
(*                                                                         *)
(* A purge picks a batch of articles without a criminal-case event, has    *)
(* the screen score those nobody held yet, and deletes the rest of the     *)
(* batch, all in one transaction; the batch is not looked at again between *)
(* the scoring, which asks a model about every article, and the delete.    *)
(* When no junk is left the released articles get back the event a new     *)
(* extraction took from them, and a model reads the held nobody read.      *)
(* The operator's words come from the web at any time, each a transaction  *)
(* of its own.                                                             *)
(***************************************************************************)
EXTENDS Naturals, FiniteSets

CONSTANTS
  Articles,     \* ids of the articles
  Old,          \* those published before PIPELINE_SINCE
  CaseLike,     \* those the screen scores at or above its cutoff
  Purges,       \* purge-junk commands that may be alive at once
  BatchSize,    \* articles of a purge's batch
  Screened,     \* whether the screen is on
  Beside,       \* the words an operator says while a purge runs, too
  MaxVersion,   \* bound: deployed versions of the extraction
  MaxStops      \* bound: purges that are stopped or fail

Words == {"junk", "unrelease", "again", "release", "reextract"}

ASSUME HoldsAssumption ==
  /\ Articles \subseteq Nat /\ IsFiniteSet(Articles)
  /\ Old \subseteq Articles /\ CaseLike \subseteq Articles
  /\ BatchSize \in Nat \ {0} /\ Screened \in BOOLEAN
  /\ Beside \subseteq Words /\ MaxVersion \in Nat /\ MaxStops \in Nat

VARIABLES
  alive,      \* stored articles; a purged one leaves only a tombstone
  version,    \* deployed version of the extraction
  run,        \* version of an article's latest successful extraction, 0: none
  crim,       \* whether the rules found a criminal-case event in it
  mev,        \* whether it carries the event of a release (EXTRACTOR_NAME)
  hold,       \* the article's row of junk_screen_holds
  redo,       \* where "extract again" of an article is
  pc,         \* where a purge is
  batch,      \* what it picked last
  scored,     \* of the batch, what the screen is asked about
  owed,       \* what it still has to restore, or to have read
  meanwhile,  \* history: what others did to the articles it picked, since it did
  stops       \* purges stopped so far

articles == <<alive, version, run, crim, mev>>
purges == <<pc, batch, scored, owed, meanwhile>>
junkVars == <<articles, hold, redo, purges, stops>>

\* A held row is unread while its reader is NULL.
Held == {"unread", "read"}
Holds == {"none", "junk", "released"} \cup Held

\* An extraction found the case, the event of a release was written, a hold was.
Happenings == {"found", "released", "held"}

PurgeStages == {"idle", "outdated", "pick", "judge", "score", "restore", "restoring",
           "unread", "reading"}

JunkTypeOK ==
  /\ alive \subseteq Articles
  /\ version \in 0..MaxVersion
  /\ run \in [Articles -> 0..version]
  /\ crim \in [Articles -> BOOLEAN]
  /\ mev \in [Articles -> BOOLEAN]
  /\ hold \in [Articles -> Holds]
  /\ redo \in [Articles -> {"no", "asked", "saved"}]
  /\ pc \in [Purges -> PurgeStages]
  /\ batch \in [Purges -> SUBSET Articles]
  /\ \A p \in Purges : scored[p] \subseteq batch[p] /\ owed[p] \in SUBSET Articles
  /\ meanwhile \in [Purges -> SUBSET (Articles \X Happenings)]
  /\ stops \in 0..MaxStops
  /\ \A a \in Articles : crim[a] \/ mev[a] \/ hold[a] # "none" => run[a] > 0
  /\ \A a \in Articles : run[a] > 0 => a \in alive

\* The articles the operator works on: extracted, in no purge's way.
JunkInit ==
  /\ alive = Articles
  /\ version = 0
  /\ run = [a \in Articles |-> 0]
  /\ crim = [a \in Articles |-> FALSE]
  /\ mev = [a \in Articles |-> FALSE]
  /\ hold = [a \in Articles |-> "none"]
  /\ redo = [a \in Articles |-> "no"]
  /\ pc = [p \in Purges |-> "idle"]
  /\ batch = [p \in Purges |-> {}]
  /\ scored = [p \in Purges |-> {}]
  /\ owed = [p \in Purges |-> {}]
  /\ meanwhile = [p \in Purges |-> {}]
  /\ stops = 0

\* A word the run lets an operator say only between the purges.
MaySay(word) == word \in Beside \/ \A p \in Purges : pc[p] = "idle"

\* What happens to these articles while a purge has picked them.
Meet(S, what) ==
  meanwhile' = [p \in Purges |-> meanwhile[p] \cup ((S \cap batch[p]) \X {what})]

------------------------------------------------------------------------------
(* Extraction *)

\* An article of the latest version is not extracted again: save finds its run.
\* A new run is the latest, without the event written to the one before; a failed
\* one (an extraction that raises) leaves the latest successful one as it was.
Saved(a, found) ==
  /\ a \in alive /\ run[a] < version
  /\ run' = [run EXCEPT ![a] = version]
  /\ crim' = [crim EXCEPT ![a] = found]
  /\ mev' = [mev EXCEPT ![a] = FALSE]

Deploy ==
  /\ version < MaxVersion
  /\ version' = version + 1
  /\ UNCHANGED <<alive, run, crim, mev, hold, redo, purges, stops>>

\* The monitoring extracts in its loads; a load and a purge are kept apart by
\* OperationRuns.
ExtractArticle(a) ==
  /\ \A p \in Purges : pc[p] = "idle"
  /\ \E found \in BOOLEAN : Saved(a, found)
  /\ UNCHANGED <<alive, version, hold, redo, purges, stops>>

\* apply_reextract reads the status, reextract extracts in a transaction of its own
\* and decides in another one.
AskReextract(a) ==
  /\ MaySay("reextract")
  /\ redo[a] = "no" /\ hold[a] \in Held
  /\ redo' = [redo EXCEPT ![a] = "asked"]
  /\ UNCHANGED <<articles, hold, purges, stops>>

Reextract(a) ==
  /\ MaySay("reextract")
  /\ redo[a] = "asked"
  /\ redo' = [redo EXCEPT ![a] = "saved"]
  /\ \/ Saved(a, FALSE) /\ UNCHANGED meanwhile
     \/ Saved(a, TRUE) /\ Meet({a}, "found")
     \/ UNCHANGED <<run, crim, mev, meanwhile>>         \* failed, or skipped_existing
  /\ UNCHANGED <<alive, version, hold, pc, batch, scored, owed, stops>>

\* A criminal-case event of the latest run, whoever wrote it, takes the row away.
InWork(a) == crim[a] \/ mev[a]

DecideReextract(a) ==
  /\ MaySay("reextract")
  /\ redo[a] = "saved"
  /\ redo' = [redo EXCEPT ![a] = "no"]
  /\ hold' = IF a \in alive /\ InWork(a) THEN [hold EXCEPT ![a] = "none"] ELSE hold
  /\ UNCHANGED <<articles, purges, stops>>

------------------------------------------------------------------------------
(* The operator's words: each takes the row in the status it is about *)

MarkJunk(a) ==
  /\ MaySay("junk")
  /\ hold[a] \in Held
  /\ hold' = [hold EXCEPT ![a] = "junk"]
  /\ UNCHANGED <<articles, redo, purges, stops>>

\* Changed form of Unrelease: the row of the released article is changed, not its event.
UnreleaseRow(a) ==
  /\ MaySay("unrelease")
  /\ hold[a] = "released"
  /\ hold' = [hold EXCEPT ![a] = "junk"]
  /\ UNCHANGED <<articles, redo, purges, stops>>

Unrelease(a) ==
  /\ MaySay("unrelease")
  /\ hold[a] = "released"
  /\ hold' = [hold EXCEPT ![a] = "junk"]
  /\ mev' = [mev EXCEPT ![a] = FALSE]
  /\ UNCHANGED <<alive, version, run, crim, redo, purges, stops>>

HoldAgain(a) ==
  /\ MaySay("again")
  /\ hold[a] = "junk"
  /\ hold' = [hold EXCEPT ![a] = "unread"]
  /\ Meet({a}, "held")
  /\ UNCHANGED <<articles, redo, pc, batch, scored, owed, stops>>

\* Only with a successful extraction, to write the event to.
Release(a) ==
  /\ MaySay("release")
  /\ hold[a] \in Held /\ run[a] > 0
  /\ hold' = [hold EXCEPT ![a] = "released"]
  /\ mev' = [mev EXCEPT ![a] = TRUE]
  /\ Meet({a}, "released")
  /\ UNCHANGED <<alive, version, run, crim, redo, pc, batch, scored, owed, stops>>

------------------------------------------------------------------------------
(* The purge *)

Go(p, stage) == pc' = [pc EXCEPT ![p] = stage]

\* An article goes with its runs, their events and its hold (ON DELETE CASCADE).
Discard(S) ==
  /\ alive' = alive \ S
  /\ run' = [a \in Articles |-> IF a \in S THEN 0 ELSE run[a]]
  /\ crim' = [a \in Articles |-> crim[a] /\ a \notin S]
  /\ mev' = [a \in Articles |-> mev[a] /\ a \notin S]

Lowest(S) == {a \in S : Cardinality({b \in S : b <= a}) <= BatchSize}

\* Changed form of JunkArticles: a released article is kept by its event alone.
JunkWithoutReleased == {a \in alive : run[a] > 0 /\ ~InWork(a) /\ hold[a] \notin Held}

\* An article never extracted successfully is not judged; nor is one held or released.
JunkArticles ==
  {a \in alive : run[a] > 0 /\ ~InWork(a) /\ hold[a] \in {"none", "junk"}}

Begin(p) ==
  /\ pc[p] = "idle"
  /\ Go(p, "outdated")
  /\ UNCHANGED <<articles, hold, redo, batch, scored, owed, meanwhile, stops>>

\* The articles before the working date, held or not, a batch a transaction.
Outdated(p) ==
  /\ pc[p] = "outdated"
  /\ LET gone == Lowest(alive \cap Old) IN
     /\ Discard(gone)
     /\ hold' = [a \in Articles |-> IF a \in gone THEN "none" ELSE hold[a]]
     /\ Go(p, IF gone = {} THEN "pick" ELSE "outdated")
  /\ UNCHANGED <<version, redo, batch, scored, owed, meanwhile, stops>>

Pick(p) ==
  /\ pc[p] = "pick"
  /\ batch' = [batch EXCEPT ![p] = Lowest(JunkArticles)]
  /\ Go(p, IF JunkArticles = {} THEN "restore" ELSE "judge")
  /\ UNCHANGED <<articles, hold, redo, scored, owed, meanwhile, stops>>

\* What has a row already, whatever its status, is not scored.
ToScore(p) == IF Screened THEN {a \in batch[p] \cap alive : hold[a] = "none"} ELSE {}

Judge(p) ==
  /\ pc[p] = "judge"
  /\ scored' = [scored EXCEPT ![p] = ToScore(p)]
  /\ Go(p, "score")
  /\ UNCHANGED <<articles, hold, redo, batch, owed, meanwhile, stops>>

\* Only the rows written count as held: one written meanwhile is not held again.
HeldBack(p) == {a \in scored[p] \cap CaseLike : hold[a] = "none"}

\* The scores are in: the batch's holds are written and the rest of it is deleted.
\* A hold of an article that is gone breaks its foreign key and the batch.
PurgeBatch(p) ==
  /\ pc[p] = "score"
  /\ scored[p] \cap CaseLike \subseteq alive
  /\ LET gone == batch[p] \ HeldBack(p) IN
     /\ Discard(gone)
     /\ hold' = [a \in Articles |-> CASE a \in gone -> "none"
                                      [] a \in HeldBack(p) -> "unread"
                                      [] OTHER -> hold[a]]
  /\ batch' = [batch EXCEPT ![p] = {}]
  /\ scored' = [scored EXCEPT ![p] = {}]
  /\ meanwhile' = [q \in Purges |->
                     IF q = p THEN {}
                     ELSE meanwhile[q] \cup ((HeldBack(p) \cap batch[q]) \X {"held"})]
  /\ Go(p, "pick")
  /\ UNCHANGED <<version, redo, owed, stops>>

\* The screen fails, or the command is stopped: its transaction is undone.
Stop(p) ==
  /\ pc[p] # "idle" /\ stops < MaxStops
  /\ stops' = stops + 1
  /\ Go(p, "idle")
  /\ batch' = [batch EXCEPT ![p] = {}]
  /\ scored' = [scored EXCEPT ![p] = {}]
  /\ owed' = [owed EXCEPT ![p] = {}]
  /\ meanwhile' = [meanwhile EXCEPT ![p] = {}]
  /\ UNCHANGED <<articles, hold, redo>>

------------------------------------------------------------------------------
(* The reading of the held *)

\* Changed form of Eventless: the event is looked for in every run of the article, and
\* the run it was written to still has it.
EventlessInNoRun == {}

Eventless == {a \in alive : hold[a] = "released" /\ ~mev[a]}

FindEventless(p) ==
  /\ pc[p] = "restore"
  /\ owed' = [owed EXCEPT ![p] = Eventless]
  /\ Go(p, "restoring")
  /\ UNCHANGED <<articles, hold, redo, batch, scored, meanwhile, stops>>

\* add_event writes to the latest successful run, if the article has one.
Restore(p) ==
  /\ pc[p] = "restoring"
  /\ mev' = [a \in Articles |-> mev[a] \/ (a \in owed[p] /\ run[a] > 0)]
  /\ owed' = [owed EXCEPT ![p] = {}]
  /\ Meet(owed[p], "released")
  /\ Go(p, "unread")
  /\ UNCHANGED <<alive, version, run, crim, hold, redo, batch, scored, stops>>

FindUnread(p) ==
  /\ pc[p] = "unread"
  /\ owed' = [owed EXCEPT ![p] = {a \in alive : hold[a] = "unread"}]
  /\ Go(p, "reading")
  /\ UNCHANGED <<articles, hold, redo, batch, scored, meanwhile, stops>>

\* Changed form of Taken: an answer is written whatever the row became meanwhile.
TakenAnyway(a) == hold[a] # "none"

\* The answer is written to a row that is still one nobody read, and the event with
\* it; one without an extraction to write the event to stays unread.
Taken(a) == hold[a] = "unread"

Write(p, a) ==
  /\ pc[p] = "reading" /\ a \in owed[p]
  /\ owed' = [owed EXCEPT ![p] = @ \ {a}]
  /\ \/ /\ Taken(a)
        /\ hold' = [hold EXCEPT ![a] = "read"] /\ UNCHANGED <<mev, meanwhile>>
     \/ /\ Taken(a) /\ run[a] > 0
        /\ hold' = [hold EXCEPT ![a] = "released"]
        /\ mev' = [mev EXCEPT ![a] = TRUE]
        /\ Meet({a}, "released")
     \/ UNCHANGED <<hold, mev, meanwhile>>             \* no answer, or not its row any more
  /\ UNCHANGED <<alive, version, run, crim, redo, pc, batch, scored, stops>>

End(p) ==
  /\ pc[p] = "reading" /\ owed[p] = {}
  /\ Go(p, "idle")
  /\ UNCHANGED <<articles, hold, redo, batch, scored, owed, meanwhile, stops>>

------------------------------------------------------------------------------
Work(p) ==
  \/ Outdated(p) \/ Pick(p) \/ Judge(p) \/ PurgeBatch(p)
  \/ FindEventless(p) \/ Restore(p) \/ FindUnread(p) \/ End(p)
  \/ \E a \in Articles : Write(p, a)

JunkNext ==
  \/ Deploy
  \/ \E a \in Articles :
       \/ ExtractArticle(a) \/ AskReextract(a) \/ Reextract(a) \/ DecideReextract(a)
       \/ MarkJunk(a) \/ Unrelease(a) \/ HoldAgain(a) \/ Release(a)
  \/ \E p \in Purges : Begin(p) \/ Work(p) \/ Stop(p)

JunkSpec == JunkInit /\ [][JunkNext]_junkVars

\* The cycle starts a purge every night, and one that is not stopped goes on.
JunkFairSpec ==
  /\ JunkSpec
  /\ \A p \in Purges :
       /\ WF_junkVars(Begin(p))
       /\ WF_junkVars(Work(p))

------------------------------------------------------------------------------
(* Properties *)

Purged(a) == a \in alive /\ a \notin alive' /\ a \notin Old

\* purge.py: "A held article is never purged, screen on or off, until a person calls it
\* junk" (the articles before the working date apart): an article that goes is not held.
HeldIsNotPurged == [][\A a \in Articles : Purged(a) => hold[a] \notin Held]_junkVars

\* "An article is junk when the latest successful extraction of it found no
\* criminal-case event": one that is in the work, or released to it, is not purged.
InWorkIsNotPurged ==
  [][\A a \in Articles : Purged(a) => ~InWork(a) /\ hold[a] # "released"]_junkVars

\* What purge.py promises of the junk it deletes, of what a purge picked: an article goes
\* although it is in the work, released or held only when an extraction, a release or a hold
\* of somebody else came between the pick and the delete, which does not look again.
OnlyOvertakenIsPurged ==
  [][\A a \in Articles : Purged(a) =>
       \E p \in Purges :
         /\ a \in batch[p] /\ pc[p] = "score" /\ pc'[p] = "pick"
         /\ crim[a] => <<a, "found">> \in meanwhile[p]
         /\ mev[a] \/ hold[a] = "released" => <<a, "released">> \in meanwhile[p]
         /\ hold[a] \in Held => <<a, "held">> \in meanwhile[p]]_junkVars

\* hold_reader._write: "a person decided while the model was reading, and their word
\* stands - an event written after «junk» would keep the article from every purge": an
\* article carries the event of a release only while it is released (or its row went).
ModelsEventIsReleased ==
  /\ JunkTypeOK
  /\ \A a \in Articles : mev[a] => hold[a] \in {"released", "none"}

\* The row of a released article goes only for an event the rules found: without the row
\* nothing writes the event again when the next extraction takes it.
ReleasedIsRemembered ==
  [][\A a \in Articles : hold[a] = "released" /\ hold'[a] = "none" /\ a \in alive'
        => crim[a]]_junkVars

\* storage/models.py: "An article a new extraction found the event of loses the row":
\* an article whose extraction found a case does not stay on the operator's list.
FoundLosesTheRow ==
  \A a \in Articles : (crim[a] /\ hold[a] \in Held) ~> ~(crim[a] /\ hold[a] \in Held)

\* "Junk: a person said it is junk, the next purge deletes it".
MarkedIsPurged ==
  \A a \in Articles :
    hold[a] = "junk" ~> hold[a] # "junk" \/ a \notin alive \/ crim[a]

\* "Its event may be gone with a new extraction until the next reading writes it again":
\* a released article is in the work in the end.
ReleasedIsInWork ==
  \A a \in Articles : hold[a] = "released" ~> hold[a] # "released" \/ InWork(a)

\* What a person said of a held article is carried out in the end, whatever the extractions,
\* the readings and the purges do first.
WordIsCarriedOut == MarkedIsPurged /\ ReleasedIsInWork
==============================================================================
