----------------------------- MODULE EntityGroups -----------------------------
(***************************************************************************)
(* The person entities, what the steps of the operator's cycle make of     *)
(* them and what a person says of them meanwhile (court-processing,        *)
(* processing/identity and processing/roles; court-analysis, politics and  *)
(* rosfinmonitoring/rf_check).                                             *)
(*                                                                         *)
(* The step "entities" rebuilds every entity from the mentions: it reads   *)
(* the mentions, has a model name them, which takes minutes, reads the     *)
(* decided pairs and corrected names, then the removed keys, and writes    *)
(* all entities in one transaction; the rows that hang on the old ones     *)
(* (roles, verdicts, matches of the Rosfinmonitoring list) go with them.   *)
(* "figurants" reads entities and decisions, asks a model and writes all   *)
(* roles; "political" matches the list, merging the pairs that leave no    *)
(* choice, then reads the figurants, asks a model and writes all verdicts. *)
(* The steps never run beside each other (OperationRuns), but a person's   *)
(* words from the web come between any two transactions of theirs, and so  *)
(* does a check of the list started by hand.                               *)
(*                                                                         *)
(* An entity's row is its key here; a row that is gone is a key that is    *)
(* gone, but for the rebuild, which gives every key a new row (field gone  *)
(* of a check that began before it).                                       *)
(***************************************************************************)
EXTENDS EntityKeys

CONSTANTS
  Mentions,      \* person mentions of the criminal articles
  Early,         \* those extracted before the first cycle
  RuleKey,       \* [Mentions -> Keys]: the rules' entity of a mention
  Ruled,         \* the rules' entities whose one form is a name as it should be
  ModelKey,      \* [Keys -> Keys \cup {Nobody}]: the name a model gives the others
  Titled,        \* mentions with an official's title before the name
  Listed,        \* names the list has with their patronymic: a match beyond doubt
  Possible,      \* names it has without one, or only the operator's own table has
  RoleAnswers, VerdictAnswers,   \* what the models may answer
  Says,          \* kinds of words a person says
  RoleWords, VerdictWords, NameWords,   \* the roles, verdicts and names a person says
  MaxWords,      \* bound: words a person says
  MaxBeside      \* bound: checks of the list by hand and steps that break

None == "none"
Roles == {"figurant", "possible", "mentioned", "unclear"}
Verdicts == {"political", "criminal", "unclear"}

ASSUME EntitiesAssumption ==
  /\ RuleKey \in [Mentions -> Keys] /\ ModelKey \in [Keys -> Keys \cup {Nobody}]
  /\ Titled \cup Early \subseteq Mentions /\ Ruled \cup Listed \cup Possible \subseteq Keys
  /\ RoleAnswers \subseteq Roles /\ VerdictAnswers \subseteq Verdicts
  /\ RoleWords \subseteq Roles \ {"unclear"} /\ VerdictWords \subseteq Verdicts \ {"unclear"}
  /\ NameWords \subseteq Keys
  /\ MaxWords \in Nat /\ MaxBeside \in Nat

VARIABLES
  extracted,  \* the mentions extracted so far
  named,      \* rules' entities with a model's name in the cache
  groups,     \* the entities: key -> [of, name, role, verdict, match]
  word,       \* what a person said, by key: pair, name, removed, role, verdict, mark
  excluded,   \* keys of officials the exclusion list remembers
  step,       \* the running step of the cycle: where it is and what it read
  check,      \* the check of the list that holds the check lock
  left        \* words and other events there may still be

vars == <<extracted, named, groups, word, excluded, step, check, left>>

Row(is, by) == [is |-> is, by |-> by]
NoRow == Row(None, None)
Entity(of, name) == [of |-> of, name |-> name, role |-> NoRow, verdict |-> NoRow, match |-> {}]
Empty == [k \in {} |-> None]

Due(s) == [at |-> s]
NoCheck == [by |-> None]
Steps == {"entities", "figurants", "political"}
Stages == Steps \cup {"naming", "merging", "joining", "removing", "writing",
                     "remembering", "answering", "politics", "judging"}

\* An entity's rows are of the kinds the tables allow.
TypeOK ==
  /\ extracted \subseteq Mentions /\ named \subseteq Keys /\ excluded \subseteq Keys
  /\ DOMAIN groups \subseteq Keys
  /\ \A k \in DOMAIN groups :
       /\ groups[k].of \subseteq extracted /\ groups[k].name \in Keys
       /\ groups[k].role.is \in Roles \cup {None}
       /\ groups[k].verdict.is \in Verdicts \cup {None}
       /\ groups[k].match \subseteq {"full", "name"}
  /\ DOMAIN word.pair \subseteq Pairs
  /\ \A p \in DOMAIN word.pair : word.pair[p].is \in {"same", "different"}
  /\ step.at \in Stages
  /\ check.by \in {None, "cycle", "hand"}

Init ==
  /\ extracted = Early /\ named = {} /\ groups = Empty /\ excluded = {}
  /\ word = [pair |-> Empty, name |-> Empty, removed |-> {}, role |-> Empty,
             verdict |-> Empty, mark |-> Empty]
  /\ step = Due("entities") /\ check = NoCheck
  /\ left = [words |-> MaxWords, beside |-> MaxBeside]

Keep(f, k, v) == [l \in DOMAIN f \cup {k} |-> IF l = k THEN v ELSE f[l]]

\* The monitoring extracts a mention.
Extract(m) ==
  /\ m \notin extracted
  /\ extracted' = extracted \cup {m}
  /\ UNCHANGED <<named, groups, word, excluded, step, check, left>>

------------------------------------------------------------------------------
(* Merging two entities *)

Rank(role) == CASE role = "figurant" -> 3 [] role = "possible" -> 2 [] role = "mentioned" -> 1
                [] role = "unclear" -> 0 [] OTHER -> -1

\* Of the two keys of a pair, the one the mentions and decisions go to, and the other.
Kept(gs, p) ==
  LET k == CHOOSE k \in p : TRUE
      l == CHOOSE l \in p : l # k
  IN IF KeepsFirst(k, Cardinality(gs[k].of), l, Cardinality(gs[l].of)) THEN k ELSE l

Dropped(gs, p) == CHOOSE l \in p : l # Kept(gs, p)

StrongerRole(kept, dropped) ==
  IF Rank(dropped.role.is) > Rank(kept.role.is) THEN dropped.role ELSE kept.role

Met(gs, pairs) == {p \in pairs : p \subseteq DOMAIN gs}

\* Changed forms of Merge: the dropped entity stays, with its mentions; the dropped role
\* goes with its entity after the kept one was deleted for it.
MergeCopies(gs, pairs) ==
  [j \in DOMAIN gs |->
     IF \E p \in Met(gs, pairs) : j = Kept(gs, p)
     THEN LET p == CHOOSE p \in Met(gs, pairs) : j = Kept(gs, p)
          IN [gs[j] EXCEPT !.of = @ \cup gs[Dropped(gs, p)].of]
     ELSE gs[j]]

MergeForgets(gs, pairs) ==
  [j \in DOMAIN gs \ {Dropped(gs, p) : p \in Met(gs, pairs)} |->
     IF \E p \in Met(gs, pairs) : j \in p
     THEN LET p == CHOOSE p \in Met(gs, pairs) : j \in p
              dropped == gs[Dropped(gs, p)]
          IN [gs[j] EXCEPT !.of = @ \cup dropped.of,
                           !.role = IF StrongerRole(gs[j], dropped) = @ THEN @ ELSE NoRow]
     ELSE gs[j]]

\* merge_groups, of pairs that share no key: the mentions and the stronger role join the
\* kept entity, the matches too (groups_merged); the verdict of the other goes with its
\* row.  A pair with a key that has no entity is passed over.
Merge(gs, pairs) ==
  [j \in DOMAIN gs \ {Dropped(gs, p) : p \in Met(gs, pairs)} |->
     IF \E p \in Met(gs, pairs) : j \in p
     THEN LET p == CHOOSE p \in Met(gs, pairs) : j \in p
              dropped == gs[Dropped(gs, p)]
          IN [gs[j] EXCEPT !.of = @ \cup dropped.of,
                           !.role = StrongerRole(gs[j], dropped),
                           !.match = @ \cup dropped.match]
     ELSE gs[j]]

------------------------------------------------------------------------------
(* The step "entities": EntityCollector.run *)

\* Broken by a restart or an error: the transaction is rolled back, the operator starts
\* the step again or the cycle from its beginning.
Restarts(first) == \E s \in {"entities", first} : step' = Due(s)

ReadMentions ==
  /\ step = Due("entities")
  /\ step' = [at |-> "naming", read |-> extracted]
  /\ UNCHANGED <<extracted, named, groups, word, excluded, check, left>>

\* A batch's answers are kept as they come; nominative_form needs no model.
NameBatch(k) ==
  /\ step.at = "naming"
  /\ k \in {RuleKey[m] : m \in step.read} \ (named \cup Ruled)
  /\ named' = named \cup {k}
  /\ UNCHANGED <<extracted, groups, word, excluded, step, check, left>>

\* apply_names: a rules' entity without an answer keeps its key.
KeyOf(m) == IF RuleKey[m] \in named THEN ModelKey[RuleKey[m]] ELSE RuleKey[m]

Grouped(ms) ==
  LET ks == {KeyOf(m) : m \in ms} \ {Nobody}
  IN [k \in ks |-> Entity({m \in ms : KeyOf(m) = k}, k)]

SamePairs == {p \in DOMAIN word.pair : word.pair[p].is = "same"}

\* The batches left failed, or the run's budget is spent: the next rebuild asks again.
NamesEnd ==
  /\ step.at = "naming"
  /\ step' = [at |-> "merging", found |-> Grouped(step.read)]
  /\ UNCHANGED <<extracted, named, groups, word, excluded, check, left>>

MergeSame ==
  /\ step.at = "merging"
  /\ step' = [at |-> "joining", found |-> MergeDecided(step.found, SamePairs)]
  /\ UNCHANGED <<extracted, named, groups, word, excluded, check, left>>

CorrectNames ==
  /\ step.at = "joining"
  /\ \E pick \in Picks(word.name, DOMAIN step.found) :
       LET named1 == Renamed(step.found, pick)
       IN step' = [at |-> "removing", found |-> named1, renamed |-> named1, turn |-> DOMAIN pick]
  /\ UNCHANGED <<extracted, named, groups, word, excluded, check, left>>

\* The renamed entities join those of their new names one by one, in the list's order.
JoinNext ==
  /\ step.at = "removing"
  /\ \E k \in step.turn :
       /\ ComesFirst(k, step.turn, step.renamed)
       /\ step' = [at |-> "removing", found |-> JoinNamed(step.found, k),
                   renamed |-> step.renamed, turn |-> step.turn \ {k}]
  /\ UNCHANGED <<extracted, named, groups, word, excluded, check, left>>

TakeOutRemoved ==
  /\ step.at = "removing" /\ step.turn = {}
  /\ step' = [at |-> "writing", found |-> WithoutRemoved(step.found, word.removed)]
  /\ UNCHANGED <<extracted, named, groups, word, excluded, check, left>>

\* What a check inserts rows of: each full match, and each possible one.
Matched == check.listed \cup check.possible

\* The rows a check inserted lock the entities they are of until it commits.
Locked == IF check.by # None /\ check.at = "merging" /\ ~check.gone THEN Matched ELSE {}

WriteEntities ==
  /\ step.at = "writing"
  /\ Locked = {}
  /\ groups' = step.found
  /\ step' = Due("figurants")
  /\ check' = IF check.by = None THEN check ELSE [check EXCEPT !.gone = TRUE]
  /\ UNCHANGED <<extracted, named, word, excluded, left>>

------------------------------------------------------------------------------
(* The step "figurants": FigurantFinder.run *)

MarkIs(mark, k, is) == k \in DOMAIN mark /\ mark[k] = is

\* Changed form of Fixed: an official by title stays one whatever a person decided.
FixedByTitle(k, mark, role) ==
  CASE groups[k].of \cap Titled # {} /\ ~MarkIs(mark, k, FALSE) -> Row("mentioned", "official")
    [] k \in DOMAIN role /\ groups[k].of \cap Titled = {} -> Row(role[k], "manual")
    [] OTHER -> Row("ask", "step")

\* What the step knows before it asks: a person's word, but for one marked an official;
\* then an official by mark, exclusion list or title; "ask" for the rest.
Fixed(k, mark, role) ==
  LET titled == groups[k].of \cap Titled # {}
      listed == \E x \in excluded : Today(x, DOMAIN groups) = {k}
      official == ~MarkIs(mark, k, FALSE) /\ (MarkIs(mark, k, TRUE) \/ titled \/ listed)
  IN CASE k \in DOMAIN role /\ ~MarkIs(mark, k, TRUE) -> Row(role[k], "manual")
       [] official /\ (k \notin DOMAIN role \/ MarkIs(mark, k, TRUE)) -> Row("mentioned", "official")
       [] OTHER -> Row("ask", "step")

\* The entities are read with the words on them.
ReadEntities ==
  /\ step = Due("figurants")
  /\ LET today == DOMAIN groups
     IN \E mark \in Picks(word.mark, today), role \in ExactPicks(word.role, today) :
          step' = [at |-> "remembering", rows |-> [k \in today |-> Fixed(k, mark, role)],
                   titled |-> {k \in today : groups[k].of \cap Titled # {} /\ k \notin DOMAIN mark}]
  /\ UNCHANGED <<extracted, named, groups, word, excluded, check, left>>

\* remember_titled: of those it read, the titled nobody marked go on the exclusion list.
RememberTitled ==
  /\ step.at = "remembering"
  /\ excluded' = excluded \cup
       {k \in step.titled : \A x \in excluded : Today(x, DOMAIN step.rows) # {k}}
  /\ step' = [at |-> "answering", rows |-> step.rows]
  /\ UNCHANGED <<extracted, named, groups, word, check, left>>

\* A row of an entity that is gone breaks the insert.
StillThere == DOMAIN step.rows \subseteq DOMAIN groups

Answered(rows, answers) ==
  {found \in [DOMAIN rows -> {Row(a, "step") : a \in answers} \cup {rows[k] : k \in DOMAIN rows}] :
     \A k \in DOMAIN rows : IF rows[k].is = "ask" THEN found[k].is \in answers /\ found[k].by = "step"
                                                  ELSE found[k] = rows[k]}

WriteRoles ==
  /\ step.at = "answering"
  /\ StillThere
  /\ \E rows \in Answered(step.rows, RoleAnswers) :
       groups' = [k \in DOMAIN groups |->
                    [groups[k] EXCEPT !.role = IF k \in DOMAIN rows THEN rows[k] ELSE NoRow]]
  /\ step' = Due("political")
  /\ UNCHANGED <<extracted, named, word, excluded, check, left>>

------------------------------------------------------------------------------
(* The step "political": the check of the list, then PoliticsFinder.run *)

Begins(by) == \/ by = "cycle" /\ step = Due("political")
              \/ by = "hand" /\ left.beside > 0

\* Changed form of Done: a check keeps the lock, its session is not closed.
DoneLocked(by) ==
  /\ check' = [check EXCEPT !.by = "hand", !.at = "done"]
  /\ step' = IF by = "cycle" THEN Due("politics") ELSE step

\* Only a check of the cycle's is waited for: the step goes on, whatever came of it.
Done(by) ==
  /\ check' = NoCheck
  /\ step' = IF by = "cycle" THEN Due("politics") ELSE step

\* Under the check lock: the list in use and the entities are read.
ReadList(by) ==
  /\ Begins(by) /\ check = NoCheck
  /\ check' = [by |-> by, at |-> "matching", gone |-> FALSE,
               listed |-> {k \in DOMAIN groups : groups[k].name \in Listed},
               possible |-> {k \in DOMAIN groups : groups[k].name \in Possible}]
  /\ left' = IF by = "hand" THEN [left EXCEPT !.beside = @ - 1] ELSE left
  /\ UNCHANGED <<extracted, named, groups, word, excluded, step>>

\* The matches are written and the pairs nobody decided are read.
Match ==
  /\ check.by # None /\ check.at = "matching"
  /\ Matched = {} \/ (~check.gone /\ Matched \subseteq DOMAIN groups)
  /\ check' = [by |-> check.by, at |-> "merging", gone |-> check.gone,
               listed |-> check.listed, possible |-> check.possible,
               clear |-> ClearPairs(DOMAIN groups, DOMAIN word.pair, check.listed)]
  /\ UNCHANGED <<extracted, named, groups, word, excluded, step, left>>

\* An entity to match is gone: the insert fails, nothing of this check stays.
MatchFails ==
  /\ check.by # None /\ check.at = "matching"
  /\ Matched # {} /\ (check.gone \/ ~(Matched \subseteq DOMAIN groups))
  /\ Done(check.by)
  /\ UNCHANGED <<extracted, named, groups, word, excluded, left>>

\* The levels of an entity's matches: beyond doubt, by name only.
LevelsOf(k) == {level \in {"full", "name"} :
                  k \in IF level = "full" THEN check.listed ELSE check.possible}

\* decide, of each pair: the record is written over whatever it says by now.
BySource(p, listed) == Row("same", IF p \cap listed # {} THEN "rf" ELSE "region")

MergeClear ==
  /\ check.by # None /\ check.at = "merging"
  /\ LET matched == [k \in DOMAIN groups |-> [groups[k] EXCEPT !.match = LevelsOf(k)]]
     IN groups' = Merge(matched, check.clear)
  /\ word' = [word EXCEPT !.pair = [p \in DOMAIN @ \cup check.clear |->
                IF p \in check.clear THEN BySource(p, check.listed) ELSE @[p]]]
  /\ Done(check.by)
  /\ UNCHANGED <<extracted, named, excluded, left>>

ReadFigurants ==
  /\ step.at = "politics"
  /\ LET today == {k \in DOMAIN groups : groups[k].role.is = "figurant"}
     IN \E verdict \in ExactPicks(word.verdict, today) :
          step' = [at |-> "judging",
                   rows |-> [k \in today |-> IF k \in DOMAIN verdict
                                             THEN Row(verdict[k], "manual") ELSE Row("ask", "step")]]
  /\ UNCHANGED <<extracted, named, groups, word, excluded, check, left>>

WriteVerdicts ==
  /\ step.at = "judging"
  /\ StillThere
  /\ \E rows \in Answered(step.rows, VerdictAnswers) :
       groups' = [k \in DOMAIN groups |->
                    [groups[k] EXCEPT !.verdict = IF k \in DOMAIN rows THEN rows[k] ELSE NoRow]]
  /\ step' = Due("entities")
  /\ UNCHANGED <<extracted, named, word, excluded, check, left>>

\* The step a stage belongs to.
StepOf(at) == CASE at \in {"entities", "naming", "merging", "joining", "removing", "writing"} -> "entities"
                [] at \in {"figurants", "remembering", "answering"} -> "figurants"
                [] OTHER -> "political"

\* The insert of a row whose entity a person merged or removed meanwhile.
RowLost ==
  /\ step.at \in {"answering", "judging"}
  /\ ~StillThere
  /\ Restarts(StepOf(step.at))
  /\ UNCHANGED <<extracted, named, groups, word, excluded, check, left>>

\* The step is stopped or breaks; a check of its own is rolled back with it.
StepBreaks ==
  /\ left.beside > 0
  /\ \/ step.at \in Stages \ Steps
     \/ check.by = "cycle"
  /\ Restarts(StepOf(step.at))
  /\ check' = IF check.by = "cycle" THEN NoCheck ELSE check
  /\ left' = [left EXCEPT !.beside = @ - 1]
  /\ UNCHANGED <<extracted, named, groups, word, excluded>>

------------------------------------------------------------------------------
(* A person's words, each a transaction of its own *)

Says1(kind) ==
  /\ kind \in Says /\ left.words > 0
  /\ left' = [left EXCEPT !.words = @ - 1]
  /\ UNCHANGED <<extracted, named, excluded, step, check>>

\* settle_pair: of a pair some page showed; the two may be one, or gone, by now.
SayPair(p, is) ==
  /\ Says1("pair")
  /\ word' = [word EXCEPT !.pair = Keep(@, p, Row(is, "manual"))]
  /\ IF is = "same" /\ p \subseteq DOMAIN groups
     THEN p \cap Locked = {} /\ groups' = Merge(groups, {p})
     ELSE UNCHANGED groups

ResetPairs ==
  /\ Says1("reset")
  /\ word' = [word EXCEPT !.pair = Empty]
  /\ UNCHANGED groups

\* correct_name: a name that is another's merges the two at once.
CorrectName(k, name) ==
  /\ Says1("name") /\ k \in DOMAIN groups
  /\ word' = [word EXCEPT !.name = Keep(@, k, name)]
  /\ LET named1 == [groups EXCEPT ![k].name = name]
     IN IF name \in DOMAIN groups \ {k}
        THEN {k, name} \cap Locked = {} /\ groups' = Merge(named1, {{k, name}})
        ELSE groups' = named1

RemoveGroup(k) ==
  /\ Says1("remove") /\ k \in DOMAIN groups \ Locked
  /\ word' = [word EXCEPT !.removed = @ \cup {k}]
  /\ groups' = [l \in DOMAIN groups \ {k} |-> groups[l]]

RestoreGroup(k) ==
  /\ Says1("restore") /\ k \in word.removed
  /\ word' = [word EXCEPT !.removed = @ \ {k}]
  /\ UNCHANGED groups

\* decide_role: one marked an official stays one; who is no figurant has no verdict.
SayRole(k, role) ==
  /\ Says1("role") /\ k \in DOMAIN groups
  /\ word' = [word EXCEPT !.role = Keep(@, k, role)]
  /\ LET row == IF MarkIs(word.mark, k, TRUE) THEN Row("mentioned", "official")
                                              ELSE Row(role, "manual")
     IN groups' = [groups EXCEPT ![k].role = row,
                                 ![k].verdict = IF row.is = "figurant" THEN @ ELSE NoRow]

SayVerdict(k, verdict) ==
  /\ Says1("verdict") /\ k \in DOMAIN groups
  /\ word' = [word EXCEPT !.verdict = Keep(@, k, verdict)]
  /\ groups' = [groups EXCEPT ![k].verdict = Row(verdict, "manual")]

MarkOfficial(k, official) ==
  /\ Says1("mark") /\ k \in DOMAIN groups
  /\ word' = [word EXCEPT !.mark = Keep(@, k, official)]
  /\ groups' = IF official
               THEN [groups EXCEPT ![k].role = Row("mentioned", "official"), ![k].verdict = NoRow]
               ELSE [groups EXCEPT ![k].role = Row("unclear", "manual")]

------------------------------------------------------------------------------
Word ==
  \/ \E p \in DOMAIN Alike, is \in {"same", "different"} : SayPair(p, is)
  \/ ResetPairs
  \/ \E k \in Keys : \/ \E name \in NameWords \ {k} : CorrectName(k, name)
                     \/ RemoveGroup(k) \/ RestoreGroup(k)
                     \/ \E role \in RoleWords : SayRole(k, role)
                     \/ \E verdict \in VerdictWords : SayVerdict(k, verdict)
                     \/ \E official \in BOOLEAN : MarkOfficial(k, official)

CycleStep ==
  \/ ReadMentions \/ (\E k \in Keys : NameBatch(k)) \/ NamesEnd \/ MergeSame
  \/ CorrectNames \/ JoinNext \/ TakeOutRemoved
  \/ WriteEntities \/ ReadEntities \/ RememberTitled \/ WriteRoles \/ ReadFigurants \/ WriteVerdicts \/ RowLost

Check == Match \/ MatchFails \/ MergeClear

Next ==
  \/ \E m \in Mentions : Extract(m)
  \/ CycleStep \/ StepBreaks
  \/ \E by \in {"cycle", "hand"} : ReadList(by)
  \/ Check
  \/ Word

Spec == Init /\ [][Next]_vars

\* The operator runs the cycle again and again and a step goes on until it ends; the
\* database hands the check lock out in turn.
FairSpec == Spec /\ WF_vars(CycleStep) /\ WF_vars(Check) /\ SF_vars(ReadList("cycle"))

------------------------------------------------------------------------------
(* Properties *)

\* When the words have ended the cycle keeps what was said: a removed key has no entity,
\* two said to be one are one, and the entity of a decided key has the role and the
\* verdict decided, an official by every mark it has is one; or no row, between two steps.
MarksOf(k) == {word.mark[l] : l \in {l \in DOMAIN word.mark : Today(l, DOMAIN groups) = {k}}}

AfterwardsAsSaid ==
  <>[](/\ word.removed \cap DOMAIN groups = {}
       /\ \A p \in SamePairs : ~(p \subseteq DOMAIN groups)
       /\ \A k \in DOMAIN groups :
            /\ k \in DOMAIN word.role /\ TRUE \notin MarksOf(k)
                 => groups[k].role \in {NoRow, Row(word.role[k], "manual")}
            /\ MarksOf(k) = {TRUE} => groups[k].role \in {NoRow, Row("mentioned", "official")}
            /\ k \in DOMAIN word.verdict
                 => groups[k].verdict \in {NoRow, Row(word.verdict[k], "manual")})

\* The cycle comes round, whatever merges, removals and checks by hand take from under
\* its steps: again and again every entity has a role, and every figurant a verdict.
EverybodyIsJudged ==
  []<>(\A k \in DOMAIN groups :
         /\ groups[k].role # NoRow
         /\ groups[k].role.is = "figurant" => groups[k].verdict # NoRow)

\* No mention is in two entities, also while entities are merged and rebuilt at once.
EveryMentionOnce ==
  /\ TypeOK
  /\ \A k \in DOMAIN groups, l \in DOMAIN groups : k # l => groups[k].of \cap groups[l].of = {}

\* From the figurants step to the next rebuild no entity is without a role, however the
\* entities were merged, removed and decided since.
NobodyWithoutRole ==
  StepOf(step.at) = "political" => \A k \in DOMAIN groups : groups[k].role # NoRow

\* «What a rebuild keeps stable is the entity key» (collector.py:4): a step that leaves
\* the same mentions together leaves them under the same keys.  It does not hold: a name
\* corrected into another's key merges the two under the fuller or more mentioned key, and
\* the next rebuild puts the same mentions under the other's; every word kept by the
\* first key is then no entity's.
SamePersonsSameKeys ==
  [][LET people(gs) == {gs[k].of : k \in DOMAIN gs}
     IN people(groups') = people(groups) => DOMAIN groups' = DOMAIN groups]_vars

\* «every undecided pair» (disputes.py:454): merging the clear pairs never replaces a
\* person's decision.  It does: the pairs decided are read before the merges, and a
\* «different» committed in between is written over with "same".
PersonsWordStays ==
  [][\A p \in DOMAIN word.pair \cap DOMAIN word'.pair :
       word.pair[p].by = "manual" => word'.pair[p].by = "manual"]_vars

\* «taken out and stays out» (removals.py:1).  A rebuild that read the removed keys before
\* the word writes the entity back, until the next rebuild.
RemovedStaysOut == word.removed \cap DOMAIN groups = {}

\* «applied at once and kept for every rebuild» (roles.py:168).  A figurants step that read
\* the decisions before the word writes its own role over it, until the next cycle.
RoleStaysAsSaid ==
  \A k \in DOMAIN groups \cap DOMAIN word.role :
    groups[k].role = NoRow \/ groups[k].role.is = word.role[k] \/ MarksOf(k) # {}
===============================================================================
