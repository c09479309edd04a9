-------------------------- MODULE CycleStepsProofs --------------------------
(***************************************************************************)
(* Proofs about two steps of the operator's cycle.                         *)
(*                                                                         *)
(* EntityGroups: that no mention is ever in two entities, and nobody is    *)
(* without a role from the figurants step to the next rebuild, for every   *)
(* set of mentions, keys and words and any number of steps.  The set of    *)
(* entities is made and changed by five pieces of code: the grouping, the  *)
(* merge of the decided pairs, the corrected names, the merge at once and  *)
(* the merge of the clear pairs.  Each has a lemma: it makes entities that *)
(* share no mention of entities that share none.  The invariant says so of *)
(* the stored entities and of those a rebuild has in hand, and of the      *)
(* figurants step that it knows every entity there is.                     *)
(*                                                                         *)
(* JunkHolds: what a purge deletes, and what its readings write.           *)
(***************************************************************************)
EXTENDS EntityGroups, JunkHolds, FiniteSetTheorems, TLAPS

\* Who a role or a verdict is from.
Sources == {None, "manual", "official", "step"}

\* Entities of the mentions ms, by their keys.
EntityOf(ms) ==
  [of : SUBSET ms, name : Keys, role : [is : Roles \cup {None}, by : Sources],
   verdict : [is : Verdicts \cup {None}, by : Sources], match : SUBSET {"full", "name"}]

AreEntities(es, ms) ==
  /\ DOMAIN es \subseteq Keys
  /\ \A k \in DOMAIN es : es[k] \in EntityOf(ms)

Apart(es) == \A k \in DOMAIN es, l \in DOMAIN es : k # l => es[k].of \cap es[l].of = {}

AllJudged(es) == \A k \in DOMAIN es : es[k].role.is \in Roles

\* Pairs that share no key.
NoKeyTwice(pairs) ==
  /\ pairs \subseteq Pairs
  /\ \A p \in pairs, q \in pairs : p # q => p \cap q = {}

------------------------------------------------------------------------------
(* What the grouping and the merges make of entities that share no mention *)

\* The rules and the model put each mention in one entity.
LEMMA GroupedApart ==
  ASSUME NEW ms \in SUBSET Mentions
  PROVE  AreEntities(Grouped(ms), ms) /\ Apart(Grouped(ms))
<1> DEFINE es == Grouped(ms)
           OfKey(k) == {m \in ms : KeyOf(m) = k}
<1>1. \A m \in ms : KeyOf(m) \in Keys \cup {Nobody}
  BY EntitiesAssumption DEF KeyOf
<1>2. /\ DOMAIN es \subseteq Keys
      /\ \A k \in DOMAIN es : es[k] = Entity(OfKey(k), k)
  BY <1>1 DEF Grouped
<1>3. \A k \in DOMAIN es : OfKey(k) \in SUBSET ms
  OBVIOUS
<1>4. ASSUME NEW k \in Keys, NEW of \in SUBSET ms
      PROVE  Entity(of, k) \in EntityOf(ms) /\ Entity(of, k).of = of
  <2>1. /\ NoRow \in [is : Roles \cup {None}, by : Sources]
        /\ NoRow \in [is : Verdicts \cup {None}, by : Sources]
    BY DEF NoRow, Row, None, Sources
  <2> QED
    BY <2>1 DEF EntityOf, Entity
<1>5. \A k, l : k # l => OfKey(k) \cap OfKey(l) = {}
  OBVIOUS
<1> HIDE DEF es, OfKey
<1>6. \A k \in DOMAIN es : es[k] \in EntityOf(ms) /\ es[k].of = OfKey(k)
  BY <1>2, <1>3, <1>4
<1> QED
  BY <1>2, <1>5, <1>6 DEF AreEntities, Apart, es

\* A kept key means some of today's keys, or none.
LEMMA TodayIsToday ==
  ASSUME NEW kept, NEW today
  PROVE  Today(kept, today) \subseteq today
BY DEF Today

LEMMA ResolvedIsToday ==
  ASSUME NEW pairs, NEW today
  PROVE  \A p \in Resolved(pairs, today) : p \subseteq today
BY TodayIsToday DEF Resolved

\* Keys joined to one key in common are joined to the same keys: what is closed under the
\* pairs and has the key has all of them, and so has what is left of today's keys.
LEMMA JoinedAlike ==
  ASSUME NEW today, NEW pairs, \A p \in pairs : p \subseteq today,
         NEW k \in today, NEW l \in today,
         NEW x \in JoinedTo(k, pairs, today), x \in JoinedTo(l, pairs, today)
  PROVE  JoinedTo(k, pairs, today) = JoinedTo(l, pairs, today)
<1> DEFINE Closed(S) == \A p \in pairs : p \cap S # {} => p \subseteq S
           To(j) == JoinedTo(j, pairs, today)
<1>1. \A j : To(j) = {y \in today : \A S \in SUBSET today : j \in S /\ Closed(S) => y \in S}
  BY DEF JoinedTo
<1>2. \A S \in SUBSET today : Closed(S) => Closed(today \ S)
  OBVIOUS
<1> HIDE DEF Closed
<1>3. ASSUME NEW j \in today, x \in To(j), NEW S \in SUBSET today, Closed(S)
      PROVE  x \in S <=> j \in S
  <2>1. Closed(today \ S) /\ today \ S \in SUBSET today
    BY <1>2, <1>3
  <2>2. j \in S => x \in S
    BY <1>1, <1>3
  <2>3. j \in today \ S => x \in today \ S
    BY <1>1, <1>3, <2>1
  <2> QED
    BY <2>2, <2>3
<1>4. \A S \in SUBSET today : Closed(S) => (k \in S <=> l \in S)
  BY <1>3
<1> QED
  BY <1>1, <1>4

\* merge_decided puts the entities of joined keys in one, each in one only.
LEMMA MergeDecidedApart ==
  ASSUME NEW ms, NEW es, NEW same, AreEntities(es, ms), Apart(es)
  PROVE  AreEntities(MergeDecided(es, same), ms) /\ Apart(MergeDecided(es, same))
<1> DEFINE today == DOMAIN es
           To(k) == JoinedTo(k, Resolved(same, today), today)
           joined == [k \in today |-> To(k)]
           merged == MergeDecided(es, same)
           Of(k) == UNION {es[l].of : l \in To(k)}
<1>1. /\ DOMAIN merged \subseteq today
      /\ \A k \in DOMAIN merged : /\ KeepsAll(To(k), es) = k
                                  /\ merged[k] = [es[k] EXCEPT !.of = Of(k)]
  BY DEF MergeDecided
<1>2. \A k \in today : To(k) \subseteq today
  BY DEF JoinedTo
<1>3. \A k \in today : Of(k) \subseteq ms
  BY <1>2 DEF AreEntities, EntityOf
<1>4. \A k \in DOMAIN merged : merged[k] \in EntityOf(ms) /\ merged[k].of = Of(k)
  <2> HIDE DEF Of
  <2> QED
    BY <1>1, <1>3 DEF AreEntities, EntityOf
<1>5. ASSUME NEW k \in DOMAIN merged, NEW l \in DOMAIN merged, NEW m \in Of(k) \cap Of(l)
      PROVE  k = l
  <2>1. PICK x \in To(k) : m \in es[x].of
    OBVIOUS
  <2>2. PICK y \in To(l) : m \in es[y].of
    OBVIOUS
  <2>3. x = y
    BY <1>1, <1>2, <2>1, <2>2 DEF Apart
  <2>4. To(k) = To(l)
    BY <1>1, <2>1, <2>2, <2>3, ResolvedIsToday, JoinedAlike
  <2> QED
    BY <1>1, <2>4
<1> HIDE DEF merged, Of
<1>6. Apart(merged)
  BY <1>4, <1>5 DEF Apart
<1> QED
  BY <1>1, <1>4, <1>6 DEF AreEntities, merged

\* Corrected names move no mention.
LEMMA RenamedApart ==
  ASSUME NEW ms, NEW es, NEW pick, AreEntities(es, ms), Apart(es),
         \A k \in DOMAIN pick : pick[k] \in Keys
  PROVE  /\ AreEntities(Renamed(es, pick), ms) /\ Apart(Renamed(es, pick))
         /\ DOMAIN Renamed(es, pick) = DOMAIN es
<1> DEFINE named1 == Renamed(es, pick)
<1>1. DOMAIN named1 = DOMAIN es
  BY DEF Renamed
<1>2. \A k \in DOMAIN es : named1[k] \in EntityOf(ms) /\ named1[k].of = es[k].of
  <2> SUFFICES ASSUME NEW k \in DOMAIN es
               PROVE  named1[k] \in EntityOf(ms) /\ named1[k].of = es[k].of
    OBVIOUS
  <2>1. named1[k] = IF k \in DOMAIN pick THEN [es[k] EXCEPT !.name = pick[k]] ELSE es[k]
    BY DEF Renamed
  <2>2. es[k] \in EntityOf(ms)
    BY DEF AreEntities
  <2> QED
    BY <2>1, <2>2 DEF EntityOf
<1> QED
  BY <1>1, <1>2 DEF AreEntities, Apart

\* An entity that joins another takes its mentions along and is gone.
LEMMA JoinNamedApart ==
  ASSUME NEW ms, NEW es, NEW k \in DOMAIN es, AreEntities(es, ms), Apart(es)
  PROVE  /\ AreEntities(JoinNamed(es, k), ms) /\ Apart(JoinNamed(es, k))
         /\ DOMAIN es \ {k} \subseteq DOMAIN JoinNamed(es, k)
<1> DEFINE name == es[k].name
           after == JoinNamed(es, k)
<1>1. CASE name \notin DOMAIN es \ {k}
  BY <1>1 DEF JoinNamed
<1>2. CASE name \in DOMAIN es \ {k}
  <2>1. /\ DOMAIN after = DOMAIN es \ {k}
        /\ after[name] = [es[name] EXCEPT !.of = es[name].of \cup es[k].of]
        /\ \A l \in DOMAIN es \ {k, name} : after[l] = es[l]
    BY <1>2 DEF JoinNamed
  <2>2. \A l \in DOMAIN es : es[l] \in EntityOf(ms)
    BY DEF AreEntities
  <2>3. after[name] \in EntityOf(ms) /\ after[name].of = es[name].of \cup es[k].of
    BY <1>2, <2>1, <2>2 DEF EntityOf
  <2> HIDE DEF after
  <2>4. AreEntities(after, ms)
    BY <2>1, <2>2, <2>3 DEF AreEntities
  <2>5. Apart(after)
    BY <1>2, <2>1, <2>3 DEF Apart
  <2> QED
    BY <2>1, <2>4, <2>5 DEF after
<1> QED
  BY <1>1, <1>2

LEMMA WithoutRemovedApart ==
  ASSUME NEW ms, NEW es, NEW removed, AreEntities(es, ms), Apart(es)
  PROVE  AreEntities(WithoutRemoved(es, removed), ms) /\ Apart(WithoutRemoved(es, removed))
<1>1. /\ DOMAIN WithoutRemoved(es, removed) \subseteq DOMAIN es
      /\ \A k \in DOMAIN WithoutRemoved(es, removed) : WithoutRemoved(es, removed)[k] = es[k]
  BY DEF WithoutRemoved
<1> QED
  BY <1>1 DEF AreEntities, Apart

\* The two keys of a pair that is merged.
LEMMA KeptAndDropped ==
  ASSUME NEW gs, NEW p \in Pairs
  PROVE  /\ Kept(gs, p) \in p /\ Dropped(gs, p) \in p /\ Kept(gs, p) # Dropped(gs, p)
         /\ p = {Kept(gs, p), Dropped(gs, p)}
<1> DEFINE k == CHOOSE k \in p : TRUE
           l == CHOOSE l \in p : l # k
<1>1. PICK a \in p, b \in p : a # b /\ p = {a, b}
  BY DEF Pairs
<1>2. k \in p
  BY <1>1
<1>3. \E x \in p : x # k
  BY <1>1
<1>4. l \in p /\ l # k
  BY <1>3
<1>5. Kept(gs, p) \in {k, l}
  BY DEF Kept
<1>6. Kept(gs, p) \in p
  BY <1>2, <1>4, <1>5
<1>7. \E x \in p : x # Kept(gs, p)
  BY <1>1
<1>8. Dropped(gs, p) \in p /\ Dropped(gs, p) # Kept(gs, p)
  BY <1>7 DEF Dropped
<1> QED
  BY <1>1, <1>6, <1>8

\* merge_groups, of pairs that share no key: the kept entity has the mentions of the two
\* and the role of one of them; the dropped one is gone.
LEMMA MergeApart ==
  ASSUME NEW ms, NEW gs, NEW pairs, AreEntities(gs, ms), Apart(gs), NoKeyTwice(pairs)
  PROVE  /\ AreEntities(Merge(gs, pairs), ms) /\ Apart(Merge(gs, pairs))
         /\ DOMAIN Merge(gs, pairs) \subseteq DOMAIN gs
         /\ AllJudged(gs) => AllJudged(Merge(gs, pairs))
<1> DEFINE after == Merge(gs, pairs)
           met == Met(gs, pairs)
           PairOf(j) == CHOOSE p \in met : j \in p
           OtherOf(j) == Dropped(gs, PairOf(j))
           gone == {Dropped(gs, p) : p \in met}
<1>1. met \subseteq pairs /\ \A p \in met : p \in Pairs /\ p \subseteq DOMAIN gs
  BY DEF Met, NoKeyTwice
<1>2. DOMAIN after = DOMAIN gs \ gone
  BY DEF Merge
<1>3. ASSUME NEW j \in DOMAIN after, ~\E p \in met : j \in p
      PROVE  after[j] = gs[j]
  BY <1>3 DEF Merge
<1>4. ASSUME NEW j \in DOMAIN after, \E p \in met : j \in p
      PROVE  after[j] = [gs[j] EXCEPT !.of = gs[j].of \cup gs[OtherOf(j)].of,
                                      !.role = StrongerRole(gs[j], gs[OtherOf(j)]),
                                      !.match = gs[j].match \cup gs[OtherOf(j)].match]
  BY <1>4 DEF Merge
<1>5. ASSUME NEW j \in DOMAIN after, \E p \in met : j \in p
      PROVE  /\ PairOf(j) \in met /\ PairOf(j) = {j, OtherOf(j)}
             /\ OtherOf(j) \in gone /\ OtherOf(j) \in DOMAIN gs
  <2>1. PairOf(j) \in met /\ j \in PairOf(j)
    BY <1>5
  <2>2. OtherOf(j) \in gone
    BY <2>1
  <2>3. /\ OtherOf(j) \in PairOf(j)
        /\ PairOf(j) = {Kept(gs, PairOf(j)), OtherOf(j)}
    BY <1>1, <2>1, KeptAndDropped
  <2>4. j # OtherOf(j)
    BY <1>2, <2>2
  <2> QED
    BY <1>1, <2>1, <2>2, <2>3, <2>4
<1> HIDE DEF after, PairOf, OtherOf, gone, met
<1>6. \A k \in DOMAIN gs : gs[k] \in EntityOf(ms)
  BY DEF AreEntities
<1>7. ASSUME NEW j \in DOMAIN after, \E p \in met : j \in p
      PROVE  /\ after[j] \in EntityOf(ms)
             /\ after[j].of = gs[j].of \cup gs[OtherOf(j)].of
             /\ after[j].role \in {gs[j].role, gs[OtherOf(j)].role}
  <2> DEFINE stronger == StrongerRole(gs[j], gs[OtherOf(j)])
  <2>1. gs[j] \in EntityOf(ms) /\ gs[OtherOf(j)] \in EntityOf(ms)
    BY <1>2, <1>5, <1>6, <1>7
  <2>2. stronger \in {gs[j].role, gs[OtherOf(j)].role}
    BY DEF StrongerRole
  <2>3. after[j] = [gs[j] EXCEPT !.of = gs[j].of \cup gs[OtherOf(j)].of, !.role = stronger,
                                 !.match = gs[j].match \cup gs[OtherOf(j)].match]
    BY <1>4, <1>7
  <2> HIDE DEF stronger
  <2> QED
    BY <2>1, <2>2, <2>3 DEF EntityOf
<1>8. AreEntities(after, ms)
  BY <1>2, <1>3, <1>6, <1>7 DEF AreEntities
<1>9. ASSUME NEW k \in DOMAIN after, NEW l \in DOMAIN after, k # l
      PROVE  after[k].of \cap after[l].of = {}
  <2>1. CASE (\E p \in met : k \in p) /\ (\E p \in met : l \in p)
    <3>1. PairOf(k) # PairOf(l)
      BY <1>2, <1>5, <1>9, <2>1
    <3>2. PairOf(k) \cap PairOf(l) = {}
      BY <1>1, <1>5, <2>1, <3>1 DEF NoKeyTwice
    <3> QED
      BY <1>2, <1>5, <1>7, <2>1, <3>2 DEF Apart
  <2>2. CASE (\E p \in met : k \in p) /\ ~(\E p \in met : l \in p)
    BY <1>2, <1>3, <1>5, <1>7, <1>9, <2>2 DEF Apart
  <2>3. CASE ~(\E p \in met : k \in p) /\ (\E p \in met : l \in p)
    BY <1>2, <1>3, <1>5, <1>7, <1>9, <2>3 DEF Apart
  <2>4. CASE ~(\E p \in met : k \in p) /\ ~(\E p \in met : l \in p)
    BY <1>2, <1>3, <1>9, <2>4 DEF Apart
  <2> QED
    BY <2>1, <2>2, <2>3, <2>4
<1>10. AllJudged(gs) => AllJudged(after)
  BY <1>2, <1>3, <1>5, <1>7 DEF AllJudged
<1> QED
  BY <1>2, <1>8, <1>9, <1>10 DEF Apart, after

\* A choice among kept words has them for today's keys.
LEMMA PicksAreKept ==
  ASSUME NEW kept, NEW today, NEW pick \in Picks(kept, today)
  PROVE  /\ DOMAIN pick \subseteq today
         /\ \A k \in DOMAIN pick : \E l \in DOMAIN kept : pick[k] = kept[l]
BY DEF Picks

\* The clear pairs share no key.
LEMMA ClearPairsApart ==
  ASSUME NEW today, NEW decided, NEW listed
  PROVE  NoKeyTwice(ClearPairs(today, decided, listed))
BY KeysAssumption DEF ClearPairs, FindPairs, NoKeyTwice


\* Entities stay so when no mention moves, and when mentions come.
LEMMA SameMentions ==
  ASSUME NEW ms, NEW gs, NEW hs, AreEntities(gs, ms), Apart(gs), DOMAIN hs \subseteq DOMAIN gs,
         \A k \in DOMAIN hs : hs[k] \in EntityOf(ms) /\ hs[k].of = gs[k].of
  PROVE  AreEntities(hs, ms) /\ Apart(hs)
BY DEF AreEntities, Apart

LEMMA MoreMentions ==
  ASSUME NEW ms, NEW ns, ms \subseteq ns, NEW gs, AreEntities(gs, ms)
  PROVE  AreEntities(gs, ns)
BY DEF AreEntities, EntityOf

------------------------------------------------------------------------------
(* The invariant *)

\* What a person said is of the kinds a person may say.
WordsAllowed ==
  /\ word = [pair |-> word.pair, name |-> word.name, removed |-> word.removed,
             role |-> word.role, verdict |-> word.verdict, mark |-> word.mark]
  /\ DOMAIN word.pair \subseteq Pairs
  /\ \A p \in DOMAIN word.pair : word.pair[p].is \in {"same", "different"}
  /\ \A k \in DOMAIN word.name : word.name[k] \in Keys
  /\ \A k \in DOMAIN word.role : word.role[k] \in Roles
  /\ \A k \in DOMAIN word.verdict : word.verdict[k] \in Verdicts

\* The entities a rebuild has in hand share no mention either.
InHand ==
  /\ step.at \in Stages
  /\ step.at = "naming" => step.read \subseteq extracted
  /\ step.at \in {"merging", "joining", "removing", "writing"}
       => AreEntities(step.found, extracted) /\ Apart(step.found)
  /\ step.at = "removing" => step.turn \subseteq DOMAIN step.found
  /\ step.at = "remembering" => step.titled \subseteq Keys

RowsOf(rows, kinds) ==
  \A k \in DOMAIN rows : rows[k] \in [is : kinds \cup {"ask"}, by : Sources]

\* The figurants step knows every entity there is: none comes while it asks.
AsksOfAll ==
  /\ step.at \in {"remembering", "answering"}
       => DOMAIN groups \subseteq DOMAIN step.rows /\ RowsOf(step.rows, Roles)
  /\ step.at = "judging" => RowsOf(step.rows, Verdicts)

\* A check of the cycle's is waited for; the pairs a check is to merge share no key.
Checks ==
  {NoCheck}
  \cup [by : {"cycle", "hand"}, at : {"matching"}, gone : BOOLEAN,
        listed : SUBSET Keys, possible : SUBSET Keys]
  \cup [by : {"cycle", "hand"}, at : {"merging"}, gone : BOOLEAN,
        listed : SUBSET Keys, possible : SUBSET Keys,
        clear : {pairs \in SUBSET Pairs : NoKeyTwice(pairs)}]

CheckKnown ==
  /\ check \in Checks
  /\ check.by = "cycle" => step.at = "political"

Stored ==
  /\ extracted \subseteq Mentions /\ named \subseteq Keys /\ excluded \subseteq Keys
  /\ AreEntities(groups, extracted) /\ Apart(groups)

JudgedSince == StepOf(step.at) = "political" => AllJudged(groups)

IInv == Stored /\ WordsAllowed /\ InHand /\ AsksOfAll /\ CheckKnown /\ JudgedSince

LEMMA InitIInv == Init => IInv
<1> SUFFICES ASSUME Init PROVE IInv
  OBVIOUS
<1>1. Stored
  BY EntitiesAssumption DEF Init, Stored, Empty, AreEntities, Apart
<1>2. WordsAllowed
  BY DEF Init, WordsAllowed, Empty
<1>3. InHand /\ AsksOfAll
  BY DEF Init, InHand, AsksOfAll, Due, Stages, Steps
<1>4. CheckKnown
  BY DEF Init, CheckKnown, Checks, NoCheck, None
<1>5. JudgedSince
  BY DEF Init, JudgedSince, AllJudged, Empty
<1> QED
  BY <1>1, <1>2, <1>3, <1>4, <1>5 DEF IInv

\* The stages of the steps.
LEMMA StageOf ==
  ASSUME step.at \in Stages
  PROVE  StepOf(step.at) = "political" <=> step.at \in {"political", "politics", "judging"}
BY DEF Stages, Steps, StepOf

------------------------------------------------------------------------------
(* The steps of the cycle *)

\* The rebuild: it changes nothing stored before it writes.
LEMMA RebuildKeeps ==
  ASSUME IInv,
         \/ ReadMentions \/ (\E k \in Keys : NameBatch(k)) \/ NamesEnd \/ MergeSame
         \/ CorrectNames \/ JoinNext \/ TakeOutRemoved
  PROVE  IInv'
<1> USE DEF IInv
<1>1. /\ extracted' = extracted /\ groups' = groups /\ word' = word
      /\ excluded' = excluded /\ check' = check
  BY DEF ReadMentions, NameBatch, NamesEnd, MergeSame, CorrectNames, JoinNext, TakeOutRemoved
<1>2. WordsAllowed'
  BY <1>1 DEF WordsAllowed
<1>3. Stored'
  BY <1>1 DEF Stored, ReadMentions, NameBatch, NamesEnd, MergeSame, CorrectNames, JoinNext,
              TakeOutRemoved
<1>4. step.at \in {"entities", "naming", "merging", "joining", "removing"}
  BY DEF ReadMentions, NameBatch, NamesEnd, MergeSame, CorrectNames, JoinNext, TakeOutRemoved, Due
<1>5. /\ step'.at \in {"naming", "merging", "joining", "removing", "writing"}
      /\ InHand'
  <2>1. CASE ReadMentions
    BY <1>1, <2>1 DEF ReadMentions, InHand, Stages
  <2>2. CASE \E k \in Keys : NameBatch(k)
    BY <1>1, <2>2 DEF NameBatch, InHand
  <2>3. CASE NamesEnd
    <3>1. /\ step'.at = "merging" /\ step'.found = Grouped(step.read)
          /\ step.read \subseteq extracted /\ step.read \in SUBSET Mentions
      BY <2>3 DEF NamesEnd, InHand, Stored
    <3>2. AreEntities(Grouped(step.read), extracted) /\ Apart(Grouped(step.read))
      BY <3>1, GroupedApart, MoreMentions
    <3> QED
      BY <1>1, <3>1, <3>2 DEF InHand, Stages
  <2>4. CASE MergeSame
    <3>1. /\ step'.at = "joining" /\ step'.found = MergeDecided(step.found, SamePairs)
          /\ AreEntities(step.found, extracted) /\ Apart(step.found)
      BY <2>4 DEF MergeSame, InHand
    <3> QED
      BY <1>1, <3>1, MergeDecidedApart DEF InHand, Stages
  <2>5. CASE CorrectNames
    <3>1. PICK pick \in Picks(word.name, DOMAIN step.found) :
             LET named1 == Renamed(step.found, pick)
             IN step' = [at |-> "removing", found |-> named1, renamed |-> named1,
                         turn |-> DOMAIN pick]
      BY <2>5 DEF CorrectNames
    <3>2. AreEntities(step.found, extracted) /\ Apart(step.found)
      BY <2>5 DEF CorrectNames, InHand
    <3>3. /\ DOMAIN pick \subseteq DOMAIN step.found
          /\ \A k \in DOMAIN pick : pick[k] \in Keys
      BY PicksAreKept DEF WordsAllowed
    <3>4. step'.at = "removing" /\ step'.found = Renamed(step.found, pick) /\ step'.turn = DOMAIN pick
      BY <3>1
    <3> QED
      BY <1>1, <3>2, <3>3, <3>4, RenamedApart DEF InHand, Stages
  <2>6. CASE JoinNext
    <3>1. PICK k \in step.turn : /\ step'.at = "removing" /\ step'.found = JoinNamed(step.found, k)
                                 /\ step'.turn = step.turn \ {k}
      BY <2>6 DEF JoinNext
    <3>2. /\ AreEntities(step.found, extracted) /\ Apart(step.found)
          /\ step.turn \subseteq DOMAIN step.found
      BY <2>6 DEF JoinNext, InHand
    <3>3. /\ AreEntities(JoinNamed(step.found, k), extracted) /\ Apart(JoinNamed(step.found, k))
          /\ step.turn \ {k} \subseteq DOMAIN JoinNamed(step.found, k)
      BY <3>2, JoinNamedApart
    <3> QED
      BY <1>1, <3>1, <3>3 DEF InHand, Stages
  <2>7. CASE TakeOutRemoved
    <3>1. /\ step'.at = "writing" /\ step'.found = WithoutRemoved(step.found, word.removed)
          /\ AreEntities(step.found, extracted) /\ Apart(step.found)
      BY <2>7 DEF TakeOutRemoved, InHand
    <3> QED
      BY <1>1, <3>1, WithoutRemovedApart DEF InHand, Stages
  <2> QED
    BY <1>1, <1>4, <2>1, <2>2, <2>3, <2>4, <2>5, <2>6, <2>7
<1>6. AsksOfAll' /\ JudgedSince'
  BY <1>5 DEF AsksOfAll, JudgedSince, StepOf
<1>7. CheckKnown'
  BY <1>1, <1>4 DEF CheckKnown
<1> QED
  BY <1>2, <1>3, <1>5, <1>6, <1>7


\* All entities at once are replaced by those in hand.
LEMMA WriteEntitiesKeeps ==
  ASSUME IInv, WriteEntities
  PROVE  IInv'
<1> USE DEF IInv
<1>1. /\ step.at = "writing" /\ groups' = step.found /\ step' = Due("figurants")
      /\ extracted' = extracted /\ named' = named /\ excluded' = excluded /\ word' = word
      /\ check' = IF check.by = None THEN check ELSE [check EXCEPT !.gone = TRUE]
  BY DEF WriteEntities
<1>2. Stored'
  BY <1>1 DEF Stored, InHand
<1>3. WordsAllowed'
  BY <1>1 DEF WordsAllowed
<1>4. step'.at = "figurants"
  BY <1>1 DEF Due
<1>5. InHand' /\ AsksOfAll' /\ JudgedSince'
  BY <1>4 DEF InHand, AsksOfAll, JudgedSince, StepOf, Stages, Steps
<1>6. check.by # "cycle"
  BY <1>1 DEF CheckKnown
<1>7. [check EXCEPT !.gone = TRUE].by = check.by
  BY DEF CheckKnown, Checks, NoCheck
<1>8. check.by # None => [check EXCEPT !.gone = TRUE] \in Checks
  BY DEF CheckKnown, Checks, NoCheck
<1>9. CheckKnown'
  BY <1>1, <1>6, <1>7, <1>8 DEF CheckKnown
<1> QED
  BY <1>2, <1>3, <1>5, <1>9

LEMMA FixedIsRow ==
  ASSUME NEW k, NEW mark, NEW role, \A l \in DOMAIN role : role[l] \in Roles
  PROVE  Fixed(k, mark, role) \in [is : Roles \cup {"ask"}, by : Sources]
<1>1. /\ \A is \in Roles : Row(is, "manual") \in [is : Roles \cup {"ask"}, by : Sources]
      /\ Row("mentioned", "official") \in [is : Roles \cup {"ask"}, by : Sources]
      /\ Row("ask", "step") \in [is : Roles \cup {"ask"}, by : Sources]
  BY DEF Row, Roles, Sources
<1>2. \/ k \in DOMAIN role /\ Fixed(k, mark, role) = Row(role[k], "manual")
      \/ Fixed(k, mark, role) \in {Row("mentioned", "official"), Row("ask", "step")}
  BY DEF Fixed
<1> QED
  BY <1>1, <1>2

LEMMA ReadEntitiesKeeps ==
  ASSUME IInv, ReadEntities
  PROVE  IInv'
<1> USE DEF IInv
<1> DEFINE today == DOMAIN groups
<1>1. PICK mark \in Picks(word.mark, today), role \in ExactPicks(word.role, today) :
         step' = [at |-> "remembering", rows |-> [k \in today |-> Fixed(k, mark, role)],
                  titled |-> {k \in today : groups[k].of \cap Titled # {} /\ k \notin DOMAIN mark}]
  BY DEF ReadEntities
<1>2. /\ extracted' = extracted /\ named' = named /\ groups' = groups /\ word' = word
      /\ check' = check /\ excluded' = excluded /\ step.at = "figurants"
  BY DEF ReadEntities, Due
<1>3. \A k \in DOMAIN role : role[k] \in Roles
  BY PicksAreKept DEF ExactPicks, WordsAllowed
<1>4. /\ step'.at = "remembering" /\ DOMAIN step'.rows = today /\ step'.titled \subseteq today
      /\ \A k \in today : step'.rows[k] = Fixed(k, mark, role)
  BY <1>1
<1>5. RowsOf(step'.rows, Roles)
  BY <1>3, <1>4, FixedIsRow DEF RowsOf
<1>6. Stored'
  BY <1>2 DEF Stored, AreEntities
<1>7. WordsAllowed'
  BY <1>2 DEF WordsAllowed
<1>8. today \subseteq Keys
  BY DEF Stored, AreEntities
<1>9. InHand' /\ AsksOfAll' /\ JudgedSince'
  BY <1>2, <1>4, <1>5, <1>8 DEF InHand, AsksOfAll, JudgedSince, StepOf, Stages, Steps
<1>10. CheckKnown'
  BY <1>2 DEF CheckKnown
<1> QED
  BY <1>6, <1>7, <1>9, <1>10

\* The titled go on the exclusion list; nothing else is written.
LEMMA RememberTitledKeeps ==
  ASSUME IInv, RememberTitled
  PROVE  IInv'
<1> USE DEF IInv
<1>1. /\ extracted' = extracted /\ named' = named /\ groups' = groups /\ word' = word
      /\ check' = check /\ step.at = "remembering"
      /\ step'.at = "answering" /\ step'.rows = step.rows
      /\ \E new \in SUBSET step.titled : excluded' = excluded \cup new
  BY DEF RememberTitled
<1>2. Stored' /\ WordsAllowed'
  BY <1>1 DEF Stored, WordsAllowed, InHand
<1>3. InHand' /\ AsksOfAll' /\ JudgedSince'
  BY <1>1 DEF InHand, AsksOfAll, JudgedSince, StepOf, Stages, Steps
<1>4. CheckKnown'
  BY <1>1 DEF CheckKnown
<1> QED
  BY <1>2, <1>3, <1>4

\* Every row a step asked for is answered, the others stay.
LEMMA AnsweredRows ==
  ASSUME NEW asked, NEW kinds, NEW answers, RowsOf(asked, kinds), answers \subseteq kinds,
         NEW rows \in Answered(asked, answers)
  PROVE  /\ DOMAIN rows = DOMAIN asked
         /\ "ask" \notin kinds => \A k \in DOMAIN rows : rows[k] \in [is : kinds, by : Sources]
<1>1. DOMAIN rows = DOMAIN asked
  BY DEF Answered
<1>2. ASSUME NEW k \in DOMAIN rows, "ask" \notin kinds
      PROVE  rows[k] \in [is : kinds, by : Sources]
  <2>1. rows[k] \in {Row(a, "step") : a \in answers} \cup {asked[l] : l \in DOMAIN asked}
    BY <1>1 DEF Answered
  <2>2. IF asked[k].is = "ask" THEN rows[k].is \in answers /\ rows[k].by = "step"
                               ELSE rows[k] = asked[k]
    BY <1>1 DEF Answered
  <2>3. rows[k] \in [is : kinds \cup {"ask"}, by : Sources]
    BY <2>1 DEF RowsOf, Row, Sources
  <2>4. rows[k].is \in kinds
    BY <1>1, <1>2, <2>2 DEF RowsOf
  <2> QED
    BY <2>3, <2>4
<1> QED
  BY <1>1, <1>2

\* The roles of all entities at once: of all there are the step asked.
LEMMA WriteRolesKeeps ==
  ASSUME IInv, WriteRoles
  PROVE  IInv'
<1> USE DEF IInv
<1>1. PICK rows \in Answered(step.rows, RoleAnswers) :
         groups' = [k \in DOMAIN groups |->
                      [groups[k] EXCEPT !.role = IF k \in DOMAIN rows THEN rows[k] ELSE NoRow]]
  BY DEF WriteRoles
<1>2. /\ extracted' = extracted /\ named' = named /\ word' = word /\ excluded' = excluded
      /\ check' = check /\ step.at = "answering" /\ step'.at = "political"
  BY DEF WriteRoles, Due
<1>3. DOMAIN groups \subseteq DOMAIN step.rows /\ RowsOf(step.rows, Roles)
  BY <1>2 DEF AsksOfAll
<1>4. DOMAIN rows = DOMAIN step.rows /\ \A k \in DOMAIN rows : rows[k] \in [is : Roles, by : Sources]
  <2>1. RoleAnswers \subseteq Roles
    BY EntitiesAssumption
  <2>2. "ask" \notin Roles
    BY DEF Roles
  <2> QED
    BY <1>3, <2>1, <2>2, AnsweredRows
<1>5. DOMAIN groups' = DOMAIN groups
  BY <1>1
<1>6. ASSUME NEW k \in DOMAIN groups
      PROVE  /\ groups'[k] \in EntityOf(extracted) /\ groups'[k].of = groups[k].of
             /\ groups'[k].role.is \in Roles
  <2>1. groups'[k] = [groups[k] EXCEPT !.role = rows[k]] /\ rows[k] \in [is : Roles, by : Sources]
    BY <1>1, <1>3, <1>4
  <2>2. groups[k] \in EntityOf(extracted)
    BY DEF Stored, AreEntities
  <2> QED
    BY <2>1, <2>2 DEF EntityOf
<1>7. AreEntities(groups', extracted) /\ Apart(groups') /\ AllJudged(groups')
  BY <1>5, <1>6, SameMentions DEF Stored, AllJudged
<1>8. Stored'
  BY <1>2, <1>7 DEF Stored
<1>9. WordsAllowed'
  BY <1>2 DEF WordsAllowed
<1>10. InHand' /\ AsksOfAll' /\ JudgedSince'
  BY <1>2, <1>7 DEF InHand, AsksOfAll, JudgedSince, StepOf, Stages, Steps
<1>11. CheckKnown'
  BY <1>2 DEF CheckKnown
<1> QED
  BY <1>8, <1>9, <1>10, <1>11

LEMMA ReadFigurantsKeeps ==
  ASSUME IInv, ReadFigurants
  PROVE  IInv'
<1> USE DEF IInv
<1> DEFINE today == {k \in DOMAIN groups : groups[k].role.is = "figurant"}
<1>1. PICK verdict \in ExactPicks(word.verdict, today) :
         step' = [at |-> "judging",
                  rows |-> [k \in today |-> IF k \in DOMAIN verdict
                                            THEN Row(verdict[k], "manual") ELSE Row("ask", "step")]]
  BY DEF ReadFigurants
<1>2. /\ extracted' = extracted /\ named' = named /\ groups' = groups /\ word' = word
      /\ excluded' = excluded /\ check' = check /\ step.at = "politics"
  BY DEF ReadFigurants
<1>3. \A k \in DOMAIN verdict : verdict[k] \in Verdicts
  BY PicksAreKept DEF ExactPicks, WordsAllowed
<1>4. /\ step'.at = "judging" /\ DOMAIN step'.rows = today
      /\ \A k \in today : step'.rows[k] = IF k \in DOMAIN verdict
                                          THEN Row(verdict[k], "manual") ELSE Row("ask", "step")
  BY <1>1
<1>5. RowsOf(step'.rows, Verdicts)
  <2>1. /\ \A is \in Verdicts : Row(is, "manual") \in [is : Verdicts \cup {"ask"}, by : Sources]
        /\ Row("ask", "step") \in [is : Verdicts \cup {"ask"}, by : Sources]
    BY DEF Row, Sources
  <2> QED
    BY <1>3, <1>4, <2>1 DEF RowsOf
<1>6. Stored'
  BY <1>2 DEF Stored
<1>7. WordsAllowed'
  BY <1>2 DEF WordsAllowed
<1>8. InHand' /\ AsksOfAll' /\ JudgedSince'
  BY <1>2, <1>4, <1>5 DEF InHand, AsksOfAll, JudgedSince, StepOf, Stages, Steps
<1>9. CheckKnown'
  BY <1>2 DEF CheckKnown
<1> QED
  BY <1>6, <1>7, <1>8, <1>9

LEMMA WriteVerdictsKeeps ==
  ASSUME IInv, WriteVerdicts
  PROVE  IInv'
<1> USE DEF IInv
<1>1. PICK rows \in Answered(step.rows, VerdictAnswers) :
         groups' = [k \in DOMAIN groups |->
                      [groups[k] EXCEPT !.verdict = IF k \in DOMAIN rows THEN rows[k] ELSE NoRow]]
  BY DEF WriteVerdicts
<1>2. /\ extracted' = extracted /\ named' = named /\ word' = word /\ excluded' = excluded
      /\ check' = check /\ step.at = "judging" /\ step'.at = "entities"
  BY DEF WriteVerdicts, Due
<1>3. \A k \in DOMAIN rows : rows[k] \in [is : Verdicts, by : Sources]
  <2>1. VerdictAnswers \subseteq Verdicts
    BY EntitiesAssumption
  <2>2. "ask" \notin Verdicts
    BY DEF Verdicts
  <2>3. RowsOf(step.rows, Verdicts)
    BY <1>2 DEF AsksOfAll
  <2> QED
    BY <2>1, <2>2, <2>3, AnsweredRows
<1>4. NoRow \in [is : Verdicts \cup {None}, by : Sources]
  BY DEF NoRow, Row, None, Sources
<1>5. DOMAIN groups' = DOMAIN groups
  BY <1>1
<1>6. ASSUME NEW k \in DOMAIN groups
      PROVE  groups'[k] \in EntityOf(extracted) /\ groups'[k].of = groups[k].of
  <2>1. PICK row \in [is : Verdicts \cup {None}, by : Sources] :
           groups'[k] = [groups[k] EXCEPT !.verdict = row]
    BY <1>1, <1>3, <1>4
  <2>2. groups[k] \in EntityOf(extracted)
    BY DEF Stored, AreEntities
  <2> QED
    BY <2>1, <2>2 DEF EntityOf
<1>7. AreEntities(groups', extracted) /\ Apart(groups')
  BY <1>5, <1>6, SameMentions DEF Stored
<1>8. Stored'
  BY <1>2, <1>7 DEF Stored
<1>9. WordsAllowed'
  BY <1>2 DEF WordsAllowed
<1>10. InHand' /\ AsksOfAll' /\ JudgedSince'
  BY <1>2 DEF InHand, AsksOfAll, JudgedSince, StepOf, Stages, Steps
<1>11. CheckKnown'
  BY <1>2 DEF CheckKnown
<1> QED
  BY <1>8, <1>9, <1>10, <1>11

\* A step that breaks is the same step again, or the cycle's first.
LEMMA BreaksKeeps ==
  ASSUME IInv, RowLost \/ StepBreaks
  PROVE  IInv'
<1> USE DEF IInv
<1>1. /\ extracted' = extracted /\ named' = named /\ groups' = groups /\ word' = word
      /\ excluded' = excluded
      /\ \E s \in {"entities", StepOf(step.at)} : step' = Due(s)
  BY DEF RowLost, StepBreaks, Restarts
<1>2. step'.at \in {"entities", StepOf(step.at)}
  BY <1>1 DEF Due
<1>3. step.at \in Stages
  BY DEF InHand
<1>4. StepOf(step.at) \in Steps /\ StepOf(step'.at) \in {"entities", StepOf(step.at)}
  BY <1>2, <1>3 DEF StepOf, Stages, Steps
<1>5. Stored'
  BY <1>1 DEF Stored
<1>6. WordsAllowed'
  BY <1>1 DEF WordsAllowed
<1>7. InHand' /\ AsksOfAll'
  BY <1>2, <1>4 DEF InHand, AsksOfAll, Stages, Steps
<1>8. JudgedSince'
  BY <1>1, <1>4 DEF JudgedSince
<1>9. CheckKnown'
  <2>1. CASE RowLost
    BY <2>1 DEF RowLost, CheckKnown
  <2>2. CASE StepBreaks
    BY <2>2 DEF StepBreaks, CheckKnown, Checks, NoCheck, None
  <2> QED
    BY <2>1, <2>2
<1> QED
  BY <1>5, <1>6, <1>7, <1>8, <1>9

------------------------------------------------------------------------------
(* The mentions that come and the checks of the list *)

LEMMA ExtractKeeps ==
  ASSUME IInv, NEW m \in Mentions, Extract(m)
  PROVE  IInv'
<1> USE DEF IInv
<1>1. /\ extracted' = extracted \cup {m} /\ named' = named /\ groups' = groups /\ word' = word
      /\ excluded' = excluded /\ step' = step /\ check' = check
  BY DEF Extract
<1>2. extracted \subseteq extracted'
  BY <1>1
<1>3. Stored'
  BY <1>1, <1>2, MoreMentions DEF Stored
<1>4. WordsAllowed'
  BY <1>1 DEF WordsAllowed
<1>5. InHand'
  BY <1>1, <1>2, MoreMentions DEF InHand
<1>6. AsksOfAll' /\ CheckKnown' /\ JudgedSince'
  BY <1>1 DEF AsksOfAll, CheckKnown, JudgedSince, StepOf
<1> QED
  BY <1>3, <1>4, <1>5, <1>6

LEMMA ReadListKeeps ==
  ASSUME IInv, NEW by \in {"cycle", "hand"}, ReadList(by)
  PROVE  IInv'
<1> USE DEF IInv
<1>1. /\ extracted' = extracted /\ named' = named /\ groups' = groups /\ word' = word
      /\ excluded' = excluded /\ step' = step
      /\ by = "cycle" => step.at = "political"
  BY DEF ReadList, Begins, Due
<1>2. /\ {k \in DOMAIN groups : groups[k].name \in Listed} \in SUBSET Keys
      /\ {k \in DOMAIN groups : groups[k].name \in Possible} \in SUBSET Keys
  BY DEF Stored, AreEntities
<1>3. check' \in Checks /\ check'.by = by
  BY <1>2 DEF ReadList, Checks
<1>4. Stored'
  BY <1>1 DEF Stored
<1>5. WordsAllowed' /\ InHand' /\ AsksOfAll' /\ JudgedSince'
  BY <1>1 DEF WordsAllowed, InHand, AsksOfAll, JudgedSince, StepOf
<1>6. CheckKnown'
  BY <1>1, <1>3 DEF CheckKnown
<1> QED
  BY <1>4, <1>5, <1>6

LEMMA MatchKeeps ==
  ASSUME IInv, Match
  PROVE  IInv'
<1> USE DEF IInv
<1> DEFINE clear == ClearPairs(DOMAIN groups, DOMAIN word.pair, check.listed)
<1>1. /\ extracted' = extracted /\ named' = named /\ groups' = groups /\ word' = word
      /\ excluded' = excluded /\ step' = step
      /\ check' = [by |-> check.by, at |-> "merging", gone |-> check.gone,
                   listed |-> check.listed, possible |-> check.possible, clear |-> clear]
  BY DEF Match
<1>2. /\ check.by \in {"cycle", "hand"} /\ check.gone \in BOOLEAN
      /\ check.listed \in SUBSET Keys /\ check.possible \in SUBSET Keys
  BY DEF Match, CheckKnown, Checks, NoCheck
<1>3. clear \in {pairs \in SUBSET Pairs : NoKeyTwice(pairs)}
  BY ClearPairsApart DEF NoKeyTwice
<1> HIDE DEF clear
<1>4. check' \in Checks /\ check'.by = check.by
  BY <1>1, <1>2, <1>3 DEF Checks
<1>5. Stored'
  BY <1>1 DEF Stored
<1>6. WordsAllowed' /\ InHand' /\ AsksOfAll' /\ JudgedSince'
  BY <1>1 DEF WordsAllowed, InHand, AsksOfAll, JudgedSince, StepOf
<1>7. CheckKnown'
  BY <1>1, <1>4 DEF CheckKnown
<1> QED
  BY <1>5, <1>6, <1>7

\* A check that ends: one of the cycle's hands on to the verdicts.
LEMMA DoneKeeps ==
  ASSUME IInv, Done(check.by), AllJudged(groups) => AllJudged(groups'),
         DOMAIN groups' \subseteq DOMAIN groups, extracted' = extracted
  PROVE  InHand' /\ AsksOfAll' /\ CheckKnown' /\ JudgedSince'
<1> USE DEF IInv
<1>1. CheckKnown'
  BY DEF Done, CheckKnown, Checks, NoCheck, None
<1>2. CASE check.by = "cycle"
  <2>1. step'.at = "politics" /\ AllJudged(groups)
    BY <1>2 DEF Done, Due, CheckKnown, JudgedSince, StepOf
  <2> QED
    BY <1>1, <2>1 DEF InHand, AsksOfAll, JudgedSince, Stages
<1>3. CASE check.by # "cycle"
  <2>1. step' = step
    BY <1>3 DEF Done
  <2> QED
    BY <1>1, <2>1 DEF InHand, AsksOfAll, JudgedSince, StepOf
<1> QED
  BY <1>2, <1>3

LEMMA MatchFailsKeeps ==
  ASSUME IInv, MatchFails
  PROVE  IInv'
<1>1. /\ extracted' = extracted /\ named' = named /\ groups' = groups /\ word' = word
      /\ excluded' = excluded /\ Done(check.by)
  BY DEF MatchFails
<1>2. Stored' /\ WordsAllowed'
  BY <1>1 DEF IInv, Stored, WordsAllowed
<1>3. AllJudged(groups) => AllJudged(groups')
  BY <1>1
<1>4. InHand' /\ AsksOfAll' /\ CheckKnown' /\ JudgedSince'
  BY <1>1, <1>3, DoneKeeps
<1> QED
  BY <1>2, <1>4 DEF IInv

\* The matches and the merges of the clear pairs, with the decisions of them.
LEMMA MergeClearKeeps ==
  ASSUME IInv, MergeClear
  PROVE  IInv'
<1> USE DEF IInv
<1> DEFINE matched == [k \in DOMAIN groups |-> [groups[k] EXCEPT !.match = LevelsOf(k)]]
           pairs == [p \in DOMAIN word.pair \cup check.clear |->
                       IF p \in check.clear THEN BySource(p, check.listed) ELSE word.pair[p]]
<1>1. /\ extracted' = extracted /\ named' = named /\ excluded' = excluded
      /\ groups' = Merge(matched, check.clear) /\ word' = [word EXCEPT !.pair = pairs]
      /\ Done(check.by)
  BY DEF MergeClear
<1>2. NoKeyTwice(check.clear) /\ check.clear \subseteq Pairs
  BY DEF MergeClear, CheckKnown, Checks, NoCheck
<1>3. \A k \in DOMAIN groups : /\ matched[k] \in EntityOf(extracted)
                               /\ matched[k].of = groups[k].of
                               /\ matched[k].role = groups[k].role
  <2> SUFFICES ASSUME NEW k \in DOMAIN groups
               PROVE  /\ matched[k] \in EntityOf(extracted) /\ matched[k].of = groups[k].of
                      /\ matched[k].role = groups[k].role
    OBVIOUS
  <2>1. groups[k] \in EntityOf(extracted)
    BY DEF Stored, AreEntities
  <2>2. matched[k] = [groups[k] EXCEPT !.match = LevelsOf(k)]
    OBVIOUS
  <2>3. LevelsOf(k) \in SUBSET {"full", "name"}
    BY DEF LevelsOf
  <2> HIDE DEF matched
  <2> QED
    BY <2>1, <2>2, <2>3 DEF EntityOf
<1>4. DOMAIN matched = DOMAIN groups
  OBVIOUS
<1>5. DOMAIN pairs = DOMAIN word.pair \cup check.clear
  OBVIOUS
<1>6. \A p \in DOMAIN pairs : pairs[p].is \in {"same", "different"}
  BY DEF WordsAllowed, BySource, Row
<1> HIDE DEF matched, pairs
<1>7. AreEntities(matched, extracted) /\ Apart(matched) /\ (AllJudged(groups) => AllJudged(matched))
  BY <1>3, <1>4, SameMentions DEF Stored, AllJudged
<1>8. /\ AreEntities(groups', extracted) /\ Apart(groups') /\ DOMAIN groups' \subseteq DOMAIN groups
      /\ AllJudged(groups) => AllJudged(groups')
  BY <1>1, <1>2, <1>4, <1>7, MergeApart
<1>9. Stored'
  BY <1>1, <1>8 DEF Stored
<1>10. WordsAllowed'
  BY <1>1, <1>2, <1>5, <1>6 DEF WordsAllowed
<1>11. InHand' /\ AsksOfAll' /\ CheckKnown' /\ JudgedSince'
  BY <1>1, <1>8, DoneKeeps
<1> QED
  BY <1>9, <1>10, <1>11

------------------------------------------------------------------------------
(* A person's words *)

\* A word that keeps the entities apart, takes no role and adds no entity keeps it all.
LEMMA WordKeeps ==
  ASSUME IInv, NEW kind, Says1(kind), WordsAllowed',
         AreEntities(groups', extracted), Apart(groups'), DOMAIN groups' \subseteq DOMAIN groups,
         AllJudged(groups) => AllJudged(groups')
  PROVE  IInv'
<1>1. /\ extracted' = extracted /\ named' = named /\ excluded' = excluded
      /\ step' = step /\ check' = check
  BY DEF Says1
<1>2. Stored' /\ InHand' /\ AsksOfAll' /\ CheckKnown'
  BY <1>1 DEF IInv, Stored, InHand, AsksOfAll, CheckKnown
<1>3. JudgedSince'
  BY <1>1 DEF IInv, JudgedSince, StepOf
<1> QED
  BY <1>2, <1>3 DEF IInv

LEMMA SayPairKeeps ==
  ASSUME IInv, NEW p \in DOMAIN Alike, NEW is \in {"same", "different"}, SayPair(p, is)
  PROVE  IInv'
<1>1. Says1("pair") /\ p \in Pairs
  BY KeysAssumption DEF SayPair
<1>2. WordsAllowed'
  <2> DEFINE pairs == Keep(word.pair, p, Row(is, "manual"))
  <2>1. word' = [word EXCEPT !.pair = pairs]
    BY DEF SayPair
  <2>2. /\ DOMAIN pairs = DOMAIN word.pair \cup {p}
        /\ \A q \in DOMAIN pairs : pairs[q] = IF q = p THEN Row(is, "manual") ELSE word.pair[q]
    BY DEF Keep
  <2>3. Row(is, "manual").is \in {"same", "different"}
    BY DEF Row
  <2> HIDE DEF pairs
  <2> QED
    BY <1>1, <2>1, <2>2, <2>3 DEF IInv, WordsAllowed
<1>3. groups' \in {groups, Merge(groups, {p})}
  BY DEF SayPair
<1>4. NoKeyTwice({p})
  BY <1>1 DEF NoKeyTwice
<1>5. AreEntities(groups, extracted) /\ Apart(groups)
  BY DEF IInv, Stored
<1>6. /\ AreEntities(groups', extracted) /\ Apart(groups') /\ DOMAIN groups' \subseteq DOMAIN groups
      /\ AllJudged(groups) => AllJudged(groups')
  BY <1>3, <1>4, <1>5, MergeApart
<1> QED
  BY <1>1, <1>2, <1>6, WordKeeps

\* Words that leave the entities as they are.
LEMMA QuietWordsKeep ==
  ASSUME IInv, ResetPairs \/ (\E k \in Keys : RestoreGroup(k))
  PROVE  IInv'
<1>1. groups' = groups /\ \E kind : Says1(kind)
  BY DEF ResetPairs, RestoreGroup
<1>2. WordsAllowed'
  <2>1. CASE ResetPairs
    BY <2>1 DEF IInv, WordsAllowed, ResetPairs, Empty
  <2>2. CASE \E k \in Keys : RestoreGroup(k)
    BY <2>2 DEF IInv, WordsAllowed, RestoreGroup
  <2> QED
    BY <2>1, <2>2
<1> QED
  BY <1>1, <1>2, WordKeeps DEF IInv, Stored

LEMMA CorrectNameKeeps ==
  ASSUME IInv, NEW k \in Keys, NEW name \in NameWords \ {k}, CorrectName(k, name)
  PROVE  IInv'
<1> DEFINE named1 == [groups EXCEPT ![k].name = name]
<1>1. Says1("name") /\ k \in DOMAIN groups /\ name \in Keys
  BY EntitiesAssumption DEF CorrectName
<1>2. WordsAllowed'
  <2> DEFINE names == Keep(word.name, k, name)
  <2>1. word' = [word EXCEPT !.name = names]
    BY DEF CorrectName
  <2>2. \A l \in DOMAIN names : names[l] \in Keys
    BY <1>1 DEF Keep, IInv, WordsAllowed
  <2> HIDE DEF names
  <2> QED
    BY <2>1, <2>2 DEF IInv, WordsAllowed
<1>3. AreEntities(groups, extracted) /\ Apart(groups)
  BY DEF IInv, Stored
<1>4. /\ DOMAIN named1 = DOMAIN groups
      /\ \A l \in DOMAIN groups : /\ named1[l] \in EntityOf(extracted)
                                  /\ named1[l].of = groups[l].of
                                  /\ named1[l].role = groups[l].role
  <2>1. \A l \in DOMAIN groups : groups[l] \in EntityOf(extracted)
    BY <1>3 DEF AreEntities
  <2> QED
    BY <1>1, <2>1 DEF EntityOf
<1>5. \/ groups' = named1
      \/ name \in DOMAIN groups \ {k} /\ groups' = Merge(named1, {{k, name}})
  BY DEF CorrectName
<1>6. NoKeyTwice({{k, name}})
  BY <1>1 DEF NoKeyTwice, Pairs
<1> HIDE DEF named1
<1>7. AreEntities(named1, extracted) /\ Apart(named1) /\ (AllJudged(groups) => AllJudged(named1))
  BY <1>3, <1>4, SameMentions DEF AllJudged
<1>8. /\ AreEntities(groups', extracted) /\ Apart(groups') /\ DOMAIN groups' \subseteq DOMAIN groups
      /\ AllJudged(groups) => AllJudged(groups')
  BY <1>4, <1>5, <1>6, <1>7, MergeApart
<1> QED
  BY <1>1, <1>2, <1>8, WordKeeps

LEMMA RemoveGroupKeeps ==
  ASSUME IInv, NEW k \in Keys, RemoveGroup(k)
  PROVE  IInv'
<1>1. /\ Says1("remove") /\ DOMAIN groups' = DOMAIN groups \ {k}
      /\ \A l \in DOMAIN groups' : groups'[l] = groups[l]
  BY DEF RemoveGroup
<1>2. WordsAllowed'
  BY DEF RemoveGroup, IInv, WordsAllowed
<1>3. /\ AreEntities(groups', extracted) /\ Apart(groups')
      /\ AllJudged(groups) => AllJudged(groups')
  BY <1>1 DEF IInv, Stored, AreEntities, Apart, AllJudged
<1> QED
  BY <1>1, <1>2, <1>3, WordKeeps

\* A person's word on an entity sets its role, its verdict or both; a role it sets is one.
LEMMA JudgedByWord ==
  ASSUME IInv, NEW k \in DOMAIN groups, NEW kind, Says1(kind), WordsAllowed',
         NEW role \in {groups[k].role} \cup [is : Roles, by : Sources],
         NEW verdict \in {groups[k].verdict} \cup [is : Verdicts \cup {None}, by : Sources],
         groups' = [groups EXCEPT ![k] = [groups[k] EXCEPT !.role = role, !.verdict = verdict]]
  PROVE  IInv'
<1>1. AreEntities(groups, extracted) /\ Apart(groups)
  BY DEF IInv, Stored
<1>2. \A l \in DOMAIN groups : groups[l] \in EntityOf(extracted)
  BY <1>1 DEF AreEntities
<1>3. /\ groups'[k] \in EntityOf(extracted) /\ groups'[k].of = groups[k].of
      /\ groups'[k].role = role
  BY <1>2 DEF EntityOf
<1>4. /\ DOMAIN groups' = DOMAIN groups
      /\ \A l \in DOMAIN groups \ {k} : groups'[l] = groups[l]
  OBVIOUS
<1>5. \A l \in DOMAIN groups' : groups'[l] \in EntityOf(extracted) /\ groups'[l].of = groups[l].of
  BY <1>2, <1>3, <1>4
<1>6. AreEntities(groups', extracted) /\ Apart(groups')
  BY <1>1, <1>4, <1>5, SameMentions
<1>7. AllJudged(groups) => AllJudged(groups')
  BY <1>3, <1>4 DEF AllJudged
<1> QED
  BY <1>4, <1>6, <1>7, WordKeeps

LEMMA WordRows ==
  /\ NoRow \in [is : Verdicts \cup {None}, by : Sources]
  /\ \A is \in Verdicts : Row(is, "manual") \in [is : Verdicts \cup {None}, by : Sources]
  /\ \A is \in Roles : Row(is, "manual") \in [is : Roles, by : Sources]
  /\ Row("mentioned", "official") \in [is : Roles, by : Sources]
<1>1. NoRow \in [is : Verdicts \cup {None}, by : Sources]
  BY DEF NoRow, Row, None, Sources
<1>2. \A is \in Verdicts : Row(is, "manual") \in [is : Verdicts \cup {None}, by : Sources]
  BY DEF Row, Sources
<1>3. \A is \in Roles : Row(is, "manual") \in [is : Roles, by : Sources]
  BY DEF Row, Sources
<1>4. Row("mentioned", "official") \in [is : Roles, by : Sources]
  BY DEF Row, Sources, Roles
<1> QED
  BY <1>1, <1>2, <1>3, <1>4

LEMMA SayRoleKeeps ==
  ASSUME IInv, NEW k \in Keys, NEW said \in RoleWords, SayRole(k, said)
  PROVE  IInv'
<1> DEFINE row == IF MarkIs(word.mark, k, TRUE) THEN Row("mentioned", "official")
                                                ELSE Row(said, "manual")
           verdict == IF row.is = "figurant" THEN groups[k].verdict ELSE NoRow
<1>1. Says1("role") /\ k \in DOMAIN groups /\ said \in Roles
  BY EntitiesAssumption DEF SayRole
<1>2. WordsAllowed'
  <2> DEFINE roles == Keep(word.role, k, said)
  <2>1. word' = [word EXCEPT !.role = roles]
    BY DEF SayRole
  <2>2. \A l \in DOMAIN roles : roles[l] \in Roles
    BY <1>1 DEF Keep, IInv, WordsAllowed
  <2> HIDE DEF roles
  <2> QED
    BY <2>1, <2>2 DEF IInv, WordsAllowed
<1>3. groups' = [groups EXCEPT ![k].role = row, ![k].verdict = verdict]
  BY DEF SayRole
<1>4. row \in [is : Roles, by : Sources]
  BY <1>1, WordRows
<1>5. verdict \in {groups[k].verdict} \cup [is : Verdicts \cup {None}, by : Sources]
  BY WordRows
<1> HIDE DEF row, verdict
<1>6. groups' = [groups EXCEPT ![k] = [groups[k] EXCEPT !.role = row, !.verdict = verdict]]
  BY <1>1, <1>3
<1> QED
  BY <1>1, <1>2, <1>4, <1>5, <1>6, JudgedByWord

LEMMA SayVerdictKeeps ==
  ASSUME IInv, NEW k \in Keys, NEW said \in VerdictWords, SayVerdict(k, said)
  PROVE  IInv'
<1> DEFINE row == Row(said, "manual")
<1>1. Says1("verdict") /\ k \in DOMAIN groups /\ said \in Verdicts
  BY EntitiesAssumption DEF SayVerdict
<1>2. WordsAllowed'
  <2> DEFINE verdicts == Keep(word.verdict, k, said)
  <2>1. word' = [word EXCEPT !.verdict = verdicts]
    BY DEF SayVerdict
  <2>2. \A l \in DOMAIN verdicts : verdicts[l] \in Verdicts
    BY <1>1 DEF Keep, IInv, WordsAllowed
  <2> HIDE DEF verdicts
  <2> QED
    BY <2>1, <2>2 DEF IInv, WordsAllowed
<1>3. groups' = [groups EXCEPT ![k].verdict = row]
  BY DEF SayVerdict
<1>4. row \in [is : Verdicts \cup {None}, by : Sources]
  BY <1>1, WordRows
<1> HIDE DEF row
<1>5. groups[k] \in EntityOf(extracted)
  BY <1>1 DEF IInv, Stored, AreEntities
<1>6. [groups[k] EXCEPT !.verdict = row] = [groups[k] EXCEPT !.role = groups[k].role, !.verdict = row]
  BY <1>5 DEF EntityOf
<1>7. groups' = [groups EXCEPT ![k] = [groups[k] EXCEPT !.role = groups[k].role, !.verdict = row]]
  BY <1>1, <1>3, <1>6
<1> QED
  BY <1>1, <1>2, <1>4, <1>7, JudgedByWord

LEMMA MarkOfficialKeeps ==
  ASSUME IInv, NEW k \in Keys, NEW official \in BOOLEAN, MarkOfficial(k, official)
  PROVE  IInv'
<1>1. Says1("mark") /\ k \in DOMAIN groups
  BY DEF MarkOfficial
<1>2. WordsAllowed'
  BY DEF MarkOfficial, IInv, WordsAllowed
<1>3. groups[k] \in EntityOf(extracted)
  BY <1>1 DEF IInv, Stored, AreEntities
<1>4. CASE official
  <2> DEFINE row == Row("mentioned", "official")
  <2>1. groups' = [groups EXCEPT ![k].role = row, ![k].verdict = NoRow]
    BY <1>4 DEF MarkOfficial
  <2>2. row \in [is : Roles, by : Sources] /\ NoRow \in [is : Verdicts \cup {None}, by : Sources]
    BY WordRows
  <2> HIDE DEF row
  <2>3. groups' = [groups EXCEPT ![k] = [groups[k] EXCEPT !.role = row, !.verdict = NoRow]]
    BY <1>1, <2>1
  <2> QED
    BY <1>1, <1>2, <2>2, <2>3, JudgedByWord
<1>5. CASE ~official
  <2> DEFINE row == Row("unclear", "manual")
  <2>1. groups' = [groups EXCEPT ![k].role = row]
    BY <1>5 DEF MarkOfficial
  <2>2. row \in [is : Roles, by : Sources]
    BY WordRows DEF Roles
  <2> HIDE DEF row
  <2>3. [groups[k] EXCEPT !.role = row]
          = [groups[k] EXCEPT !.role = row, !.verdict = groups[k].verdict]
    BY <1>3 DEF EntityOf
  <2>4. groups' = [groups EXCEPT ![k] = [groups[k] EXCEPT !.role = row,
                                                         !.verdict = groups[k].verdict]]
    BY <1>1, <2>1, <2>3
  <2> QED
    BY <1>1, <1>2, <2>2, <2>4, JudgedByWord
<1> QED
  BY <1>4, <1>5

------------------------------------------------------------------------------
(* The theorems *)

LEMMA StepIInv == IInv /\ [Next]_vars => IInv'
<1> SUFFICES ASSUME IInv, [Next]_vars PROVE IInv'
  OBVIOUS
<1>1. ASSUME NEW m \in Mentions, Extract(m) PROVE IInv'
  BY <1>1, ExtractKeeps
<1>2. CASE CycleStep
  BY <1>2, RebuildKeeps, WriteEntitiesKeeps, ReadEntitiesKeeps, WriteRolesKeeps,
     RememberTitledKeeps, ReadFigurantsKeeps, WriteVerdictsKeeps, BreaksKeeps DEF CycleStep
<1>3. CASE StepBreaks
  BY <1>3, BreaksKeeps
<1>4. ASSUME NEW by \in {"cycle", "hand"}, ReadList(by) PROVE IInv'
  BY <1>4, ReadListKeeps
<1>5. CASE Check
  BY <1>5, MatchKeeps, MatchFailsKeeps, MergeClearKeeps DEF Check
<1>6. CASE Word
  <2>1. ASSUME NEW p \in DOMAIN Alike, NEW is \in {"same", "different"}, SayPair(p, is)
        PROVE  IInv'
    BY <2>1, SayPairKeeps
  <2>2. CASE ResetPairs
    BY <2>2, QuietWordsKeep
  <2>3. ASSUME NEW k \in Keys, NEW name \in NameWords \ {k}, CorrectName(k, name)
        PROVE  IInv'
    BY <2>3, CorrectNameKeeps
  <2>4. ASSUME NEW k \in Keys, RemoveGroup(k)
        PROVE  IInv'
    BY <2>4, RemoveGroupKeeps
  <2>5. ASSUME NEW k \in Keys, RestoreGroup(k)
        PROVE  IInv'
    BY <2>5, QuietWordsKeep
  <2>6. ASSUME NEW k \in Keys, NEW role \in RoleWords, SayRole(k, role)
        PROVE  IInv'
    BY <2>6, SayRoleKeeps
  <2>7. ASSUME NEW k \in Keys, NEW verdict \in VerdictWords, SayVerdict(k, verdict)
        PROVE  IInv'
    BY <2>7, SayVerdictKeeps
  <2>8. ASSUME NEW k \in Keys, NEW official \in BOOLEAN, MarkOfficial(k, official)
        PROVE  IInv'
    BY <2>8, MarkOfficialKeeps
  <2> QED
    BY <1>6, <2>1, <2>2, <2>3, <2>4, <2>5, <2>6, <2>7, <2>8 DEF Word
<1>7. CASE UNCHANGED vars
  BY <1>7 DEF vars, IInv, Stored, WordsAllowed, InHand, AsksOfAll, CheckKnown, JudgedSince, StepOf
<1> QED
  BY <1>1, <1>2, <1>3, <1>4, <1>5, <1>6, <1>7 DEF Next

\* The five facts hold in every state: what is stored and what a rebuild has in hand share
\* no mention, and since the last figurants step everybody is judged.
THEOREM Invariant == Spec => []IInv
BY InitIInv, StepIInv, PTL DEF Spec

\* No mention is in two entities (processing/identity: grouping, merge_decided,
\* apply_overrides, merge_groups), for every set of mentions, keys, words and pairs.
THEOREM SpecEveryMentionOnce == Spec => []EveryMentionOnce
<1>1. IInv => EveryMentionOnce
  <2> SUFFICES ASSUME IInv PROVE EveryMentionOnce
    OBVIOUS
  <2>1. \A k \in DOMAIN groups : groups[k] \in EntityOf(extracted)
    BY DEF IInv, Stored, AreEntities
  <2>2. \A k \in DOMAIN groups :
          /\ groups[k].of \subseteq extracted /\ groups[k].name \in Keys
          /\ groups[k].role.is \in Roles \cup {None}
          /\ groups[k].verdict.is \in Verdicts \cup {None}
          /\ groups[k].match \subseteq {"full", "name"}
    BY <2>1 DEF EntityOf
  <2>3. check.by \in {None, "cycle", "hand"}
    BY DEF IInv, CheckKnown, Checks, NoCheck
  <2>4. TypeOK
    BY <2>2, <2>3 DEF IInv, Stored, AreEntities, WordsAllowed, InHand, TypeOK
  <2> QED
    BY <2>4 DEF EveryMentionOnce, IInv, Stored, Apart
<1> QED
  BY <1>1, Invariant, PTL

\* From the figurants step to the next rebuild nobody is without a role (FigurantFinder.run,
\* merge_groups, decide_role), whatever is merged, removed and said meanwhile.
THEOREM SpecNobodyWithoutRole == Spec => []NobodyWithoutRole
<1>1. IInv => NobodyWithoutRole
  <2>1. None \notin Roles
    BY DEF None, Roles
  <2>2. \A k : groups[k].role.is \in Roles => groups[k].role # NoRow
    BY <2>1 DEF NoRow, Row
  <2> QED
    BY <2>2 DEF IInv, JudgedSince, AllJudged, NobodyWithoutRole
<1> QED
  BY <1>1, Invariant, PTL

(***************************************************************************)
(* JunkHolds.  A purge works on what it has read in an earlier statement,  *)
(* so everything turns on the batch it has in hand (Doomed): what may come *)
(* beside a purge, and what that does to the articles of the batch.        *)
(***************************************************************************)

\* The articles a purge is about to judge or to delete.
Doomed(p) == IF pc[p] \in {"judge", "score"} THEN batch[p] ELSE {}

\* What of the doomed is still stored was extracted: it may be held.
JunkSound ==
  /\ JunkTypeOK
  /\ scored \in [Purges -> SUBSET Articles] /\ owed \in [Purges -> SUBSET Articles]
  /\ \A p \in Purges : pc[p] # "score" => scored[p] = {}
  /\ \A p \in Purges : \A a \in Doomed(p) : a \in alive => run[a] > 0

\* What others did to a batch is of articles.
MeanwhileTyped == meanwhile \in [Purges -> SUBSET (Articles \X Happenings)]

\* What happens to articles is added to what happened to a batch they are in.
LEMMA MeetAdds ==
  ASSUME JunkTypeOK, NEW S \in SUBSET Articles, NEW what \in Happenings,
         Meet(S, what)
  PROVE  /\ MeanwhileTyped'
         /\ \A p \in Purges : meanwhile[p] \subseteq meanwhile'[p]
         /\ \A p \in Purges : \A a \in S \cap batch[p] : <<a, what>> \in meanwhile'[p]
<1>1. \A p \in Purges : meanwhile'[p] = meanwhile[p] \cup ((S \cap batch[p]) \X {what})
  BY DEF Meet
<1>2. \A p \in Purges : (S \cap batch[p]) \X {what} \subseteq Articles \X Happenings
  OBVIOUS
<1>3. \A p \in Purges : meanwhile'[p] \subseteq Articles \X Happenings
  BY <1>1, <1>2 DEF JunkTypeOK
<1>4. MeanwhileTyped'
  <2>1. meanwhile' = [p \in Purges |-> meanwhile'[p]]
    BY <1>1 DEF Meet
  <2> QED  BY <1>3, <2>1 DEF MeanwhileTyped
<1> QED  BY <1>1, <1>4

\* A purge adds the articles it holds back to what happened to the other batches.
LEMMA HoldingAdds ==
  ASSUME JunkTypeOK, NEW p \in Purges, PurgeBatch(p)
  PROVE  /\ MeanwhileTyped'
         /\ \A q \in Purges \ {p} :
              meanwhile'[q] = meanwhile[q] \cup ((HeldBack(p) \cap batch[q]) \X {"held"})
<1>1. HeldBack(p) \subseteq Articles
  BY DEF HeldBack, JunkTypeOK
<1>2. \A q \in Purges :
        meanwhile'[q] = IF q = p THEN {}
                        ELSE meanwhile[q] \cup ((HeldBack(p) \cap batch[q]) \X {"held"})
  BY DEF PurgeBatch
<1>3. \A q \in Purges : (HeldBack(p) \cap batch[q]) \X {"held"}
                           \subseteq Articles \X Happenings
  BY <1>1 DEF Happenings
<1>4. \A q \in Purges : meanwhile'[q] \subseteq Articles \X Happenings
  BY <1>2, <1>3 DEF JunkTypeOK
<1>5. MeanwhileTyped'
  <2>1. meanwhile' = [q \in Purges |-> meanwhile'[q]]
    BY <1>2 DEF PurgeBatch
  <2> QED  BY <1>4, <2>1 DEF MeanwhileTyped
<1> QED  BY <1>2, <1>5

\* Every step adds what happens to the articles of a batch, or forgets a batch.
LEMMA MeanwhileStep ==
  ASSUME JunkTypeOK, [JunkNext]_junkVars
  PROVE  MeanwhileTyped'
<1>1. CASE meanwhile' = meanwhile
  BY <1>1 DEF MeanwhileTyped, JunkTypeOK
<1>2. CASE \E S \in SUBSET Articles, what \in Happenings : Meet(S, what)
  BY <1>2, MeetAdds
<1>3. ASSUME NEW p \in Purges, Stop(p) PROVE MeanwhileTyped'
  BY <1>3 DEF Stop, MeanwhileTyped, JunkTypeOK
<1>4. ASSUME NEW a \in Articles,
             \/ ExtractArticle(a) \/ AskReextract(a) \/ Reextract(a) \/ DecideReextract(a)
             \/ MarkJunk(a) \/ Unrelease(a) \/ HoldAgain(a) \/ Release(a)
      PROVE  MeanwhileTyped'
  <2>1. \/ meanwhile' = meanwhile
        \/ \E what \in Happenings : Meet({a}, what)
    BY <1>4 DEF ExtractArticle, AskReextract, Reextract, DecideReextract, MarkJunk, Unrelease,
       HoldAgain, Release, purges, Happenings
  <2> QED  BY <1>1, <1>2, <2>1
<1>5. ASSUME NEW p \in Purges, Begin(p) \/ Work(p) PROVE MeanwhileTyped'
  <2>1. CASE PurgeBatch(p)
    BY <2>1, HoldingAdds
  <2>2. CASE ~PurgeBatch(p)
    <3>1. owed[p] \in SUBSET Articles
      BY DEF JunkTypeOK
    <3>2. \/ meanwhile' = meanwhile \/ Meet(owed[p], "released")
          \/ \E a \in Articles : Meet({a}, "released")
      BY <1>5, <2>2 DEF Begin, Work, Outdated, Pick, Judge, FindEventless, Restore, FindUnread,
         End, Write
    <3> QED  BY <1>1, <1>2, <3>1, <3>2 DEF Happenings
  <2> QED  BY <2>1, <2>2
<1>6. UNCHANGED junkVars \/ Deploy => meanwhile' = meanwhile
  BY DEF junkVars, purges, Deploy
<1> QED  BY <1>1, <1>3, <1>4, <1>5, <1>6 DEF JunkNext

\* A batch is of the articles it is picked from.
LEMMA LowestWithin == \A S : Lowest(S) \subseteq S
  BY DEF Lowest

\* The invariant holds at first.
LEMMA JunkStarts ==
  ASSUME JunkInit
  PROVE  JunkSound
  BY HoldsAssumption DEF JunkInit, JunkSound, Doomed, JunkTypeOK, Holds,
         Held, PurgeStages

\* The operator's words and the extractions leave the purges where they are and take no
\* article away.
LEMMA BesideKeepsDoomed ==
  ASSUME JunkSound, UNCHANGED <<pc, batch, alive>>, \A a \in Articles : run[a] > 0 => run'[a] > 0
  PROVE  \A p \in Purges : \A a \in Doomed(p)' : a \in alive' => run'[a] > 0
  BY DEF JunkSound, Doomed, JunkTypeOK

\* An extraction that is saved.
LEMMA SavedKeeps ==
  ASSUME JunkSound, NEW a \in Articles, NEW found \in BOOLEAN, Saved(a, found),
         UNCHANGED <<alive, version, hold, pc, batch, scored, owed, stops>>, MeanwhileTyped',
         redo' \in [Articles -> {"no", "asked", "saved"}]
  PROVE  JunkSound'
<1>1. version \in Nat /\ run[a] \in 0..version /\ run' = [run EXCEPT ![a] = version] /\ version > 0
  BY DEF JunkSound, JunkTypeOK, Saved
<1>2. \A b \in Articles : run[b] > 0 => run'[b] > 0
  BY <1>1 DEF JunkSound, JunkTypeOK
<1>3. /\ run' \in [Articles -> 0..version'] /\ crim' \in [Articles -> BOOLEAN]
      /\ mev' \in [Articles -> BOOLEAN]
  BY <1>1 DEF JunkSound, JunkTypeOK, Saved
<1>4. \A b \in Articles : crim'[b] \/ mev'[b] \/ hold'[b] # "none" => run'[b] > 0
  BY <1>1, <1>2 DEF JunkSound, JunkTypeOK, Saved
<1>5. \A b \in Articles : run'[b] > 0 => b \in alive'
  BY <1>1 DEF JunkSound, JunkTypeOK, Saved
<1>6. JunkTypeOK'
  BY <1>3, <1>4, <1>5 DEF JunkSound, JunkTypeOK, MeanwhileTyped
<1> QED  BY <1>2, <1>6, BesideKeepsDoomed DEF JunkSound

\* The words of the operator and the extractions that follow from them.
LEMMA WordsKeep ==
  ASSUME JunkSound, MeanwhileTyped', NEW a \in Articles,
         \/ AskReextract(a) \/ DecideReextract(a) \/ MarkJunk(a)
         \/ Unrelease(a) \/ HoldAgain(a) \/ Release(a)
  PROVE  JunkSound'
<1>1. UNCHANGED <<run, alive, version, pc, batch, scored, owed, stops, crim>>
  BY DEF AskReextract, DecideReextract, MarkJunk, Unrelease,
         HoldAgain, Release, articles, purges
<1>2. redo' \in [Articles -> {"no", "asked", "saved"}]
  BY DEF AskReextract, DecideReextract, MarkJunk, Unrelease,
         HoldAgain, Release, JunkSound, JunkTypeOK
<1>3. mev' \in [Articles -> BOOLEAN]
  BY DEF AskReextract, DecideReextract, MarkJunk, Unrelease,
         HoldAgain, Release, JunkSound, JunkTypeOK, articles
<1>4. \E v \in Holds : hold' = hold \/ hold' = [hold EXCEPT ![a] = v]
  BY DEF AskReextract, DecideReextract, MarkJunk, Unrelease,
         HoldAgain, Release, Holds, Held
<1>5. hold' \in [Articles -> Holds]
  BY <1>4 DEF JunkSound, JunkTypeOK
<1>6. \A b \in Articles : crim'[b] \/ mev'[b] \/ hold'[b] # "none" => run'[b] > 0
  BY <1>1 DEF AskReextract, DecideReextract, MarkJunk, Unrelease,
         HoldAgain, Release, JunkSound, JunkTypeOK, Holds, Held, articles
<1>7. JunkTypeOK'
  BY <1>1, <1>2, <1>5, <1>6, <1>3 DEF JunkSound, JunkTypeOK, MeanwhileTyped
<1> QED  BY <1>1, <1>7, BesideKeepsDoomed DEF JunkSound

\* The extraction of the monitoring.
LEMMA ExtractionsKeep ==
  ASSUME JunkSound, MeanwhileTyped', NEW a \in Articles, ExtractArticle(a) \/ Reextract(a)
  PROVE  JunkSound'
<1>1. redo' \in [Articles -> {"no", "asked", "saved"}]
  BY DEF ExtractArticle, Reextract, JunkSound, JunkTypeOK
<1>2. CASE \E found \in BOOLEAN : Saved(a, found)
  BY <1>1, <1>2, SavedKeeps DEF ExtractArticle, Reextract, purges
<1>3. CASE ~ \E found \in BOOLEAN : Saved(a, found)
  <2>1. UNCHANGED <<alive, version, run, crim, mev, hold, pc, batch, scored, owed, stops>>
    BY <1>3 DEF ExtractArticle, Reextract, purges
  <2> QED  BY <1>1, <2>1, BesideKeepsDoomed DEF JunkSound, JunkTypeOK, MeanwhileTyped
<1> QED  BY <1>2, <1>3

\* A new version of the extraction.
LEMMA DeployKeeps ==
  ASSUME JunkSound, MeanwhileTyped', Deploy
  PROVE  JunkSound'
<1>1. UNCHANGED <<alive, run, crim, mev, hold, redo, pc, batch, scored, owed, stops>>
  BY DEF Deploy, purges
<1>2. version' \in 0..MaxVersion /\ run' \in [Articles -> 0..version']
  BY <1>1, HoldsAssumption DEF Deploy, JunkSound, JunkTypeOK
<1> QED  BY <1>1, <1>2, BesideKeepsDoomed DEF JunkSound, JunkTypeOK, MeanwhileTyped

\* What the deletion of some articles leaves.
LEMMA Discarding ==
  ASSUME JunkSound, NEW S \in SUBSET Articles, Discard(S), UNCHANGED version
  PROVE  /\ alive' \subseteq Articles /\ alive' = alive \ S
         /\ run' \in [Articles -> 0..version'] /\ crim' \in [Articles -> BOOLEAN]
         /\ mev' \in [Articles -> BOOLEAN]
         /\ \A a \in S : run'[a] = 0 /\ ~crim'[a] /\ ~mev'[a] /\ a \notin alive'
         /\ \A a \in Articles \ S : run'[a] = run[a] /\ crim'[a] = crim[a] /\ mev'[a] = mev[a]
<1> USE DEF JunkSound, JunkTypeOK
<1>1. alive' \subseteq Articles /\ alive' = alive \ S
  BY DEF Discard
<1>2. run' = [a \in Articles |-> IF a \in S THEN 0 ELSE run[a]]
  BY DEF Discard
<1>3. crim' = [a \in Articles |-> crim[a] /\ a \notin S]
  BY DEF Discard
<1>4. mev' = [a \in Articles |-> mev[a] /\ a \notin S]
  BY DEF Discard
<1>5. /\ run' \in [Articles -> 0..version']
      /\ \A a \in Articles : run'[a] = IF a \in S THEN 0 ELSE run[a]
  BY <1>2
<1>6. crim' \in [Articles -> BOOLEAN] /\ \A a \in Articles : crim'[a] = (crim[a] /\ a \notin S)
  BY <1>3, Zenon
<1>7. mev' \in [Articles -> BOOLEAN] /\ \A a \in Articles : mev'[a] = (mev[a] /\ a \notin S)
  BY <1>4, Zenon
<1>8. crim \in [Articles -> BOOLEAN] /\ mev \in [Articles -> BOOLEAN]
  OBVIOUS
<1> QED  BY <1>1, <1>5, <1>6, <1>7, <1>8

\* The articles before the working date go.
LEMMA OutdatedKeeps ==
  ASSUME JunkSound, MeanwhileTyped', NEW p \in Purges, Outdated(p)
  PROVE  JunkSound'
<1> DEFINE gone == Lowest(alive \cap Old)
<1>1. gone \in SUBSET Articles
  BY LowestWithin DEF JunkSound, JunkTypeOK
<1>2. /\ Discard(gone) /\ hold' = [a \in Articles |-> IF a \in gone THEN "none" ELSE hold[a]]
      /\ UNCHANGED <<version, redo, batch, scored, owed, stops>>
      /\ pc[p] = "outdated" /\ pc' \in [Purges -> PurgeStages]
      /\ \A q \in Purges : q # p => pc'[q] = pc[q]
      /\ pc'[p] \in {"pick", "outdated"}
  BY DEF Outdated, JunkSound, JunkTypeOK, PurgeStages, Go
<1> HIDE DEF gone
<1>3. \A a \in Articles : hold'[a] = IF a \in gone THEN "none" ELSE hold[a]
  BY <1>2
<1>4. JunkTypeOK'
  BY <1>1, <1>2, <1>3, Discarding DEF JunkSound, JunkTypeOK, MeanwhileTyped, Holds
<1>5. \A q \in Purges : Doomed(q)' \subseteq Doomed(q)
  BY <1>2 DEF Doomed
<1>6. \A a \in Articles : a \in alive' => a \in alive /\ run'[a] = run[a]
  BY <1>1, <1>2, Discarding
<1>7. \A q \in Purges : \A a \in Doomed(q)' : a \in alive' => run'[a] > 0
  <2>1. \A q \in Purges : Doomed(q) \subseteq Articles
    BY DEF Doomed, JunkSound, JunkTypeOK
  <2> QED  BY <1>5, <1>6, <2>1 DEF JunkSound
<1>8. \A q \in Purges : pc'[q] # "score" => scored'[q] = {}
  BY <1>2 DEF JunkSound
<1> QED  BY <1>2, <1>4, <1>7, <1>8 DEF JunkSound

\* The judged batch goes, but for what is held back.
LEMMA PurgeBatchKeeps ==
  ASSUME JunkSound, MeanwhileTyped', NEW p \in Purges, PurgeBatch(p)
  PROVE  JunkSound'
<1> DEFINE back == HeldBack(p)
           gone == batch[p] \ back
<1>1. gone \in SUBSET Articles /\ back \subseteq batch[p] /\ back \subseteq alive
      /\ batch[p] = Doomed(p) /\ batch[p] \subseteq Articles
  BY DEF JunkSound, JunkTypeOK, PurgeBatch, HeldBack, Doomed
<1>2. /\ Discard(gone)
      /\ hold' = [a \in Articles |-> CASE a \in gone -> "none"
                                      [] a \in back -> "unread"
                                      [] OTHER -> hold[a]]
      /\ UNCHANGED <<version, redo, owed, stops>>
      /\ batch' = [batch EXCEPT ![p] = {}] /\ scored' = [scored EXCEPT ![p] = {}]
      /\ pc' = [pc EXCEPT ![p] = "pick"]
  BY DEF PurgeBatch, Go
<1>3. \A a \in back : run[a] > 0 /\ a \in Articles
  BY <1>1 DEF JunkSound
<1> HIDE DEF gone, back
<1>4. \A a \in Articles : /\ a \in gone => hold'[a] = "none"
                          /\ a \in back => hold'[a] = "unread"
                          /\ a \notin back /\ a \notin gone => hold'[a] = hold[a]
  <2>1. \A a \in back : a \notin gone
    BY DEF gone
  <2> QED  BY <1>2, <2>1
<1>5. hold' \in [Articles -> Holds]
  BY <1>2, <1>4 DEF JunkSound, JunkTypeOK, Holds, Held
<1>6. /\ pc' \in [Purges -> PurgeStages] /\ batch' \in [Purges -> SUBSET Articles]
      /\ \A q \in Purges : scored'[q] \subseteq batch'[q]
  BY <1>2 DEF JunkSound, JunkTypeOK, PurgeStages
<1>7. JunkTypeOK'
  BY <1>1, <1>2, <1>3, <1>4, <1>5, <1>6, Discarding DEF JunkSound, JunkTypeOK, MeanwhileTyped
<1>8. \A q \in Purges : Doomed(q)' \subseteq Doomed(q)
  BY <1>2 DEF Doomed, JunkSound, JunkTypeOK
<1>9. \A a \in Articles : a \in alive' => a \in alive /\ run'[a] = run[a]
  BY <1>1, <1>2, Discarding
<1>10. \A q \in Purges : \A a \in Doomed(q)' : a \in alive' => run'[a] > 0
  <2>1. \A q \in Purges : Doomed(q) \subseteq Articles
    BY DEF Doomed, JunkSound, JunkTypeOK
  <2> QED  BY <1>8, <1>9, <2>1 DEF JunkSound
<1>11. /\ scored' \in [Purges -> SUBSET Articles]
       /\ \A q \in Purges : pc'[q] # "score" => scored'[q] = {}
  BY <1>2 DEF JunkSound, JunkTypeOK
<1> QED  BY <1>2, <1>7, <1>10, <1>11 DEF JunkSound

\* The steps of a purge that delete nothing and write no row.
LEMMA LooksKeep ==
  ASSUME JunkSound, MeanwhileTyped', NEW p \in Purges,
         \/ Begin(p) \/ Pick(p) \/ Judge(p) \/ FindEventless(p)
         \/ FindUnread(p) \/ End(p) \/ Stop(p)
  PROVE  JunkSound'
<1>1. UNCHANGED <<alive, version, run, crim, mev, hold, redo>>
  BY DEF Begin, Pick, Judge, FindEventless, FindUnread, End,
         Stop, articles
<1>2. pc' \in [Purges -> PurgeStages] /\ stops' \in 0..MaxStops
  BY HoldsAssumption DEF Begin, Pick, Judge, FindEventless, FindUnread, End, Stop, Go,
     JunkSound, JunkTypeOK, PurgeStages
<1>3. JunkArticles \subseteq Articles /\ Eventless \subseteq Articles
      /\ ToScore(p) \subseteq batch[p] /\ {a \in alive : hold[a] = "unread"} \subseteq Articles
  BY DEF JunkArticles, Eventless, ToScore, JunkSound, JunkTypeOK
<1>4. batch' \in [Purges -> SUBSET Articles]
  <2>1. \E S \in SUBSET Articles : batch' = batch \/ batch' = [batch EXCEPT ![p] = S]
    BY <1>3, LowestWithin DEF Begin, Pick, Judge, FindEventless,
       FindUnread, End, Stop
  <2> QED  BY <2>1 DEF JunkSound, JunkTypeOK
<1>5. owed' \in [Purges -> SUBSET Articles]
  <2>1. \E S \in SUBSET Articles : owed' = owed \/ owed' = [owed EXCEPT ![p] = S]
    BY <1>3 DEF Begin, Pick, Judge, FindEventless,
       FindUnread, End, Stop
  <2> QED  BY <2>1 DEF JunkSound
<1>6. scored' \in [Purges -> SUBSET Articles]
  BY <1>3 DEF Begin, Pick, Judge, FindEventless,
     FindUnread, End, Stop, JunkSound, JunkTypeOK
<1>7. \A q \in Purges : q # p => /\ pc'[q] = pc[q] /\ batch'[q] = batch[q]
                                 /\ scored'[q] = scored[q]
  BY DEF Begin, Pick, Judge, FindEventless, FindUnread, End,
         Stop, Go, JunkSound, JunkTypeOK
<1>8. scored'[p] \subseteq batch'[p] /\ (pc'[p] # "score" => scored'[p] = {})
  BY <1>3 DEF Begin, Pick, Judge, FindEventless, FindUnread,
     End, Stop, Go, JunkSound, JunkTypeOK
<1>9. Doomed(p)' \subseteq Doomed(p) \cup JunkArticles
  BY LowestWithin DEF Doomed, Begin, Pick, Judge, FindEventless,
     FindUnread, End, Stop, Go, JunkSound, JunkTypeOK
<1>10. \A q \in Purges : \A a \in Doomed(q)' : a \in alive => run[a] > 0
  BY <1>7, <1>9 DEF Doomed, JunkArticles, JunkSound
<1>11. JunkTypeOK'
  BY <1>1, <1>2, <1>4, <1>7, <1>8, <1>5 DEF JunkSound, JunkTypeOK, MeanwhileTyped
<1> QED  BY <1>1, <1>6, <1>7, <1>8, <1>10, <1>11, <1>5 DEF JunkSound

\* The readings of the held articles.
LEMMA ReadingsKeep ==
  ASSUME JunkSound, MeanwhileTyped', NEW p \in Purges,
         \/ Restore(p)
         \/ \E a \in Articles : Write(p, a)
  PROVE  JunkSound'
<1>1. UNCHANGED <<alive, version, run, crim, redo, batch, scored, stops>>
  BY DEF Restore, Write
<1>2. /\ pc' \in [Purges -> PurgeStages] /\ owed' \in [Purges -> SUBSET Articles]
      /\ \A q \in Purges : Doomed(q)' \subseteq Doomed(q) /\ (pc'[q] # "score" => scored[q] = {})
  <2>1. CASE Restore(p)
    BY <2>1 DEF Restore, Go, Doomed, JunkSound, JunkTypeOK, PurgeStages
  <2>2. CASE \E a \in Articles : Write(p, a)
    <3>1. pc' = pc /\ batch' = batch /\ \E a \in Articles : owed' = [owed EXCEPT ![p] = @ \ {a}]
      BY <2>2 DEF Write
    <3> QED  BY <3>1 DEF Doomed, JunkSound, JunkTypeOK
  <2> QED  BY <2>1, <2>2
<1>3. CASE Restore(p)
  <2>1. mev' = [a \in Articles |-> mev[a] \/ (a \in owed[p] /\ run[a] > 0)] /\ hold' = hold
    BY <1>3 DEF Restore
  <2>2. mev' \in [Articles -> BOOLEAN] /\ \A a \in Articles : mev'[a] => mev[a] \/ run[a] > 0
    BY <2>1, Zenon DEF JunkSound, JunkTypeOK
  <2>3. JunkTypeOK'
    BY <1>1, <1>2, <2>1, <2>2 DEF JunkSound, JunkTypeOK, MeanwhileTyped
  <2> QED  BY <1>1, <1>2, <2>3 DEF JunkSound
<1>4. CASE \E a \in Articles : Write(p, a)
  <2>1. PICK a \in Articles : Write(p, a)
    BY <1>4
  <2>2. \E v \in Holds : hold' = hold \/ hold' = [hold EXCEPT ![a] = v]
    BY <2>1 DEF Write, Holds, Held
  <2>3. mev' \in [Articles -> BOOLEAN]
    BY <2>1 DEF Write, JunkSound, JunkTypeOK
  <2>4. mev' \in [Articles -> BOOLEAN] /\ hold' \in [Articles -> Holds]
    BY <2>2, <2>3 DEF JunkSound, JunkTypeOK
  <2>5. \A b \in Articles : mev'[b] \/ hold'[b] # "none" => run[b] > 0
    BY <2>1 DEF Write, Taken, Holds, Held, JunkSound, JunkTypeOK
  <2>6. JunkTypeOK'
    BY <1>1, <1>2, <2>4, <2>5 DEF JunkSound, JunkTypeOK, MeanwhileTyped
  <2> QED  BY <1>1, <1>2, <2>6 DEF JunkSound
<1> QED  BY <1>3, <1>4

\* Every step keeps the types.
LEMMA JunkStep ==
  ASSUME JunkSound, [JunkNext]_junkVars
  PROVE  JunkSound'
<1>1. MeanwhileTyped'
  BY MeanwhileStep DEF JunkSound
<1>2. ASSUME UNCHANGED junkVars PROVE JunkSound'
  <2> QED  BY <1>2 DEF junkVars, articles, purges, JunkSound, Doomed, JunkTypeOK
<1>3. ASSUME NEW p \in Purges, Work(p) PROVE JunkSound'
  BY <1>1, <1>3, OutdatedKeeps, PurgeBatchKeeps, LooksKeep, ReadingsKeep DEF Work
<1> QED  BY <1>1, <1>2, <1>3, DeployKeeps, WordsKeep, ExtractionsKeep, LooksKeep DEF JunkNext

\* Extractions, rows and purges keep their types; nothing is marked or held that was never
\* extracted.
THEOREM JunkTypeCorrect ==
  JunkSpec => []JunkTypeOK
<1>1. JunkInit => JunkSound
  BY JunkStarts
<1>2. JunkSound /\ [JunkNext]_junkVars => JunkSound'
  BY JunkStep
<1>3. JunkSound => JunkTypeOK
  BY DEF JunkSound
<1> QED  BY <1>1, <1>2, <1>3, PTL DEF JunkSpec

------------------------------------------------------------------------------
(* The event of a release *)

EventsAreReleases ==
  /\ \A a \in Articles : mev[a] => hold[a] \in {"released", "none"}
  /\ \A p \in Purges : \A a \in Doomed(p) : hold[a] = "none" => ~mev[a]
  /\ \A p \in Purges : pc[p] = "restoring" =>
       \A a \in owed[p] : hold[a] = "released" \/ run[a] = 0

\* Neither a release taken back nor a decided re-extraction comes beside a purge.
ReleasesStand == Beside \cap {"unrelease", "reextract"} = {}

\* What every step that begins or ends nothing of a purge has to keep of an article.
LEMMA EventKept ==
  ASSUME JunkSound, EventsAreReleases,
         NEW b \in Articles,
         UNCHANGED <<pc, batch, owed>>,
         mev'[b] => hold'[b] \in {"released", "none"},
         hold'[b] = "none" => hold[b] = "none" /\ (mev'[b] => mev[b]),
         hold[b] = "released" => hold'[b] = "released",
         run[b] = 0 => run'[b] = 0
  PROVE  /\ \A p \in Purges : b \in Doomed(p)' /\ hold'[b] = "none" => ~mev'[b]
         /\ \A p \in Purges : pc'[p] = "restoring" /\ b \in owed'[p]
              => hold'[b] = "released" \/ run'[b] = 0
  BY DEF EventsAreReleases, Doomed

\* Beside no purge, the marks and the rows are all there is.
LEMMA AllIdle ==
  ASSUME \A p \in Purges : pc[p] = "idle", UNCHANGED <<pc, batch, owed>>,
         \A a \in Articles : mev'[a] => hold'[a] \in {"released", "none"}
  PROVE  EventsAreReleases'
  BY DEF EventsAreReleases, Doomed

\* A word or an extraction writes no event without its release.
LEMMA WordsKeepEvents ==
  ASSUME ReleasesStand, JunkSound, EventsAreReleases, NEW a \in Articles,
         \/ AskReextract(a) \/ DecideReextract(a) \/ MarkJunk(a)
         \/ Unrelease(a) \/ HoldAgain(a) \/ Release(a)
         \/ ExtractArticle(a) \/ Reextract(a)
  PROVE  EventsAreReleases'
<1>1. UNCHANGED <<pc, batch, owed>>
  BY DEF AskReextract, DecideReextract, MarkJunk, Unrelease,
         HoldAgain, Release, ExtractArticle, Reextract, purges
<1>2. CASE \A p \in Purges : pc[p] = "idle"
  <2>1. \A b \in Articles : mev'[b] => hold'[b] \in {"released", "none"}
    <3>1. CASE AskReextract(a) \/ DecideReextract(a) \/ MarkJunk(a)
                \/ HoldAgain(a)
      BY <3>1 DEF AskReextract, DecideReextract, MarkJunk, HoldAgain,
           Held, articles, EventsAreReleases, JunkSound, JunkTypeOK
    <3>2. CASE Unrelease(a) \/ Release(a)
      BY <3>2 DEF Unrelease, Release, EventsAreReleases, JunkSound, JunkTypeOK
    <3>3. CASE ExtractArticle(a) \/ Reextract(a)
      <4>1. hold' = hold /\ (mev' = mev \/ mev' = [mev EXCEPT ![a] = FALSE])
        BY <3>3 DEF ExtractArticle, Reextract, Saved
      <4> QED  BY <4>1 DEF EventsAreReleases, JunkSound, JunkTypeOK
    <3> QED  BY <3>1, <3>2, <3>3
  <2> QED  BY <1>1, <1>2, <2>1, AllIdle
<1>3. CASE ~ \A p \in Purges : pc[p] = "idle"
  <2>1. AskReextract(a) \/ MarkJunk(a) \/ HoldAgain(a) \/ Release(a)
    BY <1>3 DEF ReleasesStand, MaySay, DecideReextract, Unrelease, ExtractArticle,
       Reextract
  <2>2. run' = run
    BY <2>1 DEF AskReextract, MarkJunk, HoldAgain, Release, articles
  <2>3. \A b \in Articles :
          /\ mev'[b] => hold'[b] \in {"released", "none"}
          /\ hold'[b] = "none" => hold[b] = "none" /\ (mev'[b] => mev[b])
          /\ hold[b] = "released" => hold'[b] = "released"
    BY <2>1 DEF AskReextract, MarkJunk, HoldAgain, Release, Held,
       articles, EventsAreReleases, JunkSound, JunkTypeOK
  <2> QED  BY <1>1, <2>2, <2>3, EventKept DEF EventsAreReleases, Doomed, JunkSound, JunkTypeOK
<1> QED  BY <1>2, <1>3

\* An article that goes leaves neither an event nor a row, and no extraction.
LEMMA DeletionsKeepEvents ==
  ASSUME JunkSound, EventsAreReleases, NEW p \in Purges,
         Outdated(p) \/ PurgeBatch(p)
  PROVE  EventsAreReleases'
<1> DEFINE gone == IF pc[p] = "outdated" THEN Lowest(alive \cap Old)
                   ELSE batch[p] \ HeldBack(p)
           back == IF pc[p] = "outdated" THEN {} ELSE HeldBack(p)
<1>1. /\ gone \in SUBSET Articles /\ Discard(gone) /\ version' = version /\ owed' = owed
      /\ \A q \in Purges : Doomed(q)' \subseteq Doomed(q)
      /\ \A q \in Purges : pc'[q] = "restoring" => pc[q] = "restoring"
  BY LowestWithin DEF Outdated, PurgeBatch, Go, Doomed, JunkSound, JunkTypeOK
<1>2. back \subseteq alive /\ \A a \in back : hold[a] = "none" /\ ~mev[a] /\ run[a] > 0
  BY DEF Outdated, PurgeBatch, HeldBack, Doomed, JunkSound, EventsAreReleases,
         JunkTypeOK
<1>3. \A a \in Articles : /\ a \in gone => hold'[a] = "none"
                          /\ a \in back /\ a \notin gone => hold'[a] = "unread"
                          /\ a \notin back /\ a \notin gone => hold'[a] = hold[a]
  <2>1. CASE Outdated(p)
    BY <2>1 DEF Outdated
  <2>2. CASE PurgeBatch(p)
    BY <2>2 DEF PurgeBatch
  <2> QED  BY <2>1, <2>2
<1> HIDE DEF gone, back
<1>4. \A a \in gone : run'[a] = 0 /\ ~mev'[a]
  BY <1>1, Discarding
<1>5. \A a \in Articles \ gone : run'[a] = run[a] /\ mev'[a] = mev[a]
  BY <1>1, Discarding
<1>6. \A a \in Articles : mev'[a] => hold'[a] \in {"released", "none"}
  BY <1>2, <1>3, <1>4, <1>5 DEF EventsAreReleases
<1>7. \A q \in Purges : \A a \in Doomed(q)' : hold'[a] = "none" => ~mev'[a]
  <2>1. \A q \in Purges : Doomed(q) \subseteq Articles
    BY DEF Doomed, JunkSound, JunkTypeOK
  <2> QED  BY <1>1, <1>2, <1>3, <1>4, <1>5, <2>1 DEF EventsAreReleases
<1>8. \A q \in Purges : pc'[q] = "restoring" =>
        \A a \in owed'[q] : hold'[a] = "released" \/ run'[a] = 0
  <2>1. \A q \in Purges : owed[q] \subseteq Articles
    BY DEF JunkSound
  <2> QED  BY <1>1, <1>2, <1>3, <1>4, <1>5, <2>1 DEF EventsAreReleases
<1> QED  BY <1>6, <1>7, <1>8 DEF EventsAreReleases

\* What a purge picks has no event, and what it owes one is released.
LEMMA LooksKeepEvents ==
  ASSUME JunkSound, EventsAreReleases, NEW p \in Purges,
         \/ Begin(p) \/ Pick(p) \/ Judge(p) \/ FindEventless(p)
         \/ FindUnread(p) \/ End(p) \/ Stop(p)
  PROVE  EventsAreReleases'
<1>1. UNCHANGED <<alive, run, mev, hold>>
  BY DEF Begin, Pick, Judge, FindEventless, FindUnread, End,
         Stop, articles
<1>2. \A q \in Purges : q # p => /\ pc'[q] = pc[q] /\ batch'[q] = batch[q]
                                 /\ owed'[q] = owed[q]
  BY DEF Begin, Pick, Judge, FindEventless, FindUnread, End,
         Stop, Go, JunkSound, JunkTypeOK
<1>3. Doomed(p)' \subseteq Doomed(p) \cup JunkArticles
  BY LowestWithin DEF Doomed, Begin, Pick, Judge, FindEventless,
     FindUnread, End, Stop, Go, JunkSound, JunkTypeOK
<1>4. \A q \in Purges : \A a \in Doomed(q)' : hold[a] = "none" => ~mev[a]
  BY <1>2, <1>3 DEF Doomed, JunkArticles, InWork, EventsAreReleases
<1>5. pc'[p] = "restoring" => \A a \in owed'[p] : hold[a] = "released"
  BY DEF Begin, Pick, Judge, FindEventless, FindUnread, End,
         Stop, Go, Eventless, JunkSound, JunkTypeOK
<1> QED  BY <1>1, <1>2, <1>4, <1>5 DEF EventsAreReleases

\* An event is written for a row that is released, in the same transaction.
LEMMA ReadingsKeepEvents ==
  ASSUME JunkSound, EventsAreReleases, NEW p \in Purges,
         \/ Restore(p)
         \/ \E a \in Articles : Write(p, a)
  PROVE  EventsAreReleases'
<1>1. UNCHANGED <<alive, run, batch>>
  BY DEF Restore, Write
<1>2. \A q \in Purges : Doomed(q)' \subseteq Doomed(q) /\ Doomed(q) \subseteq Articles
  BY <1>1 DEF Restore, Write, Go, Doomed, JunkSound, JunkTypeOK
<1>3. \A q \in Purges : pc'[q] = "restoring" => /\ pc[q] = "restoring" /\ owed'[q] = owed[q]
                                                /\ owed[q] \subseteq Articles
  BY DEF Restore, Write, Go, JunkSound, JunkTypeOK
<1>4. \A a \in Articles : /\ mev'[a] => hold'[a] \in {"released", "none"}
                          /\ hold'[a] = "none" => hold[a] = "none" /\ mev'[a] = mev[a]
                          /\ hold[a] = "released" => hold'[a] = "released"
  <2>1. CASE Restore(p)
    <3>1. mev' = [a \in Articles |-> mev[a] \/ (a \in owed[p] /\ run[a] > 0)] /\ hold' = hold
          /\ pc[p] = "restoring"
      BY <2>1 DEF Restore
    <3>2. \A a \in Articles : a \in owed[p] /\ run[a] > 0 => hold[a] = "released"
      BY <3>1 DEF EventsAreReleases, JunkSound, JunkTypeOK
    <3>3. \A a \in Articles : mev'[a] = (mev[a] \/ (a \in owed[p] /\ run[a] > 0))
      BY <3>1, Zenon
    <3>4. \A a \in Articles : mev[a] \in BOOLEAN
      BY DEF JunkSound, JunkTypeOK
    <3> QED  BY <3>1, <3>2, <3>3, <3>4 DEF EventsAreReleases
  <2>2. CASE \E a \in Articles : Write(p, a)
    <3>1. PICK a \in Articles : Write(p, a)
      BY <2>2
    <3> QED  BY <3>1 DEF Write, Taken, EventsAreReleases, JunkSound, JunkTypeOK
  <2> QED  BY <2>1, <2>2
<1> QED  BY <1>1, <1>2, <1>3, <1>4 DEF EventsAreReleases

\* Every step keeps the events of releases.
LEMMA EventsStep ==
  ASSUME ReleasesStand, JunkSound, EventsAreReleases, [JunkNext]_junkVars
  PROVE  EventsAreReleases'
<1>1. CASE UNCHANGED junkVars \/ Deploy
  <2>1. UNCHANGED <<mev, hold, run, pc, batch, owed>>
    BY <1>1 DEF Deploy, junkVars, articles, purges
  <2> QED  BY <2>1 DEF EventsAreReleases, Doomed
<1>2. ASSUME NEW p \in Purges, Work(p) PROVE EventsAreReleases'
  BY <1>2, DeletionsKeepEvents, LooksKeepEvents, ReadingsKeepEvents DEF Work
<1> QED  BY <1>1, <1>2, WordsKeepEvents, LooksKeepEvents DEF JunkNext

\* hold_reader._write: whatever the purges, readings, extractions and words do first, an
\* article carries the event of a release only while it is released, or its row went for
\* what an extraction found.
THEOREM JunkEvents ==
  ASSUME ReleasesStand
  PROVE  JunkSpec => []ModelsEventIsReleased
<1>1. JunkInit => JunkSound /\ EventsAreReleases
  <2>1. JunkInit => EventsAreReleases
    BY DEF JunkInit, EventsAreReleases, Doomed
  <2> QED  BY <2>1, JunkStarts
<1>2. JunkSound /\ EventsAreReleases /\ [JunkNext]_junkVars => (JunkSound /\ EventsAreReleases)'
  BY JunkStep, EventsStep
<1>3. JunkSound /\ EventsAreReleases => ModelsEventIsReleased
  BY DEF JunkSound, EventsAreReleases, ModelsEventIsReleased
<1> QED  BY <1>1, <1>2, <1>3, PTL DEF JunkSpec

------------------------------------------------------------------------------
(* What a purge deletes *)

\* What a purge has in hand was junk when it picked it: what is in the work, released or held
\* of it became so by what others did since.
DoomedWasJunk ==
  \A p \in Purges : \A a \in Doomed(p) :
    /\ crim[a] => <<a, "found">> \in meanwhile[p]
    /\ mev[a] \/ hold[a] = "released" => <<a, "released">> \in meanwhile[p]
    /\ hold[a] \in Held => <<a, "held">> \in meanwhile[p]

\* A step changes nothing of these articles, or takes them out of the work and of the holds.
Clears(S) ==
  \A a \in S : /\ crim'[a] => crim[a]
               /\ mev'[a] => mev[a]
               /\ hold'[a] \in {hold[a], "none", "junk"}

\* What happened to a batch stays known, and so does why its articles are not junk.
LEMMA StillExplained ==
  ASSUME JunkSound, DoomedWasJunk, NEW p \in Purges, NEW b \in Doomed(p),
         meanwhile[p] \subseteq meanwhile'[p], Clears({b})
  PROVE  /\ crim'[b] => <<b, "found">> \in meanwhile'[p]
         /\ mev'[b] \/ hold'[b] = "released" => <<b, "released">> \in meanwhile'[p]
         /\ hold'[b] \in Held => <<b, "held">> \in meanwhile'[p]
<1>1. (crim'[b] => crim[b]) /\ (mev'[b] => mev[b]) /\ hold'[b] \in {hold[b], "none", "junk"}
  BY DEF Clears
<1>2. /\ crim[b] => <<b, "found">> \in meanwhile[p]
      /\ mev[b] \/ hold[b] = "released" => <<b, "released">> \in meanwhile[p]
      /\ hold[b] \in Held => <<b, "held">> \in meanwhile[p]
  BY DEF DoomedWasJunk
<1> QED  BY <1>1, <1>2 DEF Held

\* Words and extractions are told to the purges that have picked the article.
LEMMA WordsAreTold ==
  ASSUME JunkSound, DoomedWasJunk, NEW a \in Articles,
         \/ AskReextract(a) \/ DecideReextract(a) \/ MarkJunk(a)
         \/ Unrelease(a) \/ HoldAgain(a) \/ Release(a)
         \/ ExtractArticle(a) \/ Reextract(a)
  PROVE  DoomedWasJunk'
<1> DEFINE Told(p, b) ==
       /\ crim'[b] => <<b, "found">> \in meanwhile'[p]
       /\ mev'[b] \/ hold'[b] = "released" => <<b, "released">> \in meanwhile'[p]
       /\ hold'[b] \in Held => <<b, "held">> \in meanwhile'[p]
<1>1. \A p \in Purges : Doomed(p)' = Doomed(p) /\ Doomed(p) \subseteq Articles \cap batch[p]
  BY DEF AskReextract, DecideReextract, MarkJunk, Unrelease, HoldAgain,
         Release, ExtractArticle, Reextract, purges, Doomed, JunkSound, JunkTypeOK
<1>2. SUFFICES ASSUME NEW p \in Purges, NEW b \in Doomed(p) PROVE Told(p, b)
  BY <1>1 DEF DoomedWasJunk, Held
<1>3. b \in Articles /\ b \in batch[p] /\ pc[p] # "idle"
  BY <1>1 DEF Doomed
<1>4. /\ crim[b] => <<b, "found">> \in meanwhile[p]
      /\ mev[b] \/ hold[b] = "released" => <<b, "released">> \in meanwhile[p]
      /\ hold[b] \in Held => <<b, "held">> \in meanwhile[p]
  BY DEF DoomedWasJunk
<1>5. ASSUME NEW what \in Happenings, Meet({a}, what)
      PROVE  meanwhile[p] \subseteq meanwhile'[p] /\ (a = b => <<b, what>> \in meanwhile'[p])
  BY <1>3, <1>5, MeetAdds DEF JunkSound
<1>6. CASE AskReextract(a) \/ DecideReextract(a) \/ MarkJunk(a) \/ Unrelease(a)
  <2>1. meanwhile' = meanwhile /\ Clears({b})
    BY <1>3, <1>6 DEF AskReextract, DecideReextract, MarkJunk, Unrelease, Clears, articles,
       purges, JunkSound, JunkTypeOK
  <2> QED  BY <2>1, StillExplained
<1>7. CASE HoldAgain(a)
  <2>1. Meet({a}, "held") /\ UNCHANGED <<crim, mev>> /\ hold' = [hold EXCEPT ![a] = "unread"]
    BY <1>7 DEF HoldAgain, articles
  <2>2. hold'[b] = IF a = b THEN "unread" ELSE hold[b]
    BY <1>3, <2>1 DEF JunkSound, JunkTypeOK
  <2> QED  BY <1>4, <1>5, <2>1, <2>2 DEF Held, Happenings
<1>8. CASE Release(a)
  <2>1. /\ Meet({a}, "released") /\ UNCHANGED crim
        /\ hold' = [hold EXCEPT ![a] = "released"] /\ mev' = [mev EXCEPT ![a] = TRUE]
    BY <1>8 DEF Release
  <2>2. /\ hold'[b] = IF a = b THEN "released" ELSE hold[b]
        /\ a # b => mev'[b] = mev[b]
    BY <1>3, <2>1 DEF JunkSound, JunkTypeOK
  <2> QED  BY <1>4, <1>5, <2>1, <2>2 DEF Held, Happenings
<1>9. CASE Reextract(a)
  <2>1. hold' = hold
    BY <1>9 DEF Reextract
  <2>2. CASE Saved(a, TRUE) /\ Meet({a}, "found")
    <3>1. (a # b => crim'[b] = crim[b]) /\ (mev'[b] => mev[b])
      BY <1>3, <2>2 DEF Saved, JunkSound, JunkTypeOK
    <3> QED  BY <1>4, <1>5, <2>1, <2>2, <3>1 DEF Happenings
  <2>3. CASE (Saved(a, FALSE) \/ UNCHANGED <<run, crim, mev>>) /\ meanwhile' = meanwhile
    <3>1. Clears({b})
      BY <1>3, <2>1, <2>3 DEF Saved, Clears, JunkSound, JunkTypeOK
    <3> QED  BY <2>3, <3>1, StillExplained
  <2> QED  BY <1>9, <2>2, <2>3 DEF Reextract
<1>10. ~ExtractArticle(a)
  BY <1>3 DEF ExtractArticle
<1> QED  BY <1>6, <1>7, <1>8, <1>9, <1>10

\* What a purge does itself: only junk comes into its hand.
LEMMA OwnHand ==
  ASSUME JunkSound, DoomedWasJunk, NEW p \in Purges, Begin(p) \/ Work(p) \/ Stop(p),
         NEW b \in Doomed(p)'
  PROVE  /\ crim'[b] => <<b, "found">> \in meanwhile'[p]
         /\ mev'[b] \/ hold'[b] = "released" => <<b, "released">> \in meanwhile'[p]
         /\ hold'[b] \in Held => <<b, "held">> \in meanwhile'[p]
<1>1. pc'[p] \in {"judge", "score"}
  BY DEF Doomed
<1>2. Pick(p) \/ Judge(p)
  BY <1>1 DEF Work, Begin, Stop, Outdated, PurgeBatch, FindEventless, Restore, FindUnread,
     End, Write, Go, JunkSound, JunkTypeOK
<1>3. UNCHANGED <<crim, mev, hold, meanwhile>>
  BY <1>2 DEF Pick, Judge, articles
<1>4. Doomed(p)' \subseteq Doomed(p) \cup JunkArticles
  BY <1>2, LowestWithin DEF Doomed, Pick, Judge, Go, JunkSound, JunkTypeOK
<1> QED  BY <1>3, <1>4 DEF DoomedWasJunk, JunkArticles, InWork, Held

\* What a purge does to the batch of another one is told to that one.
LEMMA OthersAreTold ==
  ASSUME JunkSound, DoomedWasJunk, NEW p \in Purges, Begin(p) \/ Work(p) \/ Stop(p),
         NEW q \in Purges \ {p}, NEW b \in Doomed(q)'
  PROVE  /\ crim'[b] => <<b, "found">> \in meanwhile'[q]
         /\ mev'[b] \/ hold'[b] = "released" => <<b, "released">> \in meanwhile'[q]
         /\ hold'[b] \in Held => <<b, "held">> \in meanwhile'[q]
<1>1. pc'[q] = pc[q] /\ batch'[q] = batch[q]
  BY DEF Begin, Work, Stop, Outdated, Pick, Judge, PurgeBatch, FindEventless, Restore,
         FindUnread, End, Write, Go, JunkSound, JunkTypeOK
<1>2. b \in Doomed(q) /\ b \in batch[q] /\ b \in Articles
  BY <1>1 DEF Doomed, JunkSound, JunkTypeOK
<1>3. /\ crim[b] => <<b, "found">> \in meanwhile[q]
      /\ mev[b] \/ hold[b] = "released" => <<b, "released">> \in meanwhile[q]
      /\ hold[b] \in Held => <<b, "held">> \in meanwhile[q]
  BY <1>2 DEF DoomedWasJunk
<1>4. CASE \/ Begin(p) \/ Pick(p) \/ Judge(p) \/ FindEventless(p)
           \/ FindUnread(p) \/ End(p) \/ Stop(p)
  <2>1. meanwhile'[q] = meanwhile[q] /\ Clears({b})
    BY <1>2, <1>4 DEF Begin, Pick, Judge, FindEventless, FindUnread, End, Stop, articles, Clears,
       JunkSound, JunkTypeOK
  <2> QED  BY <1>2, <2>1, StillExplained
<1>5. CASE Outdated(p)
  <2>1. PICK S \in SUBSET Articles :
          Discard(S) /\ hold' = [a \in Articles |-> IF a \in S THEN "none" ELSE hold[a]]
    BY <1>5, LowestWithin DEF Outdated, JunkSound, JunkTypeOK
  <2>2. /\ b \in S => ~crim'[b] /\ ~mev'[b]
        /\ b \notin S => crim'[b] = crim[b] /\ mev'[b] = mev[b]
    BY <1>2, <1>5, <2>1, Discarding DEF Outdated
  <2>3. meanwhile' = meanwhile /\ Clears({b})
    BY <1>2, <1>5, <2>1, <2>2 DEF Outdated, Clears
  <2> QED  BY <1>2, <2>3, StillExplained
<1>6. CASE PurgeBatch(p)
  <2> DEFINE gone == batch[p] \ HeldBack(p)
  <2>1. /\ gone \in SUBSET Articles /\ Discard(gone) /\ version' = version
        /\ hold' = [a \in Articles |-> CASE a \in gone -> "none"
                                        [] a \in HeldBack(p) -> "unread"
                                        [] OTHER -> hold[a]]
    BY <1>6 DEF PurgeBatch, JunkSound, JunkTypeOK
  <2>2. meanwhile'[q] = meanwhile[q] \cup ((HeldBack(p) \cap batch[q]) \X {"held"})
    BY <1>6, HoldingAdds DEF JunkSound
  <2>3. b \in HeldBack(p) => b \notin gone
    OBVIOUS
  <2> HIDE DEF gone
  <2>4. /\ b \in gone => ~crim'[b] /\ ~mev'[b] /\ hold'[b] = "none"
        /\ b \notin gone => crim'[b] = crim[b] /\ mev'[b] = mev[b]
    <3>1. b \in gone => hold'[b] = "none"
      BY <1>2, <2>1, <2>3
    <3>2. /\ b \in gone => ~crim'[b] /\ ~mev'[b]
          /\ b \notin gone => crim'[b] = crim[b] /\ mev'[b] = mev[b]
      BY <1>2, <2>1, Discarding
    <3> QED  BY <3>1, <3>2
  <2>5. CASE b \in HeldBack(p)
    <3>1. hold'[b] = "unread" /\ <<b, "held">> \in meanwhile'[q]
      BY <1>2, <2>1, <2>2, <2>3, <2>5
    <3> QED  BY <1>3, <2>2, <2>3, <2>4, <2>5, <3>1
  <2>6. CASE b \notin HeldBack(p)
    <3>1. b \notin gone => hold'[b] = hold[b]
      BY <1>2, <2>1, <2>6
    <3>2. Clears({b}) /\ meanwhile[q] \subseteq meanwhile'[q]
      BY <2>2, <2>4, <3>1 DEF Clears
    <3> QED  BY <1>2, <3>2, StillExplained
  <2> QED  BY <2>5, <2>6
<1>7. CASE Restore(p)
  <2>1. /\ mev' = [a \in Articles |-> mev[a] \/ (a \in owed[p] /\ run[a] > 0)]
        /\ UNCHANGED <<crim, hold>> /\ Meet(owed[p], "released") /\ owed[p] \in SUBSET Articles
    BY <1>7 DEF Restore, JunkSound
  <2>2. /\ meanwhile[q] \subseteq meanwhile'[q]
        /\ b \in owed[p] => <<b, "released">> \in meanwhile'[q]
    BY <1>2, <2>1, MeetAdds DEF JunkSound, Happenings
  <2>3. mev'[b] => mev[b] \/ b \in owed[p]
    BY <1>2, <2>1, Zenon
  <2> QED  BY <1>3, <2>1, <2>2, <2>3
<1>8. ASSUME NEW a \in Articles, Write(p, a)
      PROVE  /\ crim'[b] => <<b, "found">> \in meanwhile'[q]
             /\ mev'[b] \/ hold'[b] = "released" => <<b, "released">> \in meanwhile'[q]
             /\ hold'[b] \in Held => <<b, "held">> \in meanwhile'[q]
  <2>1. crim' = crim
    BY <1>8 DEF Write
  <2>2. CASE /\ UNCHANGED <<mev, meanwhile>>
             /\ hold' = hold \/ (Taken(a) /\ hold' = [hold EXCEPT ![a] = "read"])
    <3>1. hold'[b] = hold[b] \/ (hold[b] = "unread" /\ hold'[b] = "read")
      BY <1>2, <2>2 DEF Taken, JunkSound, JunkTypeOK
    <3> QED  BY <1>3, <2>1, <2>2, <3>1 DEF Held
  <2>3. CASE /\ Taken(a) /\ hold' = [hold EXCEPT ![a] = "released"]
             /\ mev' = [mev EXCEPT ![a] = TRUE] /\ Meet({a}, "released")
    <3>1. meanwhile[q] \subseteq meanwhile'[q] /\ (a = b => <<b, "released">> \in meanwhile'[q])
      BY <1>2, <2>3, MeetAdds DEF JunkSound, Happenings
    <3>2. /\ hold'[b] = IF a = b THEN "released" ELSE hold[b]
          /\ a # b => mev'[b] = mev[b]
      BY <1>2, <2>3 DEF JunkSound, JunkTypeOK
    <3> QED  BY <1>3, <2>1, <3>1, <3>2 DEF Held
  <2> QED  BY <1>8, <2>2, <2>3 DEF Write
<1> QED  BY <1>4, <1>5, <1>6, <1>7, <1>8 DEF Work

\* Every step tells a purge what becomes of the articles it has in hand.
LEMMA DoomedStep ==
  ASSUME JunkSound, DoomedWasJunk, [JunkNext]_junkVars
  PROVE  DoomedWasJunk'
<1>1. CASE UNCHANGED junkVars \/ Deploy
  <2>1. UNCHANGED <<mev, crim, hold, pc, batch, meanwhile>>
    BY <1>1 DEF Deploy, junkVars, articles, purges
  <2> QED  BY <2>1 DEF DoomedWasJunk, Doomed, Held
<1>2. ASSUME NEW p \in Purges, Begin(p) \/ Work(p) \/ Stop(p) PROVE DoomedWasJunk'
  <2>1. ASSUME NEW q \in Purges, NEW b \in Doomed(q)'
        PROVE  /\ crim'[b] => <<b, "found">> \in meanwhile'[q]
               /\ mev'[b] \/ hold'[b] = "released" => <<b, "released">> \in meanwhile'[q]
               /\ hold'[b] \in Held => <<b, "held">> \in meanwhile'[q]
    <3>1. CASE q = p
      BY <1>2, <2>1, <3>1, OwnHand
    <3>2. CASE q # p
      BY <1>2, <2>1, <3>2, OthersAreTold
    <3> QED  BY <3>1, <3>2
  <2> QED  BY <2>1 DEF DoomedWasJunk, Held
<1> QED  BY <1>1, <1>2, WordsAreTold DEF JunkNext

\* Only two steps take articles away: one those before the working date, the other doomed ones.
LEMMA WhatIsPurged ==
  ASSUME JunkSound, [JunkNext]_junkVars, NEW a \in Articles, Purged(a)
  PROVE  \E p \in Purges : PurgeBatch(p) /\ a \in Doomed(p)
<1>1. alive' # alive /\ a \notin Old /\ a \in alive /\ a \notin alive'
  BY DEF Purged
<1>2. PICK p \in Purges : Outdated(p) \/ PurgeBatch(p)
  <2>1. ASSUME NEW b \in Articles,
               \/ ExtractArticle(b) \/ AskReextract(b) \/ Reextract(b)
               \/ DecideReextract(b) \/ MarkJunk(b) \/ Unrelease(b)
               \/ HoldAgain(b) \/ Release(b)
        PROVE  alive' = alive
    BY <2>1 DEF ExtractArticle, AskReextract, Reextract, DecideReextract,
       MarkJunk, Unrelease, HoldAgain, Release, articles
  <2>2. ASSUME NEW p \in Purges, Begin(p) \/ Work(p) \/ Stop(p),
               ~Outdated(p), ~PurgeBatch(p)
        PROVE  alive' = alive
    BY <2>2 DEF Begin, Work, Stop, Pick, Judge, FindEventless,
       Restore, FindUnread, End, Write, articles
  <2>3. UNCHANGED junkVars \/ Deploy => alive' = alive
    BY DEF junkVars, articles, Deploy
  <2> QED  BY <1>1, <2>1, <2>2, <2>3 DEF JunkNext
<1>3. ~Outdated(p)
  BY <1>1, LowestWithin DEF Outdated, Discard
<1>4. PurgeBatch(p)
  BY <1>2, <1>3
<1> QED  BY <1>1, <1>4 DEF PurgeBatch, Discard, Doomed

\* What is in the work, released or held of what a purge deletes became so by what others did
\* between its pick and its delete: whatever words are said beside it, and however many purges
\* run, it takes nothing in hand that is not junk, and forgets nothing that comes between.
THEOREM JunkPurges == JunkSpec => OnlyOvertakenIsPurged
<1>1. JunkInit => JunkSound /\ DoomedWasJunk
  <2>1. JunkInit => DoomedWasJunk
    BY DEF JunkInit, DoomedWasJunk, Doomed
  <2> QED  BY <2>1, JunkStarts
<1>2. JunkSound /\ DoomedWasJunk /\ [JunkNext]_junkVars => (JunkSound /\ DoomedWasJunk)'
  BY JunkStep, DoomedStep
<1> DEFINE Explained(a) ==
       \E p \in Purges :
         /\ a \in batch[p] /\ pc[p] = "score" /\ pc'[p] = "pick"
         /\ crim[a] => <<a, "found">> \in meanwhile[p]
         /\ mev[a] \/ hold[a] = "released" => <<a, "released">> \in meanwhile[p]
         /\ hold[a] \in Held => <<a, "held">> \in meanwhile[p]
<1>3. JunkSound /\ DoomedWasJunk /\ [JunkNext]_junkVars
        => [\A a \in Articles : Purged(a) => Explained(a)]_junkVars
  <2>1. ASSUME JunkSound, DoomedWasJunk, [JunkNext]_junkVars, NEW a \in Articles, Purged(a)
        PROVE  Explained(a)
    <3>1. PICK p \in Purges : PurgeBatch(p) /\ a \in Doomed(p)
      BY <2>1, WhatIsPurged
    <3>2. a \in batch[p] /\ pc[p] = "score" /\ pc'[p] = "pick"
      BY <2>1, <3>1 DEF PurgeBatch, Doomed, Go, JunkSound, JunkTypeOK
    <3> QED  BY <2>1, <3>1, <3>2 DEF DoomedWasJunk
  <2> QED  BY <2>1
<1> QED  BY <1>1, <1>2, <1>3, PTL DEF JunkSpec, OnlyOvertakenIsPurged
=============================================================================
