------------------------ MODULE PersonResolutionProofs ------------------------
(***************************************************************************)
(* Proofs about PersonResolution: a decision is made once, a merge takes   *)
(* every mention, resolution creates no person by a name that another      *)
(* active person has, every merged person leads to an active one, and the  *)
(* tables implement IdentityRegister.                                      *)
(***************************************************************************)
EXTENDS PersonResolution, TLAPS

Working(w) == pc[w] \in {"resolving", "planned"}
Reviewing(v) == pc[v] \in {"locking", "checked"}

RecordTypes ==
  /\ person \in [Mentions -> {"none", "active", "merged"}]
  /\ known \in [Mentions -> SUBSET Names]
  /\ author \in [Mentions -> {"none", "resolver", "human", "ai"}]
  /\ link \in [Mentions -> Mentions \cup {NoOne}]
  /\ decision \in [Mentions -> {"none", "applied", "pending", "reviewed"}]
  /\ selected \in [Mentions -> Mentions \cup {NoOne}]
  /\ seen \in [Mentions -> SUBSET Mentions]

ActorTypes ==
  /\ pc \in [Actors -> {"idle", "locking", "resolving", "planned", "asked", "checked"}]
  /\ keys \in [Actors -> SUBSET Nat]
  /\ todo \in [Workers -> SUBSET Mentions]
  /\ plan \in [Actors -> Plans \cup {NoPlan}]
  /\ buffer \in [Workers -> SUBSET Plans]
  /\ \A v \in Reviewers : ~Working(v)
  /\ \A w \in Workers : pc[w] \notin {"asked", "checked"}

\* What a worker writes, and what a reviewer does.
Resolution(b) ==
  /\ b \in Plans /\ b.act # "merge"
  /\ b.act = "create" => b.to = b.mention
  /\ b.act = "review" => b.to = NoOne

Word(x) ==
  /\ x \in Plans /\ x.act # "review"
  /\ x.act = "create" => x.to = x.mention
  /\ x.act = "merge" => x.from # x.to /\ {x.from, x.to} \subseteq Mentions

\* An advisory lock has one holder.
KeysApart == \A a, b \in Actors : a # b => keys[a] \cap keys[b] = {}

\* A worker holds the blocks of all it resolves, and resolves what nobody has decided.
WorkersLocked ==
  \A w \in Workers :
    /\ ~Working(w) => buffer[w] = {}
    /\ Working(w) => \A m \in Mentions :
         m \in todo[w] \/ (\E b \in buffer[w] : b.mention = m)
           => KeysOf[NameOf[m]] \subseteq keys[w]

WorkersFirst ==
  \A w \in Workers :
    /\ \A b \in buffer[w] :
         /\ Resolution(b) /\ decision[b.mention] = "none" /\ b.mention \notin todo[w]
         /\ \A c \in buffer[w] : b.mention = c.mention => b = c
    /\ pc[w] = "planned" =>
         Resolution(plan[w]) /\ plan[w].mention \in todo[w] /\ decision[plan[w].mention] = "none"

\* A reviewer works on a pending decision, alone.
ReviewsApart ==
  \A v \in Reviewers :
    /\ pc[v] = "asked" \/ Reviewing(v) => Word(plan[v])
    /\ pc[v] = "locking" => plan[v].act = "create"
    /\ Reviewing(v) => decision[plan[v].mention] = "pending"
    /\ \A u \in Reviewers \ {v} :
         Reviewing(u) /\ Reviewing(v) => plan[u].mention # plan[v].mention

\* A person is created with the decision of its mention.
CreatedWhenDecided == \A m \in Mentions : decision[m] = "none" => person[m] = "none"

\* No active person has the name of one that a worker is about to create.
New(w, b) ==
  b.act = "create" =>
    /\ \A q \in Active : NameOf[b.mention] \notin known[q]
    /\ \A c \in buffer[w] \ {b} : c.act = "create" => NameOf[c.mention] # NameOf[b.mention]

NamesAreNew ==
  \A w \in Workers :
    /\ \A b \in buffer[w] : New(w, b)
    /\ pc[w] = "planned" => New(w, plan[w])

Types == RecordTypes /\ ActorTypes
IInv ==
  /\ Types /\ KeysApart /\ WorkersLocked /\ WorkersFirst
  /\ ReviewsApart /\ CreatedWhenDecided /\ NamesAreNew

\* What one step keeps of the three action properties.
Kept ==
  \A m \in Mentions :
    decision[m] \in {"applied", "reviewed"}
      => decision'[m] = decision[m] /\ selected'[m] = selected[m]

Taken ==
  \A p \in Active : person'[p] = "merged"
    => /\ \A m \in Mentions : link'[m] # p
       /\ \A w \in Workers : \A b \in buffer[w] : b.to # p

Alone ==
  \A p \in Mentions :
    author'[p] = "resolver" /\ author[p] = "none"
      => \A q \in Mentions \ {p} : person'[q] = "active" => NameOf[p] \notin known'[q]

-----------------------------------------------------------------------------
(* What becomes visible at a commit.                                       *)

LEMMA ActorsApart ==
  /\ Workers \subseteq Actors /\ Reviewers \subseteq Actors
  /\ \A w \in Workers : w \notin Reviewers
  /\ NoOne \notin Mentions /\ NoPlan \notin Plans
BY ResolutionAssumption DEF Actors, NoPlan, Plans

LEMMA NamesOfMentions == \A m \in Mentions : NameOf[m] \in Names
BY DEF Names

\* A mention that no plan is about stays as it is; any other gets what its plan says.
LEMMA MadeFacts ==
  ASSUME RecordTypes, NEW S \in SUBSET Plans, NEW who \in {"resolver", "human", "ai"},
         Made(S, who)
  PROVE  /\ RecordTypes'
         /\ \A m \in Mentions : (\A b \in S : b.mention # m) =>
              /\ decision'[m] = decision[m] /\ selected'[m] = selected[m]
              /\ link'[m] = link[m]
         /\ \A m \in Mentions : (\E b \in S : b.mention = m) => decision'[m] # "none"
         /\ \A m \in Mentions : (\E b \in S : b.mention = m /\ b.act = "create") =>
              person'[m] = "active" /\ known'[m] = {NameOf[m]} /\ author'[m] = who
         /\ \A m \in Mentions : (\A b \in S : b.mention = m => b.act # "create") =>
              person'[m] = person[m] /\ known'[m] = known[m] /\ author'[m] = author[m]
<1> DEFINE of(m) == CHOOSE b \in S : b.mention = m
           new == {b.mention : b \in {c \in S : c.act = "create"}}
           done == {b.mention : b \in S}
<1>1. /\ person' = [p \in Mentions |-> IF p \in new THEN "active" ELSE person[p]]
      /\ known' = [p \in Mentions |-> IF p \in new THEN {NameOf[p]} ELSE known[p]]
      /\ author' = [p \in Mentions |-> IF p \in new THEN who ELSE author[p]]
      /\ link' = [m \in Mentions |-> IF m \in done THEN of(m).to ELSE link[m]]
      /\ selected' = [m \in Mentions |-> IF m \in done THEN of(m).to ELSE selected[m]]
      /\ decision' = [m \in Mentions |->
           IF m \in done THEN Status(who, of(m).act) ELSE decision[m]]
      /\ seen' = [m \in Mentions |->
           IF m \in done /\ who = "resolver" THEN of(m).seen ELSE seen[m]]
  BY DEF Made
<1>2. \A m \in done : of(m) \in Plans
  BY DEF Plans
<1>3. \A m \in done : of(m).to \in Mentions \cup {NoOne} /\ of(m).seen \in SUBSET Mentions
  BY <1>2 DEF Plans
<1>4. \A m : Status(who, of(m).act) \in {"applied", "pending", "reviewed"}
  BY DEF Status
<1> HIDE DEF of
<1>5. person' \in [Mentions -> {"none", "active", "merged"}]
  BY <1>1 DEF RecordTypes
<1>6. known' \in [Mentions -> SUBSET Names] /\ author' \in [Mentions -> {"none", "resolver", "human", "ai"}]
  BY <1>1, NamesOfMentions DEF RecordTypes
<1>7. /\ link' \in [Mentions -> Mentions \cup {NoOne}]
      /\ selected' \in [Mentions -> Mentions \cup {NoOne}]
  BY <1>1, <1>3 DEF RecordTypes
<1>8. decision' \in [Mentions -> {"none", "applied", "pending", "reviewed"}]
  BY <1>1, <1>4 DEF RecordTypes
<1>9. seen' \in [Mentions -> SUBSET Mentions]
  BY <1>1, <1>3 DEF RecordTypes
<1>10. RecordTypes'
  BY <1>5, <1>6, <1>7, <1>8, <1>9 DEF RecordTypes
<1>11. \A m \in Mentions : (\A b \in S : b.mention # m) =>
         /\ decision'[m] = decision[m] /\ selected'[m] = selected[m] /\ link'[m] = link[m]
  BY <1>1
<1>12. \A m \in Mentions : (\E b \in S : b.mention = m) => decision'[m] # "none"
  BY <1>1, <1>4
<1>13. \A m \in Mentions : (\E b \in S : b.mention = m /\ b.act = "create") =>
         person'[m] = "active" /\ known'[m] = {NameOf[m]} /\ author'[m] = who
  BY <1>1
<1>14. \A m \in Mentions : (\A b \in S : b.mention = m => b.act # "create") =>
         person'[m] = person[m] /\ known'[m] = known[m] /\ author'[m] = author[m]
  BY <1>1
<1> QED
  BY <1>10, <1>11, <1>12, <1>13, <1>14

LEMMA InitIInv == Init => IInv
<1> SUFFICES ASSUME Init PROVE IInv
  OBVIOUS
<1>1. RecordTypes
  BY DEF Init, RecordTypes
<1>2. ActorTypes
  BY ActorsApart DEF Init, ActorTypes, Working
<1> QED
  BY <1>1, <1>2, ActorsApart DEF Init, IInv, Types, KeysApart, WorkersLocked, WorkersFirst, ReviewsApart,
     CreatedWhenDecided, NamesAreNew, Working, Reviewing

-----------------------------------------------------------------------------
(* What every step keeps.                                                  *)

LEMMA ChoicesAreWords == \A m \in Mentions : \A x \in Choices(m) : Word(x) /\ x.mention = m
BY ActorsApart DEF Choices, Word, Plans, Link, Create, Merge, Persons

\* What a reviewer submits is a word, said now or planned when the model was asked.
LEMMA SubmitsWord ==
  ASSUME Types, ReviewsApart, NEW v \in Reviewers, SubmitWord(v) \/ Answer(v)
  PROVE  \E x \in Plans : Word(x) /\ Submit(v, x)
<1>1. CASE SubmitWord(v)
  BY <1>1, ChoicesAreWords DEF SubmitWord, Word
<1>2. CASE Answer(v)
  BY <1>2 DEF Answer, ReviewsApart, Word
<1> QED
  BY <1>1, <1>2

\* What a worker decides of a mention: a person that is new, or no person.
LEMMA DecideFacts ==
  ASSUME Types, WorkersFirst, CreatedWhenDecided, NEW w \in Workers, NEW m \in Mentions,
         m \in todo[w], NEW x \in Decide(w, m)
  PROVE  Resolution(x) /\ x.mention = m /\ New(w, x)
<1> DEFINE n == NameOf[m]
           C == Candidates(w, n)
<1>1. C \subseteq Mentions
  BY DEF Candidates, Visible, Active, Created, Types, ActorTypes, Plans
<1>2. CASE C = {}
  <2>1. x = Create(m, {}) \/ x = Review(m, {})
    BY <1>2 DEF Decide
  <2>2. \A p \in Visible(w) : n \notin KnownTo(w, p)
    BY <1>2, NamesOfMentions, ResolutionAssumption DEF Candidates
  <2>3. \A q \in Active : n \notin known[q]
    <3>1. Active \cap Created(w) = {}
      BY DEF Created, WorkersFirst, CreatedWhenDecided, Active
    <3> QED
      BY <2>2, <3>1 DEF Visible, KnownTo
  <2>4. \A c \in buffer[w] : c.act = "create" => NameOf[c.mention] # n
    BY <2>2 DEF Visible, KnownTo, Created
  <2> QED
    BY <2>1, <2>3, <2>4, ActorsApart DEF Create, Review, Resolution, Plans, New
<1>3. CASE C # {}
  <2>1. x = Review(m, C) \/ \E p \in C : x = Link(m, p, C)
    BY <1>3 DEF Decide
  <2> QED
    BY <2>1, <1>1 DEF Link, Review, Resolution, Plans, New
<1> QED
  BY <1>2, <1>3

LEMMA NeedsAreKeys ==
  ASSUME Types, ReviewsApart, NEW a \in Actors, pc[a] = "locking"
  PROVE  Needs(a) \subseteq Nat
<1>1. \A m \in Mentions : KeysOf[NameOf[m]] \subseteq Nat
  BY NamesOfMentions, ResolutionAssumption
<1>2. CASE a \in Workers
  BY <1>1, <1>2 DEF Needs, KeysOfAll, Types, ActorTypes
<1>3. CASE a \notin Workers
  <2>1. plan[a].mention \in Mentions
    BY <1>3 DEF ReviewsApart, Reviewing, Word, Plans, Actors
  <2> QED
    BY <1>1, <1>3, <2>1 DEF Needs
<1> QED
  BY <1>2, <1>3

\* The records keep their types.
LEMMA RecordTypesStep ==
  ASSUME Types, WorkersFirst, ReviewsApart, [Next]_vars
  PROVE  RecordTypes'
<1>1. CASE UNCHANGED vars
  BY <1>1 DEF vars, records, RecordTypes, Types
<1>2. ASSUME NEW a \in Actors, TakeKey(a)
      PROVE  RecordTypes'
  BY <1>2 DEF TakeKey, records, RecordTypes, Types
<1>3. ASSUME NEW w \in Workers, NEW r \in Runs, Begin(w, r)
      PROVE  RecordTypes'
  BY <1>3 DEF Begin, records, RecordTypes, Types
<1>4. ASSUME NEW w \in Workers, Locked(w)
      PROVE  RecordTypes'
  BY <1>4 DEF Locked, records, RecordTypes, Types
<1>5. ASSUME NEW w \in Workers, NEW m \in Mentions, Reuse(w, m)
      PROVE  RecordTypes'
  BY <1>5 DEF Reuse, records, RecordTypes, Types
<1>6. ASSUME NEW w \in Workers, NEW m \in Mentions, PlanMention(w, m)
      PROVE  RecordTypes'
  BY <1>6 DEF PlanMention, records, RecordTypes, Types
<1>7. ASSUME NEW w \in Workers, WritePlan(w)
      PROVE  RecordTypes'
  BY <1>7 DEF WritePlan, records, RecordTypes, Types
<1>8. ASSUME NEW w \in Workers, Commit(w)
      PROVE  RecordTypes'
  BY <1>8, MadeFacts DEF Commit, Types, ActorTypes
<1>9. ASSUME NEW w \in Workers, Abort(w)
      PROVE  RecordTypes'
  BY <1>9 DEF Abort, Release, records, RecordTypes, Types
<1>10. ASSUME NEW v \in Reviewers, NEW x \in Plans, Word(x), Submit(v, x)
      PROVE  RecordTypes'
  BY <1>10 DEF Submit, records, RecordTypes, Types
<1>11. ASSUME NEW v \in Reviewers, NEW m \in Mentions, Ask(v, m)
      PROVE  RecordTypes'
  BY <1>11 DEF Ask, records, RecordTypes, Types
<1>12. ASSUME NEW v \in Reviewers, Skip(v)
      PROVE  RecordTypes'
  BY <1>12 DEF Skip, Release, records, RecordTypes, Types
<1>13. ASSUME NEW v \in Reviewers, ApplyLink(v)
      PROVE  RecordTypes'
  BY <1>13, MadeFacts DEF ApplyLink, ReviewsApart, Reviewing, Word, Who, Types
<1>14. ASSUME NEW v \in Reviewers, ApplyCreate(v)
      PROVE  RecordTypes'
  BY <1>14, MadeFacts DEF ApplyCreate, ReviewsApart, Reviewing, Word, Who, Types
<1>15. ASSUME NEW v \in Reviewers, ApplyMerge(v)
      PROVE  RecordTypes'
  <2>1. plan[v] \in Plans /\ {plan[v].from, plan[v].to} \subseteq Mentions
    BY <1>15 DEF ApplyMerge, ReviewsApart, Reviewing, Word
  <2> QED
    BY <1>15, <2>1 DEF ApplyMerge, Moved, Types, RecordTypes, Plans
<1>16. ASSUME NEW v \in Reviewers, MergeConflict(v)
      PROVE  RecordTypes'
  BY <1>16 DEF MergeConflict, Release, records, RecordTypes, Types
<1>17. ASSUME NEW v \in Reviewers, SubmitWord(v) \/ Answer(v)
       PROVE  \E x \in Plans : Word(x) /\ Submit(v, x)
  BY <1>17, SubmitsWord
<1> QED
  BY <1>1, <1>2, <1>3, <1>4, <1>5, <1>6, <1>7, <1>8, <1>9, <1>10, <1>11, <1>12, <1>13,
     <1>14, <1>15, <1>16, <1>17, ActorsApart DEF Next, Resolve, ApplyReview

\* The actors keep their types.
LEMMA ActorTypesStep ==
  ASSUME Types, WorkersFirst, ReviewsApart, CreatedWhenDecided, [Next]_vars
  PROVE  ActorTypes'
<1> USE DEF Types
<1>1. CASE UNCHANGED vars
  BY <1>1, ActorsApart DEF vars, records, ActorTypes, Working
<1>2. ASSUME NEW a \in Actors, TakeKey(a)
      PROVE  ActorTypes'
  <2>1. Needs(a) \subseteq Nat
    BY <1>2, NeedsAreKeys DEF TakeKey
  <2>2. keys' \in [Actors -> SUBSET Nat]
    BY <1>2, <2>1 DEF TakeKey, NextKey, ActorTypes
  <2> QED
    BY <1>2, <2>2 DEF TakeKey, ActorTypes, Working
<1>3. ASSUME NEW w \in Workers, NEW r \in Runs, Begin(w, r)
      PROVE  ActorTypes'
  BY <1>3, ActorsApart DEF Begin, records, ActorTypes, Working
<1>4. ASSUME NEW w \in Workers, Locked(w)
      PROVE  ActorTypes'
  BY <1>4, ActorsApart DEF Locked, records, ActorTypes, Working
<1>5. ASSUME NEW w \in Workers, NEW m \in Mentions, Reuse(w, m)
      PROVE  ActorTypes'
  BY <1>5, ActorsApart DEF Reuse, records, ActorTypes, Working
<1>6. ASSUME NEW w \in Workers, NEW m \in Mentions, PlanMention(w, m)
      PROVE  ActorTypes'
  <2>1. \A x \in Decide(w, m) : x \in Plans
    BY <1>6, DecideFacts DEF PlanMention, Resolution
  <2> QED
    BY <1>6, <2>1, ActorsApart DEF PlanMention, ActorTypes, Working
<1>7. ASSUME NEW w \in Workers, WritePlan(w)
      PROVE  ActorTypes'
  <2>1. plan[w] \in Plans
    BY <1>7 DEF WritePlan, WorkersFirst, Resolution
  <2> QED
    BY <1>7, <2>1, ActorsApart DEF WritePlan, ActorTypes, Working
<1>8. ASSUME NEW w \in Workers, Commit(w)
      PROVE  ActorTypes'
  BY <1>8, ActorsApart DEF Commit, Release, ActorTypes, Working
<1>9. ASSUME NEW w \in Workers, Abort(w)
      PROVE  ActorTypes'
  BY <1>9, ActorsApart DEF Abort, Release, records, ActorTypes, Working
<1>10. ASSUME NEW v \in Reviewers, NEW x \in Plans, Word(x), Submit(v, x)
      PROVE  ActorTypes'
  BY <1>10, ActorsApart DEF Submit, records, ActorTypes, Working
<1>11. ASSUME NEW v \in Reviewers, NEW m \in Mentions, Ask(v, m)
      PROVE  ActorTypes'
  <2>1. \A x \in {Link(m, p, {}) : p \in IF Namesakes(m, seen[m]) THEN {} ELSE seen[m] \cap Active}
                  \cup {y \in {Create(m, {})} : NameOf[m] \in Complete} : x \in Plans
    BY DEF Link, Create, Plans, Active
  <2>2. plan' \in [Actors -> Plans \cup {NoPlan}]
    BY <1>11, <2>1 DEF Ask, ActorTypes
  <2> QED
    BY <1>11, <2>2, ActorsApart DEF Ask, ActorTypes, Working
<1>12. ASSUME NEW v \in Reviewers, Skip(v)
      PROVE  ActorTypes'
  BY <1>12, ActorsApart DEF Skip, Release, records, ActorTypes, Working
<1>13. ASSUME NEW v \in Reviewers, ApplyLink(v)
      PROVE  ActorTypes'
  BY <1>13, ActorsApart DEF ApplyLink, Release, ActorTypes, Working
<1>14. ASSUME NEW v \in Reviewers, ApplyCreate(v)
      PROVE  ActorTypes'
  BY <1>14, ActorsApart DEF ApplyCreate, Release, ActorTypes, Working
<1>15. ASSUME NEW v \in Reviewers, ApplyMerge(v)
      PROVE  ActorTypes'
  BY <1>15, ActorsApart DEF ApplyMerge, Release, ActorTypes, Working
<1>16. ASSUME NEW v \in Reviewers, MergeConflict(v)
      PROVE  ActorTypes'
  BY <1>16, ActorsApart DEF MergeConflict, Release, records, ActorTypes, Working
<1>17. ASSUME NEW v \in Reviewers, SubmitWord(v) \/ Answer(v)
       PROVE  \E x \in Plans : Word(x) /\ Submit(v, x)
  BY <1>17, SubmitsWord
<1> QED
  BY <1>1, <1>2, <1>3, <1>4, <1>5, <1>6, <1>7, <1>8, <1>9, <1>10, <1>11, <1>12, <1>13,
     <1>14, <1>15, <1>16, <1>17, ActorsApart DEF Next, Resolve, ApplyReview

\* A lock is taken when nobody holds it.
LEMMA KeysStep ==
  ASSUME Types, KeysApart, ReviewsApart, [Next]_vars
  PROVE  KeysApart'
<1>1. CASE UNCHANGED vars
  BY <1>1, ActorsApart DEF vars, records, KeysApart, Types, ActorTypes, Holder
<1>2. ASSUME NEW a \in Actors, TakeKey(a)
      PROVE  KeysApart'
  BY <1>2, ActorsApart DEF TakeKey, records, KeysApart, Types, ActorTypes, Holder
<1>3. ASSUME NEW w \in Workers, NEW r \in Runs, Begin(w, r)
      PROVE  KeysApart'
  BY <1>3, ActorsApart DEF Begin, records, KeysApart, Types, ActorTypes, Holder
<1>4. ASSUME NEW w \in Workers, Locked(w)
      PROVE  KeysApart'
  BY <1>4, ActorsApart DEF Locked, records, KeysApart, Types, ActorTypes, Holder
<1>5. ASSUME NEW w \in Workers, NEW m \in Mentions, Reuse(w, m)
      PROVE  KeysApart'
  BY <1>5, ActorsApart DEF Reuse, records, KeysApart, Types, ActorTypes, Holder
<1>6. ASSUME NEW w \in Workers, NEW m \in Mentions, PlanMention(w, m)
      PROVE  KeysApart'
  BY <1>6, ActorsApart DEF PlanMention, records, KeysApart, Types, ActorTypes, Holder
<1>7. ASSUME NEW w \in Workers, WritePlan(w)
      PROVE  KeysApart'
  BY <1>7, ActorsApart DEF WritePlan, records, KeysApart, Types, ActorTypes, Holder
<1>8. ASSUME NEW w \in Workers, Commit(w)
      PROVE  KeysApart'
  BY <1>8, ActorsApart DEF Commit, Release, KeysApart, Types, ActorTypes, Holder
<1>9. ASSUME NEW w \in Workers, Abort(w)
      PROVE  KeysApart'
  BY <1>9, ActorsApart DEF Abort, Release, records, KeysApart, Types, ActorTypes, Holder
<1>10. ASSUME NEW v \in Reviewers, NEW x \in Plans, Word(x), Submit(v, x)
      PROVE  KeysApart'
  BY <1>10, ActorsApart DEF Submit, records, KeysApart, Types, ActorTypes, Holder
<1>11. ASSUME NEW v \in Reviewers, NEW m \in Mentions, Ask(v, m)
      PROVE  KeysApart'
  BY <1>11, ActorsApart DEF Ask, records, KeysApart, Types, ActorTypes, Holder
<1>12. ASSUME NEW v \in Reviewers, Skip(v)
      PROVE  KeysApart'
  BY <1>12, ActorsApart DEF Skip, Release, records, KeysApart, Types, ActorTypes, Holder
<1>13. ASSUME NEW v \in Reviewers, ApplyLink(v)
      PROVE  KeysApart'
  BY <1>13, ActorsApart DEF ApplyLink, Release, KeysApart, Types, ActorTypes, Holder
<1>14. ASSUME NEW v \in Reviewers, ApplyCreate(v)
      PROVE  KeysApart'
  BY <1>14, ActorsApart DEF ApplyCreate, Release, KeysApart, Types, ActorTypes, Holder
<1>15. ASSUME NEW v \in Reviewers, ApplyMerge(v)
      PROVE  KeysApart'
  BY <1>15, ActorsApart DEF ApplyMerge, Release, KeysApart, Types, ActorTypes, Holder
<1>16. ASSUME NEW v \in Reviewers, MergeConflict(v)
      PROVE  KeysApart'
  BY <1>16, ActorsApart DEF MergeConflict, Release, records, KeysApart, Types, ActorTypes, Holder
<1>17. ASSUME NEW v \in Reviewers, SubmitWord(v) \/ Answer(v)
       PROVE  \E x \in Plans : Word(x) /\ Submit(v, x)
  BY <1>17, SubmitsWord
<1> QED
  BY <1>1, <1>2, <1>3, <1>4, <1>5, <1>6, <1>7, <1>8, <1>9, <1>10, <1>11, <1>12, <1>13,
     <1>14, <1>15, <1>16, <1>17, ActorsApart DEF Next, Resolve, ApplyReview

\* A worker holds the blocks of all it resolves.
LEMMA WorkersLockedStep ==
  ASSUME Types, WorkersLocked, WorkersFirst, ReviewsApart, [Next]_vars
  PROVE  WorkersLocked'
<1> USE DEF Types, ActorTypes
<1>1. CASE UNCHANGED vars
  BY <1>1, ActorsApart DEF vars, records, WorkersLocked, Working
<1>2. ASSUME NEW a \in Actors, TakeKey(a)
      PROVE  WorkersLocked'
  BY <1>2, ActorsApart DEF TakeKey, records, WorkersLocked, Working
<1>3. ASSUME NEW w \in Workers, NEW r \in Runs, Begin(w, r)
      PROVE  WorkersLocked'
  BY <1>3, ActorsApart DEF Begin, records, WorkersLocked, Working
<1>4. ASSUME NEW w \in Workers, Locked(w)
      PROVE  WorkersLocked'
  BY <1>4, ActorsApart DEF Locked, WorkersLocked, Working, Needs, KeysOfAll
<1>5. ASSUME NEW w \in Workers, NEW m \in Mentions, Reuse(w, m)
      PROVE  WorkersLocked'
  BY <1>5, ActorsApart DEF Reuse, records, WorkersLocked, Working
<1>6. ASSUME NEW w \in Workers, NEW m \in Mentions, PlanMention(w, m)
      PROVE  WorkersLocked'
  BY <1>6, ActorsApart DEF PlanMention, records, WorkersLocked, Working
<1>7. ASSUME NEW w \in Workers, WritePlan(w)
      PROVE  WorkersLocked'
  BY <1>7, ActorsApart DEF WritePlan, WorkersLocked, WorkersFirst, Working
<1>8. ASSUME NEW w \in Workers, Commit(w)
      PROVE  WorkersLocked'
  BY <1>8, ActorsApart DEF Commit, Release, WorkersLocked, Working
<1>9. ASSUME NEW w \in Workers, Abort(w)
      PROVE  WorkersLocked'
  BY <1>9, ActorsApart DEF Abort, Release, records, WorkersLocked, Working
<1>10. ASSUME NEW v \in Reviewers, NEW x \in Plans, Word(x), Submit(v, x)
      PROVE  WorkersLocked'
  BY <1>10, ActorsApart DEF Submit, records, WorkersLocked, Working
<1>11. ASSUME NEW v \in Reviewers, NEW m \in Mentions, Ask(v, m)
      PROVE  WorkersLocked'
  BY <1>11, ActorsApart DEF Ask, records, WorkersLocked, Working
<1>12. ASSUME NEW v \in Reviewers, Skip(v)
      PROVE  WorkersLocked'
  BY <1>12, ActorsApart DEF Skip, Release, records, WorkersLocked, Working
<1>13. ASSUME NEW v \in Reviewers, ApplyLink(v)
      PROVE  WorkersLocked'
  BY <1>13, ActorsApart DEF ApplyLink, Release, WorkersLocked, Working
<1>14. ASSUME NEW v \in Reviewers, ApplyCreate(v)
      PROVE  WorkersLocked'
  BY <1>14, ActorsApart DEF ApplyCreate, Release, WorkersLocked, Working
<1>15. ASSUME NEW v \in Reviewers, ApplyMerge(v)
      PROVE  WorkersLocked'
  BY <1>15, ActorsApart DEF ApplyMerge, Release, WorkersLocked, Working
<1>16. ASSUME NEW v \in Reviewers, MergeConflict(v)
      PROVE  WorkersLocked'
  BY <1>16, ActorsApart DEF MergeConflict, Release, records, WorkersLocked, Working
<1>17. ASSUME NEW v \in Reviewers, SubmitWord(v) \/ Answer(v)
       PROVE  \E x \in Plans : Word(x) /\ Submit(v, x)
  BY <1>17, SubmitsWord
<1> QED
  BY <1>1, <1>2, <1>3, <1>4, <1>5, <1>6, <1>7, <1>8, <1>9, <1>10, <1>11, <1>12, <1>13,
     <1>14, <1>15, <1>16, <1>17, ActorsApart DEF Next, Resolve, ApplyReview

\* Whoever holds the blocks of a mention is the only one to resolve it.
LEMMA HolderIsOne ==
  ASSUME Types, KeysApart, WorkersLocked, NEW u \in Workers, NEW w \in Workers, u # w,
         NEW m \in Mentions, NEW n \in Mentions, NameOf[m] = NameOf[n],
         Working(u), Working(w),
         m \in todo[u] \/ (\E b \in buffer[u] : b.mention = m),
         n \in todo[w] \/ (\E b \in buffer[w] : b.mention = n)
  PROVE  FALSE
<1>1. KeysOf[NameOf[m]] \subseteq keys[u] /\ KeysOf[NameOf[m]] \subseteq keys[w]
  BY DEF WorkersLocked
<1>2. KeysOf[NameOf[m]] # {}
  BY KeysAssumption, NamesOfMentions
<1> QED
  BY <1>1, <1>2, ActorsApart DEF KeysApart

\* A commit leaves the mentions of other workers undecided.
LEMMA CommitApart ==
  ASSUME Types, KeysApart, WorkersLocked, WorkersFirst, NEW u \in Workers, NEW w \in Workers,
         u # w, Commit(u), NEW m \in Mentions, Working(w),
         m \in todo[w] \/ (\E b \in buffer[w] : b.mention = m)
  PROVE  decision'[m] = decision[m]
<1>1. Working(u) /\ buffer[u] \subseteq Plans
  BY DEF Commit, Working, Types, ActorTypes
<1>2. \A b \in buffer[u] : b.mention # m
  BY <1>1, HolderIsOne
<1> QED
  BY <1>1, <1>2, MadeFacts DEF Commit, Types

\* A worker resolves what nobody has decided.
LEMMA WorkersFirstStep ==
  ASSUME Types, KeysApart, WorkersLocked, WorkersFirst, ReviewsApart, CreatedWhenDecided, [Next]_vars
  PROVE  WorkersFirst'
<1> USE DEF Types, ActorTypes
<1>1. CASE UNCHANGED vars
  BY <1>1, ActorsApart DEF vars, records, WorkersFirst
<1>2. ASSUME NEW a \in Actors, TakeKey(a)
      PROVE  WorkersFirst'
  BY <1>2, ActorsApart DEF TakeKey, records, WorkersFirst
<1>3. ASSUME NEW w \in Workers, NEW r \in Runs, Begin(w, r)
      PROVE  WorkersFirst'
  BY <1>3, ActorsApart DEF Begin, WorkersFirst, WorkersLocked, Working, records
<1>4. ASSUME NEW w \in Workers, Locked(w)
      PROVE  WorkersFirst'
  BY <1>4, ActorsApart DEF Locked, records, WorkersFirst
<1>5. ASSUME NEW w \in Workers, NEW m \in Mentions, Reuse(w, m)
      PROVE  WorkersFirst'
  BY <1>5, ActorsApart DEF Reuse, records, WorkersFirst
<1>6. ASSUME NEW w \in Workers, NEW m \in Mentions, PlanMention(w, m)
      PROVE  WorkersFirst'
  BY <1>6, DecideFacts, ActorsApart DEF PlanMention, WorkersFirst, records
<1>7. ASSUME NEW w \in Workers, WritePlan(w)
      PROVE  WorkersFirst'
  BY <1>7, ActorsApart DEF WritePlan, records, WorkersFirst
<1>8. ASSUME NEW w \in Workers, Commit(w)
      PROVE  WorkersFirst'
  <2> SUFFICES ASSUME NEW u \in Workers
               PROVE  /\ \A b \in buffer'[u] :
                           /\ Resolution(b) /\ decision'[b.mention] = "none" /\ b.mention \notin todo'[u]
                           /\ \A c \in buffer'[u] : b.mention = c.mention => b = c
                      /\ pc'[u] = "planned" =>
                           /\ Resolution(plan'[u]) /\ plan'[u].mention \in todo'[u]
                           /\ decision'[plan'[u].mention] = "none"
    BY DEF WorkersFirst
  <2>1. CASE u = w
    BY <1>8, <2>1, ActorsApart DEF Commit, Release
  <2>2. CASE u # w
    <3>1. buffer'[u] = buffer[u] /\ todo' = todo /\ pc'[u] = pc[u] /\ plan'[u] = plan[u]
      BY <1>8, <2>2, ActorsApart DEF Commit, Release
    <3>2. \A b \in buffer[u] : decision'[b.mention] = "none"
      BY <1>8, <2>2, CommitApart DEF WorkersFirst, WorkersLocked, Plans
    <3>3. pc[u] = "planned" => decision'[plan[u].mention] = "none"
      BY <1>8, <2>2, CommitApart DEF WorkersFirst, Working
    <3> QED
      BY <3>1, <3>2, <3>3 DEF WorkersFirst
  <2> QED
    BY <2>1, <2>2
<1>9. ASSUME NEW w \in Workers, Abort(w)
      PROVE  WorkersFirst'
  BY <1>9, ActorsApart DEF Abort, Release, records, WorkersFirst
<1>10. ASSUME NEW v \in Reviewers, NEW x \in Plans, Word(x), Submit(v, x)
      PROVE  WorkersFirst'
  BY <1>10, ActorsApart DEF Submit, records, WorkersFirst
<1>11. ASSUME NEW v \in Reviewers, NEW m \in Mentions, Ask(v, m)
      PROVE  WorkersFirst'
  BY <1>11, ActorsApart DEF Ask, records, WorkersFirst
<1>12. ASSUME NEW v \in Reviewers, Skip(v)
      PROVE  WorkersFirst'
  BY <1>12, ActorsApart DEF Skip, Release, records, WorkersFirst
<1>13. ASSUME NEW v \in Reviewers, ApplyLink(v)
      PROVE  WorkersFirst'
  <2>1. \A m \in Mentions : decision[m] = "none" => decision'[m] = "none"
    BY <1>13, MadeFacts DEF ApplyLink, ReviewsApart, Reviewing, Word, Who
  <2> QED
    BY <1>13, <2>1, ActorsApart DEF ApplyLink, Release, WorkersFirst, Resolution, Plans
<1>14. ASSUME NEW v \in Reviewers, ApplyCreate(v)
      PROVE  WorkersFirst'
  <2>1. \A m \in Mentions : decision[m] = "none" => decision'[m] = "none"
    BY <1>14, MadeFacts DEF ApplyCreate, ReviewsApart, Reviewing, Word, Who
  <2> QED
    BY <1>14, <2>1, ActorsApart DEF ApplyCreate, Release, WorkersFirst, Resolution, Plans
<1>15. ASSUME NEW v \in Reviewers, ApplyMerge(v)
      PROVE  WorkersFirst'
  <2>1. \A m \in Mentions : decision[m] = "none" => decision'[m] = "none"
    BY <1>15 DEF ApplyMerge, ReviewsApart, Reviewing, RecordTypes
  <2> QED
    BY <1>15, <2>1, ActorsApart DEF ApplyMerge, Release, WorkersFirst, Resolution, Plans
<1>16. ASSUME NEW v \in Reviewers, MergeConflict(v)
      PROVE  WorkersFirst'
  BY <1>16, ActorsApart DEF MergeConflict, Release, records, WorkersFirst
<1>17. ASSUME NEW v \in Reviewers, SubmitWord(v) \/ Answer(v)
       PROVE  \E x \in Plans : Word(x) /\ Submit(v, x)
  BY <1>17, SubmitsWord
<1> QED
  BY <1>1, <1>2, <1>3, <1>4, <1>5, <1>6, <1>7, <1>8, <1>9, <1>10, <1>11, <1>12, <1>13,
     <1>14, <1>15, <1>16, <1>17, ActorsApart DEF Next, Resolve, ApplyReview

\* A worker's commit writes only what nobody had decided.
LEMMA CommitKeeps ==
  ASSUME Types, WorkersFirst, NEW w \in Workers, Commit(w), NEW m \in Mentions, decision[m] # "none"
  PROVE  decision'[m] = decision[m] /\ selected'[m] = selected[m]
BY MadeFacts DEF Commit, WorkersFirst, Types, ActorTypes

\* A reviewer's link or new person is written to the decision under review only.
LEMMA WordKeeps ==
  ASSUME Types, ReviewsApart, NEW v \in Reviewers, ApplyLink(v) \/ ApplyCreate(v),
         NEW m \in Mentions, m # plan[v].mention
  PROVE  /\ decision'[m] = decision[m] /\ selected'[m] = selected[m]
         /\ person'[m] = person[m] /\ known'[m] = known[m] /\ author'[m] = author[m]
<1>1. plan[v] \in Plans /\ Made({plan[v]}, Who(v)) /\ Who(v) \in {"human", "ai"}
  BY DEF ApplyLink, ApplyCreate, ReviewsApart, Reviewing, Word, Who
<1> QED
  BY <1>1, MadeFacts DEF Types

\* A reviewer works on a pending decision, alone.
LEMMA ReviewsApartStep ==
  ASSUME Types, KeysApart, WorkersLocked, WorkersFirst, ReviewsApart, CreatedWhenDecided, [Next]_vars
  PROVE  ReviewsApart'
<1> USE DEF Types, ActorTypes
<1>1. CASE UNCHANGED vars
  BY <1>1, ActorsApart DEF vars, records, ReviewsApart, Reviewing
<1>2. ASSUME NEW a \in Actors, TakeKey(a)
      PROVE  ReviewsApart'
  BY <1>2, ActorsApart DEF TakeKey, records, ReviewsApart, Reviewing
<1>3. ASSUME NEW w \in Workers, NEW r \in Runs, Begin(w, r)
      PROVE  ReviewsApart'
  BY <1>3, ActorsApart DEF Begin, records, ReviewsApart, Reviewing
<1>4. ASSUME NEW w \in Workers, Locked(w)
      PROVE  ReviewsApart'
  BY <1>4, ActorsApart DEF Locked, records, ReviewsApart, Reviewing
<1>5. ASSUME NEW w \in Workers, NEW m \in Mentions, Reuse(w, m)
      PROVE  ReviewsApart'
  BY <1>5, ActorsApart DEF Reuse, records, ReviewsApart, Reviewing
<1>6. ASSUME NEW w \in Workers, NEW m \in Mentions, PlanMention(w, m)
      PROVE  ReviewsApart'
  BY <1>6, ActorsApart DEF PlanMention, records, ReviewsApart, Reviewing
<1>7. ASSUME NEW w \in Workers, WritePlan(w)
      PROVE  ReviewsApart'
  BY <1>7, ActorsApart DEF WritePlan, records, ReviewsApart, Reviewing
<1>8. ASSUME NEW w \in Workers, Commit(w)
      PROVE  ReviewsApart'
  <2>1. \A u \in Reviewers : pc'[u] = pc[u] /\ plan'[u] = plan[u]
    BY <1>8, ActorsApart DEF Commit, Release
  <2>2. \A u \in Reviewers : Reviewing(u) =>
          plan[u].mention \in Mentions /\ decision[plan[u].mention] = "pending"
    BY DEF ReviewsApart, Reviewing, Word, Plans
  <2>3. \A u \in Reviewers : Reviewing(u) => decision'[plan[u].mention] = "pending"
    BY <1>8, <2>2, CommitKeeps
  <2> QED
    BY <2>1, <2>3 DEF ReviewsApart, Reviewing, Word
<1>9. ASSUME NEW w \in Workers, Abort(w)
      PROVE  ReviewsApart'
  BY <1>9, ActorsApart DEF Abort, Release, records, ReviewsApart, Reviewing
<1>10. ASSUME NEW v \in Reviewers, NEW x \in Plans, Word(x), Submit(v, x)
      PROVE  ReviewsApart'
  BY <1>10, ActorsApart DEF Submit, Open, LockedRow, ReviewsApart, Reviewing, records
<1>11. ASSUME NEW v \in Reviewers, NEW m \in Mentions, Ask(v, m)
      PROVE  ReviewsApart'
  <2>1. \A x \in {Link(m, p, {}) : p \in IF Namesakes(m, seen[m]) THEN {} ELSE seen[m] \cap Active}
                  \cup {y \in {Create(m, {})} : NameOf[m] \in Complete} : Word(x)
    BY DEF Link, Create, Plans, Active, Word
  <2>2. Word(plan'[v]) /\ pc' = [pc EXCEPT ![v] = "asked"]
    BY <1>11, <2>1, ActorsApart DEF Ask
  <2>3. \A u \in Reviewers \ {v} : plan'[u] = plan[u]
    BY <1>11, ActorsApart DEF Ask
  <2> QED
    BY <1>11, <2>2, <2>3, ActorsApart DEF Ask, ReviewsApart, Reviewing, records
<1>12. ASSUME NEW v \in Reviewers, Skip(v)
      PROVE  ReviewsApart'
  BY <1>12, ActorsApart DEF Skip, Release, records, ReviewsApart, Reviewing
<1>13. ASSUME NEW v \in Reviewers, ApplyLink(v)
      PROVE  ReviewsApart'
  <2>1. \A u \in Reviewers \ {v} : pc'[u] = pc[u] /\ plan'[u] = plan[u]
    BY <1>13, ActorsApart DEF ApplyLink, Release
  <2>2. pc'[v] = "idle"
    BY <1>13, ActorsApart DEF ApplyLink, Release
  <2>3. \A u \in Reviewers \ {v} : Reviewing(u) =>
          /\ plan[u].mention \in Mentions /\ plan[u].mention # plan[v].mention
          /\ decision[plan[u].mention] = "pending"
    BY <1>13 DEF ApplyLink, ReviewsApart, Reviewing, Word, Plans
  <2>4. \A u \in Reviewers \ {v} : Reviewing(u) => decision'[plan[u].mention] = "pending"
    BY <1>13, <2>3, WordKeeps
  <2> QED
    BY <2>1, <2>2, <2>4 DEF ReviewsApart, Reviewing, Word
<1>14. ASSUME NEW v \in Reviewers, ApplyCreate(v)
      PROVE  ReviewsApart'
  <2>1. \A u \in Reviewers \ {v} : pc'[u] = pc[u] /\ plan'[u] = plan[u]
    BY <1>14, ActorsApart DEF ApplyCreate, Release
  <2>2. pc'[v] = "idle"
    BY <1>14, ActorsApart DEF ApplyCreate, Release
  <2>3. \A u \in Reviewers \ {v} : Reviewing(u) =>
          /\ plan[u].mention \in Mentions /\ plan[u].mention # plan[v].mention
          /\ decision[plan[u].mention] = "pending"
    BY <1>14 DEF ApplyCreate, ReviewsApart, Reviewing, Word, Plans
  <2>4. \A u \in Reviewers \ {v} : Reviewing(u) => decision'[plan[u].mention] = "pending"
    BY <1>14, <2>3, WordKeeps
  <2> QED
    BY <2>1, <2>2, <2>4 DEF ReviewsApart, Reviewing, Word
<1>15. ASSUME NEW v \in Reviewers, ApplyMerge(v)
      PROVE  ReviewsApart'
  <2>1. \A m \in Mentions : m # plan[v].mention => decision'[m] = decision[m]
    BY <1>15 DEF ApplyMerge
  <2> QED
    BY <1>15, <2>1, ActorsApart DEF ApplyMerge, Release, ReviewsApart, Reviewing, Word, Plans
<1>16. ASSUME NEW v \in Reviewers, MergeConflict(v)
      PROVE  ReviewsApart'
  BY <1>16, ActorsApart DEF MergeConflict, Release, records, ReviewsApart, Reviewing
<1>17. ASSUME NEW v \in Reviewers, SubmitWord(v) \/ Answer(v)
       PROVE  \E x \in Plans : Word(x) /\ Submit(v, x)
  BY <1>17, SubmitsWord
<1> QED
  BY <1>1, <1>2, <1>3, <1>4, <1>5, <1>6, <1>7, <1>8, <1>9, <1>10, <1>11, <1>12, <1>13,
     <1>14, <1>15, <1>16, <1>17, ActorsApart DEF Next, Resolve, ApplyReview

\* A person is created with the decision of its mention.
LEMMA CreatedStep ==
  ASSUME Types, KeysApart, WorkersLocked, WorkersFirst, ReviewsApart, CreatedWhenDecided, [Next]_vars
  PROVE  CreatedWhenDecided'
<1>1. CASE UNCHANGED vars
  BY <1>1, ActorsApart DEF vars, records, CreatedWhenDecided
<1>2. ASSUME NEW a \in Actors, TakeKey(a)
      PROVE  CreatedWhenDecided'
  BY <1>2, ActorsApart DEF TakeKey, records, CreatedWhenDecided
<1>3. ASSUME NEW w \in Workers, NEW r \in Runs, Begin(w, r)
      PROVE  CreatedWhenDecided'
  BY <1>3, ActorsApart DEF Begin, records, CreatedWhenDecided
<1>4. ASSUME NEW w \in Workers, Locked(w)
      PROVE  CreatedWhenDecided'
  BY <1>4, ActorsApart DEF Locked, records, CreatedWhenDecided
<1>5. ASSUME NEW w \in Workers, NEW m \in Mentions, Reuse(w, m)
      PROVE  CreatedWhenDecided'
  BY <1>5, ActorsApart DEF Reuse, records, CreatedWhenDecided
<1>6. ASSUME NEW w \in Workers, NEW m \in Mentions, PlanMention(w, m)
      PROVE  CreatedWhenDecided'
  BY <1>6, ActorsApart DEF PlanMention, records, CreatedWhenDecided
<1>7. ASSUME NEW w \in Workers, WritePlan(w)
      PROVE  CreatedWhenDecided'
  BY <1>7, ActorsApart DEF WritePlan, records, CreatedWhenDecided
<1>8. ASSUME NEW w \in Workers, Commit(w)
      PROVE  CreatedWhenDecided'
  BY <1>8, MadeFacts DEF Commit, CreatedWhenDecided, Types, ActorTypes
<1>9. ASSUME NEW w \in Workers, Abort(w)
      PROVE  CreatedWhenDecided'
  BY <1>9, ActorsApart DEF Abort, Release, records, CreatedWhenDecided
<1>10. ASSUME NEW v \in Reviewers, NEW x \in Plans, Word(x), Submit(v, x)
      PROVE  CreatedWhenDecided'
  BY <1>10, ActorsApart DEF Submit, records, CreatedWhenDecided
<1>11. ASSUME NEW v \in Reviewers, NEW m \in Mentions, Ask(v, m)
      PROVE  CreatedWhenDecided'
  BY <1>11, ActorsApart DEF Ask, records, CreatedWhenDecided
<1>12. ASSUME NEW v \in Reviewers, Skip(v)
      PROVE  CreatedWhenDecided'
  BY <1>12, ActorsApart DEF Skip, Release, records, CreatedWhenDecided
<1>13. ASSUME NEW v \in Reviewers, ApplyLink(v)
      PROVE  CreatedWhenDecided'
  BY <1>13, MadeFacts DEF ApplyLink, CreatedWhenDecided, ReviewsApart, Reviewing, Word, Who, Types
<1>14. ASSUME NEW v \in Reviewers, ApplyCreate(v)
      PROVE  CreatedWhenDecided'
  BY <1>14, MadeFacts DEF ApplyCreate, CreatedWhenDecided, ReviewsApart, Reviewing, Word, Who, Types
<1>15. ASSUME NEW v \in Reviewers, ApplyMerge(v)
      PROVE  CreatedWhenDecided'
  BY <1>15 DEF ApplyMerge, StillActive, Active, CreatedWhenDecided, Types, RecordTypes
<1>16. ASSUME NEW v \in Reviewers, MergeConflict(v)
      PROVE  CreatedWhenDecided'
  BY <1>16, ActorsApart DEF MergeConflict, Release, records, CreatedWhenDecided
<1>17. ASSUME NEW v \in Reviewers, SubmitWord(v) \/ Answer(v)
       PROVE  \E x \in Plans : Word(x) /\ Submit(v, x)
  BY <1>17, SubmitsWord
<1> QED
  BY <1>1, <1>2, <1>3, <1>4, <1>5, <1>6, <1>7, <1>8, <1>9, <1>10, <1>11, <1>12, <1>13,
     <1>14, <1>15, <1>16, <1>17, ActorsApart DEF Next, Resolve, ApplyReview

\* A plan stays new while its worker writes nothing and nobody else takes its name.
LEMMA NewStays ==
  ASSUME NEW w \in Workers, NEW b, New(w, b), buffer'[w] = buffer[w],
         b.act = "create" =>
           \A q \in Mentions : person'[q] = "active" /\ NameOf[b.mention] \in known'[q]
             => \E p \in Mentions : person[p] = "active" /\ NameOf[b.mention] \in known[p]
  PROVE  New(w, b)'
BY DEF New, Active

\* The records of a worker's plans: a mention that is its own, with its blocks.
LEMMA PlansAreOwn ==
  ASSUME Types, WorkersLocked, WorkersFirst, NEW w \in Workers, NEW b,
         b \in buffer[w] \/ (pc[w] = "planned" /\ b = plan[w])
  PROVE  /\ Working(w) /\ b \in Plans /\ b.mention \in Mentions
         /\ b.mention \in todo[w] \/ (\E c \in buffer[w] : c.mention = b.mention)
         /\ KeysOf[NameOf[b.mention]] \subseteq keys[w]
<1>1. Working(w) /\ b \in Plans
  BY DEF WorkersLocked, WorkersFirst, Working, Resolution
<1>2. b.mention \in Mentions
  BY <1>1 DEF Plans
<1>3. b.mention \in todo[w] \/ (\E c \in buffer[w] : c.mention = b.mention)
  BY DEF WorkersFirst
<1> QED
  BY <1>1, <1>2, <1>3 DEF WorkersLocked

\* Nobody takes a name that a worker is about to create a person by.
LEMMA NamesAreNewStep ==
  ASSUME Types, KeysApart, WorkersLocked, WorkersFirst, ReviewsApart, CreatedWhenDecided, NamesAreNew, [Next]_vars
  PROVE  NamesAreNew'
<1> USE DEF Types, ActorTypes
<1>1. CASE UNCHANGED vars
  BY <1>1, ActorsApart DEF vars, records, NamesAreNew, New, Active
<1>2. ASSUME NEW a \in Actors, TakeKey(a)
      PROVE  NamesAreNew'
  BY <1>2, ActorsApart DEF TakeKey, records, NamesAreNew, New, Active
<1>3. ASSUME NEW w \in Workers, NEW r \in Runs, Begin(w, r)
      PROVE  NamesAreNew'
  BY <1>3, ActorsApart DEF Begin, records, NamesAreNew, New, Active
<1>4. ASSUME NEW w \in Workers, Locked(w)
      PROVE  NamesAreNew'
  BY <1>4, ActorsApart DEF Locked, records, NamesAreNew, New, Active
<1>5. ASSUME NEW w \in Workers, NEW m \in Mentions, Reuse(w, m)
      PROVE  NamesAreNew'
  BY <1>5, ActorsApart DEF Reuse, records, NamesAreNew, New, Active
<1>6. ASSUME NEW w \in Workers, NEW m \in Mentions, PlanMention(w, m)
      PROVE  NamesAreNew'
  <2>1. Resolution(plan'[w]) /\ New(w, plan'[w])
    BY <1>6, DecideFacts, ActorsApart DEF PlanMention
  <2>2. \A u \in Workers \ {w} : plan'[u] = plan[u] /\ pc'[u] = pc[u]
    BY <1>6, ActorsApart DEF PlanMention
  <2> QED
    BY <1>6, <2>1, <2>2 DEF PlanMention, records, NamesAreNew, New, Active
<1>7. ASSUME NEW w \in Workers, WritePlan(w)
      PROVE  NamesAreNew'
  <2>1. \A u \in Workers \ {w} : plan'[u] = plan[u] /\ pc'[u] = pc[u] /\ buffer'[u] = buffer[u]
    BY <1>7, ActorsApart DEF WritePlan
  <2>2. buffer'[w] = buffer[w] \cup {plan[w]} /\ pc'[w] = "resolving" /\ pc[w] = "planned"
    BY <1>7, ActorsApart DEF WritePlan
  <2>3. Active' = Active /\ known' = known
    BY <1>7 DEF WritePlan, records, Active
  <2>4. \A b \in buffer'[w] : New(w, b)'
    BY <2>2, <2>3 DEF NamesAreNew, New
  <2> QED
    BY <2>1, <2>2, <2>3, <2>4 DEF NamesAreNew, New
<1>8. ASSUME NEW w \in Workers, Commit(w)
      PROVE  NamesAreNew'
  <2> SUFFICES ASSUME NEW u \in Workers, NEW b,
                      b \in buffer'[u] \/ (pc'[u] = "planned" /\ b = plan'[u])
               PROVE  New(u, b)'
    BY DEF NamesAreNew
  <2>1. u # w
    BY <1>8, ActorsApart DEF Commit, Release
  <2>2. buffer'[u] = buffer[u] /\ pc'[u] = pc[u] /\ plan'[u] = plan[u]
    BY <1>8, <2>1, ActorsApart DEF Commit, Release
  <2>3. New(u, b)
    BY <2>2 DEF NamesAreNew
  <2>4. /\ Working(u) /\ b.mention \in Mentions
        /\ b.mention \in todo[u] \/ (\E c \in buffer[u] : c.mention = b.mention)
    BY <2>2, PlansAreOwn
  <2>5. Working(w) /\ buffer[w] \subseteq Plans
    BY <1>8 DEF Commit, Working
  <2>6. \A c \in buffer[w] : NameOf[c.mention] # NameOf[b.mention]
    BY <2>1, <2>4, <2>5, HolderIsOne DEF Plans
  <2>7. \A q \in Mentions : person'[q] = "active" /\ NameOf[b.mention] \in known'[q]
          => person[q] = "active" /\ NameOf[b.mention] \in known[q]
    <3> SUFFICES ASSUME NEW q \in Mentions, person'[q] = "active", NameOf[b.mention] \in known'[q]
                 PROVE  person[q] = "active" /\ NameOf[b.mention] \in known[q]
      OBVIOUS
    <3>1. Made(buffer[w], "resolver")
      BY <1>8 DEF Commit
    <3>2. ~\E c \in buffer[w] : c.mention = q /\ c.act = "create"
      BY <2>5, <2>6, <3>1, MadeFacts
    <3> QED
      BY <2>5, <3>1, <3>2, MadeFacts
  <2> QED
    BY <2>2, <2>3, <2>7, NewStays
<1>9. ASSUME NEW w \in Workers, Abort(w)
      PROVE  NamesAreNew'
  <2>1. /\ buffer'[w] = {} /\ pc'[w] = "idle"
        /\ \A u \in Workers \ {w} : plan'[u] = plan[u] /\ pc'[u] = pc[u] /\ buffer'[u] = buffer[u]
    BY <1>9, ActorsApart DEF Abort, Release
  <2>2. Active' = Active /\ known' = known
    BY <1>9 DEF Abort, records, Active
  <2> QED
    BY <2>1, <2>2 DEF NamesAreNew, New
<1>10. ASSUME NEW v \in Reviewers, NEW x \in Plans, Word(x), Submit(v, x)
      PROVE  NamesAreNew'
  BY <1>10, ActorsApart DEF Submit, records, NamesAreNew, New, Active
<1>11. ASSUME NEW v \in Reviewers, NEW m \in Mentions, Ask(v, m)
      PROVE  NamesAreNew'
  BY <1>11, ActorsApart DEF Ask, records, NamesAreNew, New, Active
<1>12. ASSUME NEW v \in Reviewers, Skip(v)
      PROVE  NamesAreNew'
  BY <1>12, ActorsApart DEF Skip, Release, records, NamesAreNew, New, Active
<1>13. ASSUME NEW v \in Reviewers, ApplyLink(v)
      PROVE  NamesAreNew'
  <2>1. \A q \in Mentions : person'[q] = person[q] /\ known'[q] = known[q]
    BY <1>13, MadeFacts DEF ApplyLink, ReviewsApart, Reviewing, Word, Who
  <2>2. \A w \in Workers : buffer'[w] = buffer[w] /\ pc'[w] = pc[w] /\ plan'[w] = plan[w]
    BY <1>13, ActorsApart DEF ApplyLink, Release
  <2> QED
    BY <2>1, <2>2 DEF NamesAreNew, New, Active
<1>14. ASSUME NEW v \in Reviewers, ApplyCreate(v)
      PROVE  NamesAreNew'
  <2> SUFFICES ASSUME NEW u \in Workers, NEW b,
                      b \in buffer'[u] \/ (pc'[u] = "planned" /\ b = plan'[u])
               PROVE  New(u, b)'
    BY DEF NamesAreNew
  <2>1. buffer'[u] = buffer[u] /\ pc'[u] = pc[u] /\ plan'[u] = plan[u]
    BY <1>14, ActorsApart DEF ApplyCreate, Release
  <2>2. New(u, b)
    BY <2>1 DEF NamesAreNew
  <2>3. b.mention \in Mentions /\ KeysOf[NameOf[b.mention]] \subseteq keys[u]
    BY <2>1, PlansAreOwn
  <2>4. plan[v].mention \in Mentions /\ KeysOf[NameOf[plan[v].mention]] \subseteq keys[v]
    BY <1>14, ActorsApart DEF ApplyCreate, Needs, ReviewsApart, Reviewing, Word, Plans
  <2>5. KeysOf[NameOf[b.mention]] # {} /\ keys[u] \cap keys[v] = {}
    BY <2>3, KeysAssumption, NamesOfMentions, ActorsApart DEF KeysApart
  <2>6. NameOf[b.mention] # NameOf[plan[v].mention]
    BY <2>3, <2>4, <2>5
  <2>7. \A q \in Mentions : person'[q] = "active" /\ NameOf[b.mention] \in known'[q]
          => person[q] = "active" /\ NameOf[b.mention] \in known[q]
    <3> SUFFICES ASSUME NEW q \in Mentions, person'[q] = "active", NameOf[b.mention] \in known'[q]
                 PROVE  person[q] = "active" /\ NameOf[b.mention] \in known[q]
      OBVIOUS
    <3>1. Made({plan[v]}, Who(v)) /\ plan[v] \in Plans /\ Who(v) \in {"human", "ai"}
      BY <1>14 DEF ApplyCreate, ReviewsApart, Reviewing, Word, Who
    <3>2. q # plan[v].mention
      BY <1>14, <2>6, <3>1, MadeFacts DEF ApplyCreate, ReviewsApart
    <3> QED
      BY <3>1, <3>2, MadeFacts
  <2> QED
    BY <2>1, <2>2, <2>7, NewStays
<1>15. ASSUME NEW v \in Reviewers, ApplyMerge(v)
      PROVE  NamesAreNew'
  <2> SUFFICES ASSUME NEW u \in Workers, NEW b,
                      b \in buffer'[u] \/ (pc'[u] = "planned" /\ b = plan'[u])
               PROVE  New(u, b)'
    BY DEF NamesAreNew
  <2>1. buffer'[u] = buffer[u] /\ pc'[u] = pc[u] /\ plan'[u] = plan[u]
    BY <1>15, ActorsApart DEF ApplyMerge, Release
  <2>2. New(u, b)
    BY <2>1 DEF NamesAreNew
  <2>3. {plan[v].from, plan[v].to} \subseteq Active /\ plan[v].from # plan[v].to
    BY <1>15 DEF ApplyMerge, StillActive, ReviewsApart, Reviewing, Word
  <2>4. /\ person' = [person EXCEPT ![plan[v].from] = "merged"]
        /\ known' = [known EXCEPT ![plan[v].to] = @ \cup known[plan[v].from]]
    BY <1>15 DEF ApplyMerge
  <2>5. \A q \in Mentions : person'[q] = "active" /\ NameOf[b.mention] \in known'[q]
          => \E p \in Mentions : person[p] = "active" /\ NameOf[b.mention] \in known[p]
    BY <2>3, <2>4 DEF Active, RecordTypes
  <2> QED
    BY <2>1, <2>2, <2>5, NewStays
<1>16. ASSUME NEW v \in Reviewers, MergeConflict(v)
      PROVE  NamesAreNew'
  BY <1>16, ActorsApart DEF MergeConflict, Release, records, NamesAreNew, New, Active
<1>17. ASSUME NEW v \in Reviewers, SubmitWord(v) \/ Answer(v)
       PROVE  \E x \in Plans : Word(x) /\ Submit(v, x)
  BY <1>17, SubmitsWord
<1> QED
  BY <1>1, <1>2, <1>3, <1>4, <1>5, <1>6, <1>7, <1>8, <1>9, <1>10, <1>11, <1>12, <1>13,
     <1>14, <1>15, <1>16, <1>17, ActorsApart DEF Next, Resolve, ApplyReview

-----------------------------------------------------------------------------
(* The invariant and the properties.                                       *)

LEMMA Steps == IInv /\ [Next]_vars => IInv'
<1> SUFFICES ASSUME IInv, [Next]_vars
             PROVE  IInv'
  OBVIOUS
<1>1. RecordTypes' /\ ActorTypes'
  BY RecordTypesStep, ActorTypesStep DEF IInv
<1>2. KeysApart' /\ WorkersLocked'
  BY KeysStep, WorkersLockedStep DEF IInv
<1>3. WorkersFirst' /\ ReviewsApart'
  BY WorkersFirstStep, ReviewsApartStep DEF IInv
<1>4. CreatedWhenDecided' /\ NamesAreNew'
  BY CreatedStep, NamesAreNewStep DEF IInv
<1> QED
  BY <1>1, <1>2, <1>3, <1>4 DEF IInv, Types

\* In every state the locks are apart, a worker resolves what nobody has decided, a
\* reviewer works alone, and the names a worker is about to use are new.
THEOREM Invariant == Spec => []IInv
BY InitIInv, Steps, PTL DEF Spec

\* The outcome of a decision is not written over.
LEMMA OutcomeStays ==
  ASSUME IInv, [Next]_vars
  PROVE  Kept
<1> USE DEF IInv, Types, Kept
<1>1. CASE UNCHANGED vars
  BY <1>1 DEF vars, records
<1>2. ASSUME NEW a \in Actors, TakeKey(a)
      PROVE  Kept
  BY <1>2 DEF TakeKey, records
<1>3. ASSUME NEW w \in Workers, NEW r \in Runs, Begin(w, r)
      PROVE  Kept
  BY <1>3 DEF Begin, records
<1>4. ASSUME NEW w \in Workers, Locked(w)
      PROVE  Kept
  BY <1>4 DEF Locked, records
<1>5. ASSUME NEW w \in Workers, NEW m \in Mentions, Reuse(w, m)
      PROVE  Kept
  BY <1>5 DEF Reuse, records
<1>6. ASSUME NEW w \in Workers, NEW m \in Mentions, PlanMention(w, m)
      PROVE  Kept
  BY <1>6 DEF PlanMention, records
<1>7. ASSUME NEW w \in Workers, WritePlan(w)
      PROVE  Kept
  BY <1>7 DEF WritePlan, records
<1>8. ASSUME NEW w \in Workers, Commit(w)
      PROVE  Kept
  BY <1>8, CommitKeeps
<1>9. ASSUME NEW w \in Workers, Abort(w)
      PROVE  Kept
  BY <1>9 DEF Abort, Release, records
<1>10. ASSUME NEW v \in Reviewers, NEW x \in Plans, Word(x), Submit(v, x)
      PROVE  Kept
  BY <1>10 DEF Submit, records
<1>11. ASSUME NEW v \in Reviewers, NEW m \in Mentions, Ask(v, m)
      PROVE  Kept
  BY <1>11 DEF Ask, records
<1>12. ASSUME NEW v \in Reviewers, Skip(v)
      PROVE  Kept
  BY <1>12 DEF Skip, Release, records
<1>13. ASSUME NEW v \in Reviewers, ApplyLink(v)
      PROVE  Kept
  BY <1>13, WordKeeps DEF ReviewsApart, Reviewing, ApplyLink
<1>14. ASSUME NEW v \in Reviewers, ApplyCreate(v)
      PROVE  Kept
  BY <1>14, WordKeeps DEF ReviewsApart, Reviewing, ApplyCreate
<1>15. ASSUME NEW v \in Reviewers, ApplyMerge(v)
      PROVE  Kept
  BY <1>15 DEF ApplyMerge, ReviewsApart, Reviewing, RecordTypes
<1>16. ASSUME NEW v \in Reviewers, MergeConflict(v)
      PROVE  Kept
  BY <1>16 DEF MergeConflict, Release, records
<1>17. ASSUME NEW v \in Reviewers, SubmitWord(v) \/ Answer(v)
       PROVE  \E x \in Plans : Word(x) /\ Submit(v, x)
  BY <1>17, SubmitsWord
<1> QED
  BY <1>1, <1>2, <1>3, <1>4, <1>5, <1>6, <1>7, <1>8, <1>9, <1>10, <1>11, <1>12, <1>13,
     <1>14, <1>15, <1>16, <1>17, ActorsApart DEF Next, Resolve, ApplyReview

\* A merge finds no link to its source that it does not move.
LEMMA MergeTakesAll ==
  ASSUME IInv, [Next]_vars
  PROVE  Taken
<1> USE DEF IInv, Types, Taken, Active
<1>1. CASE UNCHANGED vars
  BY <1>1 DEF vars, records
<1>2. ASSUME NEW a \in Actors, TakeKey(a)
      PROVE  Taken
  BY <1>2 DEF TakeKey, records
<1>3. ASSUME NEW w \in Workers, NEW r \in Runs, Begin(w, r)
      PROVE  Taken
  BY <1>3 DEF Begin, records
<1>4. ASSUME NEW w \in Workers, Locked(w)
      PROVE  Taken
  BY <1>4 DEF Locked, records
<1>5. ASSUME NEW w \in Workers, NEW m \in Mentions, Reuse(w, m)
      PROVE  Taken
  BY <1>5 DEF Reuse, records
<1>6. ASSUME NEW w \in Workers, NEW m \in Mentions, PlanMention(w, m)
      PROVE  Taken
  BY <1>6 DEF PlanMention, records
<1>7. ASSUME NEW w \in Workers, WritePlan(w)
      PROVE  Taken
  BY <1>7 DEF WritePlan, records
<1>8. ASSUME NEW w \in Workers, Commit(w)
      PROVE  Taken
  BY <1>8, MadeFacts DEF Commit, Active, ActorTypes
<1>9. ASSUME NEW w \in Workers, Abort(w)
      PROVE  Taken
  BY <1>9 DEF Abort, Release, records
<1>10. ASSUME NEW v \in Reviewers, NEW x \in Plans, Word(x), Submit(v, x)
      PROVE  Taken
  BY <1>10 DEF Submit, records
<1>11. ASSUME NEW v \in Reviewers, NEW m \in Mentions, Ask(v, m)
      PROVE  Taken
  BY <1>11 DEF Ask, records
<1>12. ASSUME NEW v \in Reviewers, Skip(v)
      PROVE  Taken
  BY <1>12 DEF Skip, Release, records
<1>13. ASSUME NEW v \in Reviewers, ApplyLink(v)
      PROVE  Taken
  BY <1>13, MadeFacts DEF ApplyLink, ReviewsApart, Reviewing, Word, Who, Active
<1>14. ASSUME NEW v \in Reviewers, ApplyCreate(v)
      PROVE  Taken
  BY <1>14, MadeFacts DEF ApplyCreate, ReviewsApart, Reviewing, Word, Who, Active
<1>15. ASSUME NEW v \in Reviewers, ApplyMerge(v)
      PROVE  Taken
  <2> DEFINE x == plan[v]
  <2>1. x.from \in Active /\ x.to \in Active /\ x.from # x.to
    BY <1>15 DEF ApplyMerge, StillActive, ReviewsApart, Reviewing, Word
  <2>2. \A p \in Active : person'[p] = "merged" => p = x.from
    BY <1>15 DEF ApplyMerge, Active, RecordTypes
  <2>3. \A m \in Mentions : link'[m] # x.from
    BY <1>15, <2>1 DEF ApplyMerge, Moved
  <2>4. ASSUME NEW w \in Workers, NEW b \in buffer[w]
        PROVE  b.to # x.from
    <3>1. Resolution(b) /\ decision[b.mention] = "none"
      BY <2>4 DEF WorkersFirst
    <3>2. CASE b.act = "link"
      BY <1>15, <2>4, <3>2 DEF ApplyMerge, Pinned
    <3>3. CASE b.act = "create"
      BY <2>1, <3>1, <3>3 DEF Resolution, CreatedWhenDecided, Active, Plans
    <3>4. CASE b.act = "review"
      BY <2>1, <3>1, <3>4, ActorsApart DEF Resolution, Active
    <3> QED
      BY <3>1, <3>2, <3>3, <3>4 DEF Resolution, Plans
  <2> QED
    BY <2>2, <2>3, <2>4
<1>16. ASSUME NEW v \in Reviewers, MergeConflict(v)
      PROVE  Taken
  BY <1>16 DEF MergeConflict, Release, records
<1>17. ASSUME NEW v \in Reviewers, SubmitWord(v) \/ Answer(v)
       PROVE  \E x \in Plans : Word(x) /\ Submit(v, x)
  BY <1>17, SubmitsWord
<1> QED
  BY <1>1, <1>2, <1>3, <1>4, <1>5, <1>6, <1>7, <1>8, <1>9, <1>10, <1>11, <1>12, <1>13,
     <1>14, <1>15, <1>16, <1>17, ActorsApart DEF Next, Resolve, ApplyReview

\* A person that the resolver creates has a name of its own.
LEMMA CreatedIsNew ==
  ASSUME IInv, [Next]_vars
  PROVE  Alone
<1> USE DEF IInv, Types, Alone
<1>1. CASE UNCHANGED vars
  BY <1>1 DEF vars, records
<1>2. ASSUME NEW a \in Actors, TakeKey(a)
      PROVE  Alone
  BY <1>2 DEF TakeKey, records
<1>3. ASSUME NEW w \in Workers, NEW r \in Runs, Begin(w, r)
      PROVE  Alone
  BY <1>3 DEF Begin, records
<1>4. ASSUME NEW w \in Workers, Locked(w)
      PROVE  Alone
  BY <1>4 DEF Locked, records
<1>5. ASSUME NEW w \in Workers, NEW m \in Mentions, Reuse(w, m)
      PROVE  Alone
  BY <1>5 DEF Reuse, records
<1>6. ASSUME NEW w \in Workers, NEW m \in Mentions, PlanMention(w, m)
      PROVE  Alone
  BY <1>6 DEF PlanMention, records
<1>7. ASSUME NEW w \in Workers, WritePlan(w)
      PROVE  Alone
  BY <1>7 DEF WritePlan, records
<1>8. ASSUME NEW w \in Workers, Commit(w)
      PROVE  Alone
  <2>1. Made(buffer[w], "resolver") /\ buffer[w] \subseteq Plans
    BY <1>8 DEF Commit, ActorTypes
  <2> SUFFICES ASSUME NEW p \in Mentions, author'[p] = "resolver", author[p] = "none",
                      NEW q \in Mentions \ {p}, person'[q] = "active"
               PROVE  NameOf[p] \notin known'[q]
    OBVIOUS
  <2>2. PICK b \in buffer[w] : b.mention = p /\ b.act = "create"
    BY <2>1, MadeFacts
  <2>3. New(w, b)
    BY DEF NamesAreNew
  <2>4. CASE \E c \in buffer[w] : c.mention = q /\ c.act = "create"
    <3>1. PICK c \in buffer[w] : c.mention = q /\ c.act = "create"
      BY <2>4
    <3>2. NameOf[q] # NameOf[p]
      BY <2>2, <2>3, <3>1 DEF New
    <3>3. known'[q] = {NameOf[q]}
      BY <2>1, <3>1, MadeFacts
    <3> QED
      BY <3>2, <3>3
  <2>5. CASE ~\E c \in buffer[w] : c.mention = q /\ c.act = "create"
    <3>1. person'[q] = person[q] /\ known'[q] = known[q]
      BY <2>1, <2>5, MadeFacts
    <3> QED
      BY <2>2, <2>3, <3>1 DEF New, Active
  <2> QED
    BY <2>4, <2>5
<1>9. ASSUME NEW w \in Workers, Abort(w)
      PROVE  Alone
  BY <1>9 DEF Abort, Release, records
<1>10. ASSUME NEW v \in Reviewers, NEW x \in Plans, Word(x), Submit(v, x)
      PROVE  Alone
  BY <1>10 DEF Submit, records
<1>11. ASSUME NEW v \in Reviewers, NEW m \in Mentions, Ask(v, m)
      PROVE  Alone
  BY <1>11 DEF Ask, records
<1>12. ASSUME NEW v \in Reviewers, Skip(v)
      PROVE  Alone
  BY <1>12 DEF Skip, Release, records
<1>13. ASSUME NEW v \in Reviewers, ApplyLink(v)
      PROVE  Alone
  BY <1>13, MadeFacts DEF ApplyLink, ReviewsApart, Reviewing, Word, Who
<1>14. ASSUME NEW v \in Reviewers, ApplyCreate(v)
      PROVE  Alone
  <2>1. Made({plan[v]}, Who(v)) /\ plan[v] \in Plans /\ Who(v) \in {"human", "ai"}
    BY <1>14 DEF ApplyCreate, ReviewsApart, Reviewing, Word, Who
  <2>2. \A p \in Mentions : author'[p] = author[p] \/ author'[p] = Who(v)
    BY <2>1, MadeFacts
  <2> QED
    BY <2>1, <2>2 DEF Who
<1>15. ASSUME NEW v \in Reviewers, ApplyMerge(v)
      PROVE  Alone
  BY <1>15 DEF ApplyMerge
<1>16. ASSUME NEW v \in Reviewers, MergeConflict(v)
      PROVE  Alone
  BY <1>16 DEF MergeConflict, Release, records
<1>17. ASSUME NEW v \in Reviewers, SubmitWord(v) \/ Answer(v)
       PROVE  \E x \in Plans : Word(x) /\ Submit(v, x)
  BY <1>17, SubmitsWord
<1> QED
  BY <1>1, <1>2, <1>3, <1>4, <1>5, <1>6, <1>7, <1>8, <1>9, <1>10, <1>11, <1>12, <1>13,
     <1>14, <1>15, <1>16, <1>17, ActorsApart DEF Next, Resolve, ApplyReview

\* The first outcome of a decision, of the resolver or of a reviewer, is its only one
\* (review.py: a decision is reviewed once).
THEOREM SpecDecidedOnce == Spec => DecidedOnce
<1>1. IInv /\ [Next]_vars => [Kept]_vars
  BY OutcomeStays
<1>2. [][Kept]_vars => DecidedOnce
  BY PTL DEF DecidedOnce, Kept
<1> QED
  BY Invariant, <1>1, <1>2, PTL DEF Spec

\* A merge leaves no mention behind, with any number of workers and reviewers.
THEOREM SpecMergeTakesEveryMention == Spec => MergeTakesEveryMention
<1>1. IInv /\ [Next]_vars => [Taken]_vars
  BY MergeTakesAll
<1>2. [][Taken]_vars => MergeTakesEveryMention
  BY PTL DEF MergeTakesEveryMention, Taken
<1> QED
  BY Invariant, <1>1, <1>2, PTL DEF Spec

\* Resolution creates no person by a name that another active person has, whatever
\* workers, reviews and merges do meanwhile (lock_identity_blocks).
THEOREM SpecNoDuplicate == Spec => NoDuplicate
<1>1. IInv /\ [Next]_vars => [Alone]_vars
  BY CreatedIsNew
<1>2. [][Alone]_vars => NoDuplicate
  BY PTL DEF NoDuplicate, Alone
<1> QED
  BY Invariant, <1>1, <1>2, PTL DEF Spec

-----------------------------------------------------------------------------
(* The persons that decisions, links and merges name.                      *)

\* What a worker is about to write names persons, or those it creates itself.
NamesKnown(w, b) ==
  /\ b.act = "link" => b.to \in Persons \cup Created(w)
  /\ b.seen \subseteq Persons \cup Created(w)

PlansNamePersons ==
  /\ \A w \in Workers :
       /\ \A b \in buffer[w] : NamesKnown(w, b)
       /\ pc[w] = "planned" => NamesKnown(w, plan[w])
  /\ \A v \in Reviewers : pc[v] = "asked" \/ Reviewing(v) =>
       /\ plan[v].act = "link" => plan[v].to \in Persons
       /\ plan[v].act = "merge" => {plan[v].from, plan[v].to} \subseteq Persons

RecordsNamePersons ==
  \A m \in Mentions :
    /\ link[m] \in Persons \cup {NoOne} /\ selected[m] \in Persons \cup {NoOne}
    /\ seen[m] \subseteq Persons

LinkedWhenDecided == \A m \in Mentions : link[m] # NoOne <=> decision[m] \in {"applied", "reviewed"}

\* No persons are merged among themselves only.
NoCircle ==
  \A S \in SUBSET (Persons \ Active) : S # {} => \E p \in S : into[p] \in Persons \ S

MergeTypes == into \in [Mentions -> Mentions] /\ aborts \in 0..MaxAborts

PInv == MergeTypes /\ PlansNamePersons /\ RecordsNamePersons /\ LinkedWhenDecided /\ NoCircle

\* A mention that a plan is about gets what the plan says.
LEMMA MadeWrites ==
  ASSUME RecordTypes, NEW S \in SUBSET Plans, NEW who \in {"resolver", "human", "ai"},
         Made(S, who)
  PROVE  /\ \A m \in Mentions : (\A b \in S : b.mention # m) => seen'[m] = seen[m]
         /\ \A m \in Mentions : (\E b \in S : b.mention = m) =>
              \E b \in S :
                /\ b.mention = m /\ link'[m] = b.to /\ selected'[m] = b.to
                /\ decision'[m] = Status(who, b.act)
                /\ seen'[m] = IF who = "resolver" THEN b.seen ELSE seen[m]
         /\ into' = into
<1> DEFINE of(m) == CHOOSE b \in S : b.mention = m
           done == {b.mention : b \in S}
<1>1. /\ link' = [m \in Mentions |-> IF m \in done THEN of(m).to ELSE link[m]]
      /\ selected' = [m \in Mentions |-> IF m \in done THEN of(m).to ELSE selected[m]]
      /\ decision' = [m \in Mentions |->
           IF m \in done THEN Status(who, of(m).act) ELSE decision[m]]
      /\ seen' = [m \in Mentions |->
           IF m \in done /\ who = "resolver" THEN of(m).seen ELSE seen[m]]
      /\ into' = into
  BY DEF Made
<1>2. \A m \in done : of(m) \in S /\ of(m).mention = m
  OBVIOUS
<1> HIDE DEF of
<1>3. ASSUME NEW m \in Mentions, NEW c \in S, c.mention = m
      PROVE  \E b \in S :
               /\ b.mention = m /\ link'[m] = b.to /\ selected'[m] = b.to
               /\ decision'[m] = Status(who, b.act)
               /\ seen'[m] = IF who = "resolver" THEN b.seen ELSE seen[m]
  <2>1. m \in done
    BY <1>3
  <2>2. of(m) \in S /\ of(m).mention = m
    BY <2>1, <1>2
  <2>3. link'[m] = of(m).to /\ selected'[m] = of(m).to /\ decision'[m] = Status(who, of(m).act)
    BY <2>1, <1>1
  <2>4. seen'[m] = IF who = "resolver" THEN of(m).seen ELSE seen[m]
    BY <2>1, <1>1
  <2> QED
    BY <2>2, <2>3, <2>4
<1>4. \A m \in Mentions : (\A b \in S : b.mention # m) => seen'[m] = seen[m]
  BY <1>1
<1> QED
  BY <1>1, <1>3, <1>4

LEMMA InitPInv == Init => PInv
<1> SUFFICES ASSUME Init PROVE PInv
  OBVIOUS
<1>1. Persons = {}
  BY DEF Init, Persons
<1>2. PlansNamePersons
  BY ActorsApart DEF Init, PlansNamePersons, Reviewing
<1> QED
  BY <1>1, <1>2, ResolutionAssumption
     DEF Init, PInv, MergeTypes, RecordsNamePersons, LinkedWhenDecided, NoCircle

\* A step that writes no record of a person.
LEMMA Unwritten ==
  ASSUME PInv, UNCHANGED records
  PROVE  /\ Persons' = Persons /\ Active' = Active /\ into' \in [Mentions -> Mentions]
         /\ RecordsNamePersons' /\ LinkedWhenDecided' /\ NoCircle'
BY DEF PInv, MergeTypes, records, Persons, Active, RecordsNamePersons, LinkedWhenDecided, NoCircle

\* Persons are never removed, and those of a set of plans are added to them.
LEMMA MadePersons ==
  ASSUME RecordTypes, CreatedWhenDecided, NEW S \in SUBSET Plans,
         NEW who \in {"resolver", "human", "ai"}, Made(S, who)
  PROVE  /\ Persons' = Persons \cup {b.mention : b \in {c \in S : c.act = "create"}}
         /\ Active' = Active \cup {b.mention : b \in {c \in S : c.act = "create"}}
<1>1. \A m \in Mentions : (\E b \in S : b.mention = m /\ b.act = "create") => person'[m] = "active"
  BY MadeFacts
<1>2. \A m \in Mentions : (\A b \in S : b.mention = m => b.act # "create") => person'[m] = person[m]
  BY MadeFacts
<1>3. {b.mention : b \in {c \in S : c.act = "create"}} \subseteq Mentions
  BY DEF Plans
<1> QED
  BY <1>1, <1>2, <1>3 DEF Persons, Active

\* Plans that name persons, or those they create, become records that do.
LEMMA MadeNamesPersons ==
  ASSUME RecordTypes, CreatedWhenDecided, PInv, NEW S \in SUBSET Plans,
         NEW who \in {"resolver", "human", "ai"}, Made(S, who),
         \A b \in S :
           /\ b.act \in {"link", "create"} =>
                b.to \in Persons \cup {c.mention : c \in {d \in S : d.act = "create"}}
           /\ b.act = "review" => b.to = NoOne /\ who = "resolver"
           /\ b.act # "merge"
           /\ who = "resolver" =>
                b.seen \subseteq Persons \cup {c.mention : c \in {d \in S : d.act = "create"}}
  PROVE  /\ into' \in [Mentions -> Mentions] /\ Persons \subseteq Persons'
         /\ RecordsNamePersons' /\ LinkedWhenDecided'
<1> DEFINE new == {b.mention : b \in {c \in S : c.act = "create"}}
<1>1. Persons' = Persons \cup new
  BY MadePersons
<1>2. ASSUME NEW m \in Mentions
      PROVE  /\ link'[m] \in Persons' \cup {NoOne} /\ selected'[m] \in Persons' \cup {NoOne}
             /\ seen'[m] \subseteq Persons'
             /\ link'[m] # NoOne <=> decision'[m] \in {"applied", "reviewed"}
  <2>1. CASE \A b \in S : b.mention # m
    <3>1. /\ link'[m] = link[m] /\ selected'[m] = selected[m] /\ decision'[m] = decision[m]
          /\ seen'[m] = seen[m]
      BY <2>1, MadeFacts, MadeWrites
    <3> QED
      BY <1>1, <3>1 DEF PInv, RecordsNamePersons, LinkedWhenDecided
  <2>2. CASE \E b \in S : b.mention = m
    <3>1. PICK b \in S :
            /\ b.mention = m /\ link'[m] = b.to /\ selected'[m] = b.to
            /\ decision'[m] = Status(who, b.act)
            /\ seen'[m] = IF who = "resolver" THEN b.seen ELSE seen[m]
      BY <2>2, MadeWrites
    <3>2. seen[m] \subseteq Persons /\ new \subseteq Mentions /\ Persons \subseteq Mentions
      BY DEF PInv, RecordsNamePersons, Plans, Persons
    <3>3. b.act \in {"link", "create", "review"}
      BY DEF Plans
    <3>4. CASE b.act = "review"
      <4>1. Status(who, b.act) = "pending"
        BY <3>4 DEF Status
      <4> QED
        BY <1>1, <3>1, <3>2, <3>4, <4>1
    <3>5. CASE b.act \in {"link", "create"}
      <4>1. Status(who, b.act) \in {"applied", "reviewed"}
        BY <3>5 DEF Status
      <4>2. b.to \in Persons' /\ b.to # NoOne
        BY <1>1, <3>2, <3>5, ActorsApart
      <4> QED
        BY <1>1, <3>1, <3>2, <4>1, <4>2
    <3> QED
      BY <3>3, <3>4, <3>5
  <2> QED
    BY <2>1, <2>2
<1>3. into' \in [Mentions -> Mentions]
  BY MadeWrites DEF PInv, MergeTypes
<1> QED
  BY <1>1, <1>2, <1>3 DEF RecordsNamePersons, LinkedWhenDecided

\* New persons are active: they close no circle.
LEMMA MadeNoCircle ==
  ASSUME RecordTypes, CreatedWhenDecided, PInv, NEW S \in SUBSET Plans,
         NEW who \in {"resolver", "human", "ai"}, Made(S, who)
  PROVE  NoCircle'
<1>1. Persons' \ Active' \subseteq Persons \ Active /\ Persons \subseteq Persons'
  BY MadePersons
<1>2. into' = into
  BY MadeWrites
<1> QED
  BY <1>1, <1>2 DEF PInv, NoCircle

\* What a step keeps of the records.
RecordsKept ==
  /\ into' \in [Mentions -> Mentions] /\ Persons \subseteq Persons'
  /\ RecordsNamePersons' /\ LinkedWhenDecided' /\ NoCircle'

LEMMA RecordsStep ==
  ASSUME IInv, PInv, [Next]_vars
  PROVE  RecordsKept
<1> USE DEF IInv, Types
<1>1. CASE UNCHANGED vars
  BY <1>1, Unwritten DEF vars, RecordsKept
<1>2. ASSUME NEW a \in Actors, TakeKey(a)
      PROVE  RecordsKept
  BY <1>2, Unwritten DEF TakeKey, RecordsKept
<1>3. ASSUME NEW w \in Workers, NEW r \in Runs, Begin(w, r)
      PROVE  RecordsKept
  BY <1>3, Unwritten DEF Begin, RecordsKept
<1>4. ASSUME NEW w \in Workers, Locked(w)
      PROVE  RecordsKept
  BY <1>4, Unwritten DEF Locked, RecordsKept
<1>5. ASSUME NEW w \in Workers, NEW m \in Mentions, Reuse(w, m)
      PROVE  RecordsKept
  BY <1>5, Unwritten DEF Reuse, RecordsKept
<1>6. ASSUME NEW w \in Workers, NEW m \in Mentions, PlanMention(w, m)
      PROVE  RecordsKept
  BY <1>6, Unwritten DEF PlanMention, RecordsKept
<1>7. ASSUME NEW w \in Workers, WritePlan(w)
      PROVE  RecordsKept
  BY <1>7, Unwritten DEF WritePlan, RecordsKept
<1>8. ASSUME NEW w \in Workers, Commit(w)
      PROVE  RecordsKept
  <2>1. Made(buffer[w], "resolver") /\ buffer[w] \subseteq Plans
    BY <1>8 DEF Commit, Types, ActorTypes
  <2>2. \A b \in buffer[w] : Resolution(b) /\ NamesKnown(w, b)
    BY DEF WorkersFirst, PInv, PlansNamePersons
  <2>3. \A b \in buffer[w] : b.act = "create" => b.to \in Created(w)
    BY <2>2 DEF Resolution, Created
  <2> QED
    BY <2>1, <2>2, <2>3, MadeNamesPersons, MadeNoCircle
       DEF Resolution, NamesKnown, Created, Types, RecordsKept
<1>9. ASSUME NEW w \in Workers, Abort(w)
      PROVE  RecordsKept
  BY <1>9, Unwritten DEF Abort, Release, RecordsKept
<1>10. ASSUME NEW v \in Reviewers, NEW x \in Plans, Word(x), Submit(v, x)
      PROVE  RecordsKept
  BY <1>10, Unwritten DEF Submit, RecordsKept
<1>11. ASSUME NEW v \in Reviewers, NEW m \in Mentions, Ask(v, m)
      PROVE  RecordsKept
  BY <1>11, Unwritten DEF Ask, RecordsKept
<1>12. ASSUME NEW v \in Reviewers, Skip(v)
      PROVE  RecordsKept
  BY <1>12, Unwritten DEF Skip, Release, RecordsKept
<1>13. ASSUME NEW v \in Reviewers, ApplyLink(v)
      PROVE  RecordsKept
  <2>1. Made({plan[v]}, Who(v)) /\ plan[v] \in Plans /\ Who(v) \in {"human", "ai"}
    BY <1>13 DEF ApplyLink, ReviewsApart, Reviewing, Word, Who
  <2>2. plan[v].act = "link" /\ plan[v].to \in Persons
    BY <1>13 DEF ApplyLink, PInv, PlansNamePersons, Reviewing
  <2> QED
    BY <2>1, <2>2, MadeNamesPersons, MadeNoCircle DEF Types, RecordsKept
<1>14. ASSUME NEW v \in Reviewers, ApplyCreate(v)
      PROVE  RecordsKept
  <2>1. Made({plan[v]}, Who(v)) /\ plan[v] \in Plans /\ Who(v) \in {"human", "ai"}
    BY <1>14 DEF ApplyCreate, ReviewsApart, Reviewing, Word, Who
  <2>2. plan[v].act = "create" /\ plan[v].to = plan[v].mention
    BY <1>14 DEF ApplyCreate, ReviewsApart, Reviewing, Word
  <2> QED
    BY <2>1, <2>2, MadeNamesPersons, MadeNoCircle DEF Types, RecordsKept
<1>15. ASSUME NEW v \in Reviewers, ApplyMerge(v)
      PROVE  RecordsKept
  <2> DEFINE x == plan[v]
  <2>1. /\ x.from \in Active /\ x.to \in Active /\ x.from # x.to /\ x.mention \in Mentions
        /\ x.from \in Mentions /\ x.to \in Mentions
    BY <1>15 DEF ApplyMerge, StillActive, ReviewsApart, Reviewing, Word, Plans, Active
  <2>2. /\ person' = [person EXCEPT ![x.from] = "merged"]
        /\ into' = [into EXCEPT ![x.from] = x.to]
        /\ link' = [m \in Mentions |-> IF m = x.mention THEN x.to ELSE Moved(x, m)]
        /\ selected' = [selected EXCEPT ![x.mention] = x.to]
        /\ decision' = [decision EXCEPT ![x.mention] = "reviewed"]
        /\ seen' = seen
    BY <1>15 DEF ApplyMerge
  <2> HIDE DEF x
  <2>3. Persons' = Persons /\ Active' = Active \ {x.from}
    BY <2>1, <2>2 DEF Types, RecordTypes, Persons, Active
  <2>4. into' \in [Mentions -> Mentions]
    BY <2>1, <2>2 DEF PInv, MergeTypes
  <2>5. RecordsNamePersons'
    BY <2>1, <2>2, <2>3 DEF Moved, PInv, RecordsNamePersons, Types, RecordTypes, Active, Persons
  <2>6. LinkedWhenDecided'
    BY <2>1, <2>2, ActorsApart DEF Moved, PInv, LinkedWhenDecided, Types, RecordTypes
  <2>7. ASSUME NEW S \in SUBSET (Persons' \ Active'), S # {}
        PROVE  \E p \in S : into'[p] \in Persons' \ S
    <3>1. CASE x.from \in S
      <4>1. into'[x.from] = x.to /\ x.to \in Persons
        BY <2>1, <2>2 DEF PInv, MergeTypes, Active, Persons
      <4>2. x.to \notin S
        BY <2>1, <2>3
      <4> QED
        BY <3>1, <4>1, <4>2, <2>3
    <3>2. CASE x.from \notin S
      <4>1. S \in SUBSET (Persons \ Active)
        BY <3>2, <2>3
      <4>2. PICK p \in S : into[p] \in Persons \ S
        BY <4>1, <2>7 DEF PInv, NoCircle
      <4>3. into'[p] = into[p]
        BY <3>2, <4>1, <2>2 DEF PInv, MergeTypes, Persons
      <4> QED
        BY <4>2, <4>3, <2>3
    <3> QED
      BY <3>1, <3>2
  <2> QED
    BY <2>3, <2>4, <2>5, <2>6, <2>7 DEF NoCircle, RecordsKept
<1>16. ASSUME NEW v \in Reviewers, MergeConflict(v)
      PROVE  RecordsKept
  BY <1>16, Unwritten DEF MergeConflict, Release, RecordsKept
<1>17. ASSUME NEW v \in Reviewers, SubmitWord(v) \/ Answer(v)
       PROVE  \E x \in Plans : Word(x) /\ Submit(v, x)
  BY <1>17, SubmitsWord
<1> QED
  BY <1>1, <1>2, <1>3, <1>4, <1>5, <1>6, <1>7, <1>8, <1>9, <1>10, <1>11, <1>12, <1>13,
     <1>14, <1>15, <1>16, <1>17, ActorsApart DEF Next, Resolve, ApplyReview

\* A worker decides for a person it sees, and names candidates it sees.
LEMMA DecideNamesKnown ==
  ASSUME NEW w \in Workers, NEW m \in Mentions, NEW y \in Decide(w, m)
  PROVE  NamesKnown(w, y)
<1> DEFINE C == Candidates(w, NameOf[m])
<1>1. C \subseteq Persons \cup Created(w)
  BY DEF Candidates, Visible, Active, Persons
<1>2. y = Create(m, {}) \/ y = Review(m, {}) \/ y = Review(m, C) \/ \E p \in C : y = Link(m, p, C)
  BY DEF Decide
<1> QED
  BY <1>1, <1>2 DEF NamesKnown, Create, Review, Link

\* What a reviewer submits names persons.
LEMMA SubmitsPersons ==
  ASSUME Types, ReviewsApart, PInv, NEW v \in Reviewers, SubmitWord(v) \/ Answer(v)
  PROVE  \E x \in Plans :
           /\ Submit(v, x)
           /\ x.act = "link" => x.to \in Persons
           /\ x.act = "merge" => {x.from, x.to} \subseteq Persons
<1>1. CASE SubmitWord(v)
  <2>1. PICK m \in Mentions : \E x \in Choices(m) : Submit(v, x)
    BY <1>1 DEF SubmitWord
  <2>2. PICK x \in Choices(m) : Submit(v, x)
    BY <2>1
  <2>3. /\ x.act = "link" => x.to \in Persons
        /\ x.act = "merge" => {x.from, x.to} \subseteq Persons
    BY DEF Choices, Link, Create, Merge
  <2> QED
    BY <2>2, <2>3, ChoicesAreWords DEF Word
<1>2. CASE Answer(v)
  BY <1>2 DEF Answer, ReviewsApart, Word, PInv, PlansNamePersons
<1> QED
  BY <1>1, <1>2

LEMMA PlansStep ==
  ASSUME IInv, PInv, [Next]_vars
  PROVE  PlansNamePersons'
<1> USE DEF IInv, Types
<1>1. CASE UNCHANGED vars
  BY <1>1, Unwritten DEF vars, PInv, PlansNamePersons, NamesKnown, Created, Reviewing
<1>2. ASSUME NEW a \in Actors, TakeKey(a)
      PROVE  PlansNamePersons'
  BY <1>2, Unwritten, ActorsApart DEF TakeKey, ActorTypes, PInv, PlansNamePersons, NamesKnown, Created, Reviewing
<1>3. ASSUME NEW w \in Workers, NEW r \in Runs, Begin(w, r)
      PROVE  PlansNamePersons'
  BY <1>3, Unwritten, ActorsApart DEF Begin, ActorTypes, PInv, PlansNamePersons, NamesKnown, Created, Reviewing
<1>4. ASSUME NEW w \in Workers, Locked(w)
      PROVE  PlansNamePersons'
  BY <1>4, Unwritten, ActorsApart DEF Locked, ActorTypes, PInv, PlansNamePersons, NamesKnown, Created, Reviewing
<1>5. ASSUME NEW w \in Workers, NEW m \in Mentions, Reuse(w, m)
      PROVE  PlansNamePersons'
  BY <1>5, Unwritten, ActorsApart DEF Reuse, ActorTypes, PInv, PlansNamePersons, NamesKnown, Created, Reviewing
<1>6. ASSUME NEW w \in Workers, NEW m \in Mentions, PlanMention(w, m)
      PROVE  PlansNamePersons'
  <2>1. PICK y \in Decide(w, m) : plan' = [plan EXCEPT ![w] = y]
    BY <1>6 DEF PlanMention
  <2>2. NamesKnown(w, y)
    BY <2>1, DecideNamesKnown
  <2>3. plan'[w] = y /\ \A a \in Actors \ {w} : plan'[a] = plan[a] /\ pc'[a] = pc[a]
    BY <1>6, <2>1, ActorsApart DEF PlanMention, ActorTypes
  <2> QED
    BY <1>6, <2>2, <2>3, Unwritten, ActorsApart
       DEF PlanMention, PInv, PlansNamePersons, NamesKnown, Created, Reviewing
<1>7. ASSUME NEW w \in Workers, WritePlan(w)
      PROVE  PlansNamePersons'
  <2>1. NamesKnown(w, plan[w]) /\ buffer'[w] = buffer[w] \cup {plan[w]} /\ pc'[w] = "resolving"
    BY <1>7, ActorsApart DEF WritePlan, PInv, PlansNamePersons, ActorTypes
  <2>2. Created(w) \subseteq Created(w)' /\ Persons' = Persons
    BY <1>7, <2>1, Unwritten DEF WritePlan, Created
  <2>3. /\ \A u \in Workers \ {w} : buffer'[u] = buffer[u]
        /\ \A a \in Actors \ {w} : plan'[a] = plan[a] /\ pc'[a] = pc[a]
    BY <1>7, ActorsApart DEF WritePlan, ActorTypes
  <2>4. \A u \in Workers \ {w} : Created(u)' = Created(u)
    BY <2>3 DEF Created
  <2> QED
    BY <2>1, <2>2, <2>3, <2>4, ActorsApart DEF PInv, PlansNamePersons, NamesKnown, Reviewing
<1>8. ASSUME NEW w \in Workers, Commit(w)
      PROVE  PlansNamePersons'
  <2>1. /\ buffer'[w] = {} /\ pc'[w] = "idle"
        /\ \A u \in Workers \ {w} : buffer'[u] = buffer[u]
        /\ \A a \in Actors \ {w} : plan'[a] = plan[a] /\ pc'[a] = pc[a]
    BY <1>8, ActorsApart DEF Commit, Release, ActorTypes
  <2>2. \A u \in Workers \ {w} : Created(u)' = Created(u)
    BY <2>1 DEF Created
  <2> QED
    BY <2>1, <2>2, RecordsStep, ActorsApart
       DEF RecordsKept, PInv, PlansNamePersons, NamesKnown, Reviewing
<1>9. ASSUME NEW w \in Workers, Abort(w)
      PROVE  PlansNamePersons'
  <2>1. /\ buffer'[w] = {} /\ pc'[w] = "idle"
        /\ \A u \in Workers \ {w} : buffer'[u] = buffer[u]
        /\ \A a \in Actors \ {w} : plan'[a] = plan[a] /\ pc'[a] = pc[a]
    BY <1>9, ActorsApart DEF Abort, Release, ActorTypes
  <2>2. \A u \in Workers \ {w} : Created(u)' = Created(u)
    BY <2>1 DEF Created
  <2> QED
    BY <2>1, <2>2, RecordsStep, ActorsApart
       DEF RecordsKept, PInv, PlansNamePersons, NamesKnown, Reviewing
<1>10. ASSUME NEW v \in Reviewers, SubmitWord(v) \/ Answer(v)
      PROVE  PlansNamePersons'
  <2>1. PICK x \in Plans :
          /\ Submit(v, x)
          /\ x.act = "link" => x.to \in Persons
          /\ x.act = "merge" => {x.from, x.to} \subseteq Persons
    BY <1>10, SubmitsPersons
  <2>2. plan'[v] = x /\ \A a \in Actors \ {v} : plan'[a] = plan[a] /\ pc'[a] = pc[a]
    BY <2>1, ActorsApart DEF Submit, ActorTypes
  <2> QED
    BY <2>1, <2>2, Unwritten, ActorsApart
       DEF Submit, PInv, PlansNamePersons, NamesKnown, Created, Reviewing
<1>11. ASSUME NEW v \in Reviewers, NEW m \in Mentions, Ask(v, m)
      PROVE  PlansNamePersons'
  <2>1. PICK y \in {Link(m, p, {}) : p \in IF Namesakes(m, seen[m]) THEN {} ELSE seen[m] \cap Active}
                  \cup {z \in {Create(m, {})} : NameOf[m] \in Complete} :
          plan' = [plan EXCEPT ![v] = y]
    BY <1>11 DEF Ask
  <2>2. (y.act = "link" /\ y.to \in Persons) \/ y.act = "create"
    BY <2>1 DEF Link, Create, Active, Persons
  <2>3. plan'[v] = y /\ \A a \in Actors \ {v} : plan'[a] = plan[a] /\ pc'[a] = pc[a]
    BY <1>11, <2>1, ActorsApart DEF Ask, ActorTypes
  <2> QED
    BY <1>11, <2>2, <2>3, Unwritten, ActorsApart
       DEF Ask, PInv, PlansNamePersons, NamesKnown, Created, Reviewing
<1>12. ASSUME NEW v \in Reviewers, Skip(v)
      PROVE  PlansNamePersons'
  <2>1. /\ pc'[v] = "idle" /\ buffer' = buffer
        /\ \A a \in Actors \ {v} : plan'[a] = plan[a] /\ pc'[a] = pc[a]
    BY <1>12, ActorsApart DEF Skip, Release, ActorTypes
  <2> QED
    BY <2>1, RecordsStep, ActorsApart
       DEF RecordsKept, PInv, PlansNamePersons, NamesKnown, Created, Reviewing
<1>13. ASSUME NEW v \in Reviewers, ApplyLink(v)
      PROVE  PlansNamePersons'
  <2>1. /\ pc'[v] = "idle" /\ buffer' = buffer
        /\ \A a \in Actors \ {v} : plan'[a] = plan[a] /\ pc'[a] = pc[a]
    BY <1>13, ActorsApart DEF ApplyLink, Release, ActorTypes
  <2> QED
    BY <2>1, RecordsStep, ActorsApart
       DEF RecordsKept, PInv, PlansNamePersons, NamesKnown, Created, Reviewing
<1>14. ASSUME NEW v \in Reviewers, ApplyCreate(v)
      PROVE  PlansNamePersons'
  <2>1. /\ pc'[v] = "idle" /\ buffer' = buffer
        /\ \A a \in Actors \ {v} : plan'[a] = plan[a] /\ pc'[a] = pc[a]
    BY <1>14, ActorsApart DEF ApplyCreate, Release, ActorTypes
  <2> QED
    BY <2>1, RecordsStep, ActorsApart
       DEF RecordsKept, PInv, PlansNamePersons, NamesKnown, Created, Reviewing
<1>15. ASSUME NEW v \in Reviewers, ApplyMerge(v)
      PROVE  PlansNamePersons'
  <2>1. /\ pc'[v] = "idle" /\ buffer' = buffer
        /\ \A a \in Actors \ {v} : plan'[a] = plan[a] /\ pc'[a] = pc[a]
    BY <1>15, ActorsApart DEF ApplyMerge, Release, ActorTypes
  <2> QED
    BY <2>1, RecordsStep, ActorsApart
       DEF RecordsKept, PInv, PlansNamePersons, NamesKnown, Created, Reviewing
<1>16. ASSUME NEW v \in Reviewers, MergeConflict(v)
      PROVE  PlansNamePersons'
  <2>1. /\ pc'[v] = "idle" /\ buffer' = buffer
        /\ \A a \in Actors \ {v} : plan'[a] = plan[a] /\ pc'[a] = pc[a]
    BY <1>16, ActorsApart DEF MergeConflict, Release, ActorTypes
  <2> QED
    BY <2>1, RecordsStep, ActorsApart
       DEF RecordsKept, PInv, PlansNamePersons, NamesKnown, Created, Reviewing
<1> QED
  BY <1>1, <1>2, <1>3, <1>4, <1>5, <1>6, <1>7, <1>8, <1>9, <1>10, <1>11, <1>12, <1>13,
     <1>14, <1>15, <1>16, ActorsApart DEF Next, Resolve, ApplyReview

\* Only a worker that fails counts.
LEMMA AbortsStep ==
  ASSUME PInv, [Next]_vars
  PROVE  aborts' \in 0..MaxAborts
<1>1. ASSUME NEW w \in Workers, Abort(w)
      PROVE  aborts' \in 0..MaxAborts
  BY <1>1, ResolutionAssumption DEF Abort, PInv, MergeTypes
<1>2. ASSUME ~\E w \in Workers : Abort(w)
      PROVE  aborts' = aborts
  BY <1>2 DEF Next, vars, Resolve, ApplyReview, TakeKey, Locked, WritePlan, Commit, Reuse, PlanMention,
     Begin, SubmitWord, Answer, Submit, Skip, ApplyLink, ApplyCreate, ApplyMerge, MergeConflict, Ask
<1> QED
  BY <1>1, <1>2 DEF PInv, MergeTypes

LEMMA PersonSteps == IInv /\ PInv /\ [Next]_vars => PInv'
<1> SUFFICES ASSUME IInv, PInv, [Next]_vars
             PROVE  PInv'
  OBVIOUS
<1>1. RecordsKept /\ PlansNamePersons' /\ aborts' \in 0..MaxAborts
  BY RecordsStep, PlansStep, AbortsStep
<1> QED
  BY <1>1 DEF RecordsKept, PInv, MergeTypes

\* What is written and what is about to be written names persons.
THEOREM PersonsInvariant == Spec => [](IInv /\ PInv)
<1>1. Init => IInv /\ PInv
  BY InitIInv, InitPInv
<1>2. IInv /\ PInv /\ [Next]_vars => (IInv /\ PInv)'
  BY Steps, PersonSteps
<1> QED
  BY <1>1, <1>2, PTL DEF Spec

\* Every merged person leads to an active one, whatever merges cross each other
\* (merge_persons_in_session).
THEOREM SpecMergesLeadToActive == Spec => []MergesLeadToActive
<1>1. IInv /\ PInv => TypeOK
  <2> SUFFICES ASSUME IInv, PInv PROVE TypeOK
    OBVIOUS
  <2>1. RecordTypes /\ ActorTypes
    BY DEF IInv, Types
  <2>2. /\ link \in [Mentions -> Persons \cup {NoOne}]
        /\ selected \in [Mentions -> Persons \cup {NoOne}]
        /\ seen \in [Mentions -> SUBSET Persons]
    BY <2>1 DEF RecordTypes, PInv, RecordsNamePersons
  <2> QED
    BY <2>1, <2>2 DEF RecordTypes, ActorTypes, PInv, MergeTypes, LinkedWhenDecided, TypeOK
<1>2. IInv /\ PInv => MergesLeadToActive
  BY <1>1 DEF PInv, NoCircle, MergesLeadToActive
<1> QED
  BY PersonsInvariant, <1>2, PTL

-----------------------------------------------------------------------------
(* The register of identities.                                             *)

\* The steps that write records.
LEMMA WhatWrites ==
  ASSUME [Next]_vars
  PROVE  \/ UNCHANGED records
         \/ \E w \in Workers : Commit(w)
         \/ \E v \in Reviewers : ApplyLink(v) \/ ApplyCreate(v) \/ ApplyMerge(v)
BY DEF Next, vars, Resolve, ApplyReview, TakeKey, Locked, WritePlan, Reuse, PlanMention, Abort,
   Begin, SubmitWord, Answer, Submit, Skip, MergeConflict, Ask

\* A mention that waits for a reviewer has no person of its own yet.
PendingHasNone == \A m \in Mentions : decision[m] = "pending" => person[m] = "none"

\* What a worker commits leaves the mentions that wait without a person.
LEMMA CommitPending ==
  ASSUME IInv, PendingHasNone, NEW w \in Workers, Commit(w)
  PROVE  PendingHasNone'
<1>1. Made(buffer[w], "resolver") /\ buffer[w] \in SUBSET Plans /\ RecordTypes
  BY DEF Commit, IInv, Types, ActorTypes
<1> SUFFICES ASSUME NEW m \in Mentions, decision'[m] = "pending" PROVE person'[m] = "none"
  BY DEF PendingHasNone
<1>2. CASE \A b \in buffer[w] : b.mention # m
  BY <1>1, <1>2, MadeFacts DEF PendingHasNone
<1>3. CASE \E b \in buffer[w] : b.mention = m
  <2>1. PICK b \in buffer[w] : b.mention = m /\ decision'[m] = Status("resolver", b.act)
    BY <1>1, <1>3, MadeWrites
  <2>2. b.act = "review"
    BY <2>1 DEF Status
  <2>3. \A c \in buffer[w] : c.mention = m => c.act # "create"
    BY <2>1, <2>2 DEF IInv, WorkersFirst
  <2>4. person'[m] = person[m]
    BY <1>1, <2>3, MadeFacts
  <2>5. decision[m] = "none"
    BY <2>1 DEF IInv, WorkersFirst
  <2> QED  BY <2>4, <2>5 DEF IInv, CreatedWhenDecided
<1> QED  BY <1>2, <1>3

\* A reviewer's outcome leaves the other mentions as they were.
LEMMA OutcomePending ==
  ASSUME IInv, PendingHasNone, NEW v \in Reviewers, ApplyLink(v) \/ ApplyCreate(v) \/ ApplyMerge(v)
  PROVE  PendingHasNone'
<1> SUFFICES ASSUME NEW m \in Mentions, decision'[m] = "pending" PROVE person'[m] = "none"
  BY DEF PendingHasNone
<1>1. plan[v] \in Plans /\ plan[v].act # "review" /\ RecordTypes
  BY DEF ApplyLink, ApplyCreate, ApplyMerge, IInv, Types, ReviewsApart, Reviewing, Word
<1>2. CASE ApplyLink(v) \/ ApplyCreate(v)
  <2>1. Made({plan[v]}, Who(v)) /\ Who(v) \in {"human", "ai"}
    BY <1>2 DEF ApplyLink, ApplyCreate, Who
  <2>2. CASE plan[v].mention = m
    <3>1. decision'[m] = Status(Who(v), plan[v].act)
      BY <1>1, <2>1, <2>2, MadeWrites
    <3> QED  BY <1>1, <2>1, <3>1 DEF Status
  <2>3. CASE plan[v].mention # m
    BY <1>1, <2>1, <2>3, MadeFacts DEF PendingHasNone
  <2> QED  BY <2>2, <2>3
<1>3. CASE ApplyMerge(v)
  <2>1. plan[v].from \in Active /\ person' = [person EXCEPT ![plan[v].from] = "merged"]
        /\ decision' = [decision EXCEPT ![plan[v].mention] = "reviewed"]
    BY <1>3 DEF ApplyMerge, StillActive
  <2>2. decision[m] = "pending"
    BY <1>1, <2>1 DEF RecordTypes
  <2>3. person[m] = "none"
    BY <2>2 DEF PendingHasNone
  <2> QED  BY <1>1, <2>1, <2>3 DEF Active, RecordTypes
<1> QED  BY <1>2, <1>3

\* So it stays, whatever is written (resolve_mention, apply, merge_persons_in_session).
LEMMA PendingStep ==
  ASSUME IInv, PendingHasNone, [Next]_vars
  PROVE  PendingHasNone'
<1>1. CASE UNCHANGED records
  BY <1>1 DEF records, PendingHasNone
<1> QED  BY <1>1, WhatWrites, CommitPending, OutcomePending

\* What was said of a mention is final when it is decided.
LEMMA SaidOf ==
  ASSUME RecordTypes
  PROVE  \A m \in Mentions :
           /\ Said[m] = "none" <=> decision[m] = "none"
           /\ Said[m] = "pending" <=> decision[m] = "pending"
           /\ Said[m] = "final" <=> decision[m] \in {"applied", "reviewed"}
BY DEF RecordTypes, Said

\* A worker's commit decides mentions nobody had decided, with new persons that are alone
\* with their names.
LEMMA CommitResolves ==
  ASSUME IInv, PInv, NEW w \in Workers, Commit(w), RecordsKept
  PROVE  Register!Resolve
<1> DEFINE done == {b.mention : b \in buffer[w]}
           new == Created(w)
<1>1. Made(buffer[w], "resolver") /\ buffer[w] \in SUBSET Plans /\ RecordTypes /\ RecordTypes'
  BY MadeFacts DEF Commit, IInv, Types, ActorTypes
<1>2. \A b \in buffer[w] :
        /\ b.mention \in Mentions /\ decision[b.mention] = "none" /\ Resolution(b) /\ New(w, b)
        /\ \A c \in buffer[w] : b.mention = c.mention => b = c
  BY <1>1 DEF IInv, WorkersFirst, NamesAreNew, Plans
<1>3. done \in SUBSET {m \in Mentions : Said[m] = "none"} /\ new \in SUBSET done
  BY <1>1, <1>2, SaidOf DEF Created
<1>4. Register!Enter(new)
  BY <1>1 DEF Made, Created, Register!Enter
<1>5. ASSUME NEW p \in new, NEW q \in Mentions \ {p}, person'[q] = "active"
      PROVE  NameOf[p] \notin known'[q]
  <2>1. PICK b \in buffer[w] : b.act = "create" /\ b.mention = p
    BY DEF Created
  <2>2. CASE q \in new
    <3>1. PICK c \in buffer[w] : c.act = "create" /\ c.mention = q
      BY <2>2 DEF Created
    <3>2. known'[q] = {NameOf[q]}
      BY <1>1, <3>1, MadeFacts
    <3>3. c # b /\ NameOf[q] # NameOf[p]
      BY <1>2, <2>1, <3>1, <1>5 DEF New
    <3> QED  BY <3>2, <3>3
  <2>3. CASE q \notin new
    <3>1. person'[q] = person[q] /\ known'[q] = known[q]
      BY <1>1, <2>3, MadeFacts DEF Created
    <3>2. q \in Active
      BY <1>5, <3>1 DEF Active
    <3> QED  BY <1>2, <2>1, <3>1, <3>2 DEF New
  <2> QED  BY <2>2, <2>3
<1>6. Register!Registered' = Persons'
  BY DEF Register!Registered, Persons
<1>7. link' \in [Mentions -> Register!Registered' \cup {NoOne}]
  BY <1>1, <1>6 DEF RecordTypes, RecordsKept, RecordsNamePersons
<1>8. \A m \in new : link'[m] = m
  <2> SUFFICES ASSUME NEW m \in new PROVE link'[m] = m
    OBVIOUS
  <2>1. PICK c \in buffer[w] : c.act = "create" /\ c.mention = m
    BY DEF Created
  <2>2. m \in Mentions /\ c.to = m
    BY <1>2, <2>1 DEF Resolution
  <2>3. PICK b \in buffer[w] : b.mention = m /\ link'[m] = b.to
    BY <1>1, <2>1, <2>2, MadeWrites
  <2> QED  BY <1>2, <2>1, <2>2, <2>3
<1>9. \A m \in Mentions \ done :
        link'[m] = link[m] /\ selected'[m] = selected[m] /\ decision'[m] = decision[m]
  BY <1>1, MadeFacts
<1>10. ASSUME NEW m \in done
       PROVE  /\ selected'[m] = link'[m]
              /\ decision'[m] = IF link'[m] = NoOne THEN "pending" ELSE "applied"
  <2>1. m \in Mentions
    BY <1>3
  <2>2. PICK b \in buffer[w] : /\ link'[m] = b.to /\ selected'[m] = b.to
                               /\ decision'[m] = Status("resolver", b.act)
    BY <1>1, <2>1, MadeWrites
  <2>3. decision'[m] \in {"pending", "applied"}
    BY <2>2 DEF Status
  <2>4. link'[m] # NoOne <=> decision'[m] \in {"applied", "reviewed"}
    BY <2>1 DEF RecordsKept, LinkedWhenDecided
  <2> QED  BY <2>2, <2>3, <2>4
<1> HIDE DEF done, new
<1>11. selected' = [m \in Mentions |-> IF m \in done THEN link'[m] ELSE selected[m]]
  BY <1>1, <1>9, <1>10 DEF RecordTypes
<1>12. Said' = [m \in Mentions |->
         IF m \in done THEN IF link'[m] = NoOne THEN "pending" ELSE "final" ELSE Said[m]]
  <2>1. \A m \in Mentions :
          (IF decision'[m] \in {"applied", "reviewed"} THEN "final" ELSE decision'[m])
          = IF m \in done THEN IF link'[m] = NoOne THEN "pending" ELSE "final" ELSE Said[m]
    BY <1>9, <1>10 DEF Said
  <2> QED  BY <2>1 DEF Said
<1> QED
  BY <1>3, <1>4, <1>5, <1>7, <1>8, <1>9, <1>11, <1>12 DEF Register!Resolve

\* What a reviewer does to the decision of one mention.
LEMMA ReviewSettles ==
  ASSUME RecordTypes, NEW m \in Mentions, NEW p, decision[m] = "pending",
         decision' = [decision EXCEPT ![m] = "reviewed"], selected' = [selected EXCEPT ![m] = p]
  PROVE  Register!Settle(m, p)
<1>1. Said[m] = "pending"
  BY SaidOf
<1>2. Said' = [Said EXCEPT ![m] = "final"]
  BY DEF Said, RecordTypes
<1> QED  BY <1>1, <1>2 DEF Register!Settle

\* A plan of a reviewer, made visible alone.
LEMMA MadeAlone ==
  ASSUME RecordTypes, NEW x \in Plans, x.act # "review", NEW who \in {"human", "ai"},
         Made({x}, who)
  PROVE  /\ link' = [link EXCEPT ![x.mention] = x.to]
         /\ selected' = [selected EXCEPT ![x.mention] = x.to]
         /\ decision' = [decision EXCEPT ![x.mention] = "reviewed"]
         /\ Register!Enter(IF x.act = "create" THEN {x.mention} ELSE {})
<1> DEFINE of(m) == CHOOSE b \in {x} : b.mention = m
           new == {b.mention : b \in {c \in {x} : c.act = "create"}}
           done == {b.mention : b \in {x}}
<1>1. done = {x.mention} /\ new = IF x.act = "create" THEN {x.mention} ELSE {}
  OBVIOUS
<1>2. of(x.mention) = x
  OBVIOUS
<1>3. Status(who, x.act) = "reviewed"
  BY DEF Status
<1>4. /\ person' = [p \in Mentions |-> IF p \in new THEN "active" ELSE person[p]]
      /\ known' = [p \in Mentions |-> IF p \in new THEN {NameOf[p]} ELSE known[p]]
      /\ link' = [m \in Mentions |-> IF m \in done THEN of(m).to ELSE link[m]]
      /\ selected' = [m \in Mentions |-> IF m \in done THEN of(m).to ELSE selected[m]]
      /\ decision' = [m \in Mentions |->
           IF m \in done THEN Status(who, of(m).act) ELSE decision[m]]
      /\ UNCHANGED into
  BY DEF Made
<1>5. Register!Enter(new)
  BY <1>4 DEF Register!Enter
<1> HIDE DEF of, new, done
<1>6. \A m \in done : m = x.mention
  BY <1>1
<1>7. link' = [link EXCEPT ![x.mention] = x.to]
  BY <1>1, <1>2, <1>4, <1>6 DEF RecordTypes
<1>8. selected' = [selected EXCEPT ![x.mention] = x.to]
  BY <1>1, <1>2, <1>4, <1>6 DEF RecordTypes
<1>9. decision' = [decision EXCEPT ![x.mention] = "reviewed"]
  BY <1>1, <1>2, <1>3, <1>4, <1>6 DEF RecordTypes
<1> QED  BY <1>1, <1>5, <1>7, <1>8, <1>9

\* A review decides one mention that waited, for a person there is or one of its own.
LEMMA ReviewDecides ==
  ASSUME IInv, PInv, PendingHasNone, NEW v \in Reviewers, ApplyLink(v) \/ ApplyCreate(v)
  PROVE  Register!Review(plan[v].mention) /\ plan[v].mention \in Mentions
<1> DEFINE x == plan[v]
<1>1. /\ x \in Plans /\ Word(x) /\ x.mention \in Mentions /\ decision[x.mention] = "pending"
      /\ RecordTypes /\ Made({x}, Who(v)) /\ Who(v) \in {"human", "ai"}
  BY DEF ApplyLink, ApplyCreate, IInv, Types, ReviewsApart, Reviewing, Word, Plans, Who
<1>2. \/ x.act = "link" /\ x.to \in Persons
      \/ x.act = "create" /\ x.to = x.mention
  BY DEF ApplyLink, ApplyCreate, IInv, ReviewsApart, PInv, PlansNamePersons, Reviewing, Word
<1> HIDE DEF x
<1>3. /\ link' = [link EXCEPT ![x.mention] = x.to]
      /\ Register!Enter(IF x.act = "create" THEN {x.mention} ELSE {})
      /\ selected' = [selected EXCEPT ![x.mention] = x.to]
      /\ decision' = [decision EXCEPT ![x.mention] = "reviewed"]
  BY <1>1, MadeAlone DEF Word
<1>4. Register!Settle(x.mention, x.to)
  BY <1>1, <1>3, ReviewSettles
<1>5. CASE x.act = "link"
  <2>1. x.to \in Register!Registered /\ Register!Enter({})
    BY <1>2, <1>3, <1>5 DEF Register!Registered, Persons
  <2> QED  BY <1>1, <1>3, <1>4, <2>1 DEF Register!Review, x
<1>6. CASE x.act = "create"
  <2>1. x.to = x.mention /\ Register!Enter({x.mention})
    BY <1>2, <1>3, <1>6
  <2>2. x.mention \notin Register!Registered
    BY <1>1 DEF PendingHasNone, Register!Registered
  <2> QED  BY <1>1, <1>3, <1>4, <2>1, <2>2 DEF Register!Review, x
<1> QED  BY <1>2, <1>5, <1>6

\* A merge makes one of two active persons and decides the mention it was said of.
LEMMA MergeUnites ==
  ASSUME IInv, NEW v \in Reviewers, ApplyMerge(v)
  PROVE  /\ {plan[v].mention, plan[v].from, plan[v].to} \subseteq Mentions
         /\ Register!Unite(plan[v].mention, plan[v].from, plan[v].to)
<1> DEFINE x == plan[v]
<1>1. /\ x \in Plans /\ x.from # x.to /\ {x.mention, x.from, x.to} \subseteq Mentions
      /\ {x.from, x.to} \subseteq Active /\ decision[x.mention] = "pending" /\ RecordTypes
  BY DEF ApplyMerge, StillActive, IInv, Types, ReviewsApart, Reviewing, Word, Plans
<1>2. /\ person' = [person EXCEPT ![x.from] = "merged"]
      /\ into' = [into EXCEPT ![x.from] = x.to]
      /\ known' = [known EXCEPT ![x.to] = @ \cup known[x.from]]
      /\ link' = [m \in Mentions |-> IF m = x.mention THEN x.to ELSE Moved(x, m)]
      /\ selected' = [selected EXCEPT ![x.mention] = x.to]
      /\ decision' = [decision EXCEPT ![x.mention] = "reviewed"]
  BY DEF ApplyMerge
<1> HIDE DEF x
<1>3. Register!Settle(x.mention, x.to)
  BY <1>1, <1>2, ReviewSettles
<1>4. {x.from, x.to} \subseteq Register!InUse
  BY <1>1 DEF Register!InUse, Active
<1>5. link' = [n \in Mentions |-> IF n = x.mention \/ link[n] = x.from THEN x.to ELSE link[n]]
  BY <1>2 DEF Moved
<1>6. Register!Unite(x.mention, x.from, x.to)
  BY <1>1, <1>2, <1>3, <1>4, <1>5 DEF Register!Unite
<1> QED  BY <1>1, <1>6 DEF x

\* Before the first resolution the register is empty (PersonRecord).
LEMMA RegisterInit == Init => Register!RegisterInit
<1> SUFFICES ASSUME Init PROVE Register!RegisterInit
  OBVIOUS
<1>1. Said = [m \in Mentions |-> "none"]
  BY DEF Init, Said
<1> QED  BY <1>1 DEF Init, Register!RegisterInit

\* Every transaction is one step of the register or none (resolve_extraction_run, apply).
LEMMA RegisterStep ==
  ASSUME IInv, PInv, PendingHasNone, [Next]_vars
  PROVE  [Register!RegisterNext]_(Register!registerVars)
<1>1. CASE UNCHANGED records
  BY <1>1 DEF records, Register!registerVars, Said
<1>2. ASSUME NEW w \in Workers, Commit(w) PROVE Register!RegisterNext
  BY <1>2, RecordsStep, CommitResolves DEF Register!RegisterNext
<1>3. ASSUME NEW v \in Reviewers, ApplyLink(v) \/ ApplyCreate(v) PROVE Register!RegisterNext
  BY <1>3, ReviewDecides DEF Register!RegisterNext
<1>4. ASSUME NEW v \in Reviewers, ApplyMerge(v) PROVE Register!RegisterNext
  BY <1>4, MergeUnites DEF Register!RegisterNext
<1> QED  BY <1>1, <1>2, <1>3, <1>4, WhatWrites

\* The tables of persons keep the promises of the register, for any workers, reviewers,
\* names, runs and blocks (EntityResolutionService, ReviewService, merge_persons_in_session).
THEOREM RegisterImplemented == Spec => ImplementsRegister
<1>1. Init => Register!RegisterInit /\ PendingHasNone
  BY RegisterInit DEF Init, PendingHasNone
<1>2. IInv /\ PendingHasNone /\ [Next]_vars => PendingHasNone'
  BY PendingStep
<1>3. IInv /\ PInv /\ PendingHasNone /\ [Next]_vars
        => [Register!RegisterNext]_(Register!registerVars)
  BY RegisterStep
<1> QED
  BY <1>1, <1>2, <1>3, PersonsInvariant, PTL DEF Spec, ImplementsRegister, Register!RegisterSpec
=============================================================================
