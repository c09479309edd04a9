--------------------------- MODULE PersonResolution ---------------------------
(***************************************************************************)
(* Person resolution: workers that resolve the mentions of extraction runs *)
(* under identity-block locks, people and a model that review what the     *)
(* workers left undecided, and merges of persons                           *)
(* (court-processing, persons/resolution and persons/persistence.py).      *)
(*                                                                         *)
(* PostgreSQL at READ COMMITTED: a transaction reads what is committed and *)
(* what it wrote itself.  The writes of a worker stay in its buffer until  *)
(* its commit; a review writes at its end.  A person is named by the       *)
(* mention it was created for, which is at most one.                       *)
(***************************************************************************)
EXTENDS Naturals, FiniteSets

CONSTANTS
  Mentions,    \* ids of the person mentions
  NoOne,       \* no person
  NameOf,      \* the name of a mention
  RunOf,       \* its extraction run
  KeysOf,      \* the block keys of a name, in the order they are locked
  Alike,       \* the names whose persons are plausible candidates of a name
  Complete,    \* names with a given name and a surname in full
  Workers,     \* processes that resolve
  People,      \* human reviewers
  Ai,          \* automated reviews, at most one decision of each in flight
  MaxAborts    \* bound: transactions of workers that fail

Reviewers == People \cup Ai
Actors == Workers \cup Reviewers
Runs == {RunOf[m] : m \in Mentions}
Names == {NameOf[m] : m \in Mentions}

ASSUME ResolutionAssumption ==
  /\ IsFiniteSet(Mentions) /\ NoOne \notin Mentions
  /\ KeysOf \in [Names -> SUBSET Nat]
  /\ Alike \in [Names -> SUBSET Names]
  /\ \A n \in Names : n \in Alike[n] /\ IsFiniteSet(KeysOf[n])
  /\ Complete \subseteq Names
  /\ Workers \cap Reviewers = {} /\ People \cap Ai = {}
  /\ MaxAborts \in Nat

\* A block key for every full token of a name; one of initials alone is no name here.
ASSUME KeysAssumption == \A n \in Names : KeysOf[n] # {}

VARIABLES
  person,     \* status of the person created for a mention
  into,       \* merged_into_id; the person itself while it is not merged
  known,      \* names a person has, its own and its aliases
  author,     \* who created the person
  link,       \* entity_mentions.person_id
  decision,   \* status of the mention's decision
  selected,   \* the decision's selected_person_id
  seen,       \* the persons among the decision's candidates
  pc,         \* where an actor's transaction is
  keys,       \* advisory locks it holds
  todo,       \* mentions a worker has not resolved yet
  plan,       \* what a worker or a reviewer is about to write
  buffer,     \* what a worker wrote and has not committed
  aborts      \* transactions of workers that failed

records == <<person, into, known, author, link, decision, selected, seen>>
vars == <<records, pc, keys, todo, plan, buffer, aborts>>

Persons == {p \in Mentions : person[p] # "none"}
Active == {p \in Mentions : person[p] = "active"}

NoPlan == [mention |-> NoOne, act |-> "none", to |-> NoOne, from |-> NoOne, seen |-> {}]
Plans == [mention : Mentions, act : {"link", "create", "merge", "review"},
          to : Mentions \cup {NoOne}, from : Mentions \cup {NoOne}, seen : SUBSET Mentions]
Link(m, p, S) == [mention |-> m, act |-> "link", to |-> p, from |-> NoOne, seen |-> S]
Create(m, S) == [mention |-> m, act |-> "create", to |-> m, from |-> NoOne, seen |-> S]
Review(m, S) == [mention |-> m, act |-> "review", to |-> NoOne, from |-> NoOne, seen |-> S]
Merge(m, p, q) == [mention |-> m, act |-> "merge", to |-> q, from |-> p, seen |-> {}]

\* A person of a mention is created or not as its decision says; a mention is linked
\* when it is decided and only then.
TypeOK ==
  /\ person \in [Mentions -> {"none", "active", "merged"}]
  /\ into \in [Mentions -> Mentions]
  /\ known \in [Mentions -> SUBSET Names]
  /\ author \in [Mentions -> {"none", "resolver", "human", "ai"}]
  /\ link \in [Mentions -> Persons \cup {NoOne}]
  /\ decision \in [Mentions -> {"none", "applied", "pending", "reviewed"}]
  /\ selected \in [Mentions -> Persons \cup {NoOne}]
  /\ seen \in [Mentions -> SUBSET Persons]
  /\ pc \in [Actors -> {"idle", "locking", "resolving", "planned", "asked", "checked"}]
  /\ keys \in [Actors -> SUBSET Nat]
  /\ todo \in [Workers -> SUBSET Mentions]
  /\ plan \in [Actors -> Plans \cup {NoPlan}]
  /\ buffer \in [Workers -> SUBSET Plans]
  /\ aborts \in 0..MaxAborts
  /\ \A m \in Mentions : link[m] # NoOne <=> decision[m] \in {"applied", "reviewed"}

Init ==
  /\ person = [m \in Mentions |-> "none"]
  /\ into = [m \in Mentions |-> m]
  /\ known = [m \in Mentions |-> {}]
  /\ author = [m \in Mentions |-> "none"]
  /\ link = [m \in Mentions |-> NoOne]
  /\ decision = [m \in Mentions |-> "none"]
  /\ selected = [m \in Mentions |-> NoOne]
  /\ seen = [m \in Mentions |-> {}]
  /\ pc = [a \in Actors |-> "idle"]
  /\ keys = [a \in Actors |-> {}]
  /\ todo = [w \in Workers |-> {}]
  /\ plan = [a \in Actors |-> NoPlan]
  /\ buffer = [w \in Workers |-> {}]
  /\ aborts = 0

------------------------------------------------------------------------------
(* Identity-block locks *)

KeysOfAll(S) == UNION {KeysOf[NameOf[m]] : m \in S}

\* What an actor that waits in the locking stage needs: all of its run's blocks, or
\* those of the name it creates a person of.
Needs(a) == IF a \in Workers THEN KeysOfAll(todo[a]) ELSE KeysOf[NameOf[plan[a].mention]]

\* Changed form of NextKey: in any order.
AnyKey(a) == Needs(a) \ keys[a]

\* advisory_lock_keys: one order for every worker.
NextKey(a) == {k \in Needs(a) \ keys[a] : \A l \in Needs(a) \ keys[a] : k <= l}

Holder(k) == {a \in Actors : k \in keys[a]}

TakeKey(a) ==
  /\ pc[a] = "locking"
  /\ \E k \in NextKey(a) :
       /\ Holder(k) = {}
       /\ keys' = [keys EXCEPT ![a] = @ \cup {k}]
  /\ UNCHANGED <<records, pc, todo, plan, buffer, aborts>>

------------------------------------------------------------------------------
(* A worker resolves an extraction run in one transaction *)

\* runs_pending_resolution: an unlinked mention without a decision.
Begin(w, r) ==
  /\ pc[w] = "idle"
  /\ \E m \in Mentions : RunOf[m] = r /\ decision[m] = "none"
  /\ todo' = [todo EXCEPT ![w] = {m \in Mentions : RunOf[m] = r}]
  /\ pc' = [pc EXCEPT ![w] = "locking"]
  /\ UNCHANGED <<records, keys, plan, buffer, aborts>>

Locked(w) ==
  /\ pc[w] = "locking" /\ Needs(w) \subseteq keys[w]
  /\ pc' = [pc EXCEPT ![w] = "resolving"]
  /\ UNCHANGED <<records, keys, todo, plan, buffer, aborts>>

\* The persons a worker sees, and by which names: it sees its own before they are
\* committed.
Created(w) == {b.mention : b \in {c \in buffer[w] : c.act = "create"}}
KnownTo(w, p) == IF p \in Created(w) THEN {NameOf[p]} ELSE known[p]

\* Changed form of Visible: what was committed when the transaction began.
VisibleBefore(w) == Created(w)

Visible(w) == Active \cup Created(w)

Candidates(w, n) == {p \in Visible(w) : KnownTo(w, p) \cap Alike[n] # {}}

\* Several persons whose own name is the mention's: never told apart by a machine.
Namesakes(m, S) == Cardinality({p \in S : NameOf[p] = NameOf[m]}) > 1

\* PersonResolutionDecisionPolicy.decide: nothing plausible creates a person of a
\* complete name; all else is reviewed, or linked where the evidence is enough.
Decide(w, m) ==
  LET n == NameOf[m]
      C == Candidates(w, n)
  IN IF C = {}
     THEN {IF n \in Complete THEN Create(m, {}) ELSE Review(m, {})}
     ELSE {Review(m, C)} \cup
          {Link(m, p, C) : p \in IF Namesakes(m, C) THEN {} ELSE C}

\* A mention that has a decision already keeps it.
Reuse(w, m) ==
  /\ pc[w] = "resolving" /\ m \in todo[w] /\ decision[m] # "none"
  /\ todo' = [todo EXCEPT ![w] = @ \ {m}]
  /\ UNCHANGED <<records, pc, keys, plan, buffer, aborts>>

PlanMention(w, m) ==
  /\ pc[w] = "resolving" /\ m \in todo[w] /\ decision[m] = "none"
  /\ \E x \in Decide(w, m) : plan' = [plan EXCEPT ![w] = x]
  /\ pc' = [pc EXCEPT ![w] = "planned"]
  /\ UNCHANGED <<records, keys, todo, buffer, aborts>>

\* The flush: from here on the worker holds a key-share lock on the person it links to.
WritePlan(w) ==
  /\ pc[w] = "planned"
  /\ buffer' = [buffer EXCEPT ![w] = @ \cup {plan[w]}]
  /\ todo' = [todo EXCEPT ![w] = @ \ {plan[w].mention}]
  /\ plan' = [plan EXCEPT ![w] = NoPlan]
  /\ pc' = [pc EXCEPT ![w] = "resolving"]
  /\ UNCHANGED <<records, keys, aborts>>

Release(a) ==
  /\ pc' = [pc EXCEPT ![a] = "idle"]
  /\ keys' = [keys EXCEPT ![a] = {}]
  /\ plan' = [plan EXCEPT ![a] = NoPlan]

Status(who, act) ==
  CASE who # "resolver" -> "reviewed"
    [] act = "review" -> "pending"
    [] OTHER -> "applied"

\* A set of plans, at most one of a mention, becomes visible.
Made(S, who) ==
  LET of(m) == CHOOSE b \in S : b.mention = m
      new == {b.mention : b \in {c \in S : c.act = "create"}}
      done == {b.mention : b \in S}
  IN /\ person' = [p \in Mentions |-> IF p \in new THEN "active" ELSE person[p]]
     /\ known' = [p \in Mentions |-> IF p \in new THEN {NameOf[p]} ELSE known[p]]
     /\ author' = [p \in Mentions |-> IF p \in new THEN who ELSE author[p]]
     /\ link' = [m \in Mentions |-> IF m \in done THEN of(m).to ELSE link[m]]
     /\ selected' = [m \in Mentions |-> IF m \in done THEN of(m).to ELSE selected[m]]
     /\ decision' = [m \in Mentions |->
          IF m \in done THEN Status(who, of(m).act) ELSE decision[m]]
     /\ seen' = [m \in Mentions |->
          IF m \in done /\ who = "resolver" THEN of(m).seen ELSE seen[m]]
     /\ UNCHANGED into

Commit(w) ==
  /\ pc[w] = "resolving" /\ todo[w] = {}
  /\ Made(buffer[w], "resolver")
  /\ buffer' = [buffer EXCEPT ![w] = {}]
  /\ Release(w)
  /\ UNCHANGED <<todo, aborts>>

\* The worker fails or dies: everything it wrote is undone and its locks are free.
Abort(w) ==
  /\ pc[w] # "idle" /\ aborts < MaxAborts
  /\ aborts' = aborts + 1
  /\ todo' = [todo EXCEPT ![w] = {}]
  /\ buffer' = [buffer EXCEPT ![w] = {}]
  /\ Release(w)
  /\ UNCHANGED records

------------------------------------------------------------------------------
(* A reviewer applies an action to a pending decision *)

\* The row lock of the decision, from the check to the end of the transaction.
LockedRow(m) == \E v \in Reviewers : pc[v] \in {"locking", "checked"} /\ plan[v].mention = m

\* Changed form of Open: the status is not read again under the lock.
OpenOnce(m) == decision[m] # "none" /\ ~LockedRow(m)

Open(m) == decision[m] = "pending" /\ ~LockedRow(m)

\* _require_active of every person the action names, read without a lock.
Fits(x) == {x.to, x.from} \ {NoOne, x.mention} \subseteq Active

\* keep_separate is a link that also names another active person.
Choices(m) ==
  {Link(m, p, {}) : p \in Persons} \cup {Create(m, {})}
    \cup UNION {{Merge(m, p, q) : q \in Persons \ {p}} : p \in Persons}

Submit(v, x) ==
  /\ Open(x.mention) /\ Fits(x)
  /\ plan' = [plan EXCEPT ![v] = x]
  /\ pc' = [pc EXCEPT ![v] = IF x.act = "create" THEN "locking" ELSE "checked"]
  /\ UNCHANGED <<records, keys, todo, buffer, aborts>>

SubmitWord(v) ==
  /\ v \in People /\ pc[v] = "idle"
  /\ \E m \in Mentions : Open(m) /\ \E x \in Choices(m) : Submit(v, x)

\* The automated review: read in one transaction, asked outside of any, applied in
\* another one that reads the status again.  The model is asked only about the
\* candidates of the decision that are still active, and a new person is made when
\* none of them is the one.
Ask(v, m) ==
  /\ v \in Ai /\ pc[v] = "idle" /\ decision[m] = "pending"
  /\ LET asked == seen[m] \cap Active IN
     /\ asked # {}
     /\ \E x \in {Link(m, p, {}) : p \in IF Namesakes(m, seen[m]) THEN {} ELSE asked}
               \cup {y \in {Create(m, {})} : NameOf[m] \in Complete} :
          plan' = [plan EXCEPT ![v] = x]
  /\ pc' = [pc EXCEPT ![v] = "asked"]
  /\ UNCHANGED <<records, keys, todo, buffer, aborts>>

Answer(v) ==
  /\ pc[v] = "asked"
  /\ Submit(v, plan[v])

\* The decision is reviewed by now, the person is not active any more, or the provider
\* failed: nothing is applied.
Skip(v) ==
  /\ pc[v] = "asked"
  /\ Release(v)
  /\ UNCHANGED <<records, todo, buffer, aborts>>

Who(v) == IF v \in Ai THEN "ai" ELSE "human"

ApplyLink(v) ==
  /\ pc[v] = "checked" /\ plan[v].act = "link"
  /\ Made({plan[v]}, Who(v))
  /\ Release(v)
  /\ UNCHANGED <<todo, buffer, aborts>>

ApplyCreate(v) ==
  /\ v \in Reviewers /\ pc[v] = "locking" /\ Needs(v) \subseteq keys[v]
  /\ Made({plan[v]}, Who(v))
  /\ Release(v)
  /\ UNCHANGED <<todo, buffer, aborts>>

\* Changed form of Pinned: the rows are not locked.
PinnedNever(p) == FALSE

\* Both rows are locked: the merge waits for the workers that write links to them.
Pinned(p) == \E w \in Workers : \E b \in buffer[w] : b.act = "link" /\ b.to = p

\* Changed form of StillActive: the check before the lock was enough.
StillPersons(x) == {x.from, x.to} \subseteq Persons

StillActive(x) == {x.from, x.to} \subseteq Active

Moved(x, m) == IF link[m] = x.from THEN x.to ELSE link[m]

ApplyMerge(v) ==
  LET x == plan[v] IN
  /\ pc[v] = "checked" /\ x.act = "merge"
  /\ ~Pinned(x.from) /\ ~Pinned(x.to)
  /\ StillActive(x)
  /\ person' = [person EXCEPT ![x.from] = "merged"]
  /\ into' = [into EXCEPT ![x.from] = x.to]
  /\ known' = [known EXCEPT ![x.to] = @ \cup known[x.from]]
  /\ link' = [m \in Mentions |-> IF m = x.mention THEN x.to ELSE Moved(x, m)]
  /\ selected' = [selected EXCEPT ![x.mention] = x.to]
  /\ decision' = [decision EXCEPT ![x.mention] = "reviewed"]
  /\ Release(v)
  /\ UNCHANGED <<author, seen, todo, buffer, aborts>>

\* PersonMergeConflictError: the transaction is undone.
MergeConflict(v) ==
  /\ pc[v] = "checked" /\ plan[v].act = "merge"
  /\ ~StillActive(plan[v])
  /\ Release(v)
  /\ UNCHANGED <<records, todo, buffer, aborts>>

------------------------------------------------------------------------------
Resolve(w) ==
  \/ TakeKey(w) \/ Locked(w) \/ WritePlan(w) \/ Commit(w)
  \/ \E m \in Mentions : Reuse(w, m) \/ PlanMention(w, m)

ApplyReview(v) ==
  \/ TakeKey(v) \/ Answer(v) \/ Skip(v) \/ ApplyLink(v) \/ ApplyCreate(v)
  \/ ApplyMerge(v) \/ MergeConflict(v)

Next ==
  \/ \E w \in Workers :
       \/ Resolve(w) \/ Abort(w)
       \/ \E r \in Runs : Begin(w, r)
  \/ \E v \in Reviewers :
       \/ SubmitWord(v) \/ ApplyReview(v)
       \/ \E m \in Mentions : Ask(v, m)

Spec == Init /\ [][Next]_vars

\* Workers go on and are started again; a transaction of a review ends.
FairSpec ==
  /\ Spec
  /\ \A w \in Workers : WF_vars(Resolve(w)) /\ WF_vars(\E r \in Runs : Begin(w, r))
  /\ \A v \in Reviewers : WF_vars(ApplyReview(v))

------------------------------------------------------------------------------
(* Properties *)

\* lock_identity_blocks: "a second worker sees the first one's committed Person", and
\* _create_person: "a worker resolving this name waits and then sees the new person":
\* whatever workers, reviews and merges do meanwhile, resolution creates no person by a
\* name that another active person has.
NoDuplicate ==
  [][\A p \in Mentions :
       author'[p] = "resolver" /\ author[p] = "none"
         => \A q \in Mentions \ {p} :
              person'[q] = "active" => NameOf[p] \notin known'[q]]_vars

\* "Serialize resolution of possibly-same identities across workers": two persons of
\* whom one would have been a candidate for the other's mention are not both created.
NoAlikeDuplicate ==
  \A p, q \in Persons :
    author[p] = "resolver" /\ author[q] = "resolver" /\ NameOf[p] \in Alike[NameOf[q]]
      => p = q

\* merge_persons_in_session: "the loser sees it is no longer active": whoever follows
\* merged_into_id comes to an active person, so that two merges never close a circle:
\* no persons are merged among themselves only.
MergesLeadToActive ==
  /\ TypeOK
  /\ \A S \in SUBSET (Persons \ Active) :
       S # {} => \E p \in S : into[p] \in Persons \ S

\* "Merge source into target": a merge leaves no mention behind, neither one that is linked
\* to the source nor one that a worker has linked to it and not committed.
MergeTakesEveryMention ==
  [][\A p \in Active : person'[p] = "merged"
       => /\ \A m \in Mentions : link'[m] # p
          /\ \A w \in Workers : \A b \in buffer[w] : b.to # p]_vars

\* ai_review_service: "the person was deactivated or merged: ... the decision stays with
\* a human": no mention is linked to a person that was merged away.
LinkedIsActive == \A m \in Mentions : link[m] # NoOne => link[m] \in Active

\* "A human or another worker resolved it while the model was answering": the first
\* outcome of a decision is its only one.
DecidedOnce ==
  [][\A m \in Mentions :
       decision[m] \in {"applied", "reviewed"}
         => decision'[m] = decision[m] /\ selected'[m] = selected[m]]_vars

\* ADR 0020: "Telling namesakes apart ... stay human decisions": the model makes no person
\* whose name another one has that it was not asked about.
AiMakesNoNamesake ==
  [][\A p \in Mentions :
       author'[p] = "ai" /\ author[p] = "none"
         => \A q \in Active : NameOf[p] \in known[q] => q \in seen[p]]_vars

\* Blocks, buffers, row locks and conflicts come to this: the tables change as if every
\* transaction were one step that nothing comes between (IdentityRegister).
Said == [m \in Mentions |->
  IF decision[m] \in {"applied", "reviewed"} THEN "final" ELSE decision[m]]
Register == INSTANCE IdentityRegister WITH
  status <- person, names <- known, word <- Said, of <- link, chosen <- selected
ImplementsRegister == Register!RegisterSpec

\* Every mention gets its decision, although workers fail and wait for each other.
EveryMentionIsDecided == <>(\A m \in Mentions : decision[m] # "none")
==============================================================================
