------------------------------ MODULE EntityKeys ------------------------------
(***************************************************************************)
(* The keys entities are decided by, and the merges made of the decisions  *)
(* (court-processing, processing/identity: disputes.py, overrides.py).     *)
(*                                                                         *)
(* A key is made of an entity's name and, when a registry card told it,    *)
(* of a region.  Every word of a person is kept by key, the entities are   *)
(* rebuilt from the mentions, so a word meets the entity it was said of    *)
(* only through KeyIndex.  A set of entities is a function from their keys *)
(* to records with the mentions in field "of" and the name in "name"; a    *)
(* name is written as the key made of it.                                  *)
(***************************************************************************)
EXTENDS Integers, FiniteSets

CONSTANTS
  Keys,       \* the keys; smaller numbers come first in the alphabet
  Nobody,     \* no key: a name the model says is no person's
  WordsIn,    \* words of a key's name
  Stem,       \* the name with its surname cut
  Region,     \* the region of a key, or NoRegion
  NoRegion,
  Alike       \* kinds of the disputed pairs: [{k, l} |-> kind]

Pairs == {p \in SUBSET Keys : \E k \in p, l \in p : k # l /\ p = {k, l}}
Kinds == {"patronymic", "similar", "respelled", "name_patronymic", "region"}

ASSUME KeysAssumption ==
  /\ Keys \subseteq Nat /\ Nobody \notin Keys
  /\ WordsIn \in [Keys -> Nat]
  /\ DOMAIN Alike \subseteq Pairs /\ \A p \in DOMAIN Alike : Alike[p] \in Kinds

\* KeyIndex.today: the one key of today's a kept key meant, as a set; empty when
\* there is none or there are several.
Today(kept, today) ==
  LET like == {k \in today : Stem[k] = Stem[kept]}
      own == {k \in like : Region[k] = Region[kept]}
      near == IF own # {} \/ Region[kept] # NoRegion THEN own ELSE like
  IN CASE kept \in today -> {kept}
       [] kept \notin today /\ Cardinality(near) = 1 -> near
       [] OTHER -> {}

\* resolve_keys: the pairs in today's keys, those that still are two.
Resolved(pairs, today) ==
  {q \in Pairs : \E p \in pairs : \E k \in p, l \in p :
     k # l /\ q = Today(k, today) \cup Today(l, today)}

\* _keeps_first, of two (key, mentions): the fuller name, the more mentioned, the key.
KeepsFirst(k, m, l, n) ==
  \/ WordsIn[k] > WordsIn[l]
  \/ WordsIn[k] = WordsIn[l] /\ m > n
  \/ WordsIn[k] = WordsIn[l] /\ m = n /\ k <= l

\* The key that keeps its place among the entities of one person.
KeepsAll(ks, es) ==
  CHOOSE k \in ks : \A l \in ks :
    KeepsFirst(k, Cardinality(es[k].of), l, Cardinality(es[l].of))

\* The keys joined to k by pairs decided "same", directly or through others.
JoinedTo(k, pairs, today) ==
  {l \in today : \A S \in SUBSET today :
     k \in S /\ l \notin S => \E p \in pairs : p \cap S # {} /\ ~(p \subseteq S)}

\* merge_decided: one entity of each such set, under the key that keeps its place.
MergeDecided(es, same) ==
  LET today == DOMAIN es
      pairs == Resolved(same, today)
      joined == [k \in today |-> JoinedTo(k, pairs, today)]
  IN [k \in {k \in today : KeepsAll(joined[k], es) = k} |->
        [es[k] EXCEPT !.of = UNION {es[l].of : l \in joined[k]}]]

\* The corrected names of apply_overrides, of the keys they mean today.  Of two
\* corrections that mean one key the later read wins; pick says which.
Renamed(es, pick) ==
  [k \in DOMAIN es |-> IF k \in DOMAIN pick THEN [es[k] EXCEPT !.name = pick[k]] ELSE es[k]]

\* The order a rebuild keeps its entities in: the most mentioned first, then the key.
ComesFirst(k, ks, es) ==
  \A l \in ks \ {k} :
    \/ Cardinality(es[k].of) > Cardinality(es[l].of)
    \/ Cardinality(es[k].of) = Cardinality(es[l].of) /\ k < l

\* One turn of its loop: an entity whose corrected name is another's key joins the other.
JoinNamed(es, k) ==
  LET name == es[k].name
  IN IF name \notin DOMAIN es \ {k} THEN es
     ELSE [l \in DOMAIN es \ {k} |->
             IF l = name THEN [es[l] EXCEPT !.of = @ \cup es[k].of] ELSE es[l]]

\* The choices among kept words that mean the same key of today's.
Picks(kept, today) ==
  LET meant == [k \in today |-> {kept[l] : l \in {l \in DOMAIN kept : Today(l, today) = {k}}}]
      said == {k \in today : meant[k] # {}}
  IN {pick \in [said -> UNION {meant[k] : k \in said}] : \A k \in said : pick[k] \in meant[k]}

\* role_decisions, politics_decisions: a word under today's own key wins.
ExactPicks(kept, today) ==
  {pick \in Picks(kept, today) : \A k \in DOMAIN pick \cap DOMAIN kept : pick[k] = kept[k]}

\* without_removed.
WithoutRemoved(es, removed) ==
  LET gone == UNION {Today(k, DOMAIN es) : k \in removed}
  IN [k \in DOMAIN es \ gone |-> es[k]]

\* find_pairs: the alike pairs of today's keys that nobody decided.
FindPairs(today, decided) ==
  {p \in DOMAIN Alike : p \subseteq today} \ Resolved(decided, today)

\* merge_clear_pairs: of the pairs whose sides are in no other pair, those with a side
\* on the list, and a name beside the one full name it can be.  A name and a patronymic
\* is a person's to decide, and so is a respelled name.
ClearPairs(today, decided, listed) ==
  LET pairs == {p \in FindPairs(today, decided) : Alike[p] # "name_patronymic"}
  IN {p \in pairs :
        /\ \A q \in pairs \ {p} : q \cap p = {}
        /\ Alike[p] # "respelled"
        /\ p \cap listed # {} \/ Alike[p] = "patronymic"}
===============================================================================
