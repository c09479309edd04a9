--------------------------- MODULE IdentityRegister ---------------------------
(***************************************************************************)
(* What the tables of persons promise, with no worker, no lock and no      *)
(* reviewer in sight.  A mention is decided once, and from then on it is   *)
(* of the person the decision chose, or of the one that person was merged  *)
(* into since.  Resolution decides any number of mentions at once and adds *)
(* only persons by names nobody active has; a review decides one mention   *)
(* that resolution left pending; a merge gives one active person all that  *)
(* another one had.  PersonResolution implements this.                     *)
(***************************************************************************)

CONSTANTS
  Mentions,    \* ids of the person mentions
  NoOne,       \* no person
  NameOf       \* the name of a mention

VARIABLES
  status,      \* status of the person created for a mention
  into,        \* whom it was merged into; itself while it is not merged
  names,       \* names it has
  word,        \* what was said of a mention: "none", "pending" or "final"
  of,          \* the person it is of
  chosen       \* the person its decision chose

registerVars == <<status, into, names, word, of, chosen>>

Names == {NameOf[m] : m \in Mentions}
Registered == {p \in Mentions : status[p] # "none"}
InUse == {p \in Mentions : status[p] = "active"}

RegisterTypeOK ==
  /\ status \in [Mentions -> {"none", "active", "merged"}]
  /\ into \in [Mentions -> Mentions]
  /\ names \in [Mentions -> SUBSET Names]
  /\ word \in [Mentions -> {"none", "pending", "final"}]
  /\ of \in [Mentions -> Registered \cup {NoOne}]
  /\ chosen \in [Mentions -> Registered \cup {NoOne}]

RegisterInit ==
  /\ status = [m \in Mentions |-> "none"]
  /\ into = [m \in Mentions |-> m]
  /\ names = [m \in Mentions |-> {}]
  /\ word = [m \in Mentions |-> "none"]
  /\ of = [m \in Mentions |-> NoOne]
  /\ chosen = [m \in Mentions |-> NoOne]

\* The persons of the mentions S are added, each by the mention's own name.
Enter(S) ==
  /\ status' = [p \in Mentions |-> IF p \in S THEN "active" ELSE status[p]]
  /\ names' = [p \in Mentions |-> IF p \in S THEN {NameOf[p]} ELSE names[p]]
  /\ UNCHANGED into

\* Mentions nobody decided become final or pending; every new person is of the mention
\* it is entered for, and alone with its name.
Resolve ==
  \E done \in SUBSET {m \in Mentions : word[m] = "none"} : \E new \in SUBSET done :
    /\ Enter(new)
    /\ \A p \in new : \A q \in Mentions \ {p} : status'[q] = "active" => NameOf[p] \notin names'[q]
    /\ of' \in [Mentions -> Registered' \cup {NoOne}]
    /\ \A m \in new : of'[m] = m
    /\ \A m \in Mentions \ done : of'[m] = of[m]
    /\ chosen' = [m \in Mentions |-> IF m \in done THEN of'[m] ELSE chosen[m]]
    /\ word' = [m \in Mentions |->
         IF m \in done THEN IF of'[m] = NoOne THEN "pending" ELSE "final" ELSE word[m]]

\* A pending mention is of the person p.
Settle(m, p) ==
  /\ word[m] = "pending"
  /\ word' = [word EXCEPT ![m] = "final"]
  /\ chosen' = [chosen EXCEPT ![m] = p]

\* A reviewer names a person there is, or has one entered, namesake or not.
Review(m) ==
  /\ \/ /\ \E p \in Registered : Settle(m, p) /\ of' = [of EXCEPT ![m] = p]
        /\ Enter({})
     \/ /\ Settle(m, m) /\ of' = [of EXCEPT ![m] = m]
        /\ m \notin Registered /\ Enter({m})

\* Two active persons are one: the mention is of the second, and so is all the first had.
Unite(m, p, q) ==
  /\ p # q /\ {p, q} \subseteq InUse
  /\ Settle(m, q)
  /\ status' = [status EXCEPT ![p] = "merged"]
  /\ into' = [into EXCEPT ![p] = q]
  /\ names' = [names EXCEPT ![q] = @ \cup names[p]]
  /\ of' = [n \in Mentions |-> IF n = m \/ of[n] = p THEN q ELSE of[n]]

RegisterNext ==
  \/ Resolve
  \/ \E m \in Mentions : Review(m) \/ \E p, q \in Mentions : Unite(m, p, q)

RegisterSpec == RegisterInit /\ [][RegisterNext]_registerVars
==============================================================================
