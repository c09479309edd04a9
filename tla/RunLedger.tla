------------------------------ MODULE RunLedger ------------------------------
(***************************************************************************)
(* What the table of monitoring runs promises, with no worker in sight.    *)
(* A run is opened in a scope that has no running run, is closed once with *)
(* an outcome that never changes again, and the checkpoint of a source     *)
(* only ever names a regular run of that source that completed.            *)
(* MonitoringRuns implements this.                                         *)
(***************************************************************************)
EXTENDS Naturals

CONSTANTS
  RunIds,          \* ids a run may get
  Sources,         \* the sources that have a checkpoint
  Scopes           \* a scope per source, and the scope of the derived runs

VARIABLES
  state,           \* run id -> "none", "running" or an outcome
  scopeOf,         \* run id -> its scope (meaningless while "none")
  regular,         \* run id -> whether the run may move a checkpoint
  marker           \* source -> the run its checkpoint names, 0 for none

ledgerVars == <<state, scopeOf, regular, marker>>

Good == {"completed", "completed_with_errors"}
Outcomes == Good \cup {"failed", "aborted"}

LedgerTypeOK ==
  /\ state \in [RunIds -> {"none", "running"} \cup Outcomes]
  /\ scopeOf \in [RunIds -> Scopes]
  /\ regular \in [RunIds -> BOOLEAN]
  /\ marker \in [Sources -> RunIds \cup {0}]

LedgerInit ==
  /\ state = [r \in RunIds |-> "none"]
  /\ scopeOf \in [RunIds -> Scopes]
  /\ regular \in [RunIds -> BOOLEAN]
  /\ marker = [s \in Sources |-> 0]

\* A run starts in a free scope; only its own entry is written.
Open(r) ==
  /\ state[r] = "none"
  /\ \E sc \in Scopes, b \in BOOLEAN :
       /\ \A q \in RunIds : state[q] = "running" => scopeOf[q] # sc
       /\ scopeOf' = [scopeOf EXCEPT ![r] = sc]
       /\ regular' = [regular EXCEPT ![r] = b]
  /\ state' = [state EXCEPT ![r] = "running"]
  /\ UNCHANGED marker

\* Running runs end together (a sweep of stale runs) or one by one.
Close ==
  /\ \E ended \in (SUBSET RunIds) \ {{}} : \E outcome \in Outcomes :
       /\ \A r \in ended : state[r] = "running"
       /\ state' = [r \in RunIds |-> IF r \in ended THEN outcome ELSE state[r]]
  /\ UNCHANGED <<scopeOf, regular, marker>>

\* The checkpoint moves to a regular run of the source that completed.
Move ==
  /\ \E s \in Sources, r \in RunIds :
       /\ regular[r] /\ scopeOf[r] = s /\ state[r] \in Good
       /\ marker' = [marker EXCEPT ![s] = r]
  /\ UNCHANGED <<state, scopeOf, regular>>

LedgerNext == (\E r \in RunIds : Open(r)) \/ Close \/ Move

LedgerSpec == LedgerInit /\ [][LedgerNext]_ledgerVars
=============================================================================
