------------------------- MODULE MCPersonResolution -------------------------
(* Instances of PersonResolution for TLC: three or four mentions, names as strings. *)
EXTENDS PersonResolution, TLC

CONSTANTS none, w1, w2, h1, h2, ai1

\* Two namesakes in two runs, and in the first run a name like theirs that shares a
\* block with them.
TwoNames == <<"ivan ivanov", "ivan ivanov", "ivan ivanin">>
ThreeRuns == <<1, 2, 3>>
OneBlock == ("ivan ivanov" :> {1, 2} @@ "ivan ivanin" :> {1, 3})
AllAlike == [n \in {TwoNames[i] : i \in 1..3} |-> {TwoNames[i] : i \in 1..3}]
NoneAlike == [n \in {TwoNames[i] : i \in 1..3} |-> {n}]
AllComplete == {TwoNames[i] : i \in 1..3}
\* Four namesakes in one run, or the fourth in a run of its own.
FourAlike == [i \in 1..4 |-> "ivan ivanov"]
OneRun == [i \in 1..4 |-> 1]
TwoOfTwo == <<1, 1, 1, 2>>
\* The second person is of another name and another block.
OddOneOut == <<"ivan ivanov", "ivan ivanin", "ivan ivanov", "ivan ivanov">>
OneKey == ("ivan ivanov" :> {1, 2})
Itself == ("ivan ivanov" :> {"ivan ivanov"})
Ivan == {"ivan ivanov"}
\* Spelled apart: no token in common.
Apart == ("ivan ivanov" :> {1, 2} @@ "ivan ivanin" :> {3, 4})
==============================================================================
