---------------------------- MODULE MCEntityGroups ----------------------------
(* Instances of EntityGroups for TLC: 1 is «игорь ранав», 2 «игорь александрович
   ранав», 3 «игорь ранава», a declined form of 1 until a model names it. *)
EXTENDS EntityGroups, TLC

MCWordsIn == 1 :> 2 @@ 2 :> 3 @@ 3 :> 2
MCStem == 1 :> "a" @@ 2 :> "b" @@ 3 :> "a"
MCRegion == [k \in 1..3 |-> "-"]
MCAlike == {1, 2} :> "patronymic" @@ {2, 3} :> "patronymic"
MCRuleKey == 1 :> 1 @@ 2 :> 2 @@ 3 :> 3
MCModelKey == 1 :> 1 @@ 2 :> 2 @@ 3 :> 1
===============================================================================
