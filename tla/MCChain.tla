------------------------------ MODULE MCChain ------------------------------
(* Instances of Chain: a block tree with competing forks and a block whose  *)
(* header is valid and whose body is not.                                   *)
EXTENDS Chain, TLC

CONSTANTS g, a1, a2, a3, b1, b2, x2, c3

\*        /- a1 (2) -- a2 (4) -- a3 (7)
\*       /        |         \- c3 (8)
\*  g (0)          \- x2 (6, invalid body)
\*       \- b1 (2) -- b2 (5)
MCParent == a1 :> g @@ a2 :> a1 @@ a3 :> a2 @@ b1 :> g @@ b2 :> b1 @@ x2 :> a1 @@ c3 :> a2
MCWork == g :> 0 @@ a1 :> 2 @@ a2 :> 4 @@ a3 :> 7 @@ b1 :> 2 @@ b2 :> 5 @@ x2 :> 6 @@ c3 :> 8
MCBlock == {g} \cup DOMAIN MCParent

MCPathOf[b \in MCBlock] ==
    IF b = g THEN <<g>> ELSE Append(MCPathOf[MCParent[b]], b)

MCValidBody == MCBlock \ {x2}
MCDeliver == MCBlock \ {g}
MCPath == MCPathOf

\* The same tree without a2, a3, c3 and x2: a reorganisation from a1 to b2.
TwoBlock == {g, a1, b1, b2}
TwoPath == [b \in TwoBlock |-> MCPathOf[b]]
TwoWork == [b \in TwoBlock |-> MCWork[b]]
TwoDeliver == TwoBlock \ {g}

Threads == Permutations(Thread)
=============================================================================
