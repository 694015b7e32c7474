------------------------------ MODULE MCNameSets ------------------------------
(* A small instance of NameSets for TLC: a game, a character of it and a move *)
(* of that, the first version of each, and a second of some of them.          *)
EXTENDS NameSets, TLC

CONSTANTS sf5, ryu, hadoken, g1, g2, c1, c2, m1

MCDoc == {sf5, ryu, hadoken}
MCParentOf == sf5 :> Nothing @@ ryu :> sf5 @@ hadoken :> ryu
MCDocOf == g1 :> sf5 @@ g2 :> sf5 @@ c1 :> ryu @@ c2 :> ryu @@ m1 :> hadoken

\* The versions that are published.
MCGameAgain == {g1, g2, c1, m1}
MCGameAgainDocOf == [r \in MCGameAgain |-> MCDocOf[r]]
MCCharAgain == {g1, c1, c2, m1}
MCCharAgainDocOf == [r \in MCCharAgain |-> MCDocOf[r]]
=============================================================================
