-------------------------- MODULE MCProposalCreation --------------------------
(* Small instances of ProposalCreation for TLC: three POSTs that compete for *)
(* one target and a fourth for another one, which moves the store's clock;   *)
(* the three alone; two of them.                                             *)
EXTENDS ProposalCreation

CONSTANTS r1, r2, r3, r4, sf5, ryu

MCTarget == {sf5, ryu}

MCFour == {r1, r2, r3, r4}
MCFourTargets == [r \in MCFour |-> IF r = r4 THEN ryu ELSE sf5]

MCThree == {r1, r2, r3}
MCThreeTargets == [r \in MCThree |-> sf5]

MCTwo == {r1, r2}
MCTwoTargets == [r \in MCTwo |-> sf5]
=============================================================================
