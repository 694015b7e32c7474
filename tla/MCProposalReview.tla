--------------------------- MODULE MCProposalReview ---------------------------
(* Small instances of ProposalReview for TLC.  ann is an admin, bob a user   *)
(* who has changed names, ike the author of an import.  p1, p2 and p3 are    *)
(* proposals for the game sf5, p4 for its character ryu.                     *)
EXTENDS ProposalReview, TLC

CONSTANTS r1, r2, r3, p1, p2, p3, p4, sf5, ryu, ann, bob, ike, old, new

MCTarget == {sf5, ryu}
MCParentOf == ryu :> sf5 @@ sf5 :> Nothing
MCPerson == {ann, bob, ike}
MCUser == {ann, bob}
MCAdmin == {ann}
MCName == {old, new}
By(person, name) == [id |-> person, name |-> name]

\* Who may ask what: all of it, with two PATCHes, a game and its character.
MCTwo == {r1, r2}
MCFamily == {p1, p4}
MCFamilyTargets == p1 :> sf5 @@ p4 :> ryu
MCFamilyAuthors == p1 :> By(bob, old) @@ p4 :> By(ann, new)
MCAnything == [user : MCUser, proposal : MCFamily,
               status : {"approved", "rejected", "cancelled"}]

\* Three PATCHes of the admin on three proposals for one document.
MCThree == {r1, r2, r3}
MCRivals == {p1, p2, p3}
MCRivalTargets == p1 :> sf5 @@ p2 :> sf5 @@ p3 :> sf5
MCRivalAuthors == p1 :> By(bob, old) @@ p2 :> By(ike, new) @@ p3 :> By(bob, new)
MCApprovals == [user : {ann}, proposal : MCRivals, status : {"approved"}]

MCSymmetry == Permutations({r1, r2, r3})
=============================================================================
