------------------------------ MODULE MCOfferPath ------------------------------
(* OfferPath for TLC: one student, a Focal Person, two slots.               *)
EXTENDS OfferPath, TLC

CONSTANTS c1, c2, student, focal

MCCase == {c1, c2}
MCOwnerOf == [c \in MCCase |-> student]
MCUser == {student, focal}
MCRolesOf == student :> {"STUDENT"} @@ focal :> {"FOCAL"}
MCLabel == {"idle", "commit", "committed", "open:create", "open:confirm", "offer:store",
            "offer:details", "offer:submit", "offer:queue", "approve:decide", "approve:start"}
MCMaxHistory == c1 :> 4 @@ c2 :> 1
MCPlans == {[inBounds |-> TRUE, relevant |-> TRUE], [inBounds |-> FALSE, relevant |-> TRUE]}
================================================================================
