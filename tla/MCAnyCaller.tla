------------------------------ MODULE MCAnyCaller ------------------------------
(* AnyCaller for TLC: two cases of one student; a student, a HoD, a Dean and *)
(* an account that is both Focal Person and HoD.                            *)
EXTENDS AnyCaller, TLC

CONSTANTS c1, c2, r1, r2, student, hod, dean, both

MCCase == {c1, c2}
MCOwnerOf == [c \in MCCase |-> student]
MCUser == {student, hod, dean, both}
MCRolesOf == student :> {"STUDENT"} @@ hod :> {"HOD"} @@ dean :> {"DEAN"}
             @@ both :> {"FOCAL", "HOD"}

\* One guard of the two an approval needs, or everything.
MCContexts == {{"durationWithinBounds"}, GuardName}

Symmetry == Permutations({r1, r2}) \cup Permutations(MCCase)
MCMaxHistory == [c \in MCCase |-> 3]
================================================================================
