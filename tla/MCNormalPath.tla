----------------------------- MODULE MCNormalPath -----------------------------
(* NormalPath for TLC: one case of one student, one request at a time, a     *)
(* Focal Person, a HoD and a Dean.                                          *)
EXTENDS NormalPath, TLC

CONSTANTS c1, student, focal, hod, dean

MCOwnerOf == [c \in {c1} |-> student]
MCUser == {student, focal, hod, dean}
MCRolesOf == student :> {"STUDENT"} @@ focal :> {"FOCAL"} @@ hod :> {"HOD"}
             @@ dean :> {"DEAN"}
MCLabel == {"idle", "commit", "committed", "open:create", "open:confirm", "offer:store",
            "offer:details", "offer:submit", "offer:queue", "approve:decide", "approve:start",
            "complete:decide", "cert:scan", "cert:store", "token:revoke", "token:create",
            "eval:store", "advance:facts", "advance:move", "verify:create", "mark:read",
            "mark:decide", "recommend:decide", "award:decide", "award:grade"}
MCPlans == {[inBounds |-> TRUE, relevant |-> TRUE], [inBounds |-> FALSE, relevant |-> TRUE]}
MCMaxHistory == [c \in {c1} |-> 13]
================================================================================
