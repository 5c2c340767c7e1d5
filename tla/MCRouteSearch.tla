--------------------------- MODULE MCRouteSearch ---------------------------
(***************************************************************************)
(* Five people: enough for a cheap detour that arrives too late to go on.  *)
(* Every pair of Pairs has no edge, a strong or a weak tie, or edges that  *)
(* may not be walked; in the middle sits someone who may be an             *)
(* organization, and somebody else's contact.                              *)
(***************************************************************************)
EXTENDS RouteSearch

CONSTANTS a, y, z, x, b

Tie(conf, cost) == [type |-> "coworker", status |-> "candidate", cooccurs |-> TRUE,
                    keyword |-> TRUE, confidence |-> conf, cost |-> cost]
Strong == Tie(9, 1)
Weak == Tie(4, 6)
Rejected == [Strong EXCEPT !.status = "rejected", !.confidence = 10]
CoPresence == [Weak EXCEPT !.type = "unknown", !.cooccurs = FALSE, !.keyword = FALSE,
                           !.confidence = 1]
Contact == [Strong EXCEPT !.type = "linkedin_1st", !.confidence = 10]

MCPerson == {a, y, z, x, b}
MCPairs == {{a, y}, {a, z}, {y, z}, {z, x}, {x, b}, {z, b}}
MCRowSets == {{}, {Strong}, {Weak, Rejected}, {Contact, CoPresence}}
MCName == [p \in MCPerson |-> p]
MCOrgNames == {{}, {z}}
MCOwner == [p \in MCPerson |-> IF p = y THEN "caller" ELSE IF p = z THEN "other" ELSE "none"]
MCFamous == {y}

MCTies == {{}, {Strong}, {Weak}}
MCNoOrg == {{}}
MCStar == {{a, y}, {a, z}, {y, z}, {z, b}}
MCDirect == {{a, b}}
=============================================================================
