--------------------------- MODULE MCKnowledgeBase ---------------------------
(* Values of KnowledgeBase's constants for TLC. *)
EXTENDS KnowledgeBase

CONSTANTS u1, u2, q1, orgA, orgB

\* u2 is another organisation's upload.
TwoOrgs == [r \in Requests |-> IF r = u2 THEN orgB ELSE orgA]
==============================================================================
