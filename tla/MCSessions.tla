----------------------------- MODULE MCSessions -----------------------------
(***************************************************************************)
(* A creator and a respondent, two sessions and two requests at a time.    *)
(***************************************************************************)
EXTENDS Sessions

CONSTANTS u1, u2

MCRoleOf == [u \in Users |-> IF u = u1 THEN "creator" ELSE "respondent"]

MCActions == {"survey:read", ""}
=============================================================================
