------------------------------- MODULE MCStudio -------------------------------
(***************************************************************************)
(* Two surveys, an owner, an admin and a respondent, two requests at a     *)
(* time: who may do what, and what a copy is.                              *)
(***************************************************************************)
EXTENDS SurveyProperties, TLC

CONSTANTS owner, admin, resp, min, blank, copied

MCRoleOf ==
  [u \in Users |-> CASE u = owner -> "creator" [] u = admin -> "admin" [] u = resp -> "respondent"]

\* Nothing tells one survey id from another, nor one slot from the other.
Alike == Permutations(SurveyIds) \cup Permutations(Slots)

MCBodies == {min, blank, copied}

\* Two ids leave room for one copy, so no copy is ever copied again.
MCMarkCopy == [c \in MCBodies |-> IF c = copied THEN min ELSE copied]

MCOps == {"create", "copy", "update", "publish", "setAccess"}

MCPayloads == {[body |-> "null", version |-> 0]}
=============================================================================
