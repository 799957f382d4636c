----------------------------- MODULE MCLifecycle -----------------------------
(***************************************************************************)
(* One survey and two requests at a time, all of them its owner's: every   *)
(* interleaving of the statements of create, update, publish, close,       *)
(* reopen and the display switch.                                          *)
(***************************************************************************)
EXTENDS SurveyProperties

CONSTANTS a, b, min, blank

MCRoleOf == [u \in Users |-> "creator"]

MCBodies == {a, b, min, blank}

\* Only the bodies change in this instance: nothing is copied.
MCMarkCopy == [c \in MCBodies |-> IF c = a THEN b ELSE a]

MCOps == {"create", "update", "publish", "close", "reopen", "read", "setDisplay"}

\* Two different documents whose version field is what the front end leaves
\* in it, and the JSON null.
MCPayloads ==
  {[body |-> a, version |-> 1], [body |-> b, version |-> 1],
   [body |-> "null", version |-> 0], [body |-> "malformed", version |-> 0]}
=============================================================================
