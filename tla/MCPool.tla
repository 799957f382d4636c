------------------------------- MODULE MCPool -------------------------------
(***************************************************************************)
(* Two studio requests and a submission on two connections: two publishes  *)
(* that wait for each other leave none for anybody else.  The survey is a  *)
(* draft nobody has published.                                             *)
(***************************************************************************)
EXTENDS ConnectionPool, SurveyProperties

CONSTANTS min, blank, q1

MCRoleOf == [u \in Users |-> "creator"]

MCBodies == {min, blank}

MCMarkCopy == [c \in MCBodies |-> IF c = min THEN blank ELSE min]

MCOps == {"publish", "update", "setAccess"}

MCPayloads == {[body |-> "null", version |-> 0]}

MCAsks == [c \in MCBodies |-> {q1}]

MCNone == [c \in MCBodies |-> {}]

MCAnswers == {[q \in {q1} |-> "valid"]}

MCInit ==
  /\ surveys = [id \in SurveyIds |->
       NewRow(CHOOSE u \in Users : TRUE, [body |-> min, version |-> 1],
              "login_required", "single")]
  /\ versions = {}
  /\ req = [r \in Slots |-> [pc |-> "idle", reply |-> "none", version |-> 0]]
  /\ responses = {} /\ answerRows = {}
  /\ page = [c \in Clients |-> NoPage]
  /\ sub = [c \in Clients |-> NoSub]
  /\ held = {}

MCSpec == MCInit /\ [][PoolNext]_poolVars /\ PoolFairness
=============================================================================
