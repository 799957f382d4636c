---------------------------- MODULE MCSubmission ----------------------------
(***************************************************************************)
(* One survey and a client answering it while its owner publishes,         *)
(* closes and switches the access mode.  The survey starts with two        *)
(* versions that ask and hide different questions, and a draft that is the *)
(* older one again: what an update and a publish that overtake each other  *)
(* leave behind, a state the run Lifecycle reaches.                        *)
(***************************************************************************)
EXTENDS Submission, TLC

CONSTANTS a, b, min, blank, q1, q2

MCRoleOf == [u \in Users |-> "creator"]

\* Nothing tells the clients apart, nor the ids they draw.
Alike == Permutations(Clients) \cup Permutations(ResponseIds)

MCBodies == {a, b, min, blank}

MCMarkCopy == [c \in MCBodies |-> IF c = a THEN b ELSE a]

MCOps == {"publish", "close", "setAccess"}

MCPayloads == {[body |-> a, version |-> 5], [body |-> b, version |-> 5]}

MCAsks == [c \in MCBodies |-> IF c \in {a, b} THEN {q1, q2} ELSE {}]

MCDemands == [c \in MCBodies |-> IF c = b THEN {q2} ELSE {}]

\* In both versions an answer to q1 hides q2, and in b it shows q2 as well.
On(type) == [type |-> type, when |-> q1, target |-> q2]

MCRules ==
  [c \in MCBodies |->
     CASE c = a -> {On("hide")} [] c = b -> {On("hide"), On("show")} [] OTHER -> {}]

\* Both answered, the second well or badly: version a hides the second.
MCAnswers ==
  {(q1 :> "valid" @@ q2 :> "valid"), (q1 :> "valid" @@ q2 :> "invalid")}

Snapshot(n, c) ==
  [survey |-> CHOOSE id \in SurveyIds : TRUE, version |-> n,
   schema |-> [body |-> c, version |-> n]]

MCInit ==
  /\ surveys = [id \in SurveyIds |->
       [NewRow(CHOOSE u \in Users : TRUE, [body |-> a, version |-> 5],
               "login_required", "single")
          EXCEPT !.status = "live", !.published = 2]]
  /\ versions = {Snapshot(1, a), Snapshot(2, b)}
  /\ req = [r \in Slots |-> [pc |-> "idle", reply |-> "none", version |-> 0]]
  /\ responses = {}
  /\ answerRows = {}
  /\ page = [c \in Clients |-> NoPage]
  /\ sub = [c \in Clients |-> NoSub]

MCSpec == MCInit /\ [][SubNext]_allVars
=============================================================================
